SPECIFICATION Spec
CONSTANTS
    Shape <- MCShape
    LocalPorts = 1
    Alg = "torus"
    NumVNs = 2
    Flits <- MCFlits
    Routes <- TorusRoutes
    NicIn = 2
    NicOut = 2
    RouterIn = 2
    RouterOut = 2
    MaxSend <- TorusMaxSend
INVARIANT EndpointBuffers
