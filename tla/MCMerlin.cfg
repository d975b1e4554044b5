SPECIFICATION Spec
CONSTANTS
    Shape <- MCShape
    LocalPorts = 1
    Alg = "DOR"
    NumVNs = 2
    Flits <- MCFlits
    Routes <- MCRoutes
    NicIn = 2
    NicOut = 2
    RouterIn = 2
    RouterOut = 2
    MaxSend <- MCMaxSend
INVARIANTS CreditsConserved OneTimer  RouterAwake NoDeadlock
PROPERTIES ChannelSpec
