SPECIFICATION Spec
CONSTANTS
    Shape <- MCShape
    LocalPorts = 2
    Algs = {"torus", "mesh", "DOR", "valiant", "DOAL", "MIN-A", "VDAL"}
    VNs = {0, 1}
INVARIANTS VCInRange DeliveredRight ShortPath
PROPERTY ChannelOrder
