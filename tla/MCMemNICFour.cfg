SPECIFICATION Spec
CONSTANTS
    n1 = n1
    n2 = n2
    n3 = n3
    Nics = {n1, n2, n3}
    Routes <- MCRoutes
    Nets = {"REQ", "DATA"}
    LinkSpace = 1
    MaxSend = 3
INVARIANTS TypeOK NicClockRunning NoStuckPacket
PROPERTIES ChannelSpec AllDelivered
