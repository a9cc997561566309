SPECIFICATION PortSpec
CONSTANTS
    Proxy = {x1, x2, x3}
    PxyName = {n1, n2}
    AllowPort = {p1, p2}
    RemotePorts = {p1, p2}
    AnyPort = AnyPort
    MaxTry = 1
    NetTypes = {"udp"}
    Other = Other
    Nobody = Nobody
SYMMETRY Symmetry
CHECK_DEADLOCK FALSE
PROPERTIES
    ReservedWhileUsed
