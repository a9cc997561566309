SPECIFICATION UdpSpec
CONSTANTS
    WorkConn = {w1, w2}
    LimitedAt = "server"
    NoConn = NoConn
CHECK_DEADLOCK FALSE
INVARIANT OneWorkConn
