SPECIFICATION UdpSpec
CONSTANTS
    WorkConn = {w1, w2}
    LimitedAt = "none"
    NoConn = NoConn
CHECK_DEADLOCK FALSE
INVARIANT NoSendOnClosed
