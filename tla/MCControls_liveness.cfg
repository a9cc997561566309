SPECIFICATION PartsFairSpec
CONSTANTS
    Parts = {"registry", "pool"}
    Control = {c1, c2, c3}
    RunID = {r1}
    Name = {n1}
    Port = {p1}
    MaxPorts = 0
    Asked = {p1, Counted}
    None = None
    NoPort = NoPort
    Counted = Counted
    Absent = Absent
    Proxy = {x1, x2, x3}
    PxyName = {y1, y2}
    AllowPort = {z1, z2}
    RemotePorts = {z1, z2, AnyPort}
    AnyPort = AnyPort
    MaxTry = 1
    NetTypes = {"tcp", "udp"}
    Other = Other
    Nobody = Nobody
    User = {u1, u2}
    Work = {k1, k2}
    PoolCount = 1
    Spare = 1
    SendCap = 1
    NoWork = NoWork
CHECK_DEADLOCK FALSE
PROPERTIES
    EntryStays
    ImplementsLease
    ConnLossFreesAll
    LoginStarts
    UsersAnswered
