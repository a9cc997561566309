\* The parts share model values, so that one group of permutations serves all.
SPECIFICATION PartsSpec
CONSTANTS
    Parts = {"registry", "ports", "pool"}
    Control = {x1, x2, x3}
    RunID = {z1, z2}
    Name = {y1, y2}
    Port = {p1}
    MaxPorts = 1
    Asked = {p1, NoPort}
    None = None
    NoPort = NoPort
    Counted = Counted
    Absent = Absent
    Proxy = {x1, x2, x3}
    PxyName = {y1, y2}
    AllowPort = {z1, z2}
    RemotePorts = {z1, z2, AnyPort}
    AnyPort = AnyPort
    MaxTry = 1
    NetTypes = {"tcp", "udp"}
    Other = Other
    Nobody = Nobody
    User = {y1, y2}
    Work = {x1, x2, x3}
    PoolCount = 1
    Spare = 1
    SendCap = 1
    NoWork = NoWork
SYMMETRY Symmetry
CHECK_DEADLOCK FALSE
INVARIANTS
    RegistryExact
    ListenersExact
    QuotaExact
    NoPortLost
    OneOwner
    SupplyMeetsDemand
    NoneForgotten
PROPERTY
    ImplementsHandout
