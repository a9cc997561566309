SPECIFICATION PartsSpec
CONSTANTS
    Cap = 3
    MaxReloads = 2
    None = None
    Member = {m1, m2, m3}
    Group = {g1, g2}
    GroupName = {n1}
    GPort = {p1, p2}
    Asked = {p1, Zero}
    Zero = Zero
    Elsewhere = Elsewhere
    Key = {k1}
    User = {u1}
    NoGroup = NoGroup
    Plain = {x1}
    Grouped = {y1, y2, y3}
    HGroup = {h1, h2, h3}
    HName = {hn1}
    Route = {t1, t2}
    NoRoute = NoRoute
    Visit = {v1, v2}
    Xtcp = {xt1, xt2}
    XName = {xn1}
    NoXtcp = NoXtcp
    Addresses <- Seen
    MaxTries = 3
    MaxReports = 1
    WorkConn = {w1, w2}
    LimitedAt = "none"
    NoConn = NoConn
    Label <- Labels
    Domain <- Domains
    Location <- Locations
    HttpUser = {"", "jack"}
    AnyUser = ""
    Host <- Hosts
    Path <- Paths
    MaxRoutes = 3
CHECK_DEADLOCK FALSE
INVARIANTS
    FrpsTypesOK
    ClosedIsGone
    RunningUnlessRefused
    PortsOfGroups
    OpenIsListed
    PlainRoutesExact
    MembersReachable
    ListeningIsFound
    RolesFit
    OneWorkConn
    MostSpecific
    TriesSpread
PROPERTIES
    HandshakeRecovers
    HeldMovesOn
    SessionsEnd
    WorkConnsEnd
