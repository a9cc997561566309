SPECIFICATION PartsSpec
CONSTANTS
    Wrapper = {w1, w2, w3}
    Initial = {w1, w2}
    Cap = 2
    MaxChecks = 2
    None = None
    Session = {c1, c2, c3}
    Reload = {r1, r2}
    NoSession = NoSession
    Tunnel = {t1, t2}
    Frpc = {f1, f2}
    MaxEdits = 1
    MaxKills = 1
    NoFrpc = NoFrpc
    Manager = {m1, m2}
    NoManager = NoManager
    Stranger = Stranger
    Visitor = {v1}
    Conf = {1, 2}
    NoConf = NoConf
    MaxVReloads = 2
CHECK_DEADLOCK FALSE
INVARIANTS
    FrpcTypesOK
    StoppedOnce
    OneSession
    ReloadsKept
    OneChild
    RunsTheFile
PROPERTIES
    DispatcherExits
    ExitsUnlessStuck
    Reconnects
    DaemonFollowsTable
    VisitorsRun
