SPECIFICATION ServiceFairSpec
CONSTANTS
    Session = {c1, c2}
    Reload = {r1}
    NoSession = NoSession
CHECK_DEADLOCK FALSE
PROPERTY KeepsReconnecting
