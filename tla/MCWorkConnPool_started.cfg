SPECIFICATION PoolSpec
CONSTANTS
    User = {u1, u2}
    Work = {k1, k2, k3}
    PoolCount = 1
    Spare = 1
    SendCap = 1
    NoWork = NoWork
CHECK_DEADLOCK FALSE
SYMMETRY Symmetry
INVARIANTS
    JoinedToStarted
