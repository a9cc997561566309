SPECIFICATION Spec
CONSTANTS
    Cap = 3
    MaxReloads = 1
    None = None
CHECK_DEADLOCK FALSE
INVARIANTS
    RunningIsRegistered
