SPECIFICATION FairSpec
CONSTANTS
    Wrapper = {w1, w2}
    Initial = {w1, w2}
    Cap = 1
    MaxChecks = 2
    None = None
CHECK_DEADLOCK FALSE
PROPERTIES
    ControlExits
