SPECIFICATION Spec
CONSTANTS
    Managers = {m1}
    Slaves = {s1, s2}
    N = 2
    K = 1
    Modes = {TRUE}
    MaxPolls = 1
INVARIANTS
    OwnSlaveData
CHECK_DEADLOCK FALSE
