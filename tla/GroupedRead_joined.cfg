SPECIFICATION FairSpec
CONSTANTS
    Managers = {m1}
    Slaves = {s1, s2}
    N = 2
    K = 2
    Modes = {TRUE, FALSE}
    MaxPolls = 2
INVARIANTS
    TypeOK
    OwnSlaveDataUndisturbed
    OutcomeReported
    QuietAfterReturn
PROPERTIES
    ReadReturns
CHECK_DEADLOCK FALSE
