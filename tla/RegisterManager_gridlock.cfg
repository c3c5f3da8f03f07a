SPECIFICATION FairSpec
CONSTANTS
    Callers = {c1, c2}
    Consumers = {k1}
    NoOne = NoOne
    NilGroup = NilGroup
    QueueSize = 2
    MaxLoads = 1
    MaxReads = 2
    MaxGroups = 2
    GroupSize = 1
PROPERTIES
    StopReturns
CHECK_DEADLOCK FALSE
