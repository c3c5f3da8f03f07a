SPECIFICATION FairSpec
CONSTANTS
    Managers = {m1}
    NoOne = NoOne
    BufferSize = 1
    GroupSize = 2
    MaxGroups = 1
    MaxLoads = 1
    MaxStarts = 2
    MaxPolls = 2
INVARIANTS
    QuietAfterStop
    NeverOlderThanPushed
    DeliveredInOrder
PROPERTIES
    StopReturns
    ConsumersEnd
    StreamsDeliver
CHECK_DEADLOCK FALSE
