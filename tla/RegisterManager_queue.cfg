SPECIFICATION FairSpec
CONSTANTS
    Callers = {c1, c2}
    Consumers = {k1}
    NoOne = NoOne
    NilGroup = NilGroup
    QueueSize = 2
    MaxLoads = 1
    MaxReads = 2
    MaxGroups = 1
    GroupSize = 2
INVARIANTS
    NoChannelPanic
    OlderOnlyBehindInvalid
PROPERTIES
    CallbackSeesStableData
    DeliversInOrder
    StopReturns
    ConsumersReturn
    QueuedIsDelivered
