SPECIFICATION ClientFairSpec
CONSTANTS
    Calls <- IdentificationCalls
    MaxCalls = 2
    NoCall = NoCall
    CustomCode = 65
    MaxReadBits = 2
    MaxReadWords = 2
    MaxWriteBits = 8
    MaxWriteWords = 2
    MaxReadWriteWords = 1
    MaxData = 13
    MemorySize = 4
    RegularSlaves = {2}
CHECK_DEADLOCK FALSE
PROPERTIES
    IdentificationReturns
