SPECIFICATION FairSpec
CONSTANTS
    Registers <- MCRegisters
    AddressSpace = 8
    MaxLoaded = 3
    Garbles = {0, 3}
    Calls <- MCCalls
    MaxCalls = 2
    NoCall = NoCall
    CustomCode = 65
    MaxReadBits = 2
    MaxReadWords = 4
    MaxWriteBits = 8
    MaxWriteWords = 2
    MaxReadWriteWords = 1
    MaxData = 13
    MemorySize = 8
    RegularSlaves = {2}
INVARIANTS
    GroupsPartition
    GroupsContiguous
    ReadsDevice
    WriteIsConfirmed
    ResultsAreWhole
    EncodersAgree
    DecodedIsMeant
PROPERTIES
    FramesAreFaithful
    ReadsEnd
CHECK_DEADLOCK FALSE
