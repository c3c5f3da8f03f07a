SPECIFICATION Spec
CONSTANTS
    Slaves = {1, 2}
    Functions = {1, 6, 65}
    Undetermined = {65}
    Sizes = {6, 8}
    MinSize = 4
    ExceptionSize = 5
    MaxRequests = 2
    MaxFrames = 2
INVARIANTS
    ConnectOpens
CHECK_DEADLOCK FALSE
