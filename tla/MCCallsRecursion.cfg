CONSTANTS
    Programs <- RecursiveByAddress
    Entry = "main"
    Orders <- Forward
    Val <- V
    Pointer <- MCPointer
    FirstAddress = 20
    MaxCalls = 4
SPECIFICATION Spec
INVARIANT ReadsAgree
CHECK_DEADLOCK FALSE
