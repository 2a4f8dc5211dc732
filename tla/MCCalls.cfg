CONSTANTS
    Programs <- Sound
    Entry = "main"
    Orders <- BothWays
    Val <- V
    Pointer <- MCPointer
    FirstAddress = 20
    MaxCalls = 4
SPECIFICATION Spec
INVARIANTS TypeOK SamePosition ReadsAgree NothingLeftSaved InvWhereCovered
CHECK_DEADLOCK FALSE
