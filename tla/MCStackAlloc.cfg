SPECIFICATION Spec
CONSTANTS
    Programs <- Fixed
    Entry = "main"
    MemorySize = 14
    MaxFrames = 4
INVARIANTS TypeOK LiveDisjoint
PROPERTY SpRestored
CHECK_DEADLOCK FALSE
