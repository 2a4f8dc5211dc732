SPECIFICATION Spec
CONSTANTS
    Programs <- Dynamic
    Entry = "main"
    MemorySize = 14
    MaxFrames = 4
PROPERTY SpRestored
CHECK_DEADLOCK FALSE
