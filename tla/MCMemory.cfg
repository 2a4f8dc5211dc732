SPECIFICATION Spec
CONSTANTS
    ByteBits = 2
    PartBits = 7
    PtrBits = 6
    DoubleBits = 10
    MemorySize = 56
    Programs <- MCPrograms
    Deviations = {}
INVARIANTS PointerRight SameContents SameValues
