SPECIFICATION Spec
CONSTANTS
    PartBits = 5
    DoubleBits = 8
    LookupBits = 2
    Widths <- MCWidths
    Operands <- MCOperands
    Doubles <- MCDoubles
    Deviations = {}
CHECK_DEADLOCK FALSE
INVARIANTS TypeOK SameNumber ExactProducts
