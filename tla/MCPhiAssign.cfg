SPECIFICATION FairSpec
CONSTANTS
    Local = {p1, p2, p3, p4, x}
    Phi   = {p1, p2, p3, p4}
    Temp  = {t1, t2, t3, t4}
    Val      <- MCVal
    Env0     <- MCEnv0
    ConstVal <- MCConstVal
    Constant = Constant
    Undef    = Undef
    None     = None
INVARIANTS TypeOK ParallelCopy CycleIsKnown
PROPERTY Terminates
CHECK_DEADLOCK FALSE
