\* One program of three functions, with a limit small enough that every check
\* fires from several depths.
SPECIFICATION FairSpec
CONSTANTS
    Proc    <- MCProc
    Env     <- MCEnv
    Step    <- MCStep
    Returns <- MCReturns
    Entry   = "main"
    Env0    <- MCEnv0
    NumChecks = 3
    CheckAt <- MCCheckAt
    MaxBranchRecursion = 4
    Rank    <- MCRank
    MaxRank <- MCMaxRank
INVARIANTS TypeOK StackBounded SearchOnTarget CounterIsDepth
PROPERTIES Transparent Resumes
CHECK_DEADLOCK FALSE
