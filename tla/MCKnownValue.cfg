SPECIFICATION FairSpec
CONSTANTS
    Sources <- MCSources
    Envs <- MCEnvs
INVARIANTS TypeOK SameValue Folded
PROPERTY Terminates
CHECK_DEADLOCK FALSE
