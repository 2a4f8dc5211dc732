\* Up to three nodes are covered exactly, four greedily.
SPECIFICATION Spec
CONSTANTS
    Graphs <- MCGraphs
    ExactLimit = 3
INVARIANTS BreaksEveryCycle ChecksOnlyLoops ExactIsMinimum RepeatingIsExact
PROPERTY Terminates
CHECK_DEADLOCK FALSE
