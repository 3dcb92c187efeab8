SPECIFICATION Spec
CONSTANTS
    Size = 2
    Sources <- Trees
    Garbage <- Failing
INVARIANT OperatorsKept
CHECK_DEADLOCK FALSE
