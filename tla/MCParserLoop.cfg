CONSTANTS
    MaxLen = 8
    PrefixKinds <- AllPrefixes
SPECIFICATION LoopSpec
INVARIANTS LinksHold OutputComplete
    UnmuteAhead CursorInList PeekForward Freed
PROPERTIES RewindsConsumeBranches Terminates
