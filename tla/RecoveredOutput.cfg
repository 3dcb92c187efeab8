CONSTANTS
    MaxLen = 8
    PrefixKinds <- Directives
SPECIFICATION LoopSpec
INVARIANT RecoveredOutput
