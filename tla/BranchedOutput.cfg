CONSTANTS
    MaxLen = 9
    PrefixKinds <- Directives
SPECIFICATION LoopSpec
INVARIANT BranchedOutput
