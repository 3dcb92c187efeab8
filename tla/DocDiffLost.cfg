SPECIFICATION Spec
CONSTANTS
    Inputs <- DirectiveInputs
INVARIANT NothingLost
CHECK_DEADLOCK FALSE
