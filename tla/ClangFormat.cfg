CONSTANTS
    MaxLen = 7
    PrefixKinds <- BranchKinds
    Marks = {"off", "on"}
SPECIFICATION RegionSpec
INVARIANT RegionsKept
CHECK_DEADLOCK FALSE
