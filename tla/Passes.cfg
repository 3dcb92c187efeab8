SPECIFICATION PassesSpec
CONSTANTS
    Files <- MCFiles
    Functions <- AllFunctions
    Blocks <- AllBlocks
    Prototypes <- AllPrototypes
    Expressions <- AllExpressions
    Semicolons <- AllSemicolons
    Includes <- AllIncludes
    Headers <- AllHeaders
INVARIANTS StatementsKept DeclarationsKept ForwardsKept PrototypesKept
    ExpressionsKept SemicolonsKept IncludesKept GuardsAround
PROPERTY FormattedOnce
CHECK_DEADLOCK FALSE
