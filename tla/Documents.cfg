SPECIFICATION DocumentsSpec
CONSTANTS
    Docs <- AllDocs
    ColumnLimit = 8
    UseTab = TRUE
    TabWidth = 4
    DiffInputs <- AllInputs
    RulerSources <- AllSources
    Configurations <- AllConfigurations
    StyleDumps <- AllDumps
INVARIANTS Foreseen LinesSound DiffWhole DiffLocal RulerAligned OptionsApply
CHECK_DEADLOCK FALSE
