SPECIFICATION ProgramSpec
CONSTANTS
    Keys = {"k1", "k2", "k3", "k4"}
    Hash <- MCHash
    Initial = 2
    Threshold = 2
    MaxMade = 5
    UMax = 40
    First = 2
    InitSizes = {0, 8}
    Chars = {"a", "nl", "nul"}
    Nul = "nul"
    Newline = "nl"
    Strings <- BufferStrings
    Text <- BufferText
    MaxLen = 4
    File1 = File1
    File2 = File2
INVARIANTS FilesIntact ChunksExact PassesGated ArenaSound ContainersExact
PROPERTIES FilesReplaced ArenaGivesBack ImplementsDictionary LoopsEnd
CHECK_DEADLOCK FALSE
