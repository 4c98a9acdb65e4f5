SPECIFICATION Spec
CONSTANTS
    File = {f, g}
    Entry = {"repl", "file"}
    Careful = TRUE
    kHistoryMax = 2
    MaxLines = 4
    MaxObjects = 4
INVARIANTS
    RootsAreAlive
    SourceAlive
    FreedOnce
    LineLeavesNothing
    HistoryKept
CHECK_DEADLOCK FALSE
