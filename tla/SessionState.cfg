SPECIFICATION Spec
CONSTANTS
    File = {f}
    Entry = {"repl"}
    Careful = TRUE
    kHistoryMax = 1
    MaxLines = 2
    MaxObjects = 3
INVARIANTS
    StatePersists
CHECK_DEADLOCK FALSE
