SPECIFICATION FairSpec
CONSTANTS
    m = m
    s = s
    t = t
    x = x
    File <- MCFile
    Main = m
    Programs <- MCPrograms
    Dotted = {FALSE, TRUE}
    MaxImported = 8
    MaxFuncs = 2
    MaxNesting = 5
INVARIANTS OnlyProgramTwice ImportersKnow
PROPERTY ImportsEnd
CHECK_DEADLOCK FALSE
