SPECIFICATION FairSpec
CONSTANTS
    Arr = {a1}
    Dict = {d1}
    Str = {s1}
    StepSize = 1
    PromoteAge = 1
    MajorEvery = 2
    YoungThreshold = 0
    MajorThreshold = 2
    GrowthFactor = 1
    GrowsWhileMarking = FALSE
INVARIANTS
    TypeOK
    NoLiveObjectFreed
    MarkStartsClean
    TriColor
PROPERTIES
    OldDiesInMajorOnly
    SweepIsExact
    MarkCompletes
    ImplementsHeapSpec
CHECK_DEADLOCK FALSE
