SPECIFICATION Spec
CONSTANTS
    Arr = {a1}
    Dict = {d1}
    Str = {s1}
    StepSize = 1
    PromoteAge = 2
    MajorEvery = 2
    YoungThreshold = 0
    MajorThreshold = 2
    GrowthFactor = 1
    GrowsWhileMarking = TRUE
INVARIANT
    NoLiveObjectFreed
CHECK_DEADLOCK FALSE
