SPECIFICATION Spec
CONSTANTS
    Images <- MCImages
    MaxStack = 14
    MaxCallDepth = 4
    MaxTryDepth = 2
    Allowed = {}
    Levels = {0, 1, 2}
INVARIANTS
    SlotsMatchStack
    HandlersMatchScopes
PROPERTY
    ImplementsControlSpec
CHECK_DEADLOCK FALSE
