SPECIFICATION RunSpec
CONSTANTS
    MAX_PARAMS = 2
    MAX_CALL_DEPTH = 12
    MaxChars = 4
    MaxCut = 5
    MaxWords = 2
    Texts <- MCTexts
    Trees <- MCTrees
    Programs <- MCAllPrograms
    Laws <- MCLaws
    OptLevels = {0, 2}
    Stride = 60
INVARIANTS TokensAreLongest DepthsAgree TreesComeBack AcceptedIsKept EvaluationAgrees LawsHold JsonComesBack
CHECK_DEADLOCK FALSE
