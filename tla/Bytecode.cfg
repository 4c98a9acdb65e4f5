SPECIFICATION Spec
CONSTANTS
    Function <- MCFunction
    Programs <- MCPrograms
    Rename <- MCRename
    MaxRegistry = 7
    MaxWrites = 3
INVARIANTS
    CodeKeepsMeaning
    BackReferencesLinked
PROPERTIES
    TornFilesRefused
    ExportsOffered
