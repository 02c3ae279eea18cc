CONSTANTS
    Document = {1, 2, 3}
    BaseName <- MCBaseName
    Texts <- MCTexts
    CommandLines <- MCCommandLines
    NoPackage = NoPackage
    Killed = Killed
    MaxRuns = 2
    MaxEdits = 1
SPECIFICATION Spec
CHECK_DEADLOCK FALSE
INVARIANTS
    TypeOK
    ExitCodeTellsErrors
    SuccessIsComplete
PROPERTY
    WritesOnlyIfAllPass
