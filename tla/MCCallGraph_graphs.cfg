\* Two queries, with an edit before, between or after them.
CONSTANTS
    Programs <- MCPrograms
    Menu <- MCMenu
    Values <- MCValues
    NoDefault = NoDefault
    NoAnswer = NoAnswer
    NoGraph = NoGraph
    Contexts <- MCContexts
    MaxQueries = 2
SPECIFICATION GraphSpec
INVARIANTS
    GraphTypeOK
    GraphsIgnoreHistory
    RecursionIsACycle
    UnreportedCallsReturn
CHECK_DEADLOCK FALSE
