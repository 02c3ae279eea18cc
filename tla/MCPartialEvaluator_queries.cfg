\* Two queries, with an edit before, between or after them.
CONSTANTS
    Programs <- MCPrograms
    Menu <- MCMenu
    Values <- MCValues
    NoDefault = NoDefault
    NoAnswer = NoAnswer
    MaxQueries = 2
SPECIFICATION Spec
INVARIANTS
    TypeOK
    AnswersIgnoreHistory
    AnswersAreFinal
