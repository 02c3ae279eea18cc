\* One query, with validation before or after it.
CONSTANTS
    Programs <- MCPrograms
    Menu <- MCMenu
    NoNode = NoNode
    NoAnswer = NoAnswer
    NotValidated = NotValidated
    MaxQueries = 1
    TextOf <- TypeToString
SPECIFICATION Spec
INVARIANTS
    TypeOK
    TypesIgnoreHistory
    ValuesFitTypes
    HintsKeepMeaning
CHECK_DEADLOCK FALSE
