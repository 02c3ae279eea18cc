\* Functions that assign a variable again; each is generated and run once.
CONSTANTS
    Bodies <- MCAssignments
    NoBlock = NoBlock
    NoStatement = NoStatement
    NoWord = NoWord
    Unresolved = Unresolved
    Unbound = Unbound
    MaxGenerations = 1
SPECIFICATION Spec
INVARIANT
    EvaluatedPlaceholdersAreCurrent
CHECK_DEADLOCK FALSE
