\* Each function is generated and run once or twice.
CONSTANTS
    Bodies <- MCBodies
    NoBlock = NoBlock
    NoStatement = NoStatement
    NoWord = NoWord
    Unresolved = Unresolved
    Unbound = Unbound
    MaxGenerations = 2
SPECIFICATION Spec
INVARIANTS
    TypeOK
    ReadsAreBound
    ReadsFollowLinks
    GroupedFunctionsAggregate
CHECK_DEADLOCK FALSE
