\* Loops with an iteration; each function is generated and run once.
CONSTANTS
    Bodies <- MCLoops
    NoBlock = NoBlock
    NoStatement = NoStatement
    NoWord = NoWord
    Unresolved = Unresolved
    Unbound = Unbound
    MaxGenerations = 1
SPECIFICATION Spec
INVARIANT
    IncrementsFollowIterations
CHECK_DEADLOCK FALSE
