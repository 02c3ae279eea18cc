CONSTANTS
    MaxParameters = 3
    MaxArguments = 4
    Positional = Positional
    Undefined = Undefined
    Default = Default
    Unchecked = Unchecked
SPECIFICATION Spec
CHECK_DEADLOCK FALSE
INVARIANTS
    AcceptedCallsBind
    MappingsAgree
    AcceptsWellFormed
