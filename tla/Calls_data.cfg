CONSTANTS
    MaxParameters = 2
    MaxArguments = 2
    Positional = Positional
    Undefined = Undefined
    Default = Default
    Unchecked = Unchecked
SPECIFICATION Spec
CHECK_DEADLOCK FALSE
INVARIANT
    ArgumentsByPosition
