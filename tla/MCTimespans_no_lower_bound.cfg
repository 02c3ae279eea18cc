\* A timespan without a start.
CONSTANTS
    LastDay = 3
    NoDate = NoDate
    Unbound = Unbound
    Untyped = Untyped
    Programs <- MCPrograms
SPECIFICATION Spec
INVARIANTS
    ValidWithoutLowerBound
