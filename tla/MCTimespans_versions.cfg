\* Functions and constants with up to three timespans.
CONSTANTS
    LastDay = 3
    NoDate = NoDate
    Unbound = Unbound
    Untyped = Untyped
    Programs <- MCPrograms
SPECIFICATION Spec
INVARIANTS
    TypeOK
    OneVersionPerDate
    ReadingsAgree
    VersionInForce
    TypesPredictPast
