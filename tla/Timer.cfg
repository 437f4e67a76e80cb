CONSTANTS
    Modulus = 8
    Periods = {1, 3, 5}
SPECIFICATION Spec
INVARIANTS
    TypeOK
    ElapsedIsExact
    FinishedUnlessWrapBetween
