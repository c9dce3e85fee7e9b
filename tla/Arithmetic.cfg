SPECIFICATION Spec
CONSTANTS
    Settings <- MCSettings
    Arguments <- MCArguments
    MaxCalls = 1
    NULL = NULL
CHECK_DEADLOCK FALSE
INVARIANTS
    TypeOK
    CorrectlyRounded
    IdealExponent
    ResultFits
    DivisionIdentity
    QuantizeRounds
    RoundsToIntegral
    CompareIsExact
    ExtremaAreSymmetric
    NextIsAdjacent
    ScalingKeepsDirection
    RotateIsCyclic
