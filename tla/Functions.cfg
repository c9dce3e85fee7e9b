SPECIFICATION Spec
CONSTANTS
    NULL = NULL
    DECNUMDIGITS = 39
    DEC_MAX_EMAX = 999999999
    MaxHalves = 6
    MaxExact = 4
    IntWidth = 3
    CountWidth = 2
    Calls <- MCCalls
    Aggregations <- MCAggregations
    RowValues <- MCRowValues
    MaxCalls = 2
    FlagNames <- MCFlagNames
INVARIANTS
    TypeOK
    PendingIsExplained
    TrappedConditionEndsQuery
    NaNsAreIgnored
    SumAndAverage
