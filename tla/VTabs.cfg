SPECIFICATION Spec
CONSTANTS
    DECNUMDIGITS = 39
    DEC_MAX_EMAX = 999999999
    NULL = NULL
    ContextRows <- MCContextRows
    FlagNames <- MCFlagNames
    Conditions <- MCConditions
    TablesPerTxn = 2
    MaxSavepoints = 2
INVARIANTS
    TypeOK
    ContextsStayValid
    SnapshotsMatchTransaction
PROPERTIES
    AutocommitFailureRestores
    AtomicSpec
