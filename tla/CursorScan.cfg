SPECIFICATION Spec
CONSTANTS
    DECNUMDIGITS = 39
    DEC_MAX_EMAX = 999999999
    NULL = NULL
    ScanFlags <- MCScanFlags
    MaxScans = 2
INVARIANTS
    TypeOK
    RaisingSkipsNothing
    ClearingRepeatsNothing
    NullOnlyIfCleared
PROPERTY
    EveryScanEnds
