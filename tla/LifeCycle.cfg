CONSTANTS
    aFunc <- MCaFunc
    Stmts = {s1, s2}
    MaxLoads = 2
    MaxVTables = 2
    NULL = NULL
SPECIFICATION Spec
SYMMETRY StmtSymmetry
INVARIANTS
    TypeOK
    ReferencesCounted
    CopiesMatchTransaction
    NoDanglingContext
    TablesShareContext
    CloseReleasesEverything
CHECK_DEADLOCK FALSE
