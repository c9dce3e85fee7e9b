CONSTANTS
    aFunc <- MCaFunc
    Stmts = {s1, s2}
    MaxLoads = 2
    MaxVTables = 2
    NULL = NULL
SPECIFICATION Spec
SYMMETRY StmtSymmetry
INVARIANT ContextIsShared
CHECK_DEADLOCK FALSE
