SPECIFICATION Spec
CONSTANTS
    Settings <- FewSettings
    Arguments <- FewArguments
    MaxCalls = 2
    NULL = NULL
CHECK_DEADLOCK FALSE
INVARIANT ToIntegralNeverFails
