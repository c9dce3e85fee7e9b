SPECIFICATION Spec
CONSTANTS
    NULL = NULL
    Numbers <- LowNumbers
    Stored <- LowNumbers
    Received = {}
    Junk = {0}
    MaxScale = 2
INVARIANT
    AdjustedExponentInRange
