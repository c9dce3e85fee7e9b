SPECIFICATION Spec
CONSTANTS
    NULL = NULL
    Numbers <- AllNumbers
    Stored <- MCNumbers
    Received <- MCReceived
    Junk = {0, 1, 1023}
    MaxScale = 1
INVARIANTS
    TypeOK
    OrderPreserved
    RoundTrip
    FitsBuffer
    BitsShowTheDecoding
