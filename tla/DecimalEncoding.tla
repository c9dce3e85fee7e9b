-------------------------- MODULE DecimalEncoding --------------------------
(***************************************************************************)
(* A decimal that is stored as a blob and read again.  A value alternates  *)
(* between a decNumber and its bytes: every SQL function decodes its       *)
(* arguments and encodes its result (decode and decNumberToSQLite3Blob in  *)
(* impl_decinfinite.c).  Numbers also come from arithmetic, and blobs from *)
(* elsewhere: any blob of a table may be passed to the functions.          *)
(***************************************************************************)
EXTENDS DecInfinite

CONSTANTS
    Numbers,    \* the decNumbers to start from
    Stored,     \* those that may be stored in a row, and compared with one
    Received,   \* byte strings that were not written by the encoder
    Junk,       \* what may lie in memory beyond the units of a number
    MaxScale,   \* bound on the arithmetic steps
    NULL

ASSUME EncodingAssumption == Junk # {} /\ MaxScale \in Nat /\ NULL \notin Numbers
                             /\ Stored \subseteq Numbers

VARIABLES
    phase,    \* "idle", "number", "blob", or "error": Conversion syntax was raised
    num,      \* the decNumber, or NULL
    blob,     \* the bytes, or NULL
    origin,   \* the number that was encoded first, if it has its digits, or NULL
    source,   \* the bytes that were received, or NULL
    row,      \* a stored row: the number encoded first and its bytes, or NULL
    scale     \* arithmetic steps so far

vars == <<phase, num, blob, origin, source, row, scale>>

Units == 0 .. 999
Bytes == 0 .. 255

\* A number within the limits of decNumber: no more units than its digits need,
\* at most DECNUMDIGITS digits, and if it is finite an adjusted exponent in range.
WithinLimits(x) ==
    /\ \A i \in DOMAIN x.lsu : x.lsu[i] \in Units
    /\ x.digits \in 1 .. DECNUMDIGITS /\ Len(x.lsu) = D2U(x.digits)
    /\ x.kind = "finite" => AdjustedExponent(x) \in -MaxAdjusted .. MaxAdjusted

UnitDigits(u) == CASE u < 10 -> 1 [] u \in 10 .. 99 -> 2 [] u > 99 -> 3

\* A finite number has the digits it claims: the most significant unit is not
\* zero, unless the number is, and fills up the count.
HasItsDigits(x) ==
    LET n == Len(x.lsu)
    IN  (x.kind = "finite" /\ ~finiteDecNumberIsZero(x)) =>
            x.lsu[n] # 0 /\ x.digits = 3 * (n - 1) + UnitDigits(x.lsu[n])

\* Every number is within the limits; those that the extension computed or
\* wrote itself also have the digits they claim, as decShiftToMost expects (its
\* assertions in decInfinite.c 817 and 845).  The decoder does not make sure of
\* that for bytes of another origin.
TypeOK ==
    /\ phase \in {"idle", "number", "blob", "error"}
    /\ phase = "number" => WithinLimits(num) /\ (source = NULL => HasItsDigits(num))
    /\ phase = "blob" => \A i \in DOMAIN blob : blob[i] \in Bytes
    /\ scale \in 0 .. MaxScale

Init ==
    /\ phase = "idle" /\ num = NULL
    /\ blob = NULL /\ origin = NULL /\ source = NULL /\ row = NULL
    /\ scale = 0

\* decNumberToSQLite3Blob: the number is modified by its encoding.
Encode ==
    /\ phase = "number"
    /\ \E junk \in Junk :
          LET r == decInfiniteFromNumber(num, junk)
          IN  blob' = r.bytes /\ num' = r.left
    /\ phase' = "blob"
    /\ origin' = IF origin = NULL /\ HasItsDigits(num) THEN num ELSE origin
    /\ UNCHANGED <<source, row, scale>>

\* decNumberFromSQLite3Blob.
Decode ==
    LET r == decInfiniteToNumber(blob)
    IN  /\ phase = "blob" /\ row = NULL
        /\ \/ r.ok /\ phase' = "number" /\ num' = r.number
           \/ ~r.ok /\ phase' = "error" /\ num' = NULL
        /\ UNCHANGED <<blob, origin, source, row, scale>>

\* A function has computed a number, or been given a blob of another origin.
Compute ==
    /\ phase = "idle" /\ phase' = "number" /\ num' \in Numbers
    /\ UNCHANGED <<blob, origin, source, row, scale>>

Receive ==
    /\ phase = "idle" /\ phase' = "blob"
    /\ \E b \in Received : blob' = b /\ source' = b
    /\ UNCHANGED <<num, origin, row, scale>>

\* A conversion error ends the statement.
NextStatement ==
    /\ phase = "error" /\ phase' = "idle" /\ scale' = 0
    /\ num' = NULL /\ blob' = NULL /\ origin' = NULL /\ source' = NULL
    /\ UNCHANGED row

\* The encoding is stored in a row, and one of the numbers of Stored is encoded
\* to be compared with it.
Store ==
    /\ phase = "blob" /\ origin \in Stored /\ source = NULL /\ row = NULL
    /\ row' = [number |-> origin, bytes |-> blob]
    /\ phase' = "number" /\ num' \in Stored
    /\ blob' = NULL /\ origin' = NULL
    /\ UNCHANGED <<source, scale>>

\* After the comparison the row is read.
Fetch ==
    /\ phase = "blob" /\ row # NULL
    /\ blob' = row.bytes /\ origin' = row.number /\ num' = NULL
    /\ row' = NULL
    /\ UNCHANGED <<phase, source, scale>>

(***************************************************************************)
(* Arithmetic: decMul and decDiv by ten, exact while the exponent is not   *)
(* below Etiny and the adjusted exponent not above emax.  Only numbers the *)
(* extension made are computed with: the coefficient stays as it is.       *)
(***************************************************************************)
Etiny == -MaxAdjusted - (DECNUMDIGITS - 1)

Scale(k) ==
    /\ phase = "number" /\ source = NULL /\ row = NULL
    /\ num.kind = "finite" /\ ~finiteDecNumberIsZero(num)
    /\ scale < MaxScale /\ scale' = scale + 1
    /\ num' = [num EXCEPT !.exponent = @ + k]
    /\ num'.exponent >= Etiny /\ AdjustedExponent(num') <= MaxAdjusted
    /\ blob' = NULL /\ origin' = NULL
    /\ UNCHANGED <<phase, source, row>>

Next ==
    \/ Compute \/ Receive \/ Encode \/ Decode \/ Store \/ Fetch \/ NextStatement
    \/ \E k \in {-1, 1} : Scale(k)

Spec == Init /\ [][Next]_vars
-----------------------------------------------------------------------------
(***************************************************************************)
(* Reference: the order of decimals, from their digits.                    *)
(***************************************************************************)

\* The k-th digit from the left; zeros follow the last one.
Digit(x, k) ==
    LET fromRight == x.digits - k
    IN  IF k > x.digits THEN 0
        ELSE (x.lsu[(fromRight \div 3) + 1] \div Pow10[(fromRight % 3) + 1]) % 10

Smaller(x, y) ==
    \/ AdjustedExponent(x) < AdjustedExponent(y)
    \/ /\ AdjustedExponent(x) = AdjustedExponent(y)
       /\ \E k \in 1 .. DECNUMDIGITS :
             Digit(x, k) < Digit(y, k) /\ \A j \in 1 .. k - 1 : Digit(x, j) = Digit(y, j)

\* -NaN, -Inf, negative decimals, -0, +0, positive decimals, +Inf, +NaN.
Class(x) ==
    LET side == CASE x.kind = "NaN" -> 4 [] x.kind = "infinity" -> 3
                  [] x.kind = "finite" -> IF finiteDecNumberIsZero(x) THEN 1 ELSE 2
    IN  IF x.neg THEN -side ELSE side

Below(x, y) ==
    \/ Class(x) < Class(y)
    \/ Class(x) = 2 /\ Class(y) = 2 /\ Smaller(x, y)
    \/ Class(x) = -2 /\ Class(y) = -2 /\ Smaller(y, x)

\* memcmp, and the shorter string first: how SQLite compares blobs.
Precedes(a, b) ==
    \E k \in 0 .. Len(b) - 1 :
        /\ k <= Len(a) /\ \A i \in 1 .. k : a[i] = b[i]
        /\ k = Len(a) \/ a[k + 1] < b[k + 1]

-----------------------------------------------------------------------------
(***************************************************************************)
(* Properties                                                              *)
(***************************************************************************)

\* "for any two decimals m and n, m < n if and only if enc(m) lexicographically
\* precedes enc(n)" (decInfinite.c), whatever precision and exponent the two
\* are written with: so equal decimals have equal encodings.
OrderPreserved ==
    (phase = "blob" /\ origin # NULL /\ row # NULL) =>
        /\ Below(origin, row.number) <=> Precedes(blob, row.bytes)
        /\ Below(row.number, origin) <=> Precedes(row.bytes, blob)

\* What decInfiniteFromNumber writes, decInfiniteToNumber reads, and gets the
\* same decimal; encoding that again gives the same bytes.  This includes
\* numbers decoded from bytes of another origin, if they have their digits.
RoundTrip ==
    origin # NULL =>
        /\ phase # "error"
        /\ phase = "number" => ~Below(num, origin) /\ ~Below(origin, num)
        /\ phase = "blob" => blob = decInfiniteFromNumber(origin, 0).bytes

\* An encoding fits the buffer of DECINF_MAXSIZE bytes that
\* decNumberToSQLite3Blob allocates, if the number has its digits.
FitsBuffer == (phase = "blob" /\ origin # NULL) => Len(blob) <= DECINF_MAXSIZE

\* The integer that a group of bits stands for.
Value(bits) ==
    LET after[k \in 0 .. Len(bits)] == IF k = 0 THEN 0 ELSE 2 * after[k - 1] + bits[k]
    IN  after[Len(bits)]

\* The characters of the text decBits returns, with the one that ends it.
TextLength(groups) == Len(FlattenSeq(groups)) + Len(groups)

\* decBits separates the parts of an encoding where the decoder does: all bits
\* are shown once, and if decInfiniteToNumber accepts the bytes, the groups
\* after the exponent are its declets, with less than a declet left over, and
\* less than a byte if the encoder wrote them.  Whatever the bytes, the text
\* fits the buffer decimalBits allocates.
BitsShowTheDecoding ==
    (phase = "blob" /\ row = NULL /\ Len(blob) <= DECINF_MAXSIZE) =>
        \A groups \in {decInfiniteToBits(blob)} :
            /\ FlattenSeq(groups) = Group(blob, 0, 8 * Len(blob))
            /\ TextLength(groups) <= 9 * DECINF_MAXSIZE + 1
            /\ (Len(blob) > 1 /\ decInfiniteToNumber(blob).ok) =>
                  \A exponent \in {decInfiniteUnpackExponent(blob)} :
                     LET n == BitsLeft(blob, exponent) \div 10
                     IN  /\ Len(groups) \in {3 + n, 4 + n}
                         /\ [k \in 1 .. n |-> Value(groups[3 + k])] = unpackDeclets(blob, exponent, n)
                         /\ Len(groups) = 4 + n =>
                                Len(groups[4 + n]) < (IF source = NULL THEN 8 ELSE 10)

\* "As per decNumber's requirements": assert(adj_exp >= -999999999) in
\* decInfiniteFromNumber.
AdjustedExponentInRange ==
    (phase = "number" /\ num.kind = "finite" /\ ~finiteDecNumberIsZero(num))
        => AdjustedExponent(num) >= -MaxAdjusted
=============================================================================
