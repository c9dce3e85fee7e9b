------------------------- MODULE MCDecimalEncoding -------------------------
(***************************************************************************)
(* Instances of DecimalEncoding.  The coefficients and exponents are those *)
(* at which the encoder changes its ways: units with one, two and three    *)
(* digits, zero and full units, the longest coefficient, and exponents at  *)
(* the ends of the tables and of the lengths of the Gamma code.            *)
(***************************************************************************)
EXTENDS DecimalEncoding

\* The number with this coefficient and this adjusted exponent.
Number(neg, lsu, adjusted) ==
    LET digits == 3 * (Len(lsu) - 1) + UnitDigits(lsu[Len(lsu)])
    IN  DecNumber(neg, adjusted - digits + 1, digits, lsu)

Long(first, other, last) ==
    [i \in 1 .. 13 |-> CASE i = 1 -> first [] i \in 2 .. 12 -> other [] i = 13 -> last]

FewCoefficients == {<<1>>, Long(999, 999, 999)}

Coefficients ==
    { <<u>> : u \in {1, 9, 10, 99, 100, 190, 899, 900, 999} }
    \cup { <<u, v>> : u \in {0, 1, 90, 999}, v \in {1, 10, 100, 999} }
    \cup { Long(u, v, 100) : u \in {1, 999}, v \in {0, 999} }

Exponents == {1, 2, 5, 6, 13, 14, 61, 62, 125, 126, 253, 254, 65533, 65534,
              536870909, 536870910, 999999998}

Specials == { Special(k, neg) : k \in {"NaN", "infinity"}, neg \in BOOLEAN }
            \cup { decNumberZero(neg) : neg \in BOOLEAN }

MCNumbers ==
    Specials
    \cup { Number(neg, c, e * sign) : neg \in BOOLEAN, c \in FewCoefficients,
                                      e \in Exponents, sign \in {1, -1} }
    \cup { Number(neg, c, 0) : neg \in BOOLEAN, c \in Coefficients }

\* Every exponent of the tables, and units that decShiftToMost splits by either
\* digit.
SplitUnits == { 100 * a + 10 * b + c : a \in {0, 1, 9}, b \in {0, 4, 9}, c \in {0, 5, 9} }

AllNumbers ==
    MCNumbers
    \cup { Number(neg, <<1>>, e) : neg \in BOOLEAN, e \in -130 .. 130 }
    \cup { Number(FALSE, <<u, v>>, 0) : u \in SplitUnits, v \in {1, 10} }

\* One byte, two bytes, and longer: an exponent of 30 bits, one just too large
\* of either sign, one cut off; a mantissa cut off; a unit above 999; a zero
\* unit at either end; a trailing byte; prefixes up to and beyond 256 bits.
MCReceived ==
    { <<b>> : b \in {0, 1, 127, 128, 224, 255} }
    \cup { <<b, c>> : b \in Bytes, c \in {0, 50, 100, 255} }
    \cup { <<159, 255, 255, 255, 128, 0, 0, 0, 25, 0>>,
           <<159, 255, 255, 255, 110, 107, 40, 8, 100>>,
           <<63, 255, 255, 255, 110, 107, 40, 8, 100>>,
           <<159, 255, 255, 255, 124>>,
           <<144, 100, 0>>, <<144, 100, 0, 0>>, <<144, 100, 0, 16>>, <<144, 0, 0, 16>>,
           <<144, 255, 0, 16>>, <<47, 228, 0, 64>>, <<47, 4, 0, 64>> }
    \cup { <<159>> \o [i \in 1 .. n |-> 255] \o <<0, 100>> : n \in {1, 4, 31, 32} }
    \cup { <<144>> \o [i \in 1 .. n |-> 25] : n \in {16, 17, 18} }

LowNumbers == {Number(FALSE, <<1>>, -999999998)}
=============================================================================
