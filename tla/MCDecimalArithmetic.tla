------------------------ MODULE MCDecimalArithmetic ------------------------
EXTENDS DecimalArithmetic

Modes == {"ROUND_CEILING", "ROUND_UP", "ROUND_HALF_UP", "ROUND_HALF_EVEN",
          "ROUND_HALF_DOWN", "ROUND_DOWN", "ROUND_FLOOR", "ROUND_05UP"}

Context(digits, emax, emin, round) ==
    [digits |-> digits, emax |-> emax, emin |-> emin, round |-> round]

\* Every mode with a small range; one mode with more digits, with the largest
\* range, with fewer exponents above 0 than digits, and with exponents of more
\* digits than the largest number of the range.
MCSettings ==
    { Context(3, 3, -2, m) : m \in Modes }
        \cup {Context(6, 9, -9, "ROUND_HALF_UP"),
              Context(3, DECNUMMAXE, DEC_MIN_EMIN, "ROUND_HALF_UP"),
              Context(3, 1, -2, "ROUND_HALF_UP"), Context(12, 1, -999, "ROUND_HALF_UP")}

Finites(C, E) == { Number(neg, c, e) : neg \in BOOLEAN, c \in C, e \in E }
Positive(S) == { x \in S : ~x.neg }
Specials == {Infinite(FALSE), Infinite(TRUE), QuietNaN(FALSE), SignallingNaN(TRUE)}
Five == Number(TRUE, 5, 0)

\* Short and long coefficients, around the carries and the halves, with
\* exponents from below the smallest one; none above 9999, so that the exact
\* results stay within the integers of TLC.
Operands ==
    Finites({0, 1, 5}, {-5, -4, -2, 0, 3})
        \cup Finites({10, 95}, {-5, -2, 2})
        \cup Finites({500, 999, 1005, 2500}, {-5, -4, -1, 0})
        \cup Finites({9995}, {-3, -1, 0})

\* With a fraction, at and beyond the largest exponent.
Fractions == Finites({99999, 99994, 123456, 999999}, {-1})

\* At both ends of the largest range.
Ends == Finites({1, 10, 100, 999}, {DEC_MIN_EMIN, DEC_MIN_EMIN + 1, 0, DECNUMMAXE - 2})

\* The factors of FMA.
Factors == Finites({1, 5, 95, 99}, {-2, 0})

Pairs(S, T) == { <<x, y>> : x \in S, y \in T }

Texts == { NumberText(neg, c, f, e) : neg \in BOOLEAN, c \in {0, 5, 999, 9995, 10005},
                                      f \in {0, 2}, e \in {-6, -4, 0, 2, 4} }

\* Operands of the logical functions, some of them not valid.
Bits == { <<Number(FALSE, c, 0)>> : c \in {0, 1, 10, 101, 111, 1101, 12} }

\* Exponents whose sum is more than an int holds.
Extremes == Pairs(Finites({1, 999}, {DEC_MIN_EMIN, 0, DECNUMMAXE - 2}),
                  Finites({1, 5, DECNUMMAXE, 2 * DECNUMMAXE - 1}, {0}))

MCArguments(fun, set) ==
    LET small == set.emax = 3
        long == set.digits = 6
        full == set.emax = DECNUMMAXE
        narrow == set.emax = 1 /\ set.digits = 3
        wide == set.digits = 12
        unary == {"Abs", "LogB", "Minus", "NextDown", "NextUp", "Plus", "Reduce", "ToIntegral",
                  "ToInt32", "IsNormal", "IsSubnormal"}
        binary == {"Add", "Subtract", "Multiply", "Divide", "Remainder", "Quantize"}
        \* The mode does not matter, or only to numbers longer than the precision.
        choosing == {"DivideInteger", "Compare", "SameQuantum", "Max", "MaxMag", "Min", "MinMag"}
        logical == {"And", "Or", "Xor"}
    IN  CASE fun = "Create" -> IF small THEN { <<t>> : t \in Texts } ELSE {}
          [] fun \in unary ->
                { <<x>> : x \in
                    (IF small \/ narrow THEN Operands \cup Specials ELSE {})
                    \cup (IF small /\ fun = "ToIntegral" THEN Fractions ELSE {})
                    \cup (IF full /\ fun \in {"NextDown", "NextUp"} THEN Ends ELSE {})
                    \cup (IF wide /\ fun = "LogB" THEN Finites({1, 999}, {-999, -9, 0, 1})
                                               ELSE {}) }
          [] fun \in binary \cup choosing ->
                IF small /\ (fun \in binary \/ set.round \in {"ROUND_HALF_UP", "ROUND_FLOOR"})
                THEN Pairs(Operands, Operands) \cup Pairs(Specials, Specials)
                        \cup Pairs(Specials, {Five}) \cup Pairs({Five}, Specials)
                ELSE IF narrow /\ fun = "Quantize"
                THEN Pairs(Operands \cup Finites({9995}, {-2}), Finites({1}, -5 .. 3))
                ELSE {}
          [] fun = "FMA" ->
                IF small THEN { <<x, y, z>> : x \in Factors, y \in Positive(Factors),
                                              z \in Finites({0, 5, 999, 1005}, {-5, -2, 0}) }
                         ELSE {}
          [] fun = "ScaleB" ->
                IF small THEN Pairs(Operands \cup Specials, Finites({0, 1, 2, 9, 13}, {0}))
                ELSE IF full THEN Extremes
                ELSE {}
          [] fun \in {"Rotate", "Shift"} ->
                IF long THEN Pairs(Finites({0, 7, 1234, 123456, 1234567}, {0, 4, 9}),
                                   Finites(0 .. 7, {0}))
                ELSE IF small THEN Pairs(Finites({5, 9995}, {-4, 0, 3}), Finites(0 .. 4, {0, 1}))
                ELSE {}
          [] fun \in logical ->
                IF small \/ long THEN { a \o b : a \in Bits, b \in Bits } ELSE {}
          [] fun = "Invert" -> IF small \/ long \/ narrow THEN Bits ELSE {}

\* A few calls in one mode, one after the other.
FewSettings == {Context(3, 3, -2, "ROUND_HALF_UP")}

FewArguments(fun, set) ==
    CASE fun = "Subtract" -> Pairs({Five, Infinite(FALSE)}, {Infinite(FALSE)})
      [] fun = "ToIntegral" -> { <<x>> : x \in Finites({5, 15, 999}, {-1, 0}) }
      [] fun = "Divide" -> Pairs({Five}, Finites({0, 3}, {0}))
      [] OTHER -> {}
=============================================================================
