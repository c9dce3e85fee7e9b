------------------------------ MODULE Decimals ------------------------------
(***************************************************************************)
(* The arithmetic of the decNumber library, as far as the SQL functions    *)
(* can tell results apart: the special values, the conditions an operation *)
(* raises, and finite numbers that overflow and round.                     *)
(*                                                                         *)
(* A finite number is a multiple of one half, written as the integer n of  *)
(* halves.  Up to MaxExact every one of them is a number, beyond it only   *)
(* every second, as if the coefficient had no digit left for the last      *)
(* place; what lies between two numbers is rounded half up, and what does  *)
(* not fit MaxHalves overflows.  The library computes with 39 decimal      *)
(* digits instead; only the size of the numbers is different.  Signed      *)
(* zeros are one zero here.                                                *)
(***************************************************************************)
EXTENDS Integers

CONSTANTS
    MaxHalves,   \* the largest finite number, in halves
    MaxExact,    \* the largest of the numbers that lie one half apart
    IntWidth     \* bits of a C int (32)

\* One, which comparisons return, is a decimal.
ASSUME DecimalsAssumption ==
    MaxExact \in Nat /\ MaxExact >= 2 /\ MaxHalves \in Nat /\ MaxHalves >= MaxExact
    /\ IntWidth \in Nat \ {0}

Finite(n) == [class |-> "finite", n |-> n]
Infinity(sign) == [class |-> "infinity", n |-> sign]
NaN == [class |-> "NaN", n |-> 0]
sNaN == [class |-> "sNaN", n |-> 0]

Halves == { n \in -MaxHalves .. MaxHalves : n \in -MaxExact .. MaxExact \/ n % 2 = 0 }
FiniteNumbers == { Finite(n) : n \in Halves }
Decimals == FiniteNumbers \cup {Infinity(1), Infinity(-1), NaN, sNaN}

IsNaN(x) == x.class \in {"NaN", "sNaN"}
IsInfinite(x) == x.class = "infinity"

Sign(n) == IF n > 0 THEN 1 ELSE IF n < 0 THEN -1 ELSE 0

\* A result and the conditions raised on the way.
Result(x, conditions) == [value |-> x, raised |-> conditions]

\* decNaNs: a signalling NaN raises a condition and becomes quiet.
decNaNs(operands) ==
    Result(NaN, IF sNaN \in operands THEN {"Invalid operation"} ELSE {})

Invalid == Result(NaN, {"Invalid operation"})

\* Mutant: the exponent is not checked.
decFinish_Unchecked(num, den) ==
    Result(Finite((Sign(den) * num) \div (den * Sign(den))),
           IF num % (den * Sign(den)) # 0 THEN {"Inexact result", "Rounded result"} ELSE {})

\* decFinish: num / den halves, rounded half up to a number of the precision
\* and checked for overflow.
decFinish(num, den) ==
    LET a == IF num < 0 THEN -num ELSE num
        b == IF den < 0 THEN -den ELSE den
        near == (2 * a + b) \div (2 * b)
        size == IF near <= MaxExact THEN near ELSE 2 * ((a + b) \div (2 * b))
        n == IF Sign(num) = Sign(den) THEN size ELSE -size
    IN  IF size <= MaxHalves
        THEN Result(Finite(n), IF a # size * b THEN {"Inexact result", "Rounded result"} ELSE {})
        ELSE Result(Infinity(Sign(n)), {"Overflow", "Inexact result", "Rounded result"})

decNumberAdd(x, y) ==
    CASE IsNaN(x) \/ IsNaN(y) -> decNaNs({x, y})
      [] IsInfinite(x) /\ IsInfinite(y) /\ x # y -> Invalid
      [] IsInfinite(x) /\ (y.class = "finite" \/ x = y) -> Result(x, {})
      [] IsInfinite(y) /\ x.class = "finite" -> Result(y, {})
      [] x.class = "finite" /\ y.class = "finite" -> decFinish(x.n + y.n, 1)

decNumberMinus(x) ==
    IF IsNaN(x) THEN decNaNs({x}) ELSE Result([x EXCEPT !.n = -@], {})

decNumberMultiply(x, y) ==
    CASE IsNaN(x) \/ IsNaN(y) -> decNaNs({x, y})
      [] x.class = "finite" /\ y.class = "finite" -> decFinish(x.n * y.n, 2)
      [] OTHER -> IF x.n = 0 \/ y.n = 0 THEN Invalid
                  ELSE Result(Infinity(Sign(x.n) * Sign(y.n)), {})

decNumberDivide(x, y) ==
    CASE IsNaN(x) \/ IsNaN(y) -> decNaNs({x, y})
      [] IsInfinite(x) /\ IsInfinite(y) -> Invalid
      [] IsInfinite(x) /\ y.class = "finite" ->
            Result(Infinity(x.n * (IF y.n < 0 THEN -1 ELSE 1)), {})
      [] x.class = "finite" /\ IsInfinite(y) -> Result(Finite(0), {"Clamped"})
      [] x.class = "finite" /\ y = Finite(0) ->
            IF x.n = 0 THEN Result(NaN, {"Division undefined"})
                       ELSE Result(Infinity(Sign(x.n)), {"Division by zero"})
      [] x.class = "finite" /\ y.class = "finite" /\ y.n # 0 -> decFinish(2 * x.n, y.n)

\* v1 x v2 + v3 with a single rounding
decNumberFMA(x, y, z) ==
    CASE sNaN \in {x, y, z} \/ IsNaN(x) \/ IsNaN(y) -> decNaNs({x, y, z})
      [] {x.class, y.class, z.class} = {"finite"} -> decFinish(x.n * y.n + 2 * z.n, 2)
      [] OTHER ->
            LET p == decNumberMultiply(x, y)
                exact == IF {x.class, y.class} = {"finite"} THEN Finite(0) ELSE p.value
            IN  IF p = Invalid THEN Invalid ELSE decNumberAdd(exact, z)

\* decCompare, on numbers: infinities lie beyond the finite numbers.
decCompare(x, y) ==
    LET rank(d) == IF IsInfinite(d) THEN (MaxHalves + 1) * d.n ELSE d.n
    IN  Sign(rank(x) - rank(y))

Magnitude(x) == [x EXCEPT !.n = @ * Sign(@)]

\* Mutant: a quiet NaN propagates, as in the arithmetic operations.
decCompareOp_NaNPropagates(op, x, y) ==
    LET order == decCompare(x, y)
    IN  IF IsNaN(x) \/ IsNaN(y) THEN decNaNs({x, y})
        ELSE Result(CASE op = "COMPARE" -> Finite(2 * order)
                      [] op \in {"MAX", "MAXMAG"} -> IF order > 0 THEN x ELSE y
                      [] op \in {"MIN", "MINMAG"} -> IF order < 0 THEN x ELSE y, {})

(***************************************************************************)
(* decCompareOp: the comparison, and the choice of the maximum or minimum, *)
(* by value or by magnitude.  A choice ignores a single quiet NaN, and two *)
(* numbers of the same magnitude are told apart by their signs.            *)
(***************************************************************************)
decCompareOp(op, x, y) ==
    LET byMagnitude == decCompare(Magnitude(x), Magnitude(y))
        order == IF op \in {"MAXMAG", "MINMAG"} /\ byMagnitude # 0
                 THEN byMagnitude ELSE decCompare(x, y)
        xWins == order * (IF op \in {"MAX", "MAXMAG"} THEN 1 ELSE -1) > 0
        quiet == op # "COMPARE" /\ sNaN \notin {x, y} /\ x # y
    IN  CASE x = NaN /\ quiet -> Result(y, {})
          [] y = NaN /\ quiet -> Result(x, {})
          [] (IsNaN(x) \/ IsNaN(y)) /\ ~(quiet /\ NaN \in {x, y}) -> decNaNs({x, y})
          [] ~IsNaN(x) /\ ~IsNaN(y) ->
                Result(CASE op = "COMPARE" -> Finite(2 * order)
                         [] op # "COMPARE" -> IF xWins THEN x ELSE y, {})

decNumberCompare(x, y) == decCompareOp("COMPARE", x, y)
decNumberMax(x, y) == decCompareOp("MAX", x, y)
decNumberMin(x, y) == decCompareOp("MIN", x, y)
decNumberMaxMag(x, y) == decCompareOp("MAXMAG", x, y)
decNumberMinMag(x, y) == decCompareOp("MINMAG", x, y)

\* Integers only, and only those that fit.
decNumberToInt32(x) ==
    IF x.class = "finite" /\ x.n % 2 = 0
          /\ x.n \div 2 \in -(2 ^ (IntWidth - 1)) .. 2 ^ (IntWidth - 1) - 1
    THEN [int |-> x.n \div 2, raised |-> {}]
    ELSE [int |-> 0, raised |-> {"Invalid operation"}]

\* sqlite3_value_int: the low bits of a 64-bit integer, as a signed number.
sqlite3_value_int(n) ==
    LET low == n % 2 ^ IntWidth
    IN  IF low < 2 ^ (IntWidth - 1) THEN low ELSE low - 2 ^ IntWidth

decNumberFromInt32(n) == Finite(2 * n)
=============================================================================
