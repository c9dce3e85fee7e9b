------------------------- MODULE DecimalArithmetic -------------------------
(***************************************************************************)
(* The SQL functions that compute, as far as their results go: a statement *)
(* calls one of them on numbers it has decoded, in the shared context, and *)
(* the conditions raised stay in the status of that context until a        *)
(* statement clears it.  No condition is trapped here (DELETE FROM         *)
(* decTraps), so that every result is seen; what a trap does with one is   *)
(* in DecimalFunctions.                                                    *)
(*                                                                         *)
(* Operands come out of encodings that other contexts may have produced:   *)
(* they can be longer, larger or smaller than the context allows.          *)
(***************************************************************************)
EXTENDS DecNumber

CONSTANTS
    Settings,         \* the contexts: records [digits, emax, emin, round]
    Arguments(_, _),  \* the arguments a function is called with in a context
    MaxCalls,         \* bound on the calls between two clearings of the status
    NULL

VARIABLES
    decCtx,   \* the shared context, with its status
    call,     \* the last call, a record [fun, args], or NULL
    result,   \* what it returned and raised, or NULL
    calls     \* the calls since the status was cleared

vars == <<decCtx, call, result, calls>>

Init ==
    /\ decCtx \in { [digits |-> s.digits, emax |-> s.emax, emin |-> s.emin,
                     round |-> s.round, status |-> {}] : s \in Settings }
    /\ call = NULL /\ result = NULL
    /\ calls = 0

\* The value and the conditions reach the caller; the conditions also stay.
Call(fun, args, r) ==
    /\ calls' = calls + 1
    /\ call' = [fun |-> fun, args |-> args]
    /\ result' = r
    /\ decCtx' = [decCtx EXCEPT !.status = @ \cup r.raised]

\* The arguments a function may be called with now.
Inputs(fun) == IF calls < MaxCalls THEN Arguments(fun, decCtx) ELSE {}

\* The integer a predicate returns.
Answer(true) == Result(decNumberFromInt32(IF true THEN 1 ELSE 0), {})

decimalCreate ==
    \E a \in Inputs("Create") : Call("Create", a, decNumberFromString(a[1], decCtx))
decimalAbs == \E a \in Inputs("Abs") : Call("Abs", a, decNumberAbs(a[1], decCtx))
decimalInvert ==
    \E a \in Inputs("Invert") : Call("Invert", a, decNumberInvert(a[1], decCtx))
decimalLogB == \E a \in Inputs("LogB") : Call("LogB", a, decNumberLogB(a[1], decCtx))
decimalMinus ==
    \E a \in Inputs("Minus") : Call("Minus", a, decNumberMinus(a[1], decCtx))
decimalNextDown ==
    \E a \in Inputs("NextDown") : Call("NextDown", a, decNumberNextMinus(a[1], decCtx))
decimalNextUp ==
    \E a \in Inputs("NextUp") : Call("NextUp", a, decNumberNextPlus(a[1], decCtx))
decimalPlus == \E a \in Inputs("Plus") : Call("Plus", a, decNumberPlus(a[1], decCtx))
decimalReduce ==
    \E a \in Inputs("Reduce") : Call("Reduce", a, decNumberReduce(a[1], decCtx))
decimalToIntegral ==
    \E a \in Inputs("ToIntegral") :
        Call("ToIntegral", a, decNumberToIntegralValue(a[1], decCtx))
decimalIsNormal ==
    \E a \in Inputs("IsNormal") :
        Call("IsNormal", a, Answer(decNumberIsNormal(a[1], decCtx)))
decimalIsSubnormal ==
    \E a \in Inputs("IsSubnormal") :
        Call("IsSubnormal", a, Answer(decNumberIsSubnormal(a[1], decCtx)))
decimalToInt32 ==
    \E a \in Inputs("ToInt32") :
        Call("ToInt32", a, decNumberToInt32(decNumberTrim(a[1])))

decimalAdd == \E a \in Inputs("Add") : Call("Add", a, decNumberAdd(a[1], a[2], decCtx))
decimalAnd == \E a \in Inputs("And") : Call("And", a, decNumberAnd(a[1], a[2], decCtx))
decimalCompare ==
    \E a \in Inputs("Compare") :
        Call("Compare", a, decNumberCompare(a[1], a[2], decCtx))
decimalDivide ==
    \E a \in Inputs("Divide") : Call("Divide", a, decNumberDivide(a[1], a[2], decCtx))
decimalDivideInteger ==
    \E a \in Inputs("DivideInteger") :
        Call("DivideInteger", a, decNumberDivideInteger(a[1], a[2], decCtx))
decimalMax == \E a \in Inputs("Max") : Call("Max", a, decNumberMax(a[1], a[2], decCtx))
decimalMaxMag ==
    \E a \in Inputs("MaxMag") : Call("MaxMag", a, decNumberMaxMag(a[1], a[2], decCtx))
decimalMin == \E a \in Inputs("Min") : Call("Min", a, decNumberMin(a[1], a[2], decCtx))
decimalMinMag ==
    \E a \in Inputs("MinMag") : Call("MinMag", a, decNumberMinMag(a[1], a[2], decCtx))
decimalMultiply ==
    \E a \in Inputs("Multiply") :
        Call("Multiply", a, decNumberMultiply(a[1], a[2], decCtx))
decimalOr == \E a \in Inputs("Or") : Call("Or", a, decNumberOr(a[1], a[2], decCtx))
decimalQuantize ==
    \E a \in Inputs("Quantize") :
        Call("Quantize", a, decNumberQuantize(a[1], a[2], decCtx))
decimalRemainder ==
    \E a \in Inputs("Remainder") :
        Call("Remainder", a, decNumberRemainder(a[1], a[2], decCtx))
decimalRotate ==
    \E a \in Inputs("Rotate") : Call("Rotate", a, decNumberRotate(a[1], a[2], decCtx))
decimalScaleB ==
    \E a \in Inputs("ScaleB") : Call("ScaleB", a, decNumberScaleB(a[1], a[2], decCtx))
decimalSameQuantum ==
    \E a \in Inputs("SameQuantum") :
        Call("SameQuantum", a, Answer(decNumberSameQuantum(a[1], a[2])))
decimalShift ==
    \E a \in Inputs("Shift") : Call("Shift", a, decNumberShift(a[1], a[2], decCtx))
decimalSubtract ==
    \E a \in Inputs("Subtract") :
        Call("Subtract", a, decNumberSubtract(a[1], a[2], decCtx))
decimalXor == \E a \in Inputs("Xor") : Call("Xor", a, decNumberXor(a[1], a[2], decCtx))

decimalFMA ==
    \E a \in Inputs("FMA") : Call("FMA", a, decNumberFMA(a[1], a[2], a[3], decCtx))

decimalClearStatus ==
    /\ calls > 0
    /\ decCtx' = [decCtx EXCEPT !.status = {}]
    /\ call' = NULL /\ result' = NULL /\ calls' = 0

Next ==
    \/ decimalCreate \/ decimalAbs \/ decimalInvert \/ decimalLogB \/ decimalMinus
    \/ decimalNextDown \/ decimalNextUp \/ decimalPlus \/ decimalReduce
    \/ decimalToIntegral \/ decimalToInt32 \/ decimalIsNormal \/ decimalIsSubnormal
    \/ decimalAdd \/ decimalAnd \/ decimalCompare \/ decimalDivide \/ decimalDivideInteger
    \/ decimalMax \/ decimalMaxMag \/ decimalMin \/ decimalMinMag \/ decimalMultiply
    \/ decimalOr \/ decimalQuantize \/ decimalRemainder \/ decimalRotate \/ decimalScaleB
    \/ decimalSameQuantum \/ decimalShift \/ decimalSubtract \/ decimalXor
    \/ decimalFMA
    \/ decimalClearStatus

Spec == Init /\ [][Next]_vars

(***************************************************************************)
(* What the functions are to compute.  An exact result is a quotient of    *)
(* integers, times a power of ten: num / den * 10^base, with a sign.       *)
(***************************************************************************)
Exact(neg, num, den, base) == [neg |-> neg, num |-> num, den |-> den, base |-> base]

Lower(x, y) == IF x.e < y.e THEN x.e ELSE y.e

\* A number as a multiple of 10^base, and an exact integer multiple of it.
Aligned(x, base) == (IF x.neg THEN -x.c ELSE x.c) * powers[x.e - base]
Multiple(n, base, zeroSign) ==
    Exact(IF n = 0 THEN zeroSign ELSE n < 0, IF n < 0 THEN -n ELSE n, 1, base)

\* The sign of an exact zero sum.
ZeroSum(neg1, neg2, set) == IF neg1 = neg2 THEN neg1 ELSE set.round = "ROUND_FLOOR"

ExactSum(x, y, set) ==
    Multiple(Aligned(x, Lower(x, y)) + Aligned(y, Lower(x, y)), Lower(x, y),
             ZeroSum(x.neg, y.neg, set))

Negated(x) == [x EXCEPT !.neg = ~@]

ExactProduct(x, y) == Number(x.neg # y.neg, x.c * y.c, x.e + y.e)

ExactOf(number) == Exact(number.neg, number.c, 1, number.e)

\* The functions with an exact result that is only to be rounded.
RoundedFunctions ==
    {"Add", "Subtract", "Multiply", "Divide", "Remainder", "FMA", "Plus", "Minus", "Abs", "Create",
     "Reduce"}

ExactResult(fun, a, set) ==
    CASE fun = "Add" -> ExactSum(a[1], a[2], set)
      [] fun = "Subtract" -> ExactSum(a[1], Negated(a[2]), set)
      [] fun = "Multiply" -> ExactOf(ExactProduct(a[1], a[2]))
      [] fun = "FMA" -> ExactSum(ExactProduct(a[1], a[2]), a[3], set)
      [] fun = "Divide" -> Exact(a[1].neg # a[2].neg, a[1].c, a[2].c, a[1].e - a[2].e)
      [] fun = "Remainder" ->
            LET base == Lower(a[1], a[2])
                n == [a[1] EXCEPT !.neg = FALSE]
                d == [a[2] EXCEPT !.neg = FALSE]
            IN  Exact(a[1].neg, Aligned(n, base) % Aligned(d, base), 1, base)
      [] fun = "Plus" -> ExactSum(ZeroLike(a[1]), a[1], set)
      [] fun = "Minus" -> ExactSum(ZeroLike(a[1]), Negated(a[1]), set)
      [] fun = "Abs" -> ExactOf([a[1] EXCEPT !.neg = FALSE])
      [] fun = "Reduce" -> ExactOf(a[1])
      [] fun = "Create" ->
            Exact(a[1].neg, a[1].c, 1, a[1].e - a[1].fraction)

\* The exponent of the first digit of an exact result other than zero.
Adjusted(x) ==
    LET d == decGetDigits(x.num) - decGetDigits(x.den)
        reached == IF d >= 0 THEN x.num >= x.den * powers[d] ELSE x.num * powers[-d] >= x.den
    IN  x.base + (IF reached THEN d ELSE d - 1)

\* The multiple of 10^q below, and where the exact result lies above it: at 0,
\* below, at or above one half ("none", "less", "half", "more").
Cut(x, q) ==
    LET num == IF x.base >= q THEN x.num * powers[x.base - q] ELSE x.num
        den == IF x.base >= q THEN x.den ELSE x.den * powers[q - x.base]
        rem == num % den
    IN  CASE x.num = 0 -> [n |-> 0, above |-> "none"]
          [] x.num # 0 /\ Adjusted(x) < q - 1 -> [n |-> 0, above |-> "less"]
          [] x.num # 0 /\ Adjusted(x) >= q - 1 ->
                [n |-> num \div den,
                 above |-> CASE rem = 0 -> "none"
                             [] rem > 0 /\ rem < den - rem -> "less"
                             [] rem > 0 /\ rem = den - rem -> "half"
                             [] rem > den - rem -> "more"]

RoundsUp(cut, neg, round) ==
    /\ cut.above # "none"
    /\ CASE round = "ROUND_CEILING" -> ~neg
         [] round = "ROUND_FLOOR" -> neg
         [] round = "ROUND_UP" -> TRUE
         [] round = "ROUND_DOWN" -> FALSE
         [] round = "ROUND_HALF_UP" -> cut.above \in {"half", "more"}
         [] round = "ROUND_HALF_DOWN" -> cut.above = "more"
         [] round = "ROUND_HALF_EVEN" -> cut.above = "more" \/ (cut.above = "half" /\ cut.n % 2 = 1)
         [] round = "ROUND_05UP" -> cut.n % 5 = 0

\* The multiple of 10^q an exact result is rounded to.
RoundedTo(x, q, round) ==
    LET cut == Cut(x, q)
    IN  Number(x.neg, IF RoundsUp(cut, x.neg, round) THEN cut.n + 1 ELSE cut.n, q)

Etiny(set) == set.emin - set.digits + 1

\* The exponent of the last digit a context keeps of an exact result.
Quantum(x, set) ==
    LET q == Adjusted(x) - set.digits + 1
    IN  IF x.num = 0 \/ q < Etiny(set) THEN Etiny(set) ELSE q

TooLarge(number, set) == number.c # 0 /\ number.e + Digits(number) - 1 > set.emax

\* Equal as numbers, with equal signs.
Same(x, y) ==
    /\ x.kind = y.kind /\ x.neg = y.neg
    /\ IsFinite(x) => decTrim(x, TRUE) = decTrim(y, TRUE)

Fits(x, set) ==
    IsFinite(x) => /\ Digits(x) <= set.digits
                   /\ x.e >= Etiny(set)
                   /\ x.e + (IF x.c = 0 THEN 0 ELSE Digits(x) - 1) <= set.emax

(***************************************************************************)
(* Properties.                                                             *)
(***************************************************************************)
Numbers == [kind : {"finite", "infinite", "NaN", "sNaN"}, neg : BOOLEAN, c : Nat, e : Int]

\* Every function returns a number and conditions the status then holds.
TypeOK ==
    /\ calls \in 0 .. MaxCalls
    /\ (call = NULL) = (result = NULL)
    /\ result # NULL => /\ result.value \in Numbers
                        /\ "sNaN" \notin result.raised
                        /\ result.raised \subseteq decCtx.status

Called(functions) == call # NULL /\ call.fun \in functions

AllFinite(a) == \A i \in DOMAIN a : IsFinite(a[i])

\* A call whose result is a rounded exact one: numbers that are finite, no
\* division by zero, and no refusal (of an integer quotient that is too long,
\* or of a context FMA does not accept).
Computes ==
    /\ Called(RoundedFunctions)
    /\ call.fun = "Create" \/ AllFinite(call.args)
    /\ call.fun \in {"Divide", "Remainder"} => ~ISZERO(call.args[2])
    /\ result.raised \cap {"Division impossible", "Invalid context"} = {}

\* The arithmetic functions, and the conversion of a text, return the exact
\* result rounded once in the context's mode, whatever happens on the way to
\* it (operands longer than the precision or far apart, partial quotients,
\* subnormal results, carries).  They overflow exactly when the rounded result
\* is too large, and report inexact, subnormal and underflowing results
\* exactly when they are that.  A sum of zero is negative in the mode
\* ROUND_FLOOR unless both operands are positive (ZeroSum), so -(+0) and
\* +(-0) are -0 there.
CorrectlyRounded ==
    Computes =>
        LET x == ExactResult(call.fun, call.args, decCtx)
            q == Quantum(x, decCtx)
            rounded == RoundedTo(x, q, decCtx.round)
            inexact == Cut(x, q).above # "none"
            subnormal == x.num # 0 /\ Adjusted(x) < decCtx.emin
            largest == Number(x.neg, powers[decCtx.digits] - 1, decCtx.emax - decCtx.digits + 1)
            outwards == RoundsUp([n |-> largest.c, above |-> "more"], x.neg, decCtx.round)
            Raised(flag) == flag \in result.raised
        IN  /\ Raised("Inexact result") => Raised("Rounded result")
            /\ Raised("Overflow") = TooLarge(rounded, decCtx)
            /\ IF Raised("Overflow")
               THEN /\ Raised("Inexact result")
                    /\ Same(result.value, IF outwards THEN Infinite(x.neg) ELSE largest)
               ELSE /\ Same(result.value, rounded)
                    /\ Raised("Inexact result") = inexact
                    /\ Raised("Subnormal") = subnormal
                    /\ decNumberIsSubnormal(result.value, decCtx) => subnormal
                    /\ Raised("Underflow") = (subnormal /\ inexact)

\* An exact result other than zero keeps the exponent that its operation
\* suggests, or comes as near to it as the digits allow: a sum does not lose
\* trailing zeros, and a quotient is not filled up with them, although it is
\* computed three digits at a time.
IdealExponent ==
    /\ Computes /\ call.fun \notin {"Reduce", "Create"}
    /\ "Inexact result" \notin result.raised /\ ~ISZERO(result.value)
    => LET ideal == ExactResult(call.fun, call.args, decCtx).base
           r == result.value
       IN  \/ r.e = ideal
           \/ r.e > ideal /\ (Digits(r) = decCtx.digits \/ r.e = Etiny(decCtx))
           \/ r.e < ideal /\ r.c % 10 # 0

\* The functions that do not look at the exponents of the context: decShift
\* and decRotate move digits and keep the exponent, decInvert sets as many
\* digits as the context has, and decLogB does not round where every exponent
\* has fewer digits than the context.
Unlimited == {"Shift", "Rotate", "Invert"} \cup When(decCtx.digits >= 10, {"LogB"})

\* A function called with numbers that the context can hold returns one: no
\* rounding step leaves a digit too many, a number beyond the largest or an
\* exponent below the smallest.  The few that ignore the range of exponents
\* still respect the precision, and decShift and decRotate change neither
\* sign nor exponent.  No function returns a signalling NaN.
ResultFits ==
    (result # NULL /\ call.fun # "Create"
        /\ \A i \in DOMAIN call.args : Fits(call.args[i], decCtx))
    => LET r == result.value
       IN  /\ r.kind # "sNaN"
           /\ IsFinite(r) => Digits(r) <= decCtx.digits
           /\ call.fun \notin Unlimited => Fits(r, decCtx)
           /\ call.fun \in {"Shift", "Rotate"} /\ IsFinite(r) =>
                  r.neg = call.args[1].neg /\ r.e = call.args[1].e

\* decRemainder and decDivideInteger divide alike: the dividend is the integer
\* quotient times the divisor, plus a remainder that is smaller than the
\* divisor and has the sign of the dividend.  Division is impossible exactly
\* when the quotient has more digits than the context allows.
DivisionIdentity ==
    Called({"Remainder"}) /\ AllFinite(call.args) /\ ~ISZERO(call.args[2]) =>
        LET x == call.args[1]
            y == call.args[2]
            base == Lower(x, y)
            X == Aligned([x EXCEPT !.neg = FALSE], base)
            Y == Aligned([y EXCEPT !.neg = FALSE], base)
            r == result.value
        IN  \A q \in {decNumberDivideInteger(x, y, decCtx)} :
            IF X \div Y >= powers[decCtx.digits]
            THEN "Division impossible" \in result.raised \cap q.raised
            ELSE /\ q.value.neg = (x.neg # y.neg) /\ q.value.e = 0 /\ q.raised = {}
                 /\ r.neg = x.neg
                 /\ "Inexact result" \notin result.raised /\ (r.e >= base) =>
                        LET R == Aligned([r EXCEPT !.neg = FALSE], base)
                        IN  R < Y /\ X = q.value.c * Y + R

\* Rounding the exact x to a multiple of 10^q makes it longer, and thereby too
\* large.
CarriesOver(x, q, set) ==
    LET rounded == RoundedTo(x, q, set.round)
    IN  x.num # 0 /\ TooLarge(rounded, set) /\ q + Digits(rounded) - 1 > Adjusted(x)

\* decQuantize returns the first number rounded, once, to the exponent of the
\* second.  It does so whenever that exponent and the rounded coefficient fit
\* the context (which rounding up to a longer coefficient may prevent), and is
\* an invalid operation otherwise, with one exception: a carry beyond the
\* largest exponent overflows, to Infinity, in the rounding step, before
\* decQuantizeOp looks whether the result fits.
QuantizeRounds ==
    Called({"Quantize"}) /\ AllFinite(call.args) =>
        LET x == ExactOf(call.args[1])
            q == call.args[2].e
            rounded == RoundedTo(x, q, decCtx.round)
            accepted == /\ q \in Etiny(decCtx) .. decCtx.emax
                        /\ x.num = 0 \/ Adjusted(x) - q < decCtx.digits
            fits == ~TooLarge(rounded, decCtx) /\ Digits(rounded) <= decCtx.digits
        IN  CASE accepted /\ fits ->
                    /\ result.value = rounded
                    /\ ("Inexact result" \in result.raised) = (Cut(x, q).above # "none")
                    /\ result.raised \cap {"Overflow", "Underflow"} = {}
                    /\ decNumberSameQuantum(result.value, call.args[2])
              [] accepted /\ CarriesOver(x, q, decCtx) ->
                    /\ IsInfinite(result.value) /\ result.value.neg = x.neg
                    /\ result.raised = {"Overflow", "Inexact result", "Rounded result"}
              [] OTHER -> IsNaN(result.value) /\ "Invalid operation" \in result.raised

\* decToIntegral, with no condition pending, rounds a number to an integer in
\* the context's mode, however many digits that takes, and raises nothing.  A
\* number with a fraction that is beyond the largest exponent is refused, and
\* one that a carry takes there becomes Infinity, silently.
RoundsToIntegral ==
    Called({"ToIntegral"}) /\ AllFinite(call.args) /\ decCtx.status = result.raised
    => LET x == call.args[1]
           rounded == RoundedTo(ExactOf(x), 0, decCtx.round)
           refused == IsNaN(result.value) /\ result.raised = {"Invalid operation"}
           silent == result.raised = {}
       IN  CASE x.e >= 0 -> result.value = x /\ silent
             [] x.e < 0 /\ ~TooLarge(rounded, decCtx) -> result.value = rounded /\ silent
             [] x.e < 0 /\ TooLarge(rounded, decCtx) ->
                    IF CarriesOver(ExactOf(x), 0, decCtx)
                    THEN IsInfinite(result.value) /\ result.value.neg = x.neg /\ silent
                    ELSE refused

\* decCompare is exact: it orders two numbers as their values are ordered, also
\* where their difference would underflow and where it tells them apart by the
\* lengths of their coefficients only.
CompareIsExact ==
    Called({"Compare"}) /\ AllFinite(call.args) =>
        LET base == Lower(call.args[1], call.args[2])
            order == Aligned(call.args[1], base) - Aligned(call.args[2], base)
        IN  result.value = decNumberFromInt32(Sgn(order))

Dual(fun, x, y, set) ==
    CASE fun = "Max" -> decNumberMin(x, y, set)
      [] fun = "Min" -> decNumberMax(x, y, set)
      [] fun = "MaxMag" -> decNumberMinMag(x, y, set)
      [] fun = "MinMag" -> decNumberMaxMag(x, y, set)

\* decMax and decMin, and decMaxMag and decMinMag, choose one number each of
\* any two, and the order of the arguments does not matter, even for numbers
\* that are equal and differ in their signs or exponents.  (So two rows of an
\* aggregate may come in either order.)
ExtremaAreSymmetric ==
    Called({"Max", "Min", "MaxMag", "MinMag"})
        /\ (\A i \in {1, 2} : ~IsNaN(call.args[i]) /\ Fits(call.args[i], decCtx))
    => \A args \in {call.args, Reverse(call.args)} :
          {result.value, Dual(call.fun, args[1], args[2], decCtx).value} = Range(args)

\* The numbers of a context next to the exact x, above and below its magnitude.
Outer(x, set) ==
    LET n == Number(x.neg, Cut(x, Quantum(x, set)).n + 1, Quantum(x, set))
    IN  IF TooLarge(n, set) THEN Infinite(x.neg) ELSE n

Inner(x, set) ==
    LET q == Quantum(x, set)
        cut == Cut(x, q)
    IN  CASE cut.above # "none" -> Number(x.neg, cut.n, q)
          [] cut.above = "none" /\ cut.n = powers[set.digits - 1] /\ q > Etiny(set) ->
                Number(x.neg, powers[set.digits] - 1, q - 1)
          [] OTHER -> Number(x.neg, cut.n - 1, q)

\* decNextUp and decNextDown return the adjacent number of the context: none
\* lies between, at the ends of the range, across zero, among the subnormal
\* numbers and where the spacing changes.  The exception are numbers spaced no
\* wider than the number they add, 1E-1000000000: the subnormal ones and the
\* smallest normal ones of a context with the smallest exponents, such as the
\* default one.
NextIsAdjacent ==
    Called({"NextUp", "NextDown"}) /\ AllFinite(call.args)
        /\ ~TooLarge(call.args[1], decCtx)
        /\ Quantum(ExactOf(call.args[1]), decCtx) > dtiny.e
    => LET x == ExactOf(call.args[1])
           up == call.fun = "NextUp"
           next == IF x.num = 0 THEN Number(~up, 1, Etiny(decCtx))
                   ELSE IF x.neg = up THEN Inner(x, decCtx) ELSE Outer(x, decCtx)
       IN  Same(result.value, next)

\* Scaling by a power of ten below one does not make a number larger, and by
\* one above does not make it smaller, even where the sum of the two exponents
\* exceeds an int.
ScalingKeepsDirection ==
    Called({"ScaleB"}) /\ AllFinite(call.args) /\ Fits(call.args[1], decCtx)
        /\ "Invalid operation" \notin result.raised
    =>  IF call.args[2].neg THEN "Overflow" \notin result.raised /\ IsFinite(result.value)
                            ELSE "Underflow" \notin result.raised

\* decRotate moves every digit of the coefficient by the same number of places
\* around the precision, although it works on units of three digits.
RotateIsCyclic ==
    Called({"Rotate"}) /\ AllFinite(call.args) /\ result.raised = {}
        /\ Digits(call.args[1]) <= decCtx.digits
    => \A i \in 0 .. decCtx.digits - 1 :
          DigitOf(result.value.c, (i + decGetInt(call.args[2])) % decCtx.digits)
              = DigitOf(call.args[1].c, i)

\* decNumber.c says of ToIntegral that "no error is possible, except for sNaN":
\* a number is rounded to a number.
ToIntegralNeverFails ==
    Called({"ToIntegral"}) /\ AllFinite(call.args) => IsFinite(result.value)
=============================================================================
