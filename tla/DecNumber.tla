------------------------------ MODULE DecNumber ------------------------------
(***************************************************************************)
(* The arithmetic of decNumber.c: what the SQL functions compute, for a    *)
(* context of any exponent range and rounding mode, and any precision that *)
(* the extension allows, which is a multiple of three.                     *)
(*                                                                         *)
(* A coefficient, which the code keeps in units of three digits, is a      *)
(* natural number here, and the loops over its units are integer           *)
(* arithmetic.  What decides a result is kept: the length of a             *)
(* coefficient, the residue that stands for the digits dropped so far, the *)
(* order in which a number is shortened, checked for underflow, rounded    *)
(* and checked for overflow, and the conditions raised on the way.         *)
(*                                                                         *)
(* The extension never sets the clamp of a context, and it compiles the    *)
(* library without its subset arithmetic: neither is modelled.  NaNs carry *)
(* no diagnostic digits, as in the encoding of the extension.              *)
(***************************************************************************)
EXTENDS Integers, SequencesExt

RECURSIVE LongDivision(_, _, _, _, _, _, _), IntegerDivision(_, _, _, _, _)

DECDPUN == 3
DEC_MIN_EMIN == -999999999
DEC_MAX_MATH == 999999
DECNUMMAXE == 999999999

powers == [i \in 0 .. 9 |-> 10 ^ i]

\* The number of digits of a coefficient (0 has one).
decGetDigits(c) ==
    IF c >= powers[9] THEN 10
    ELSE CHOOSE d \in 1 .. 9 : c < powers[d] /\ (d = 1 \/ c >= powers[d - 1])

\* The number of units they fill.
D2U(d) == (d + DECDPUN - 1) \div DECDPUN

(***************************************************************************)
(* Numbers.                                                                *)
(***************************************************************************)
Number(neg, c, e) == [kind |-> "finite", neg |-> neg, c |-> c, e |-> e]
Infinite(neg) == [kind |-> "infinite", neg |-> neg, c |-> 0, e |-> 0]
QuietNaN(neg) == [kind |-> "NaN", neg |-> neg, c |-> 0, e |-> 0]
SignallingNaN(neg) == [kind |-> "sNaN", neg |-> neg, c |-> 0, e |-> 0]

decNumberZero == Number(FALSE, 0, 0)

IsNaN(x) == x.kind \in {"NaN", "sNaN"}
IsInfinite(x) == x.kind = "infinite"
IsFinite(x) == x.kind = "finite"
ISZERO(x) == IsFinite(x) /\ x.c = 0
Digits(x) == decGetDigits(x.c)

decShiftToMost(x, shift) == [x EXCEPT !.c = @ * powers[shift], !.e = @ - shift]

(***************************************************************************)
(* A number being computed: its value so far, the residue (see             *)
(* decApplyRound) and the conditions raised so far.                        *)
(***************************************************************************)
Work(dn, residue, status) == [dn |-> dn, residue |-> residue, status |-> status]
Done(dn, status) == Work(dn, 0, status)

Rounding == {"Rounded result"}
Inexact == {"Inexact result", "Rounded result"}
When(condition, flags) == IF condition THEN flags ELSE {}

\* Maps the first dropped digit to a residue, leaving room for a residue of
\* -1 or 1 from the digits below it.
resmap == [d \in 0 .. 9 |-> CASE d = 0 -> 0 [] d \in 1 .. 4 -> 3 [] d = 5 -> 5 [] d > 5 -> 7]

\* The residue of dropping the last digits of c: from the first dropped digit,
\* or from the unit it starts when the cut is between two units.
DroppedResidue(c, discard, residue) ==
    LET width == IF discard % DECDPUN = 0 THEN DECDPUN ELSE 1
        below == powers[discard - width]
        sticky == IF c % below # 0 THEN 1 ELSE residue
        first == (c \div below) % powers[width]
        half == powers[width] \div 2
    IN  CASE width = 1                -> sticky + resmap[first]
          [] width > 1 /\ first > half -> 7
          [] width > 1 /\ first = half -> sticky + 5
          [] width > 1 /\ first < half -> IF first # 0 THEN 3 ELSE sticky

\* decSetCoeff: shorten the coefficient to the given number of digits, which
\* may be less than one.
decSetCoeff(w, digits) ==
    LET c == w.dn.c
        len == decGetDigits(c)
        discard == len - digits
        residue == IF w.residue > 1 THEN 1 ELSE w.residue
        Shortened(coeff, res) ==
            Work([w.dn EXCEPT !.c = coeff, !.e = @ + discard], res,
                 w.status \cup Rounding \cup When(res # 0, Inexact))
    IN  CASE discard <= 0 -> [w EXCEPT !.status = @ \cup When(w.residue # 0, Inexact)]
          [] discard > len -> Shortened(0, IF residue <= 0 /\ c # 0 THEN 1 ELSE residue)
          [] discard \in 1 .. len ->
                Shortened(c \div powers[discard], DroppedResidue(c, discard, residue))

decCopyFit(x, set) == decSetCoeff(Done(x, {}), set.digits)

\* Mutant: an exponent too large by one.
decSetMaxValue_OffByOne(set) ==
    Number(FALSE, powers[set.digits] - 1, set.emax - set.digits + 2)

decSetMaxValue(set) ==
    Number(FALSE, powers[set.digits] - 1, set.emax - set.digits + 1)

\* decSetOverflow: Infinity, or the largest number if the mode rounds inwards.
decSetOverflow(w, set) ==
    LET neg == w.dn.neg
        needmax == \/ set.round \in {"ROUND_DOWN", "ROUND_05UP"}
                   \/ set.round = "ROUND_CEILING" /\ neg
                   \/ set.round = "ROUND_FLOOR" /\ ~neg
        Value == IF needmax THEN [decSetMaxValue(set) EXCEPT !.neg = neg] ELSE Infinite(neg)
    IN  IF ISZERO(w.dn)
        THEN IF w.dn.e > set.emax
             THEN Done([w.dn EXCEPT !.e = set.emax], w.status \cup {"Clamped"})
             ELSE w
        ELSE Done(Value, w.status \cup {"Overflow"} \cup Inexact)

\* The direction a pending residue moves the coefficient: -1, 0 or 1.
Bump(dn, residue, round) ==
    LET up == residue > 0
        down == residue < 0
        By(n, condition) == IF condition THEN n ELSE 0
    IN  CASE round = "ROUND_05UP" ->
                By(1, up /\ dn.c % 5 = 0) + By(-1, down /\ dn.c % 5 # 1)
          [] round = "ROUND_DOWN" -> By(-1, down)
          [] round = "ROUND_HALF_DOWN" -> By(1, residue > 5)
          [] round = "ROUND_HALF_EVEN" ->
                By(1, residue > 5 \/ (residue = 5 /\ dn.c % 2 = 1))
          [] round = "ROUND_HALF_UP" -> By(1, residue >= 5)
          [] round = "ROUND_UP" -> By(1, up)
          [] round = "ROUND_CEILING" -> IF dn.neg THEN By(-1, down) ELSE By(1, up)
          [] round = "ROUND_FLOOR" -> IF dn.neg THEN By(1, up) ELSE By(-1, down)

\* decApplyRound: the length of the coefficient stays the same.  A residue
\* above 5 stands for dropped digits of more than one half, 5 for exactly one
\* half, 1 to 4 for less; -1 for digits that were subtracted.
decApplyRound(w, set) ==
    LET dn == w.dn
        digits == Digits(dn)
        bump == IF w.residue = 0 THEN 0 ELSE Bump(dn, w.residue, set.round)
        carried == Work(Number(dn.neg, powers[digits - 1], dn.e + 1), w.residue, w.status)
        borrowed == Number(dn.neg, powers[digits] - 1, dn.e - 1)
        \* Below the smallest exponent the last nine is dropped again.
        shortened == Number(dn.neg, powers[digits - 1] - 1, dn.e)
    IN  CASE bump = 1 /\ dn.c = powers[digits] - 1 ->
                IF dn.e + 1 + digits > set.emax + 1 THEN decSetOverflow(carried, set)
                                                    ELSE carried
          [] bump = -1 /\ dn.c = powers[digits - 1] ->
                IF dn.e = set.emin - set.digits + 1
                THEN Work(shortened, w.residue,
                          w.status \cup {"Underflow", "Subnormal"} \cup Inexact)
                ELSE [w EXCEPT !.dn = borrowed]
          [] OTHER -> [w EXCEPT !.dn.c = @ + bump]

\* An inexact subnormal result underflows.
Underflow(flags) == flags \cup When("Inexact result" \in flags, {"Underflow"})

\* A subnormal number that has been rounded: after a carry it is brought back to
\* the smallest exponent, and nothing may be left of it.
RoundedSubnormal(w, etiny) ==
    LET dn == IF w.dn.e > etiny THEN decShiftToMost(w.dn, 1) ELSE w.dn
    IN  Done(dn, Underflow(w.status) \cup When(ISZERO(dn), {"Clamped"}))

\* decSetSubnormal: a number below the normal ones is cut at the smallest
\* exponent, with a context whose precision is what is left of the coefficient.
decSetSubnormal(w, set) ==
    LET etiny == set.emin - (set.digits - 1)
        adjust == etiny - w.dn.e
        status == w.status \cup {"Subnormal"}
        workset == [set EXCEPT !.digits = Digits(w.dn) - adjust, !.emin = @ - adjust]
        cut == decSetCoeff([w EXCEPT !.status = status], workset.digits)
    IN  CASE ISZERO(w.dn) ->
                IF adjust > 0 THEN Done([w.dn EXCEPT !.e = etiny], w.status \cup {"Clamped"})
                              ELSE w
          [] ~ISZERO(w.dn) /\ adjust <= 0 -> Done(w.dn, Underflow(status))
          [] ~ISZERO(w.dn) /\ adjust > 0 ->
                RoundedSubnormal(decApplyRound(cut, workset), etiny)

\* A rounded number that is too large overflows.
CheckOverflow(w, set) ==
    IF w.dn.kind = "finite" /\ w.dn.e > set.emax - set.digits + 1
          /\ w.dn.e > set.emax - Digits(w.dn) + 1
    THEN decSetOverflow(w, set) ELSE w

\* Mutant: rounded first, then checked for underflow.
decFinalize_RoundsFirst(w, set) ==
    LET v == [decApplyRound(w, set) EXCEPT !.residue = 0]
    IN  CASE v.dn.e < set.emin - Digits(w.dn) + 1 -> decSetSubnormal(v, set)
          [] v.dn.e > set.emax - Digits(v.dn) + 1 -> decSetOverflow(v, set)
          [] OTHER -> v

\* decFinalize (decFinish is the same): underflow before rounding, overflow
\* after it.
decFinalize(w, set) ==
    LET tinyexp == set.emin - Digits(w.dn) + 1
        nmin == w.dn.c = powers[Digits(w.dn) - 1]   \* with e = tinyexp
        below == w.dn.e < tinyexp
        borrows == w.dn.e = tinyexp /\ w.residue < 0 /\ nmin
        v == IF below THEN w ELSE decApplyRound(w, set)
    IN  IF below \/ borrows THEN decSetSubnormal(v, set) ELSE CheckOverflow(v, set)

decFinish(w, set) ==
    IF IsFinite(w.dn) THEN decFinalize(w, set) ELSE w

(***************************************************************************)
(* The end of an operation.  Conditions that mean there is no result make  *)
(* it a NaN, unless a signalling NaN has already made it one.              *)
(***************************************************************************)
DEC_NaNs == {"Conversion syntax", "Division impossible", "Division undefined",
             "Out of memory", "Invalid context", "Invalid operation"}

Result(x, raised) == [value |-> x, raised |-> raised]

\* Mutant: the internal flag is not removed.
decStatus_KeepsSignal(w) ==
    IF w.status \cap DEC_NaNs # {} /\ "sNaN" \notin w.status
    THEN Result(QuietNaN(FALSE), w.status)
    ELSE Result(w.dn, w.status)

decStatus(w) ==
    IF w.status \cap DEC_NaNs # {} /\ "sNaN" \notin w.status
    THEN Result(QuietNaN(FALSE), w.status)
    ELSE Result(w.dn, w.status \ {"sNaN"})

InvalidOperation == Done(QuietNaN(FALSE), {"Invalid operation"})

\* decNaNs: the first signalling NaN, or else the first NaN.
decNaNs(l, r) ==
    LET signals == {"Invalid operation", "sNaN"}
    IN  CASE l.kind = "sNaN" -> Done(QuietNaN(l.neg), signals)
          [] l.kind # "sNaN" /\ r.kind = "sNaN" -> Done(QuietNaN(r.neg), signals)
          [] l.kind = "NaN" /\ r.kind # "sNaN" -> Done(QuietNaN(l.neg), {})
          [] l.kind \notin {"NaN", "sNaN"} /\ r.kind # "sNaN" -> Done(QuietNaN(r.neg), {})

\* The operations of one operand call it with no second one.
decNaN(x) == decNaNs(x, decNumberZero)

(***************************************************************************)
(* Addition and subtraction.                                               *)
(***************************************************************************)
\* One operand is zero: the other one, padded with zeros towards the smaller
\* exponent as far as the precision allows.
PadTowards(w, e, set) ==
    LET wanted == w.dn.e - e
        room == set.digits - Digits(w.dn)
    IN  CASE wanted <= 0 -> w
          [] wanted > 0 /\ wanted <= room -> [w EXCEPT !.dn = decShiftToMost(@, wanted)]
          [] wanted > 0 /\ wanted > room ->
                [w EXCEPT !.dn = decShiftToMost(@, room), !.status = @ \cup Rounding]

\* Aligned operands of one unit, with no carry, borrow or rounding.
FastAdd(l, r, set, diffsign) ==
    LET unit == powers[DECDPUN]
        partial == IF diffsign THEN (l.c % unit) - r.c ELSE (l.c % unit) + r.c
    IN  [taken |-> /\ l.e = r.e /\ Digits(r) <= DECDPUN
                   /\ r.e >= set.emin /\ r.e <= set.emax - set.digits + 1
                   /\ Digits(r) <= set.digits /\ Digits(l) <= set.digits
                   /\ IF diffsign THEN partial > 0
                      ELSE partial < unit /\ (Digits(l) >= DECDPUN \/ partial < powers[Digits(l)]),
         sum |-> [l EXCEPT !.c = (@ \div unit) * unit + partial]]

\* A difference that is exactly zero has a sign of its own.
SignedSum(w, difference, set) ==
    IF ISZERO(w.dn) /\ difference /\ "Inexact result" \notin w.status
    THEN [w EXCEPT !.dn.neg = (set.round = "ROUND_FLOOR")] ELSE w

\* Two numbers other than zero.  The operand with the larger exponent is
\* padded; if the other one then lies wholly below the digits that are kept,
\* a residue stands for it.
AddFinite(l, r, set, negate) ==
    LET diffsign == (l.neg # r.neg) # negate
        swapped == r.e < l.e
        low == IF swapped THEN r ELSE l
        high == IF swapped THEN l ELSE r
        lowneg == IF swapped THEN r.neg # negate ELSE l.neg
        highneg == IF swapped THEN l.neg ELSE r.neg # negate
        pad == high.e - low.e
        shift == set.digits - Digits(high)
        far == Digits(high) + pad > Digits(low) + set.digits + 1
        \* -- far apart
        fit == decSetCoeff(Work([high EXCEPT !.neg = highneg],
                                IF diffsign THEN -1 ELSE 1, {}), set.digits)
        padded == IF shift > 0 THEN [fit EXCEPT !.dn = decShiftToMost(@, shift)] ELSE fit
        \* -- close enough to add
        sum == low.c + (IF diffsign THEN -1 ELSE 1) * high.c * powers[pad]
        exact == Number(lowneg # (sum < 0), IF sum < 0 THEN -sum ELSE sum, low.e)
    IN  SignedSum(decFinish(IF far THEN padded ELSE decCopyFit(exact, set), set),
                  diffsign /\ ~far, set)

\* decAddOp: l + r, or l - r if negate.
decAddOp(l, r, set, negate) ==
    LET diffsign == (l.neg # r.neg) # negate
        negated == [r EXCEPT !.neg = @ # negate]
        rfit == decCopyFit(negated, set)
        lfit == decCopyFit(l, set)
        zeros == Number(IF diffsign THEN set.round = "ROUND_FLOOR" ELSE l.neg, 0,
                        IF l.e < r.e THEN l.e ELSE r.e)
        fast == FastAdd(l, r, set, diffsign)
    IN  CASE IsNaN(l) \/ IsNaN(r) -> decNaNs(l, r)
          [] IsInfinite(l) /\ ~IsNaN(r) ->
                IF IsInfinite(r) /\ diffsign THEN InvalidOperation ELSE Done(l, {})
          [] IsFinite(l) /\ IsInfinite(r) -> Done(negated, {})
          [] ISZERO(l) /\ ISZERO(r) -> decFinish(Done(zeros, {}), set)
          [] ISZERO(l) /\ IsFinite(r) /\ ~ISZERO(r) ->
                decFinish(PadTowards(rfit, l.e, set), set)
          [] IsFinite(l) /\ ~ISZERO(l) /\ ISZERO(r) ->
                decFinish(PadTowards(lfit, r.e, set), set)
          [] IsFinite(l) /\ IsFinite(r) /\ ~ISZERO(l) /\ ~ISZERO(r) ->
                IF fast.taken THEN Done(fast.sum, {}) ELSE AddFinite(l, r, set, negate)

\* A zero of the operand's exponent, for the operations that are sums with it.
ZeroLike(x) == Number(FALSE, 0, x.e)

decNumberAdd(x, y, set) == decStatus(decAddOp(x, y, set, FALSE))
decNumberSubtract(x, y, set) == decStatus(decAddOp(x, y, set, TRUE))
decNumberPlus(x, set) == decStatus(decAddOp(ZeroLike(x), x, set, FALSE))
decNumberMinus(x, set) == decStatus(decAddOp(ZeroLike(x), x, set, TRUE))
decNumberAbs(x, set) == decStatus(decAddOp(ZeroLike(x), x, set, x.neg))

\* The neighbours: add or subtract a number that is meant to be smaller than
\* any other, and keep only what a signalling NaN raises.
dtiny == Number(FALSE, 1, DEC_MIN_EMIN - 1)

Neighbour(w) == decStatus([w EXCEPT !.status = @ \cap {"Invalid operation", "sNaN"}])

\* Mutant: the current rounding mode.
decNumberNextPlus_CurrentMode(x, set) == Neighbour(decAddOp(x, dtiny, set, FALSE))

decNumberNextPlus(x, set) ==
    IF x = Infinite(TRUE) THEN Result([decSetMaxValue(set) EXCEPT !.neg = TRUE], {})
    ELSE Neighbour(decAddOp(x, dtiny, [set EXCEPT !.round = "ROUND_CEILING"], FALSE))

decNumberNextMinus(x, set) ==
    IF x = Infinite(FALSE) THEN Result(decSetMaxValue(set), {})
    ELSE Neighbour(decAddOp(x, dtiny, [set EXCEPT !.round = "ROUND_FLOOR"], TRUE))

(***************************************************************************)
(* Multiplication, and multiplication followed by addition, rounded once.  *)
(***************************************************************************)
decMultiplyOp(l, r, set) ==
    LET neg == l.neg # r.neg
    IN  CASE IsNaN(l) \/ IsNaN(r) -> decNaNs(l, r)
          [] ~IsNaN(l) /\ ~IsNaN(r) /\ (IsInfinite(l) \/ IsInfinite(r)) ->
                IF ISZERO(l) \/ ISZERO(r) THEN InvalidOperation ELSE Done(Infinite(neg), {})
          [] IsFinite(l) /\ IsFinite(r) ->
                decFinish(decCopyFit(Number(neg, l.c * r.c, l.e + r.e), set), set)

decNumberMultiply(x, y, set) == decStatus(decMultiplyOp(x, y, set))

\* The limits of the mathematical functions: the conditions of breaking them.
decCheckMath(x, set) ==
    CASE set.digits > DEC_MAX_MATH \/ set.emax > DEC_MAX_MATH \/ -set.emin > DEC_MAX_MATH ->
            {"Invalid context"}
      [] OTHER ->
            When(/\ ~ISZERO(x)
                 /\ \/ Digits(x) > DEC_MAX_MATH
                    \/ x.e + Digits(x) > DEC_MAX_MATH + 1
                    \/ x.e + Digits(x) < 2 * (1 - DEC_MAX_MATH), {"Invalid operation"})

\* The addition, unless the product is invalid; a signalling NaN is kept.
AddToProduct(w, z, set) ==
    LET signals == "sNaN" \in w.status
        sum == decAddOp(w.dn, IF signals THEN decNumberZero ELSE z, set, FALSE)
    IN  IF "Invalid operation" \in w.status /\ ~signals THEN w
        ELSE [sum EXCEPT !.status = @ \cup w.status]

decNumberFMA(x, y, z, set) ==
    LET refused == UNION { decCheckMath(n, set) : n \in { m \in {x, y, z} : IsFinite(m) } }
        dcmul == [set EXCEPT !.digits = Digits(x) + Digits(y),
                             !.emax = DECNUMMAXE, !.emin = DEC_MIN_EMIN]
    IN  IF refused # {} THEN decStatus(Done(QuietNaN(FALSE), refused))
        ELSE decStatus(AddToProduct(decMultiplyOp(x, y, dcmul), z, set))

(***************************************************************************)
(* Division.                                                               *)
(***************************************************************************)
\* The division loop, one unit of the quotient at a time: acc is the quotient
\* so far, in units of 10^exponent, and rem what is left of the dividend.  The
\* divisor starts shifted up by some units, and the dividend is extended with
\* zeros once it is shifted down all the way.
LongDivision(acc, rem, divisor, shift, exponent, maxexponent, digits) ==
    IF decGetDigits(acc) > digits \/ (rem = 0 /\ exponent <= maxexponent)
    THEN [acc |-> acc, rem |-> rem, exponent |-> exponent]
    ELSE LET unit == powers[DECDPUN]
             left == IF shift > 0 THEN rem ELSE rem * unit
             d == IF shift > 0 THEN divisor * powers[DECDPUN * (shift - 1)] ELSE divisor
         IN  LongDivision(acc * unit + left \div d, left % d, divisor,
                          IF shift > 0 THEN shift - 1 ELSE 0, exponent - DECDPUN,
                          maxexponent, digits)

\* The quotient of two numbers other than zero, aligned at their first units.
Quotient(l, r, set) ==
    LET shift == D2U(Digits(l)) - D2U(Digits(r))
        max == l.e - r.e
        dividend == IF shift > 0 THEN l.c ELSE l.c * powers[-DECDPUN * shift]
        d == IF shift > 0 THEN r.c * powers[DECDPUN * shift] ELSE r.c
    IN  LongDivision(dividend \div d, dividend % d, r.c, IF shift > 0 THEN shift ELSE 0,
                     max + DECDPUN * shift, max, set.digits)

\* Mutant: they stay.
SpuriousZeros_Kept(q, maxexponent) == 0

\* Zeros that only completed the last unit of an exact quotient.
SpuriousZeros(q, maxexponent) ==
    LET lsu == q.acc % powers[DECDPUN]
        May(n) == n = 0 \/ (q.exponent + n <= maxexponent /\ lsu % powers[n] = 0)
    IN  IF q.rem # 0 \/ lsu = 0 THEN 0
        ELSE CHOOSE n \in 0 .. DECDPUN - 1 :
                May(n) /\ \A m \in (n + 1) .. (DECDPUN - 1) : ~May(m)

DivideFinite(l, r, set, neg) ==
    LET q == Quotient(l, r, set)
        drop == SpuriousZeros(q, l.e - r.e)
        quotient == Number(neg, q.acc \div powers[drop], q.exponent + drop)
    IN  decFinish(decSetCoeff(Work(quotient, IF q.rem # 0 THEN 1 ELSE 0, {}), set.digits), set)

\* The loop of the integer operations stops at the units digit, or when there
\* are too many digits.  The code subtracts multiples of the divisor, aligned to
\* units, and afterwards moves the remainder back; here that is one division for
\* each digit, since how many digits it finds at a time is not visible.
IntegerDivision(acc, rem, divisor, exponent, digits) ==
    IF exponent = 0 \/ decGetDigits(acc) > digits
    THEN [acc |-> acc, rem |-> rem, exponent |-> exponent]
    ELSE IntegerDivision(acc * 10 + (rem * 10) \div divisor, (rem * 10) % divisor, divisor,
                         exponent - 1, digits)

IntegerQuotient(l, r, set) ==
    LET d == r.c * powers[r.e - l.e]
    IN  IF l.e >= r.e
        THEN IntegerDivision(l.c \div r.c, l.c % r.c, r.c, l.e - r.e, set.digits)
        ELSE [acc |-> l.c \div d, rem |-> l.c % d, exponent |-> 0]

\* Mutant: the sign of the divisor.
RemainderOf_SignOfDivisor(l, r, q) == Number(r.neg, q.rem, IF l.e < r.e THEN l.e ELSE r.e)

RemainderOf(l, r, q) == Number(l.neg, q.rem, IF l.e < r.e THEN l.e ELSE r.e)

\* divideInteger and remainder of two numbers other than zero.
IntegerOp(op, l, r, set) ==
    LET q == IntegerQuotient(l, r, set)
        below == l.e + Digits(l) < r.e + Digits(r)
        exact == IF op = "remainder" THEN RemainderOf(l, r, q)
                                     ELSE Number(l.neg # r.neg, q.acc, 0)
    IN  CASE below /\ op = "divideInteger" -> Done(Number(l.neg # r.neg, 0, 0), {})
          [] below /\ op = "remainder" /\ l.e <= r.e -> decFinish(decCopyFit(l, set), set)
          [] OTHER -> IF decGetDigits(q.acc) + q.exponent > set.digits
                      THEN Done(QuietNaN(FALSE), {"Division impossible"})
                      ELSE decFinish(decCopyFit(exact, set), set)

\* Division by zero.
DivideByZero(op, l, neg) ==
    CASE ISZERO(l) -> Done(decNumberZero, {"Division undefined"})
      [] ~ISZERO(l) /\ op = "remainder" -> InvalidOperation
      [] ~ISZERO(l) /\ op # "remainder" -> Done(Infinite(neg), {"Division by zero"})

\* An infinite operand.
DivideInfinite(op, l, r, set, neg) ==
    CASE IsInfinite(l) ->
            IF IsInfinite(r) \/ op = "remainder" THEN InvalidOperation ELSE Done(Infinite(neg), {})
      [] IsFinite(l) /\ op = "remainder" -> decFinish(decCopyFit(l, set), set)
      [] IsFinite(l) /\ op = "divideInteger" -> decFinish(Done(Number(neg, 0, 0), {}), set)
      [] IsFinite(l) /\ op = "divide" ->
            decFinish(Done(Number(neg, 0, set.emin - set.digits + 1), {"Clamped"}), set)

\* Zero divided by a number other than zero.
DivideZero(op, l, r, set, neg) ==
    CASE op = "divide" -> decFinalize(Done(Number(neg, 0, l.e - r.e), {}), set)
      [] op = "divideInteger" -> Done(Number(neg, 0, 0), {})
      [] op = "remainder" -> Done([l EXCEPT !.e = IF r.e < @ THEN r.e ELSE @], {})

decDivideOp(op, l, r, set) ==
    LET neg == l.neg # r.neg
    IN  CASE IsNaN(l) \/ IsNaN(r) -> decNaNs(l, r)
          [] ~IsNaN(l) /\ ~IsNaN(r) /\ (IsInfinite(l) \/ IsInfinite(r)) ->
                DivideInfinite(op, l, r, set, neg)
          [] IsFinite(l) /\ ISZERO(r) -> DivideByZero(op, l, neg)
          [] ISZERO(l) /\ IsFinite(r) /\ ~ISZERO(r) -> DivideZero(op, l, r, set, neg)
          [] IsFinite(l) /\ IsFinite(r) /\ ~ISZERO(l) /\ ~ISZERO(r) ->
                IF op = "divide" THEN DivideFinite(l, r, set, neg) ELSE IntegerOp(op, l, r, set)

decNumberDivide(x, y, set) == decStatus(decDivideOp("divide", x, y, set))
decNumberDivideInteger(x, y, set) == decStatus(decDivideOp("divideInteger", x, y, set))
decNumberRemainder(x, y, set) == decStatus(decDivideOp("remainder", x, y, set))

(***************************************************************************)
(* Quantize, and rounding to an integer.                                   *)
(***************************************************************************)
\* Mutant: the length is not checked again after rounding.
Rescaled_Unchecked(l, e, set) ==
    LET adjust == e - l.e
        workset == [set EXCEPT !.digits = Digits(l) - adjust]
        w == decApplyRound(decCopyFit(l, workset), workset)
    IN  CASE adjust <= 0 -> Done(decShiftToMost(l, -adjust), {})
          [] adjust > 0 /\ w.dn.e <= e -> [w EXCEPT !.residue = 0]
          [] adjust > 0 /\ w.dn.e > e -> Done(decShiftToMost(w.dn, 1), w.status)

\* A number other than zero, brought to the exponent e.
Rescaled(l, e, set) ==
    LET adjust == e - l.e
        workset == [set EXCEPT !.digits = Digits(l) - adjust]
        w == decApplyRound(decCopyFit(l, workset), workset)
    IN  CASE adjust <= 0 -> Done(decShiftToMost(l, -adjust), {})
          [] adjust > 0 /\ w.dn.e <= e -> [w EXCEPT !.residue = 0]
          [] adjust > 0 /\ w.dn.e > e ->      \* 99.. has become 100..
                IF Digits(w.dn) = set.digits THEN InvalidOperation
                ELSE Done(decShiftToMost(w.dn, 1), w.status)

\* A number that is too large now does not fit; no underflow is reported.
Quantized(w, set) ==
    IF IsNaN(w.dn) \/ w.dn.e > set.emax - Digits(w.dn) + 1
    THEN Done(QuietNaN(FALSE), w.status \cup {"Invalid operation"})
    ELSE [decFinalize(w, set) EXCEPT !.status = @ \ {"Underflow"}]

decQuantizeOp(l, r, set) ==
    LET etiny == set.emin - (set.digits - 1)
        w == IF ISZERO(l) THEN Done([l EXCEPT !.e = r.e], {}) ELSE Rescaled(l, r.e, set)
        fits == ISZERO(l) \/ Digits(l) - (r.e - l.e) <= set.digits
    IN  CASE IsNaN(l) \/ IsNaN(r) -> decNaNs(l, r)
          [] ~IsNaN(l) /\ ~IsNaN(r) /\ (IsInfinite(l) \/ IsInfinite(r)) ->
                IF IsInfinite(l) /\ IsInfinite(r) THEN Done(l, {}) ELSE InvalidOperation
          [] IsFinite(l) /\ IsFinite(r) ->
                IF r.e < etiny \/ r.e > set.emax \/ ~fits THEN InvalidOperation
                ELSE Quantized(w, set)

decNumberQuantize(x, y, set) == decStatus(decQuantizeOp(x, y, set))

\* Mutant: the precision of the context limits the integer.
decNumberToIntegralExact_Limited(x, set) ==
    IF IsNaN(x) THEN decStatus(decNaN(x))
    ELSE IF x.e >= 0 THEN Result(x, {})
    ELSE decNumberQuantize(x, decNumberZero, set)

\* The working context is a copy of the whole context, the conditions raised
\* by earlier operations included: what comes back is all of them together.
decNumberToIntegralExact(x, set) ==
    LET workset == [set EXCEPT !.digits = Digits(x)]
        q == decNumberQuantize(x, decNumberZero, workset)
    IN  CASE IsNaN(x) -> decStatus(decNaN(x))
          [] IsInfinite(x) \/ (IsFinite(x) /\ x.e >= 0) -> Result(x, {})
          [] IsFinite(x) /\ x.e < 0 -> decStatus(Done(q.value, workset.status \cup q.raised))

decNumberToIntegralValue(x, set) ==
    LET exact == decNumberToIntegralExact(x, set)
    IN  Result(exact.value, exact.raised \cap {"Invalid operation"})

(***************************************************************************)
(* Comparison, maximum and minimum.                                        *)
(***************************************************************************)
Sgn(n) == IF n > 0 THEN 1 ELSE IF n < 0 THEN -1 ELSE 0

\* Mutant: too eager to tell by the lengths.
decUnitCompare_Eager(a, b, exp) ==
    IF exp # 0 /\ D2U(decGetDigits(a)) < D2U(decGetDigits(b)) + D2U(exp) THEN -1
    ELSE Sgn(a - b * powers[exp])

\* a against b times 10^exp.  Lengths in units decide if they are far enough
\* apart.
decUnitCompare(a, b, exp) ==
    LET alength == D2U(decGetDigits(a))
        blength == D2U(decGetDigits(b)) + D2U(exp)
    IN  CASE exp # 0 /\ alength > blength -> 1
          [] exp # 0 /\ alength + 1 < blength -> -1
          [] OTHER -> Sgn(a - b * powers[exp])

Signum(x) == IF ISZERO(x) THEN 0 ELSE IF x.neg THEN -1 ELSE 1

\* decCompare: -1, 0 or 1, of two numbers that are no NaNs.
decCompare(x, y, abs) ==
    LET l == IF abs THEN [x EXCEPT !.neg = FALSE] ELSE x
        r == IF abs THEN [y EXCEPT !.neg = FALSE] ELSE y
        sign == Signum(l)
    IN  CASE sign # Signum(r) -> Sgn(sign - Signum(r))
          [] sign = Signum(r) /\ sign = 0 -> 0
          [] sign = Signum(r) /\ sign # 0 /\ (IsInfinite(l) \/ IsInfinite(r)) ->
                IF IsInfinite(r) THEN IF IsInfinite(l) THEN 0 ELSE -sign ELSE sign
          [] sign = Signum(r) /\ sign # 0 /\ IsFinite(l) /\ IsFinite(r) ->
                IF l.e > r.e THEN -sign * decUnitCompare(r.c, l.c, l.e - r.e)
                             ELSE sign * decUnitCompare(l.c, r.c, r.e - l.e)

\* Mutant: equal numbers are not told apart.
TieBreak_First(l, r) == 1

\* Which of two equal numbers is the larger: by sign, then by exponent.
TieBreak(l, r) ==
    CASE l.neg # r.neg -> IF l.neg THEN -1 ELSE 1
      [] l.neg /\ r.neg -> IF l.e < r.e THEN 1 ELSE -1
      [] ~l.neg /\ ~r.neg -> IF l.e > r.e THEN 1 ELSE -1

decCompareOp(op, l, r, set) ==
    LET order == decCompare(l, r, op \in {"MAXMAG", "MINMAG"})
        larger == IF order = 0 THEN TieBreak(l, r) ELSE order
        lwins == IF op \in {"MIN", "MINMAG"} THEN larger < 0 ELSE larger > 0
        quiet == op # "COMPARE" /\ "sNaN" \notin {l.kind, r.kind} /\ ~(IsNaN(l) /\ IsNaN(r))
        Chosen(x) == decFinish(decCopyFit(x, set), set)
    IN  CASE (IsNaN(l) \/ IsNaN(r)) /\ ~quiet -> decNaNs(l, r)
          [] (IsNaN(l) \/ IsNaN(r)) /\ quiet -> Chosen(IF IsNaN(l) THEN r ELSE l)
          [] ~IsNaN(l) /\ ~IsNaN(r) ->
                IF op = "COMPARE" THEN Done(Number(order < 0, IF order = 0 THEN 0 ELSE 1, 0), {})
                ELSE Chosen(IF lwins THEN l ELSE r)

decNumberCompare(x, y, set) == decStatus(decCompareOp("COMPARE", x, y, set))
decNumberMax(x, y, set) == decStatus(decCompareOp("MAX", x, y, set))
decNumberMin(x, y, set) == decStatus(decCompareOp("MIN", x, y, set))
decNumberMaxMag(x, y, set) == decStatus(decCompareOp("MAXMAG", x, y, set))
decNumberMinMag(x, y, set) == decStatus(decCompareOp("MINMAG", x, y, set))

(***************************************************************************)
(* Trailing zeros and exponents.                                           *)
(***************************************************************************)
\* decTrim: drop the trailing zeros; unless all, only those of a fraction
\* (with a positive exponent all of them count as such).
decTrim(x, all) ==
    LET limit == IF all \/ x.e > 0 THEN Digits(x) - 1
                 ELSE IF -x.e < Digits(x) - 1 THEN -x.e ELSE Digits(x) - 1
        drop == CHOOSE n \in 0 .. limit :
                    /\ x.c % powers[n] = 0
                    /\ n = limit \/ x.c % powers[n + 1] # 0
    IN  CASE ~IsFinite(x) -> x
          [] ISZERO(x) -> [x EXCEPT !.e = 0]
          [] IsFinite(x) /\ ~ISZERO(x) -> [x EXCEPT !.c = @ \div powers[drop], !.e = @ + drop]

decNumberReduce(x, set) ==
    LET w == decFinish(decCopyFit(x, set), set)
    IN  IF IsNaN(x) THEN decStatus(decNaN(x)) ELSE decStatus([w EXCEPT !.dn = decTrim(@, TRUE)])

decNumberFromInt32(n) == Number(n < 0, IF n < 0 THEN -n ELSE n, 0)

decNumberLogB(x, set) ==
    LET ae == decNumberFromInt32(x.e + Digits(x) - 1)
    IN  CASE IsNaN(x) -> decStatus(decNaN(x))
          [] IsInfinite(x) -> Result(Infinite(FALSE), {})
          [] ISZERO(x) -> Result(Infinite(TRUE), {"Division by zero"})
          [] IsFinite(x) /\ ~ISZERO(x) ->
                IF set.digits >= 10 THEN Result(ae, {}) ELSE decNumberPlus(ae, set)

\* decGetInt, of an operand with exponent 0: ten digits are too big, except for
\* the smallest exponents.
decGetInt(x) == IF x.neg THEN -x.c ELSE x.c
TooBig(x) == x.c > IF x.neg THEN 2 * DECNUMMAXE - 1 ELSE DECNUMMAXE

\* What ScaleB, Shift and Rotate ask of their operands, an integer of magnitude
\* at most max, and r, what they return for such a one.
WithInteger(x, y, max, r) ==
    CASE IsNaN(x) \/ IsNaN(y) -> decStatus(decNaNs(x, y))
      [] ~IsNaN(x) /\ ~IsNaN(y) ->
            IF IsInfinite(y) \/ y.e # 0 \/ TooBig(y) \/ y.c > max
            THEN decStatus(InvalidOperation)
            ELSE IF IsInfinite(x) THEN Result(x, {}) ELSE r

INT_MAX == 2147483647

\* Mutant: the sum wraps.
ScaledExponent_Wraps(e, n) ==
    IF e < 0 /\ n < (-INT_MAX - e) - 1 THEN (e + INT_MAX) + (n + INT_MAX) + 2 ELSE e + n

\* The sum of two ints; where it would wrap, an exponent out of any range.
ScaledExponent(e, n) ==
    CASE e >= 0 /\ n >= 0 /\ n > INT_MAX - e -> DECNUMMAXE + 1
      [] e < 0 /\ n < 0 /\ n < (-INT_MAX - e) - 1 -> DEC_MIN_EMIN - DECNUMMAXE
      [] OTHER -> e + n

decNumberScaleB(x, y, set) ==
    LET scaled == [x EXCEPT !.e = ScaledExponent(@, decGetInt(y))]
    IN  WithInteger(x, y, 2 * (set.digits + set.emax),
                    decStatus(decFinalize(Done(scaled, {}), set)))

(***************************************************************************)
(* Operations on the digits of a coefficient.                              *)
(***************************************************************************)
decDecap(c, drop) == IF drop >= decGetDigits(c) THEN 0 ELSE c % powers[decGetDigits(c) - drop]

Shifted(c, n, set) ==
    LET excess == decGetDigits(c) + n - set.digits
    IN  CASE n = set.digits \/ -n >= decGetDigits(c) -> 0
          [] n >= 0 /\ n < set.digits ->
                (IF excess > 0 /\ n # 0 THEN decDecap(c, excess) ELSE c) * powers[n]
          [] n < 0 /\ -n < decGetDigits(c) -> c \div powers[-n]

decNumberShift(x, y, set) ==
    WithInteger(x, y, set.digits, Result([x EXCEPT !.c = Shifted(@, decGetInt(y), set)], {}))

\* The units of a coefficient, the least first, and the coefficient of units.
Units(c, n) == [i \in 1 .. n |-> (c \div powers[DECDPUN * (i - 1)]) % powers[DECDPUN]]
Coefficient(u) == FoldRight(LAMBDA unit, c : c * powers[DECDPUN] + unit, u, 0)

\* Mutant: the digits shifted out are put back one place too low.
RotateRight_OffByOne(c, n, digits) ==
    LET shift == n % DECDPUN
    IN  c \div powers[shift] + (c % powers[shift]) * powers[digits - shift - 1]

\* To the right by n places: first by less than a unit, with the digits shifted
\* out put back on the left; then by whole units, with three reversals, after
\* the units that move have filled up the first one.
RotateRight(c, n, digits) ==
    LET shift == n % DECDPUN
        units == n \div DECDPUN
        aligned == c \div powers[shift] + (c % powers[shift]) * powers[digits - shift]
        pad == D2U(digits) * DECDPUN - digits
        moved == aligned % powers[DECDPUN * units]
        filled == (aligned - moved) + moved \div powers[pad]
                     + (moved % powers[pad]) * powers[digits]
        u == Units(filled, D2U(digits))
        left == SubSeq(u, units + 1, D2U(digits))
        right == SubSeq(u, 1, units)
    IN  IF units > 0 THEN Coefficient(Reverse(Reverse(right) \o Reverse(left))) ELSE aligned

decNumberRotate(x, y, set) ==
    LET rotate == IF y.neg THEN set.digits - y.c ELSE y.c
        low == x.c % powers[set.digits]
        rotated == RotateRight(low, set.digits - rotate, set.digits)
    IN  WithInteger(x, y, set.digits,
                    IF rotate \in {0, set.digits} THEN Result(x, {})
                    ELSE Result([x EXCEPT !.c = rotated], {}))

DigitOf(c, i) == (c \div powers[i]) % 10

\* The logical operations, digit by digit on the operands' last digits, each with
\* its truth table.
Logical(x, y, set, bit) ==
    LET places == 0 .. set.digits - 1
        valid == /\ \A n \in {x, y} : IsFinite(n) /\ ~n.neg /\ n.e = 0
                 /\ \A n \in {x, y}, i \in places : DigitOf(n.c, i) \in {0, 1}
        Sum(c, i) == c + bit[DigitOf(x.c, i), DigitOf(y.c, i)] * powers[i]
    IN  IF ~valid THEN decStatus(InvalidOperation)
        ELSE Result(Number(FALSE, FoldLeft(Sum, 0, [i \in 1 .. set.digits |-> i - 1]), 0), {})

decNumberAnd(x, y, set) == Logical(x, y, set, [a, b \in 0 .. 1 |-> a * b])
decNumberOr(x, y, set) == Logical(x, y, set, [a, b \in 0 .. 1 |-> IF a + b > 0 THEN 1 ELSE 0])
decNumberXor(x, y, set) == Logical(x, y, set, [a, b \in 0 .. 1 |-> (a + b) % 2])
decNumberInvert(x, set) == Logical(x, x, set, [a, b \in 0 .. 1 |-> 1 - a])

(***************************************************************************)
(* Tests, integers and texts.                                              *)
(***************************************************************************)
decNumberSameQuantum(x, y) ==
    \/ IsNaN(x) /\ IsNaN(y)
    \/ IsInfinite(x) /\ IsInfinite(y)
    \/ IsFinite(x) /\ IsFinite(y) /\ x.e = y.e

decNumberIsNormal(x, set) ==
    IsFinite(x) /\ ~ISZERO(x) /\ x.e + Digits(x) - 1 >= set.emin

decNumberIsSubnormal(x, set) ==
    IsFinite(x) /\ ~ISZERO(x) /\ x.e + Digits(x) - 1 < set.emin

decNumberTrim(x) == decTrim(x, FALSE)

\* An integer that fits 32 bits; the exponent must be 0.
decNumberToInt32(x) ==
    LET hi == x.c \div 10
        lo == x.c % 10
        fits == hi < INT_MAX \div 10 \/ (hi = INT_MAX \div 10 /\ lo <= IF x.neg THEN 8 ELSE 7)
    IN  IF IsFinite(x) /\ x.e = 0 /\ fits
        THEN Result(x, {}) ELSE Result(decNumberZero, {"Invalid operation"})

(***************************************************************************)
(* A text of a number: its sign, the number c its digits spell, how many   *)
(* digits follow the point, and its explicit exponent e.                   *)
(***************************************************************************)
NumberText(neg, c, fraction, e) == [neg |-> neg, c |-> c, fraction |-> fraction, e |-> e]

\* An exponent that would not fit an int is a certain overflow or underflow.
TextExponent(text) ==
    LET limit == 2 * (DECNUMMAXE + 1)
        certain == 2 * DECNUMMAXE
    IN  CASE text.e >= limit -> certain
          [] text.e <= -limit -> -certain
          [] OTHER -> text.e

decNumberFromString(text, set) ==
    LET dn == Number(text.neg, text.c, TextExponent(text) - text.fraction)
        inside == dn.e >= set.emin - Digits(dn) + 1 /\ dn.e <= set.emax - set.digits + 1
    IN  CASE Digits(dn) > set.digits -> decStatus(decFinalize(decCopyFit(dn, set), set))
          [] Digits(dn) <= set.digits /\ ~inside -> decStatus(decFinalize(Done(dn, {}), set))
          [] Digits(dn) <= set.digits /\ inside -> Result(dn, {})
=============================================================================
