-------------------------- MODULE DecUnits_proofs ---------------------------
(***************************************************************************)
(* The arithmetic of three-digit units under decShiftToMost: a unit is     *)
(* split by a division, its lower part moves up, and the upper part of the *)
(* unit below comes in.  Carried through a coefficient of any length, this *)
(* multiplies it by a power of ten.                                        *)
(***************************************************************************)
EXTENDS Integers, TLAPS

Unit == 0 .. 999
NonzeroUnits == 1 .. 999

\* A unit is an integer with at most three digits.
LEMMA UnitIsInt ==
    ASSUME NEW u \in Unit
    PROVE  u \in Int /\ 0 <= u /\ u <= 999
BY DEF Unit

\* A unit that is not zero has one, two or three digits.
LEMMA NonzeroUnit ==
    ASSUME NEW u \in Unit, u # 0
    PROVE  u \in NonzeroUnits
BY DEF Unit, NonzeroUnits

\* The ten's complement of a unit is a unit: to 999, or to 1000 at the lowest
\* unit that is not zero.
LEMMA ComplementOfUnit ==
    ASSUME NEW u \in Unit
    PROVE  0 \in Unit /\ 999 - u \in Unit /\ (u # 0 => 1000 - u \in Unit /\ 1000 - u # 0)
BY DEF Unit

\* The two parts into which decShiftToMost splits a unit, for a shift by two
\* digits and by one.
LEMMA PartsBy10 ==
    ASSUME NEW u \in Int, 0 <= u, u <= 999
    PROVE  /\ u \div 10 \in Int /\ 0 <= u \div 10 /\ u \div 10 <= 99
           /\ 0 <= u - 10 * (u \div 10) /\ u - 10 * (u \div 10) <= 9
OBVIOUS

LEMMA PartsBy100 ==
    ASSUME NEW u \in Int, 0 <= u, u <= 999
    PROVE  /\ u \div 100 \in Int /\ 0 <= u \div 100 /\ u \div 100 <= 9
           /\ 0 <= u - 100 * (u \div 100) /\ u - 100 * (u \div 100) <= 99
OBVIOUS

\* The lower part of a unit, moved up, leaves room for the upper part of the
\* unit below, and what it loses is the carry.
LEMMA JoinAfter10 ==
    ASSUME NEW u \in Int, NEW a \in Int, NEW b \in Int,
           0 <= b, b <= 99, 0 <= u - 10 * a, u - 10 * a <= 9
    PROVE  /\ (u - 10 * a) * 100 + b \in 0 .. 999
           /\ (u - 10 * a) * 100 + b + 1000 * a = 100 * u + b
OBVIOUS

LEMMA JoinAfter100 ==
    ASSUME NEW u \in Int, NEW a \in Int, NEW b \in Int,
           0 <= b, b <= 9, 0 <= u - 100 * a, u - 100 * a <= 99
    PROVE  /\ (u - 100 * a) * 10 + b \in 0 .. 999
           /\ (u - 100 * a) * 10 + b + 1000 * a = 10 * u + b
OBVIOUS

\* A unit that decShiftToMost shifts by two digits, or by one, is a unit, and
\* with its carry it is 100 times, or 10 times, the unit it was.
LEMMA UnitTimes100 ==
    ASSUME NEW u \in Unit, NEW v \in Unit
    PROVE  /\ (u - 10 * (u \div 10)) * 100 + v \div 10 \in Unit
           /\ (u - 10 * (u \div 10)) * 100 + v \div 10 + 1000 * (u \div 10) = 100 * u + v \div 10
<1> DEFINE a == u \div 10
           b == v \div 10
<1>1. u \in Int /\ 0 <= u /\ u <= 999
    BY UnitIsInt
<1>2. v \in Int /\ 0 <= v /\ v <= 999
    BY UnitIsInt
<1>3. a \in Int /\ 0 <= u - 10 * a /\ u - 10 * a <= 9
    BY <1>1, PartsBy10
<1>4. b \in Int /\ 0 <= b /\ b <= 99
    BY <1>2, PartsBy10
<1> HIDE DEF a, b
<1>5. (u - 10 * a) * 100 + b \in 0 .. 999 /\ (u - 10 * a) * 100 + b + 1000 * a = 100 * u + b
    BY <1>1, <1>3, <1>4, JoinAfter10
<1> QED
    BY <1>5 DEF Unit, a, b

LEMMA UnitTimes10 ==
    ASSUME NEW u \in Unit, NEW v \in Unit
    PROVE  /\ (u - 100 * (u \div 100)) * 10 + v \div 100 \in Unit
           /\ (u - 100 * (u \div 100)) * 10 + v \div 100 + 1000 * (u \div 100) = 10 * u + v \div 100
<1> DEFINE a == u \div 100
           b == v \div 100
<1>1. u \in Int /\ 0 <= u /\ u <= 999
    BY UnitIsInt
<1>2. v \in Int /\ 0 <= v /\ v <= 999
    BY UnitIsInt
<1>3. a \in Int /\ 0 <= u - 100 * a /\ u - 100 * a <= 99
    BY <1>1, PartsBy100
<1>4. b \in Int /\ 0 <= b /\ b <= 9
    BY <1>2, PartsBy100
<1> HIDE DEF a, b
<1>5. (u - 100 * a) * 10 + b \in 0 .. 999 /\ (u - 100 * a) * 10 + b + 1000 * a = 10 * u + b
    BY <1>1, <1>3, <1>4, JoinAfter100
<1> QED
    BY <1>5 DEF Unit, a, b

(***************************************************************************)
(* What decShiftToMost is for: y holds the units of x multiplied by p,     *)
(* where q[i] is the carry out of unit i.  There is none out of the last   *)
(* one, which has three digits.                                            *)
(***************************************************************************)
ShiftedBy(x, y, n, p, q) ==
    /\ q[0] = 0 /\ q[n] = 0
    /\ \A i \in 1 .. n : y[i] \in Unit /\ y[i] + 1000 * q[i] = p * x[i] + q[i - 1]
    /\ y[n] > 99

Carries(x, n, t) == [i \in 0 .. n |-> IF i = 0 \/ i = n THEN 0 ELSE x[i] \div t]

\* The units after a shift by two digits (p = 100, t = 10) or one (10, 100).
Shifted(x, n, p, t) ==
    [i \in 1 .. n |-> (IF i = n THEN x[i] ELSE x[i] - t * (x[i] \div t)) * p
                         + (IF i = 1 THEN 0 ELSE x[i - 1] \div t)]

\* The shifted units are those of the multiplied coefficient.
LEMMA ShiftMultiplies ==
    ASSUME NEW n \in Nat \ {0}, NEW x \in [1 .. n -> Unit], NEW p, NEW t,
           \/ p = 100 /\ t = 10 /\ x[n] \in 1 .. 9
           \/ p = 10 /\ t = 100 /\ x[n] \in 10 .. 99
    PROVE  ShiftedBy(x, Shifted(x, n, p, t), n, p, Carries(x, n, t))
<1> DEFINE y == Shifted(x, n, p, t)
           q == Carries(x, n, t)
<1>1. q[0] = 0 /\ q[n] = 0
    BY DEF Carries
<1>2. ASSUME NEW i \in 1 .. n
      PROVE  /\ y[i] \in Unit /\ y[i] + 1000 * q[i] = p * x[i] + q[i - 1]
             /\ i = n => y[i] > 99
  <2>1. PICK u \in Unit : u = x[i]
      OBVIOUS
  <2>2. PICK v \in Unit : (i = 1 => v = 0) /\ (i # 1 => v = x[i - 1])
    <3>1. CASE i = 1
        BY <3>1 DEF Unit
    <3>2. CASE i # 1
      <4>1. i - 1 \in 1 .. n
          BY <3>2
      <4> QED
          BY <3>2, <4>1
    <3> QED
        BY <3>1, <3>2
  <2>3. 0 \div t = 0
      OBVIOUS
  <2>4. y[i] = (IF i = n THEN u ELSE u - t * (u \div t)) * p + v \div t
    <3>1. y[i] = (IF i = n THEN u ELSE u - t * (u \div t)) * p
                    + (IF i = 1 THEN 0 ELSE x[i - 1] \div t)
        BY <2>1 DEF Shifted
    <3> QED
        BY <2>2, <2>3, <3>1
  <2>5. q[i] = IF i = n THEN 0 ELSE u \div t
      BY <2>1 DEF Carries
  <2>6. q[i - 1] = v \div t
    <3>1. i - 1 \in 0 .. n /\ i - 1 # n
        OBVIOUS
    <3>2. q[i - 1] = IF i - 1 = 0 \/ i - 1 = n THEN 0 ELSE x[i - 1] \div t
        BY <3>1 DEF Carries
    <3> QED
        BY <2>2, <2>3, <3>1, <3>2
  <2>7. PICK w : w = (IF i = n THEN u ELSE u - t * (u \div t)) * p + v \div t
      OBVIOUS
  <2>8. /\ w \in Unit /\ w + 1000 * (IF i = n THEN 0 ELSE u \div t) = p * u + v \div t
        /\ i = n => w > 99
    <3>1. CASE p = 100 /\ t = 10 /\ (i = n => u \in 1 .. 9)
      <4>1. CASE i = n
        <5>1. u \in 1 .. 9
            BY <3>1, <4>1
        <5>2. v \in Int /\ 0 <= v /\ v <= 999
            BY UnitIsInt
        <5>3. PICK b \in Int : b = v \div 10 /\ 0 <= b /\ b <= 99
            BY <5>2, PartsBy10
        <5>4. w = u * 100 + b
            BY <2>7, <3>1, <4>1, <5>3
        <5>5. w \in Unit /\ w > 99 /\ w + 1000 * 0 = 100 * u + b
            BY <5>1, <5>3, <5>4 DEF Unit
        <5> QED
            BY <3>1, <4>1, <5>3, <5>5
      <4>2. CASE i # n
        <5>1. w = (u - 10 * (u \div 10)) * 100 + v \div 10
            BY <2>7, <3>1, <4>2
        <5>2. w \in Unit /\ w + 1000 * (u \div 10) = 100 * u + v \div 10
            BY <5>1, UnitTimes100
        <5> QED
            BY <3>1, <4>2, <5>2
      <4> QED
          BY <4>1, <4>2
    <3>2. CASE p = 10 /\ t = 100 /\ (i = n => u \in 10 .. 99)
      <4>1. CASE i = n
        <5>1. u \in 10 .. 99
            BY <3>2, <4>1
        <5>2. v \in Int /\ 0 <= v /\ v <= 999
            BY UnitIsInt
        <5>3. PICK b \in Int : b = v \div 100 /\ 0 <= b /\ b <= 9
            BY <5>2, PartsBy100
        <5>4. w = u * 10 + b
            BY <2>7, <3>2, <4>1, <5>3
        <5>5. w \in Unit /\ w > 99 /\ w + 1000 * 0 = 10 * u + b
            BY <5>1, <5>3, <5>4 DEF Unit
        <5> QED
            BY <3>2, <4>1, <5>3, <5>5
      <4>2. CASE i # n
        <5>1. w = (u - 100 * (u \div 100)) * 10 + v \div 100
            BY <2>7, <3>2, <4>2
        <5>2. w \in Unit /\ w + 1000 * (u \div 100) = 10 * u + v \div 100
            BY <5>1, UnitTimes10
        <5> QED
            BY <3>2, <4>2, <5>2
      <4> QED
          BY <4>1, <4>2
    <3> QED
        BY <2>1, <3>1, <3>2, Zenon
  <2> QED
      BY <2>1, <2>4, <2>5, <2>6, <2>7, <2>8
<1> QED
    BY <1>1, <1>2 DEF ShiftedBy

\* A coefficient that decShiftToMost leaves alone is multiplied by one.
LEMMA NoShift ==
    ASSUME NEW n \in Nat \ {0}, NEW c \in [1 .. n -> Unit], c[n] > 99
    PROVE  ShiftedBy(c, c, n, 1, [i \in 0 .. n |-> 0])
<1> DEFINE q == [i \in 0 .. n |-> 0]
<1>1. q[0] = 0 /\ q[n] = 0
    OBVIOUS
<1>2. ASSUME NEW i \in 1 .. n
      PROVE  c[i] \in Unit /\ c[i] + 1000 * q[i] = 1 * c[i] + q[i - 1]
  <2>1. PICK u \in Unit : u = c[i]
      OBVIOUS
  <2>2. q[i] = 0 /\ q[i - 1] = 0
      OBVIOUS
  <2>3. u + 1000 * 0 = 1 * u + 0
      BY DEF Unit
  <2> QED
      BY <2>1, <2>2, <2>3
<1> QED
    BY <1>1, <1>2 DEF ShiftedBy

\* The digits that go from one unit to the next are fewer than three.
LEMMA CarriesAreUnits ==
    ASSUME NEW n \in Nat \ {0}, NEW c \in [1 .. n -> Unit], NEW t \in {10, 100}
    PROVE  Carries(c, n, t) \in [0 .. n -> Unit]
<1>1. ASSUME NEW i \in 0 .. n PROVE (IF i = 0 \/ i = n THEN 0 ELSE c[i] \div t) \in Unit
  <2>1. CASE i = 0 \/ i = n
    <3>1. 0 \in Unit
        BY DEF Unit
    <3> QED
        BY <2>1, <3>1
  <2>2. CASE ~(i = 0 \/ i = n)
    <3>1. PICK u \in Unit : u = c[i]
        BY <2>2
    <3>2. u \div 10 \in Unit /\ u \div 100 \in Unit
        BY DEF Unit
    <3> QED
        BY <2>2, <3>1, <3>2
  <2> QED
      BY <2>1, <2>2
<1> QED
    BY <1>1 DEF Carries
=============================================================================
