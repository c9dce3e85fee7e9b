------------------------ MODULE DecInfinite_proofs -------------------------
(***************************************************************************)
(* Facts about the operators of the mantissa, for coefficients of every    *)
(* length.                                                                 *)
(***************************************************************************)
EXTENDS DecInfinite, DecUnits_proofs, WellFoundedInduction, TLAPS

\* A coefficient of n units that is not zero.
Coefficients(n) == { c \in [1 .. n -> Unit] : \E i \in 1 .. n : c[i] # 0 }

FiniteNumbers(n) ==
    [kind : {"finite"}, neg : BOOLEAN, exponent : Int, digits : Nat, lsu : Coefficients(n)]

(***************************************************************************)
(* QUOT10 divides every unit exactly by the powers of ten that             *)
(* decShiftToMost uses it with, although it multiplies by a reciprocal     *)
(* that is rounded and shifts the product.                                 *)
(***************************************************************************)
THEOREM QuotientExact ==
    \A u \in Unit : QUOT10(u, 1) = u \div 10 /\ QUOT10(u, 2) = u \div 100
<1> SUFFICES ASSUME NEW u \in Unit
             PROVE  QUOT10(u, 1) = u \div 10 /\ QUOT10(u, 2) = u \div 100
    OBVIOUS
<1>1. /\ Pow2[1 + 1] = 2 /\ Pow2[2 + 1] = 4
      /\ multies[1 + 1] = 26215 /\ multies[2 + 1] = 5243
    BY DEF Pow2, multies
<1>2. ((u \div 2) * 26215) \div 131072 = u \div 10
    BY DEF Unit
<1>3. ((u \div 4) * 5243) \div 131072 = u \div 100
    BY DEF Unit
<1> QED
    BY <1>1, <1>2, <1>3 DEF QUOT10

(***************************************************************************)
(* Every set of naturals that is not empty has a least element, and Min is *)
(* it.                                                                     *)
(***************************************************************************)
LEMMA MinIsLeast ==
    ASSUME NEW S \in SUBSET Nat, S # {}
    PROVE  Min(S) \in S /\ \A i \in S : Min(S) <= i
<1>1. PICK m \in S : \A i \in S : <<i, m>> \notin OpToRel(<, Nat)
    BY NatLessThanWellFounded, WFMin
<1>2. \A i \in S : m <= i
  <2> SUFFICES ASSUME NEW i \in S, i < m PROVE FALSE
      OBVIOUS
  <2>1. <<i, m>> \in Nat \X Nat
      OBVIOUS
  <2>2. <<i, m>> \in OpToRel(<, Nat)
      BY <2>1 DEF OpToRel
  <2> QED
      BY <1>1, <2>2
<1> QED
    BY <1>2 DEF Min

\* The units of the complement, where k is the least significant unit that is
\* not zero.
Complement(c, k) ==
    [i \in DOMAIN c |-> IF i < k THEN 0 ELSE IF i = k THEN 1000 - c[i] ELSE 999 - c[i]]

LeastNonzero(c) == Min({ i \in DOMAIN c : c[i] # 0 })

LEMMA LeastNonzeroUnit ==
    ASSUME NEW n \in Nat, NEW c \in Coefficients(n)
    PROVE  /\ LeastNonzero(c) \in 1 .. n
           /\ c[LeastNonzero(c)] # 0
           /\ \A i \in 1 .. n : c[i] # 0 => LeastNonzero(c) <= i
<1> DEFINE S == { i \in DOMAIN c : c[i] # 0 }
<1>1. S \in SUBSET Nat /\ S # {} /\ DOMAIN c = 1 .. n
    BY DEF Coefficients
<1> HIDE DEF S
<1>2. Min(S) \in S /\ \A i \in S : Min(S) <= i
    BY <1>1, MinIsLeast
<1> QED
    BY <1>1, <1>2 DEF LeastNonzero, S

LEMMA ComplementUnits ==
    ASSUME NEW n \in Nat, NEW c \in Coefficients(n)
    PROVE  /\ Complement(c, LeastNonzero(c)) \in Coefficients(n)
           /\ LeastNonzero(Complement(c, LeastNonzero(c))) = LeastNonzero(c)
<1> DEFINE k == LeastNonzero(c)
           d == Complement(c, k)
<1>1. k \in 1 .. n /\ c[k] # 0 /\ \A i \in 1 .. n : c[i] # 0 => k <= i
    BY LeastNonzeroUnit
<1>2. c \in [1 .. n -> Unit]
    BY DEF Coefficients
<1> HIDE DEF k
<1>a. d = [i \in 1 .. n |-> IF i < k THEN 0 ELSE IF i = k THEN 1000 - c[i] ELSE 999 - c[i]]
    BY <1>2 DEF Complement
<1> HIDE DEF d
<1>b. ASSUME NEW i \in 1 .. n
      PROVE  d[i] \in Unit /\ (i < k => d[i] = 0) /\ (i = k => d[i] # 0)
  <2>1. PICK u \in Unit : u = c[i]
      BY <1>2
  <2>2. k \in Int /\ (i = k => u # 0)
      BY <1>1, <2>1
  <2>3. d[i] = IF i < k THEN 0 ELSE IF i = k THEN 1000 - u ELSE 999 - u
      BY <1>a, <2>1
  <2>4. PICK w : w = d[i]
      OBVIOUS
  <2>5. w \in Unit /\ (i < k => w = 0) /\ (i = k => w # 0)
    <3>1. 0 \in Unit /\ 999 - u \in Unit /\ (u # 0 => 1000 - u \in Unit /\ 1000 - u # 0)
        BY ComplementOfUnit
    <3> QED
        BY <2>2, <2>3, <2>4, <3>1
  <2> QED
      BY <2>4, <2>5
<1>3. d \in [1 .. n -> Unit]
    BY <1>a, <1>b
<1>4. d[k] # 0 /\ \A i \in 1 .. n : i < k => d[i] = 0
    BY <1>1, <1>b
<1>5. d \in Coefficients(n)
    BY <1>1, <1>3, <1>4 DEF Coefficients
<1>6. /\ LeastNonzero(d) \in 1 .. n /\ d[LeastNonzero(d)] # 0
      /\ \A i \in 1 .. n : d[i] # 0 => LeastNonzero(d) <= i
    BY <1>5, LeastNonzeroUnit
<1>7. LeastNonzero(d) = k
    BY <1>1, <1>4, <1>6
<1> QED
    BY <1>5, <1>7 DEF d, k

LEMMA ComplementTwice ==
    ASSUME NEW n \in Nat, NEW c \in Coefficients(n)
    PROVE  LET k == LeastNonzero(c) IN Complement(Complement(c, k), k) = c
<1> DEFINE k == LeastNonzero(c)
           d == Complement(c, k)
           e == Complement(d, k)
<1>1. k \in 1 .. n /\ \A i \in 1 .. n : c[i] # 0 => k <= i
    BY LeastNonzeroUnit
<1>2. c \in [1 .. n -> Unit]
    BY DEF Coefficients
<1> HIDE DEF k
<1>3. d = [i \in 1 .. n |-> IF i < k THEN 0 ELSE IF i = k THEN 1000 - c[i] ELSE 999 - c[i]]
    BY <1>2 DEF Complement
<1> HIDE DEF d
<1>4. e = [i \in 1 .. n |-> IF i < k THEN 0 ELSE IF i = k THEN 1000 - d[i] ELSE 999 - d[i]]
    BY <1>3 DEF Complement
<1> HIDE DEF e
<1>5. ASSUME NEW i \in 1 .. n PROVE e[i] = c[i]
  <2>1. PICK u \in Unit : u = c[i]
      BY <1>2
  <2>2. k \in Int /\ u \in Int /\ (i < k => u = 0)
    <3>1. k \in Int /\ u \in Int
        BY <1>1 DEF Unit
    <3>2. u # 0 => k <= i
        BY <1>1, <2>1
    <3> QED
        BY <3>1, <3>2
  <2>3. d[i] = IF i < k THEN 0 ELSE IF i = k THEN 1000 - u ELSE 999 - u
      BY <1>3, <2>1
  <2>4. e[i] = IF i < k THEN 0 ELSE IF i = k THEN 1000 - (1000 - u) ELSE 999 - (999 - u)
      BY <1>4, <2>3
  <2>5. e[i] = u
      BY <2>2, <2>4
  <2> QED
      BY <2>1, <2>5
<1>6. e = c
    BY <1>2, <1>4, <1>5
<1> QED
    BY <1>6 DEF d, e, k

LEMMA ComplementOfNumber ==
    ASSUME NEW n \in Nat, NEW x \in FiniteNumbers(n)
    PROVE  /\ x.lsu \in Coefficients(n)
           /\ decInfiniteComplementMantissa(x)
                  = [x EXCEPT !.lsu = Complement(x.lsu, LeastNonzero(x.lsu))]
<1> DEFINE k == LeastNonzero(x.lsu)
           unit(i) == CASE i < k -> 0 [] i = k -> 1000 - x.lsu[i] [] i > k -> 999 - x.lsu[i]
<1>1. x.lsu \in Coefficients(n)
    BY DEF FiniteNumbers
<1>2. k \in 1 .. n /\ DOMAIN x.lsu = 1 .. n
    BY <1>1, LeastNonzeroUnit DEF Coefficients
<1>3. decInfiniteComplementMantissa(x) = [x EXCEPT !.lsu = [i \in DOMAIN x.lsu |-> unit(i)]]
    BY DEF decInfiniteComplementMantissa, LeastNonzero
<1> HIDE DEF k
<1>4. \A i \in 1 .. n :
          unit(i) = IF i < k THEN 0 ELSE IF i = k THEN 1000 - x.lsu[i] ELSE 999 - x.lsu[i]
    BY <1>2
<1>5. [i \in DOMAIN x.lsu |-> unit(i)] = Complement(x.lsu, k)
    BY <1>2, <1>4 DEF Complement
<1> QED
    BY <1>1, <1>3, <1>5 DEF k

(***************************************************************************)
(* decInfiniteComplementMantissa undoes itself, on coefficients of every   *)
(* length: decInfiniteUnpackMantissa gets back the units that              *)
(* decInfiniteFromNumber complemented, and each of them is a unit.         *)
(***************************************************************************)
THEOREM ComplementInverse ==
    ASSUME NEW n \in Nat, NEW x \in FiniteNumbers(n)
    PROVE  /\ decInfiniteComplementMantissa(x) \in FiniteNumbers(n)
           /\ decInfiniteComplementMantissa(decInfiniteComplementMantissa(x)) = x
<1> DEFINE c == x.lsu
           k == LeastNonzero(c)
           d == Complement(c, k)
           y == [x EXCEPT !.lsu = d]
<1>1. c \in Coefficients(n) /\ decInfiniteComplementMantissa(x) = y
    BY ComplementOfNumber
<1>2. d \in Coefficients(n) /\ LeastNonzero(d) = k /\ Complement(d, k) = c
    BY <1>1, ComplementUnits, ComplementTwice
<1> HIDE DEF d, k
<1>3. y \in FiniteNumbers(n) /\ y.lsu = d
    BY <1>2 DEF FiniteNumbers
<1>4. [y EXCEPT !.lsu = c] = x
    BY DEF FiniteNumbers
<1> HIDE DEF y, c
<1>5. decInfiniteComplementMantissa(y) = [y EXCEPT !.lsu = c]
    BY <1>2, <1>3, ComplementOfNumber
<1> QED
    BY <1>1, <1>3, <1>4, <1>5

LEMMA ShiftOfUnits ==
    ASSUME NEW n \in Nat \ {0}, NEW c \in [1 .. n -> Unit]
    PROVE  /\ [i \in DOMAIN c |-> shiftUnit(c, 1, i)] = Shifted(c, n, 10, 100)
           /\ [i \in DOMAIN c |-> shiftUnit(c, 2, i)] = Shifted(c, n, 100, 10)
<1>1. Len(c) = n /\ DOMAIN c = 1 .. n
    OBVIOUS
<1>2. Pow10[1 + 1] = 10 /\ Pow10[2 + 1] = 100 /\ 3 - 1 = 2 /\ 3 - 2 = 1
    BY DEF Pow10
<1>3. ASSUME NEW i \in 1 .. n
      PROVE  /\ QUOT10(c[i], 2) = c[i] \div 100 /\ QUOT10(c[i], 1) = c[i] \div 10
             /\ i # 1 => /\ QUOT10(c[i - 1], 2) = c[i - 1] \div 100
                         /\ QUOT10(c[i - 1], 1) = c[i - 1] \div 10
  <2>1. c[i] \in Unit
      OBVIOUS
  <2>2. i # 1 => c[i - 1] \in Unit
    <3>1. i # 1 => i - 1 \in 1 .. n
        OBVIOUS
    <3> QED
        BY <3>1
  <2> QED
      BY <2>1, <2>2, QuotientExact
<1>4. ASSUME NEW i \in 1 .. n
      PROVE  shiftUnit(c, 1, i) = Shifted(c, n, 10, 100)[i]
    BY <1>1, <1>2, <1>3 DEF shiftUnit, Shifted
<1>5. ASSUME NEW i \in 1 .. n
      PROVE  shiftUnit(c, 2, i) = Shifted(c, n, 100, 10)[i]
    BY <1>1, <1>2, <1>3 DEF shiftUnit, Shifted
<1> QED
    BY <1>1, <1>4, <1>5 DEF Shifted

LEMMA ShiftByCases ==
    ASSUME NEW m \in NonzeroUnits
    PROVE  /\ m > 99 => ShiftBy(m) = 0
           /\ m \in 10 .. 99 => ShiftBy(m) = 1
           /\ m \in 1 .. 9 => ShiftBy(m) = 2
BY DEF ShiftBy, NonzeroUnits

LEMMA ShiftOfNumber ==
    ASSUME NEW n \in Nat \ {0}, NEW x \in FiniteNumbers(n), NEW s \in 1 .. 2,
           ShiftBy(x.lsu[n]) = s
    PROVE  /\ decShiftToMost(x).lsu = [i \in DOMAIN x.lsu |-> shiftUnit(x.lsu, s, i)]
           /\ decShiftToMost(x).digits = x.digits + s
<1>1. Len(x.lsu) = n
    BY DEF FiniteNumbers, Coefficients
<1>2. ShiftBy(x.lsu[Len(x.lsu)]) # 0
    BY <1>1
<1>3. decShiftToMost(x) = [x EXCEPT !.digits = @ + s,
                                    !.lsu = [i \in DOMAIN x.lsu |-> shiftUnit(x.lsu, s, i)]]
    BY <1>1, <1>2, Zenon DEF decShiftToMost
<1>4. DOMAIN x = {"kind", "neg", "exponent", "digits", "lsu"}
    BY DEF FiniteNumbers
<1> QED
    BY <1>3, <1>4, Zenon

\* The numbers whose most significant unit is not zero.
Normal(n) == { x \in FiniteNumbers(n) : x.lsu[n] # 0 }

(***************************************************************************)
(* decShiftToMost multiplies the coefficient by 1, 10 or 100, whatever its *)
(* length, adds as many digits, and leaves three digits in the most        *)
(* significant unit.                                                       *)
(***************************************************************************)
THEOREM ShiftAligns ==
    ASSUME NEW n \in Nat \ {0}, NEW x \in Normal(n)
    PROVE  \E s \in 0 .. 2, q \in [0 .. n -> Unit] :
              /\ ShiftedBy(x.lsu, decShiftToMost(x).lsu, n, Pow10[s + 1], q)
              /\ decShiftToMost(x).digits = x.digits + s
<1> DEFINE c == x.lsu
           m == c[n]
<1>1. x \in FiniteNumbers(n) /\ m # 0
    BY DEF Normal
<1>2. c \in [1 .. n -> Unit] /\ x.digits \in Nat
    BY <1>1 DEF FiniteNumbers, Coefficients
<1>3. Len(c) = n /\ DOMAIN c = 1 .. n /\ m \in Unit
    BY <1>2
<1> HIDE DEF m
<1>4. m \in NonzeroUnits
    BY <1>1, <1>3, NonzeroUnit
<1>5. Pow10[0 + 1] = 1 /\ Pow10[1 + 1] = 10 /\ Pow10[2 + 1] = 100
    BY DEF Pow10
<1>6. CASE m > 99
  <2>1. ShiftBy(m) = 0
      BY <1>4, <1>6, ShiftByCases
  <2>2. decShiftToMost(x) = x
      BY <1>3, <2>1, Zenon DEF decShiftToMost, m
  <2>3. [i \in 0 .. n |-> 0] \in [0 .. n -> Unit]
      BY DEF Unit
  <2>4. x.digits = x.digits + 0
      BY <1>2
  <2>5. ShiftedBy(c, c, n, Pow10[0 + 1], [i \in 0 .. n |-> 0])
      BY <1>2, <1>5, <1>6, NoShift DEF m
  <2> QED
      BY <2>2, <2>3, <2>4, <2>5
<1>7. CASE m \in 10 .. 99
  <2>1. ShiftBy(m) = 1
      BY <1>4, <1>7, ShiftByCases
  <2>2. /\ decShiftToMost(x).lsu = Shifted(c, n, 10, 100)
        /\ decShiftToMost(x).digits = x.digits + 1
    <3>1. ShiftBy(x.lsu[n]) = 1 /\ 1 \in 1 .. 2
        BY <2>1 DEF m
    <3>2. /\ decShiftToMost(x).lsu = [i \in DOMAIN x.lsu |-> shiftUnit(x.lsu, 1, i)]
          /\ decShiftToMost(x).digits = x.digits + 1
        BY <1>1, <3>1, ShiftOfNumber
    <3> QED
        BY <1>2, <3>2, ShiftOfUnits
  <2>3. ShiftedBy(c, Shifted(c, n, 10, 100), n, 10, Carries(c, n, 100))
      BY <1>2, <1>7, ShiftMultiplies DEF m
  <2>4. Carries(c, n, 100) \in [0 .. n -> Unit]
      BY <1>2, CarriesAreUnits
  <2> QED
      BY <1>5, <2>2, <2>3, <2>4
<1>8. CASE m \in 1 .. 9
  <2>1. ShiftBy(m) = 2
      BY <1>4, <1>8, ShiftByCases
  <2>2. /\ decShiftToMost(x).lsu = Shifted(c, n, 100, 10)
        /\ decShiftToMost(x).digits = x.digits + 2
    <3>1. ShiftBy(x.lsu[n]) = 2 /\ 2 \in 1 .. 2
        BY <2>1 DEF m
    <3>2. /\ decShiftToMost(x).lsu = [i \in DOMAIN x.lsu |-> shiftUnit(x.lsu, 2, i)]
          /\ decShiftToMost(x).digits = x.digits + 2
        BY <1>1, <3>1, ShiftOfNumber
    <3> QED
        BY <1>2, <3>2, ShiftOfUnits
  <2>3. ShiftedBy(c, Shifted(c, n, 100, 10), n, 100, Carries(c, n, 10))
      BY <1>2, <1>8, ShiftMultiplies DEF m
  <2>4. Carries(c, n, 10) \in [0 .. n -> Unit]
      BY <1>2, CarriesAreUnits
  <2> QED
      BY <1>5, <2>2, <2>3, <2>4
<1>9. m > 99 \/ m \in 10 .. 99 \/ m \in 1 .. 9
    BY <1>4 DEF NonzeroUnits
<1> QED
    BY <1>6, <1>7, <1>8, <1>9, Zenon
=============================================================================
