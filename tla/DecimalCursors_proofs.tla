----------------------- MODULE DecimalCursors_proofs ------------------------
(***************************************************************************)
(* Proofs about DecimalCursors: what one scan of a virtual table reads     *)
(* while flags come and go, for every set of flags that do and any number  *)
(* of scans.                                                               *)
(*                                                                         *)
(* The row number of a cursor means nothing by itself.  The invariant ties *)
(* it to the place of a flag: the flags that are still to be read are      *)
(* those counted after the row number, and the ones that were read and are *)
(* still set are counted up to it.                                         *)
(***************************************************************************)
EXTENDS DecimalCursors, FiniteSetTheorems, WellFoundedInduction, TLAPS

InRow == phase \in {"row", "read"}

\* How many flags of the table the scan has passed.
Passed == IF phase = "read" THEN row + 1 ELSE row

\* SQLite's loop: xFilter comes first, and a row is read only after xEof has
\* said that it is there.  It may be gone when it is read, but only if a flag
\* was cleared in between.
LoopInv ==
    /\ phase = "open" => row = 0 /\ scans = 0
    /\ phase \in {"row", "read", "eof"} => scans > 0
    /\ InRow => row < IF vtab = "Context" THEN 1 ELSE FLAGS_MAX
    /\ InRow /\ ~ cleared => ~ xEof(vtab, row)
    /\ phase # "read" => here = {}
    /\ NULL \notin owed

\* Nothing here changes the only row of decContext.
ContextInv ==
    vtab = "Context" =>
        /\ InRow => fresh = {decimalContextColumn} /\ owed \subseteq {decimalContextColumn}
        /\ phase = "read" => owed = {}
        /\ phase = "eof" /\ scans = 1 => owed = {}

\* A flag that is owed is set, and still ahead of the cursor.
NoneSkipped ==
    vtab # "Context" /\ scans = 1
        => \A i \in 1 .. FLAGS_MAX : extended_flags[i] \in owed =>
              /\ phase # "eof"
              /\ extended_flags[i] \in TableFlags(vtab)
              /\ CountSet(TableFlags(vtab), i) > Passed

\* The flags ahead of the cursor were there at first and not read in earlier
\* rows; what was read of this row is not counted after it.
NoneRepeated ==
    vtab # "Context" /\ InRow /\ ~ raised
        => \A i \in 1 .. FLAGS_MAX : extended_flags[i] \in TableFlags(vtab) =>
              /\ CountSet(TableFlags(vtab), i) > row => extended_flags[i] \in fresh
              /\ extended_flags[i] \in here => CountSet(TableFlags(vtab), i) <= row + 1

IInv ==
    /\ TypeOK
    /\ NullOnlyIfCleared
    /\ ClearingRepeatsNothing
    /\ LoopInv
    /\ ContextInv
    /\ NoneSkipped
    /\ NoneRepeated

-----------------------------------------------------------------------------
(***************************************************************************)
(* Lemmas about the loop of decimalGetFlag and decimalGetTrap.             *)
(***************************************************************************)

\* The flags the loop has counted are finitely many.
LEMMA CountFinite ==
    ASSUME NEW S, NEW i \in 0 .. FLAGS_MAX
    PROVE  IsFiniteSet({ j \in 1 .. i : extended_flags[j] \in S })
<1>1. 1 \in Int /\ i \in Int
  BY DEF FLAGS_MAX
<1>2. IsFiniteSet(1 .. i)
  BY <1>1, FS_Interval
<1> QED
  BY <1>2, FS_Subset

LEMMA CountType ==
    ASSUME NEW S, NEW i \in 0 .. FLAGS_MAX
    PROVE  CountSet(S, i) \in Nat
BY CountFinite, FS_CardinalityType DEF CountSet

\* Before the first flag nothing is counted.
LEMMA CountZero ==
    ASSUME NEW S
    PROVE  CountSet(S, 0) = 0
<1>1. { j \in 1 .. 0 : extended_flags[j] \in S } = {}
  OBVIOUS
<1> QED
  BY <1>1, FS_EmptySet DEF CountSet

\* One step of the loop counts the flag it looks at, if it is set.
LEMMA CountStep ==
    ASSUME NEW S, NEW i \in 1 .. FLAGS_MAX
    PROVE  CountSet(S, i) = CountSet(S, i - 1) + IF extended_flags[i] \in S THEN 1 ELSE 0
<1> DEFINE T(k) == { j \in 1 .. k : extended_flags[j] \in S }
<1>0. i - 1 \in 0 .. FLAGS_MAX
  BY DEF FLAGS_MAX
<1>1. IsFiniteSet(T(i - 1))
  BY <1>0, CountFinite
<1>2. CASE extended_flags[i] \in S
  <2>1. T(i) = T(i - 1) \cup {i} /\ i \notin T(i - 1)
    BY <1>2 DEF FLAGS_MAX
  <2>2. Cardinality(T(i)) = Cardinality(T(i - 1)) + 1
    BY <1>1, <2>1, FS_AddElement
  <2> QED
    BY <1>2, <2>2 DEF CountSet
<1>3. CASE extended_flags[i] \notin S
  <2>1. T(i) = T(i - 1)
    BY <1>3 DEF FLAGS_MAX
  <2>2. CountSet(S, i) = CountSet(S, i - 1)
    BY <2>1 DEF CountSet
  <2> QED
    BY <1>0, <1>3, <2>2, CountType
<1> QED
  BY <1>2, <1>3

\* The loop counts more as it goes on, and more in a larger set.
LEMMA CountMonotone ==
    ASSUME NEW S, NEW T, S \cap Flags \subseteq T,
           NEW i \in 0 .. FLAGS_MAX, NEW k \in i .. FLAGS_MAX
    PROVE  CountSet(S, i) <= CountSet(T, k)
<1> DEFINE A == { j \in 1 .. i : extended_flags[j] \in S }
           B == { j \in 1 .. k : extended_flags[j] \in T }
<1>1. A \subseteq B
  BY DEF Flags, FLAGS_MAX
<1>2. k \in 0 .. FLAGS_MAX
  BY DEF FLAGS_MAX
<1>3. IsFiniteSet(B)
  BY <1>2, CountFinite
<1>4. Cardinality(A) <= Cardinality(B)
  BY <1>1, <1>3, FS_Subset
<1> QED
  BY <1>4 DEF CountSet

\* At most one flag is counted per step.
LEMMA CountAtMost ==
    ASSUME NEW S, NEW i \in 0 .. FLAGS_MAX
    PROVE  CountSet(S, i) <= i
<1>1. i \in Nat
  BY DEF FLAGS_MAX
<1>2. IsFiniteSet(1 .. i) /\ Cardinality(1 .. i) = i
  BY <1>1, FS_Interval
<1>3. Cardinality({ j \in 1 .. i : extended_flags[j] \in S }) <= Cardinality(1 .. i)
  BY <1>2, FS_Subset
<1> QED
  BY <1>2, <1>3 DEF CountSet

\* Two flags that are set are never counted at the same number.
LEMMA CountInjective ==
    ASSUME NEW S, NEW i \in 1 .. FLAGS_MAX, NEW k \in 1 .. FLAGS_MAX,
           extended_flags[i] \in S, extended_flags[k] \in S, CountSet(S, i) = CountSet(S, k)
    PROVE  i = k
<1>1. ASSUME NEW a \in 1 .. FLAGS_MAX, NEW b \in 1 .. FLAGS_MAX, a < b, extended_flags[b] \in S
      PROVE  CountSet(S, a) < CountSet(S, b)
  <2>1. a \in 0 .. FLAGS_MAX /\ b - 1 \in 0 .. FLAGS_MAX /\ b - 1 \in a .. FLAGS_MAX
    BY <1>1 DEF FLAGS_MAX
  <2>2. CountSet(S, a) <= CountSet(S, b - 1)
    BY <2>1, CountMonotone
  <2>3. CountSet(S, b) = CountSet(S, b - 1) + 1
    BY <1>1, CountStep
  <2> QED
    BY <2>1, <2>2, <2>3, CountType
<1>2. i \in 0 .. FLAGS_MAX /\ k \in 0 .. FLAGS_MAX
  BY DEF FLAGS_MAX
<1>3. CountSet(S, i) \in Nat /\ CountSet(S, k) \in Nat
  BY <1>2, CountType
<1> QED
  BY <1>1, <1>3 DEF FLAGS_MAX

\* The names of the table are different.
LEMMA FlagsDiffer ==
    ASSUME NEW i \in 1 .. FLAGS_MAX, NEW k \in 1 .. FLAGS_MAX,
           extended_flags[i] = extended_flags[k]
    PROVE  i = k
<1>1. /\ extended_flags[1] = "Clamped"
      /\ extended_flags[2] = "Conversion syntax"
      /\ extended_flags[3] = "Division by zero"
      /\ extended_flags[4] = "Division impossible"
      /\ extended_flags[5] = "Division undefined"
      /\ extended_flags[6] = "Inexact result"
      /\ extended_flags[7] = "Out of memory"
      /\ extended_flags[8] = "Invalid context"
      /\ extended_flags[9] = "Invalid operation"
      /\ extended_flags[10] = "Overflow"
      /\ extended_flags[11] = "Rounded result"
      /\ extended_flags[12] = "Subnormal"
      /\ extended_flags[13] = "Underflow"
  BY DEF extended_flags
<1>2. \A j \in 1 .. FLAGS_MAX :
         \/ j = 1 \/ j = 2 \/ j = 3 \/ j = 4 \/ j = 5 \/ j = 6 \/ j = 7
         \/ j = 8 \/ j = 9 \/ j = 10 \/ j = 11 \/ j = 12 \/ j = 13
  BY DEF FLAGS_MAX
<1> HIDE DEF extended_flags
<1>3. CASE i = 1
  BY <1>1, <1>2, <1>3
<1>4. CASE i = 2
  BY <1>1, <1>2, <1>4
<1>5. CASE i = 3
  BY <1>1, <1>2, <1>5
<1>6. CASE i = 4
  BY <1>1, <1>2, <1>6
<1>7. CASE i = 5
  BY <1>1, <1>2, <1>7
<1>8. CASE i = 6
  BY <1>1, <1>2, <1>8
<1>9. CASE i = 7
  BY <1>1, <1>2, <1>9
<1>10. CASE i = 8
  BY <1>1, <1>2, <1>10
<1>11. CASE i = 9
  BY <1>1, <1>2, <1>11
<1>12. CASE i = 10
  BY <1>1, <1>2, <1>12
<1>13. CASE i = 11
  BY <1>1, <1>2, <1>13
<1>14. CASE i = 12
  BY <1>1, <1>2, <1>14
<1>15. CASE i = 13
  BY <1>1, <1>2, <1>15
<1> QED
  BY <1>2, <1>3, <1>4, <1>5, <1>6, <1>7, <1>8, <1>9, <1>10, <1>11, <1>12, <1>13, <1>14, <1>15

\* A set of places has a least one.
LEMMA LeastPlace ==
    ASSUME NEW T, T \subseteq 0 .. FLAGS_MAX, T # {}
    PROVE  \E m \in T : \A j \in T : m <= j
<1>1. T \subseteq Nat
  BY DEF FLAGS_MAX
<1>2. PICK m \in T : \A j \in T : <<j, m>> \notin OpToRel(<, Nat)
  BY <1>1, NatLessThanWellFounded, WFMin
<1>3. ASSUME NEW j \in T, j < m
      PROVE  FALSE
  <2>1. <<j, m>> \in Nat \X Nat
    BY <1>1
  <2>2. <<j, m>> \in OpToRel(<, Nat)
    BY <1>3, <2>1 DEF OpToRel
  <2> QED
    BY <1>2, <2>2
<1> QED
  BY <1>1, <1>3

\* If more than n flags are set, the loop ends at a flag that is set and
\* has n set flags before it; otherwise it runs to its end.
LEMMA NthSetIs ==
    ASSUME NEW S, NEW n \in Nat
    PROVE  /\ n < CountSet(S, FLAGS_MAX) =>
                 \E i \in 1 .. FLAGS_MAX : /\ extended_flags[i] \in S
                                           /\ CountSet(S, i) = n + 1
                                           /\ NthSet(S, n) = extended_flags[i]
           /\ n >= CountSet(S, FLAGS_MAX) => NthSet(S, n) = NULL
<1>1. ASSUME n < CountSet(S, FLAGS_MAX)
      PROVE  \E i \in 1 .. FLAGS_MAX : /\ extended_flags[i] \in S
                                       /\ CountSet(S, i) = n + 1
                                       /\ NthSet(S, n) = extended_flags[i]
  <2> DEFINE T == { i \in 0 .. FLAGS_MAX : CountSet(S, i) >= n + 1 }
  <2>1. FLAGS_MAX \in T
    BY <1>1, CountType DEF FLAGS_MAX
  <2>2. PICK m \in T : \A j \in T : m <= j
    BY <2>1, LeastPlace
  <2>3. m \in 1 .. FLAGS_MAX
    BY <2>2, CountZero DEF FLAGS_MAX
  <2>4. m - 1 \in 0 .. FLAGS_MAX /\ m \in 0 .. FLAGS_MAX
    BY <2>3 DEF FLAGS_MAX
  <2>5. CountSet(S, m - 1) < n + 1
    BY <2>2, <2>4, CountType
  <2>6. extended_flags[m] \in S /\ CountSet(S, m) = n + 1
    BY <2>2, <2>3, <2>4, <2>5, CountStep, CountType
  <2>7. m \in Hits(S, n) /\ \A j \in Hits(S, n) : m <= j
    BY <2>2, <2>3, <2>6 DEF Hits, FLAGS_MAX
  <2>8. Hits(S, n) \subseteq Int
    BY DEF Hits
  <2>9. Min(Hits(S, n)) = m
    BY <2>7, <2>8 DEF Min
  <2> QED
    BY <2>3, <2>6, <2>7, <2>9 DEF NthSet
<1>2. ASSUME n >= CountSet(S, FLAGS_MAX)
      PROVE  NthSet(S, n) = NULL
  <2>1. ASSUME NEW i \in 1 .. FLAGS_MAX
        PROVE  CountSet(S, i) # n + 1
    <3>1. CountSet(S, i) <= CountSet(S, FLAGS_MAX)
      BY CountMonotone DEF FLAGS_MAX
    <3> QED
      BY <1>2, <3>1, CountType DEF FLAGS_MAX
  <2> QED
    BY <2>1 DEF NthSet, Hits
<1> QED
  BY <1>1, <1>2

\* The end of a table of flags is where the flags are counted out.
LEMMA NthSetNull ==
    ASSUME NEW S \in SUBSET Flags, NEW n \in Nat
    PROVE  NthSet(S, n) = NULL <=> n >= CountSet(S, FLAGS_MAX)
<1>1. FLAGS_MAX \in 0 .. FLAGS_MAX
  BY DEF FLAGS_MAX
<1>2. CountSet(S, FLAGS_MAX) \in Nat
  BY <1>1, CountType
<1> QED
  BY <1>2, NthSetIs, NullAssumption

\* Both tables of flags are read in the same way.
LEMMA FlagTable ==
    ASSUME TypeOK, vtab # "Context"
    PROVE  /\ TableFlags(vtab) \in SUBSET Flags
           /\ Rows(vtab) = TableFlags(vtab)
           /\ Values(vtab) = Flags \cup {NULL}
           /\ \A n : /\ xEof(vtab, n) <=> NthSet(TableFlags(vtab), n) = NULL
                     /\ xColumn(vtab, n) = NthSet(TableFlags(vtab), n)
<1>1. vtab = "Status" \/ vtab = "Traps"
  BY DEF TypeOK, VTabs
<1> QED
  BY <1>1 DEF TypeOK, Contexts, TableFlags, Rows, Values, xEof, xColumn, decimalStatusEof,
     decimalTrapsEof, decimalStatusColumn, decimalTrapsColumn, decimalGetFlag, decimalGetTrap

\* A row that is there is one of at most as many as there are flags.
LEMMA RowBelow ==
    ASSUME TypeOK, vtab # "Context", NEW n \in Nat, ~ xEof(vtab, n)
    PROVE  n < CountSet(TableFlags(vtab), FLAGS_MAX) /\ n < FLAGS_MAX
<1> DEFINE S == TableFlags(vtab)
<1>1. S \in SUBSET Flags /\ NthSet(S, n) # NULL
  BY FlagTable
<1>2. ~ (n >= CountSet(S, FLAGS_MAX))
  BY <1>1, NthSetNull
<1>3. CountSet(S, FLAGS_MAX) \in Nat /\ CountSet(S, FLAGS_MAX) <= FLAGS_MAX
  BY CountType, CountAtMost DEF FLAGS_MAX
<1> QED
  BY <1>2, <1>3 DEF FLAGS_MAX

LEMMA ContextTable ==
    ASSUME TypeOK, vtab = "Context"
    PROVE  /\ Rows(vtab) = {decimalContextColumn}
           /\ Values(vtab) = ContextValues
           /\ decimalContextColumn \in ContextValues
           /\ \A n : /\ xEof(vtab, n) <=> n = 1
                     /\ xColumn(vtab, n) = decimalContextColumn
BY DEF TypeOK, Contexts, Rows, Values, ContextValues, xEof, xColumn, decimalContextEof,
   decimalContextColumn

-----------------------------------------------------------------------------
(***************************************************************************)
(* The invariant holds at first and every action keeps it.                 *)
(***************************************************************************)
LEMMA InitIInv == Init => IInv
<1> SUFFICES ASSUME Init PROVE IInv
  OBVIOUS
<1>1. PICK s, t \in SUBSET ScanFlags :
         decCtx = [initDefaultContext EXCEPT !.status = s, !.traps = t]
  BY DEF Init
<1>2. decCtx = [digits |-> DECNUMDIGITS, emax |-> DEC_MAX_EMAX, emin |-> -DEC_MAX_EMAX,
                round |-> "ROUND_HALF_UP", status |-> s, traps |-> t]
  BY <1>1 DEF initDefaultContext
<1>3. decCtx \in Contexts
  BY <1>2, ScanFlagsAssumption, DigitsAssumption, ExponentAssumption DEF Contexts, rounding_mode
<1>4. HistoryOK
  BY DEF Init, HistoryOK
<1>5. TypeOK
  BY <1>3, <1>4, ScanFlagsAssumption DEF Init, TypeOK, VTabs
<1> QED
  BY <1>5 DEF Init, IInv, NullOnlyIfCleared, ClearingRepeatsNothing, LoopInv, ContextInv,
     NoneSkipped, NoneRepeated, InRow

LEMMA OpenIInv ==
    ASSUME IInv, NEW v \in VTabs, Open(v)
    PROVE  IInv'
<1>1. HistoryOK'
  BY DEF Open, NewHistory, HistoryOK
<1>2. TypeOK'
  BY <1>1, ScanFlagsAssumption DEF IInv, TypeOK, Open, NewHistory, FLAGS_MAX
<1> QED
  BY <1>2 DEF Open, NewHistory, IInv, NullOnlyIfCleared, ClearingRepeatsNothing, LoopInv,
     ContextInv, NoneSkipped, NoneRepeated, InRow

LEMMA CloseIInv ==
    ASSUME IInv, decCtx' \in Contexts, Closed
    PROVE  IInv'
<1>1. HistoryOK'
  BY DEF Closed, NewHistory, HistoryOK
<1>2. TypeOK'
  BY <1>1, ScanFlagsAssumption DEF IInv, TypeOK, Closed, NewHistory, VTabs
<1> QED
  BY <1>2 DEF Closed, NewHistory, IInv, NullOnlyIfCleared, ClearingRepeatsNothing, LoopInv,
     ContextInv, NoneSkipped, NoneRepeated, InRow

\* xFilter does not touch the row number: only the first scan starts at 0.
LEMMA FilterIInv ==
    ASSUME IInv, Filter
    PROVE  IInv'
<1> USE DEF IInv
<1>1. /\ phase \in {"open", "eof"} /\ scans < MaxScans /\ scans' = scans + 1
      /\ phase' = IF xEof(vtab, row) THEN "eof" ELSE "row"
      /\ owed' = Rows(vtab) /\ fresh' = Rows(vtab) /\ here' = {}
      /\ raised' = FALSE /\ wrong' = FALSE /\ cleared' = FALSE
      /\ decCtx' = decCtx /\ vtab' = vtab /\ row' = row
  BY DEF Filter, NewHistory
<1>2. /\ TableFlags(vtab)' = TableFlags(vtab) /\ decimalContextColumn' = decimalContextColumn
      /\ xEof(vtab, row)' = xEof(vtab, row) /\ Values(vtab)' = Values(vtab)
  BY <1>1 DEF TableFlags, decimalContextColumn, xEof, Values, decimalStatusEof, decimalTrapsEof,
     decimalGetFlag, decimalGetTrap, decimalContextEof
<1>3. \A r \in Rows(vtab) : r \in Values(vtab)
  BY FlagTable, ContextTable
<1>4. TypeOK'
  <2>1. HistoryOK'
    BY <1>1 DEF HistoryOK
  <2> QED
    BY <1>1, <1>2, <1>3, <2>1, ScanFlagsAssumption DEF TypeOK
<1>5. scans' > 0 /\ (scans' = 1 => phase = "open" /\ row = 0)
  BY <1>1 DEF TypeOK, LoopInv
<1>6. NullOnlyIfCleared' /\ ClearingRepeatsNothing'
  BY <1>1 DEF NullOnlyIfCleared, ClearingRepeatsNothing
<1>7. LoopInv'
  <2>1. NULL \notin Rows(vtab)
    BY FlagTable, ContextTable, NullAssumption
  <2>2. ASSUME phase' = "row" PROVE row < IF vtab = "Context" THEN 1 ELSE FLAGS_MAX
    <3>1. CASE vtab = "Context"
      BY <1>1, <2>2, <3>1, ContextTable DEF TypeOK
    <3>2. CASE vtab # "Context"
      BY <1>1, <2>2, <3>2, RowBelow DEF TypeOK, FLAGS_MAX
    <3> QED
      BY <3>1, <3>2
  <2> QED
    BY <1>1, <1>2, <1>5, <2>1, <2>2 DEF LoopInv, InRow
<1>8. ContextInv'
  BY <1>1, <1>2, <1>5, ContextTable DEF ContextInv, InRow
<1>9. ASSUME vtab # "Context"
      PROVE  NoneSkipped' /\ NoneRepeated'
  <2> DEFINE S == TableFlags(vtab)
  <2>1. S \in SUBSET Flags /\ owed' = S /\ fresh' = S /\ phase' \in {"row", "eof"}
    BY <1>1, <1>9, FlagTable
  <2>2. \A i \in 1 .. FLAGS_MAX : extended_flags[i] \in S => CountSet(S, i) > 0
    <3> SUFFICES ASSUME NEW i \in 1 .. FLAGS_MAX, extended_flags[i] \in S
                 PROVE  CountSet(S, i) > 0
      OBVIOUS
    <3>1. i - 1 \in 0 .. FLAGS_MAX
      BY DEF FLAGS_MAX
    <3> QED
      BY <3>1, CountStep, CountType
  <2>3. ASSUME scans' = 1, NEW i \in 1 .. FLAGS_MAX, extended_flags[i] \in S
        PROVE  phase' # "eof"
    <3> SUFFICES ASSUME phase' = "eof" PROVE FALSE
      OBVIOUS
    <3>1. 0 >= CountSet(S, FLAGS_MAX)
      BY <1>1, <1>5, <1>9, <2>1, <2>3, FlagTable, NthSetNull
    <3>2. CountSet(S, i) <= CountSet(S, FLAGS_MAX)
      BY CountMonotone DEF FLAGS_MAX
    <3>3. i \in 0 .. FLAGS_MAX /\ FLAGS_MAX \in 0 .. FLAGS_MAX
      BY DEF FLAGS_MAX
    <3> QED
      BY <2>2, <2>3, <3>1, <3>2, <3>3, CountType
  <2>4. scans' = 1 => Passed' = 0
    BY <1>1, <1>5, <2>1 DEF Passed
  <2> HIDE DEF S
  <2>5. NoneSkipped'
    BY <1>1, <1>2, <2>1, <2>2, <2>3, <2>4 DEF NoneSkipped, S
  <2>6. NoneRepeated'
    BY <1>1, <1>2, <2>1 DEF NoneRepeated, S
  <2> QED
    BY <2>5, <2>6
<1>10. NoneSkipped' /\ NoneRepeated'
  BY <1>1, <1>9 DEF NoneSkipped, NoneRepeated
<1> QED
  BY <1>4, <1>6, <1>7, <1>8, <1>10

\* xNext: the flag that was read is now behind the cursor.  At the end of the
\* table no flag is counted after the row number.
LEMMA NextRowIInv ==
    ASSUME IInv, NextRow
    PROVE  IInv'
<1> USE DEF IInv
<1>1. /\ phase = "read" /\ row' = row + 1
      /\ phase' = IF xEof(vtab, row + 1) THEN "eof" ELSE "row"
      /\ fresh' = fresh \ here /\ here' = {} /\ cleared' = FALSE
      /\ decCtx' = decCtx /\ vtab' = vtab /\ scans' = scans
      /\ owed' = owed /\ raised' = raised /\ wrong' = wrong
  BY DEF NextRow
<1>2. /\ TableFlags(vtab)' = TableFlags(vtab) /\ decimalContextColumn' = decimalContextColumn
      /\ xEof(vtab, row)' = xEof(vtab, row + 1) /\ Values(vtab)' = Values(vtab)
  BY <1>1 DEF TableFlags, decimalContextColumn, xEof, Values, decimalStatusEof, decimalTrapsEof,
     decimalGetFlag, decimalGetTrap, decimalContextEof
<1>3. row \in Nat /\ (vtab = "Context" => row = 0 /\ phase' = "eof")
  BY <1>1, ContextTable DEF TypeOK, LoopInv, InRow, FLAGS_MAX
<1>4. TypeOK'
  <2>1. HistoryOK
    BY DEF TypeOK
  <2>2. HistoryOK'
    BY <1>1, <2>1 DEF HistoryOK
  <2> QED
    BY <1>1, <1>2, <2>2 DEF TypeOK, LoopInv, InRow, FLAGS_MAX
<1>5. NullOnlyIfCleared' /\ ClearingRepeatsNothing'
  BY <1>1 DEF NullOnlyIfCleared, ClearingRepeatsNothing
<1>6. LoopInv'
  <2>1. ASSUME phase' = "row" PROVE vtab # "Context" /\ row + 1 < FLAGS_MAX
    <3>1. vtab # "Context" /\ ~ xEof(vtab, row + 1)
      BY <1>1, <1>3, <2>1
    <3> QED
      BY <1>3, <3>1, RowBelow
  <2> QED
    BY <1>1, <1>2, <2>1 DEF LoopInv, InRow
<1>7. ContextInv'
  BY <1>1, <1>2, <1>3 DEF ContextInv, InRow
<1>8. Passed' = Passed /\ Passed = row + 1
  BY <1>1 DEF Passed
<1>9. NoneSkipped'
  <2> SUFFICES ASSUME vtab # "Context", scans = 1,
                      NEW i \in 1 .. FLAGS_MAX, extended_flags[i] \in owed
               PROVE  /\ phase' # "eof"
                      /\ extended_flags[i] \in TableFlags(vtab)
                      /\ CountSet(TableFlags(vtab), i) > Passed
    BY <1>1, <1>2, <1>8 DEF NoneSkipped
  <2> DEFINE S == TableFlags(vtab)
  <2>1. extended_flags[i] \in S /\ CountSet(S, i) > Passed
    BY DEF NoneSkipped
  <2>2. S \in SUBSET Flags
    BY FlagTable
  <2>3. CountSet(S, i) <= CountSet(S, FLAGS_MAX)
    BY CountMonotone DEF FLAGS_MAX
  <2>4. CountSet(S, i) \in Nat /\ CountSet(S, FLAGS_MAX) \in Nat
    BY CountType DEF FLAGS_MAX
  <2>5. ~ (row + 1 >= CountSet(S, FLAGS_MAX))
    BY <1>3, <1>8, <2>1, <2>3, <2>4
  <2>6. ~ xEof(vtab, row + 1)
    BY <1>3, <2>2, <2>5, FlagTable, NthSetNull
  <2> QED
    BY <1>1, <2>1, <2>6
<1>10. NoneRepeated'
  <2> SUFFICES ASSUME vtab # "Context", ~ raised,
                      NEW i \in 1 .. FLAGS_MAX, extended_flags[i] \in TableFlags(vtab),
                      CountSet(TableFlags(vtab), i) > row + 1
               PROVE  extended_flags[i] \in fresh \ here
    BY <1>1, <1>2 DEF NoneRepeated
  <2>1. CountSet(TableFlags(vtab), i) \in Nat
    BY CountType DEF FLAGS_MAX
  <2>2. /\ CountSet(TableFlags(vtab), i) > row => extended_flags[i] \in fresh
        /\ extended_flags[i] \in here => CountSet(TableFlags(vtab), i) <= row + 1
    BY <1>1 DEF NoneRepeated, InRow
  <2> QED
    BY <1>3, <2>1, <2>2
<1> QED
  BY <1>4, <1>5, <1>6, <1>7, <1>9, <1>10

\* xColumn: the flag that is read, if there is one, has exactly row flags
\* before it.
LEMMA ColumnIInv ==
    ASSUME IInv, Column
    PROVE  IInv'
<1> USE DEF IInv
<1> DEFINE e == xColumn(vtab, row)
<1>1. /\ InRow /\ phase' = "read"
      /\ owed' = owed \ {e} /\ here' = here \cup {e}
      /\ wrong' = (wrong \/ (~ raised /\ e \notin fresh \cup {NULL}))
      /\ decCtx' = decCtx /\ vtab' = vtab /\ row' = row /\ scans' = scans
      /\ fresh' = fresh /\ raised' = raised /\ cleared' = cleared
  BY DEF Column, cursor, InRow
<1>2. /\ TableFlags(vtab)' = TableFlags(vtab) /\ decimalContextColumn' = decimalContextColumn
      /\ xEof(vtab, row)' = xEof(vtab, row) /\ Values(vtab)' = Values(vtab)
  BY <1>1 DEF TableFlags, decimalContextColumn, xEof, Values, decimalStatusEof, decimalTrapsEof,
     decimalGetFlag, decimalGetTrap, decimalContextEof
<1>3. row \in Nat /\ ~ wrong
  BY DEF TypeOK, FLAGS_MAX, ClearingRepeatsNothing
<1>4. LoopInv' /\ InRow'
  BY <1>1, <1>2 DEF LoopInv, InRow
<1>5. CASE vtab = "Context"
  <2>1. e = decimalContextColumn /\ e \in Values(vtab) /\ e # NULL
    BY <1>5, ContextTable, NullAssumption
  <2>2. fresh = {e} /\ owed \subseteq {e}
    BY <1>1, <1>5, <2>1 DEF ContextInv
  <2> HIDE DEF e
  <2>3. wrong' = FALSE
    BY <1>1, <1>3, <2>2
  <2>4. TypeOK'
    BY <1>1, <1>2, <2>1, <2>3 DEF TypeOK, HistoryOK
  <2>5. NullOnlyIfCleared' /\ ClearingRepeatsNothing'
    BY <1>1, <2>1, <2>3 DEF NullOnlyIfCleared, ClearingRepeatsNothing
  <2>6. ContextInv'
    BY <1>1, <1>2, <1>5, <2>1, <2>2 DEF ContextInv
  <2> QED
    BY <1>1, <1>4, <1>5, <2>4, <2>5, <2>6 DEF NoneSkipped, NoneRepeated
<1>6. CASE vtab # "Context"
  <2> DEFINE S == TableFlags(vtab)
  <2>1. /\ S \in SUBSET Flags /\ Values(vtab) = Flags \cup {NULL} /\ e = NthSet(S, row)
        /\ xEof(vtab, row) <=> e = NULL
    BY <1>6, FlagTable
  <2>2. CountSet(S, FLAGS_MAX) \in Nat /\ \A i \in 1 .. FLAGS_MAX : CountSet(S, i) \in Nat
    BY CountType DEF FLAGS_MAX
  <2>3. e = NULL \/ \E m \in 1 .. FLAGS_MAX : /\ extended_flags[m] \in S
                                               /\ CountSet(S, m) = row + 1
                                               /\ e = extended_flags[m]
    BY <1>3, <2>1, <2>2, NthSetIs, SMTT(20)
  <2>4. e \in Values(vtab) /\ (e = NULL => cleared)
    <3>1. e \in Values(vtab)
      BY <2>1, <2>3
    <3>2. ~ cleared => ~ xEof(vtab, row)
      BY <1>1 DEF LoopInv
    <3> QED
      BY <2>1, <3>1, <3>2
  <2> HIDE DEF e, S
  <2>5. ASSUME ~ raised, e # NULL PROVE e \in fresh
    <3>1. PICK m \in 1 .. FLAGS_MAX : /\ extended_flags[m] \in S
                                      /\ CountSet(S, m) = row + 1
                                      /\ e = extended_flags[m]
      BY <2>3, <2>5
    <3>2. CountSet(S, m) > row
      BY <1>3, <3>1
    <3> QED
      BY <1>1, <1>6, <2>5, <3>1, <3>2 DEF NoneRepeated, S
  <2>6. wrong' = FALSE
    BY <1>1, <1>3, <2>5
  <2>7. TypeOK'
    BY <1>1, <1>2, <2>4, <2>6 DEF TypeOK, HistoryOK
  <2>8. NullOnlyIfCleared' /\ ClearingRepeatsNothing' /\ ContextInv'
    BY <1>1, <1>6, <2>4, <2>6 DEF NullOnlyIfCleared, ClearingRepeatsNothing, ContextInv
  <2>9. Passed \in {row, row + 1} /\ Passed' = row + 1
    BY <1>1 DEF Passed
  <2>10. NoneSkipped'
    <3> SUFFICES ASSUME scans = 1, NEW i \in 1 .. FLAGS_MAX, extended_flags[i] \in owed \ {e}
                 PROVE  extended_flags[i] \in S /\ CountSet(S, i) > row + 1
      BY <1>1, <1>2, <1>6, <2>9 DEF NoneSkipped, S
    <3>1. extended_flags[i] \in S /\ CountSet(S, i) > Passed
      BY <1>6 DEF NoneSkipped, S
    <3>2. ASSUME CountSet(S, i) = row + 1 PROVE FALSE
      <4>1. row < CountSet(S, FLAGS_MAX)
        <5>1. CountSet(S, i) <= CountSet(S, FLAGS_MAX)
          BY CountMonotone DEF FLAGS_MAX
        <5> QED
          BY <1>3, <2>2, <3>2, <5>1
      <4>2. PICK m \in 1 .. FLAGS_MAX : /\ extended_flags[m] \in S
                                        /\ CountSet(S, m) = row + 1
                                        /\ e = extended_flags[m]
        BY <1>3, <2>1, <4>1, NthSetIs DEF S
      <4>3. i = m
        BY <3>1, <3>2, <4>2, CountInjective
      <4> QED
        BY <4>2, <4>3
    <3> QED
      BY <1>3, <2>2, <2>9, <3>1, <3>2
  <2>11. NoneRepeated'
    <3> SUFFICES ASSUME ~ raised, NEW i \in 1 .. FLAGS_MAX, extended_flags[i] \in S
                 PROVE  /\ CountSet(S, i) > row => extended_flags[i] \in fresh
                        /\ extended_flags[i] \in here \cup {e} => CountSet(S, i) <= row + 1
      BY <1>1, <1>2, <1>6 DEF NoneRepeated, S
    <3>1. /\ CountSet(S, i) > row => extended_flags[i] \in fresh
          /\ extended_flags[i] \in here => CountSet(S, i) <= row + 1
      BY <1>1, <1>6 DEF NoneRepeated, S
    <3>2. ASSUME extended_flags[i] = e PROVE CountSet(S, i) <= row + 1
      <4>1. e # NULL
        BY <3>2, NullAssumption DEF Flags
      <4>2. PICK m \in 1 .. FLAGS_MAX : CountSet(S, m) = row + 1 /\ e = extended_flags[m]
        BY <2>3, <4>1
      <4>3. i = m
        BY <3>2, <4>2, FlagsDiffer
      <4> QED
        BY <1>3, <4>2, <4>3
    <3> QED
      BY <3>1, <3>2
  <2> QED
    BY <1>4, <2>7, <2>8, <2>10, <2>11
<1> QED
  BY <1>5, <1>6

\* Flags come and go under the cursor.  More flags move the ones ahead only
\* further ahead, fewer flags move the ones behind only further behind.
LEMMA BecomesIInv ==
    ASSUME IInv, NEW c \in Contexts, Becomes(c),
           /\ c.digits = decCtx.digits /\ c.emax = decCtx.emax
           /\ c.emin = decCtx.emin /\ c.round = decCtx.round
    PROVE  IInv'
<1> USE DEF IInv
<1> DEFINE S == TableFlags(vtab)
           T == TableFlags(vtab)'
           grew == vtab # "Context" /\ T \ S # {}
           shrank == vtab # "Context" /\ S \ T # {}
<1>1. /\ decCtx' = c /\ phase' = phase /\ vtab' = vtab /\ row' = row /\ scans' = scans
      /\ wrong' = wrong /\ here' = here
  BY DEF Becomes, cursor
<1>2. T = IF vtab = "Status" THEN c.status ELSE c.traps
  BY <1>1 DEF TableFlags
<1>3. /\ raised' = (raised \/ grew) /\ fresh' = IF grew THEN {} ELSE fresh
      /\ cleared' = (cleared \/ shrank) /\ owed' = IF shrank THEN {} ELSE owed
  BY <1>2 DEF Becomes, TableFlags
<1>4. S \in SUBSET Flags /\ T \in SUBSET Flags
  BY <1>2 DEF TableFlags, TypeOK, Contexts
<1> HIDE DEF S, T
<1>5. /\ vtab = "Context" => fresh' = fresh /\ owed' = owed /\ cleared' = cleared
      /\ vtab # "Context" /\ ~ raised' => T \subseteq S /\ ~ raised /\ fresh' = fresh
      /\ vtab # "Context" /\ owed' # {} => S \subseteq T /\ owed' = owed
      /\ vtab # "Context" /\ ~ cleared' => S \subseteq T /\ ~ cleared
      /\ cleared => cleared'
      /\ owed' \subseteq owed /\ fresh' \subseteq fresh
  BY <1>3 DEF TypeOK, HistoryOK
<1>6. raised' \in BOOLEAN /\ cleared' \in BOOLEAN
  BY <1>3 DEF TypeOK, HistoryOK
<1> HIDE DEF grew, shrank
<1>7. decimalContextColumn' = decimalContextColumn /\ Values(vtab)' = Values(vtab)
  BY <1>1 DEF decimalContextColumn, Values
<1>8. TypeOK'
  BY <1>1, <1>5, <1>6, <1>7 DEF TypeOK, HistoryOK
<1>9. NullOnlyIfCleared' /\ ClearingRepeatsNothing'
  BY <1>1, <1>5 DEF NullOnlyIfCleared, ClearingRepeatsNothing
<1>10. row \in Nat /\ Passed' = Passed /\ Passed \in Nat
  BY <1>1 DEF TypeOK, Passed, FLAGS_MAX
<1>11. /\ FLAGS_MAX \in 0 .. FLAGS_MAX /\ 1 .. FLAGS_MAX \subseteq 0 .. FLAGS_MAX
       /\ \A i \in 0 .. FLAGS_MAX : CountSet(S, i) \in Nat /\ CountSet(T, i) \in Nat
  BY CountType DEF FLAGS_MAX
<1>12. /\ S \subseteq T => \A i \in 0 .. FLAGS_MAX : CountSet(S, i) <= CountSet(T, i)
       /\ T \subseteq S => \A i \in 0 .. FLAGS_MAX : CountSet(T, i) <= CountSet(S, i)
  BY CountMonotone DEF FLAGS_MAX
<1>13. LoopInv'
  <2>1. ASSUME InRow, ~ cleared' PROVE ~ xEof(vtab, row)'
    <3>1. CASE vtab = "Context"
      BY <1>1, <1>5, <2>1, <3>1 DEF LoopInv, xEof, decimalContextEof
    <3>2. CASE vtab # "Context"
      <4>1. row < CountSet(S, FLAGS_MAX)
        <5>1. ~ xEof(vtab, row)
          BY <1>5, <2>1, <3>2 DEF LoopInv
        <5> QED
          BY <1>10, <3>2, <5>1, RowBelow DEF S
      <4>2. ~ (row >= CountSet(T, FLAGS_MAX))
        BY <1>5, <1>10, <1>11, <1>12, <2>1, <3>2, <4>1
      <4>3. NthSet(T, row) # NULL
        BY <1>4, <1>10, <4>2, NthSetNull
      <4>4. vtab = "Status" \/ vtab = "Traps"
        BY <3>2 DEF TypeOK, VTabs
      <4> QED
        BY <1>1, <1>2, <4>3, <4>4 DEF xEof, decimalStatusEof, decimalTrapsEof, decimalGetFlag,
           decimalGetTrap
    <3> QED
      BY <3>1, <3>2
  <2> QED
    BY <1>1, <1>5, <2>1 DEF LoopInv, InRow
<1>14. ContextInv'
  BY <1>1, <1>5, <1>7 DEF ContextInv, InRow
<1>15. NoneSkipped'
  <2> SUFFICES ASSUME vtab # "Context", scans = 1,
                      NEW i \in 1 .. FLAGS_MAX, extended_flags[i] \in owed'
               PROVE  phase # "eof" /\ extended_flags[i] \in T /\ CountSet(T, i) > Passed
    BY <1>1, <1>10 DEF NoneSkipped, T
  <2>1. phase # "eof" /\ extended_flags[i] \in S /\ CountSet(S, i) > Passed
    BY <1>5 DEF NoneSkipped, S
  <2>2. S \subseteq T
    BY <1>5
  <2> QED
    BY <1>10, <1>11, <1>12, <2>1, <2>2
<1>16. NoneRepeated'
  <2> SUFFICES ASSUME vtab # "Context", InRow, ~ raised',
                      NEW i \in 1 .. FLAGS_MAX, extended_flags[i] \in T
               PROVE  /\ CountSet(T, i) > row => extended_flags[i] \in fresh
                      /\ extended_flags[i] \in here => CountSet(T, i) <= row + 1
    BY <1>1, <1>5 DEF NoneRepeated, T, InRow
  <2>1. T \subseteq S /\ ~ raised
    BY <1>5
  <2>2. /\ CountSet(S, i) > row => extended_flags[i] \in fresh
        /\ extended_flags[i] \in here => CountSet(S, i) <= row + 1
    BY <2>1 DEF NoneRepeated, S
  <2>3. CountSet(T, i) <= CountSet(S, i) /\ CountSet(T, i) \in Nat /\ CountSet(S, i) \in Nat
    BY <1>11, <1>12, <2>1
  <2> QED
    BY <1>10, <2>2, <2>3
<1> QED
  BY <1>8, <1>9, <1>13, <1>14, <1>15, <1>16

\* What the functions of DecContext leave behind: only flags and traps change.
OnlyFlags(c) ==
    /\ c \in Contexts
    /\ c.digits = decCtx.digits /\ c.emax = decCtx.emax
    /\ c.emin = decCtx.emin /\ c.round = decCtx.round

LEMMA EvaluateIInv ==
    ASSUME IInv, NEW f \in ScanFlags, Evaluate(f)
    PROVE  IInv'
<1> DEFINE d == decContextSetStatus(decCtx, {f})
           r == checkStatus(d)
<1>1. decCtx \in Contexts /\ f \in Flags
  BY ScanFlagsAssumption DEF IInv, TypeOK
<1>2. OnlyFlags(d)
  BY <1>1 DEF decContextSetStatus, Contexts, OnlyFlags
<1> HIDE DEF d
<1>3. CASE r.ok
  <2>1. r.ctx = d
    BY <1>3 DEF checkStatus, Success, Failure
  <2>2. Becomes(d)
    BY <1>3, <2>1 DEF Evaluate, d
  <2> QED
    BY <1>2, <2>2, BecomesIInv DEF OnlyFlags
<1>4. CASE ~ r.ok
  <2>1. r.ctx \in Contexts
    BY <1>2 DEF checkStatus, Success, Failure, OnlyFlags, Contexts
  <2>2. decCtx' = r.ctx /\ Closed
    BY <1>4 DEF Evaluate, d
  <2> QED
    BY <2>1, <2>2, CloseIInv
<1> QED
  BY <1>3, <1>4

LEMMA OtherStatementIInv ==
    ASSUME IInv, NEW f \in ScanFlags, OtherStatement(f)
    PROVE  IInv'
<1>1. decCtx \in Contexts /\ f \in Flags
  BY ScanFlagsAssumption DEF IInv, TypeOK, OtherStatement
<1>2. \A c : OnlyFlags(c) /\ Becomes(c) => IInv'
  BY <1>1, BecomesIInv DEF OnlyFlags
<1>3. OnlyFlags(decimalSetFlag(decCtx, f).ctx)
  BY <1>1 DEF OnlyFlags, decimalSetFlag, Success, Contexts
<1>4. OnlyFlags(decimalClearFlag(decCtx, f).ctx)
  BY <1>1 DEF OnlyFlags, decimalClearFlag, Success, Contexts
<1>5. OnlyFlags(decimalSetTrap(decimalClearFlag(decCtx, f).ctx, f).ctx)
  BY <1>1, <1>4 DEF OnlyFlags, decimalSetTrap, Success, Contexts
<1>6. OnlyFlags(decimalClearTrap(decCtx, f).ctx)
  BY <1>1 DEF OnlyFlags, decimalClearTrap, Success, Contexts
<1>7. OnlyFlags(decimalClearStatus(decCtx))
  BY <1>1 DEF OnlyFlags, decimalClearStatus, Contexts
<1>8. OnlyFlags(checkStatus(decContextSetStatus(decCtx, {f})).ctx)
  <2>1. OnlyFlags(decContextSetStatus(decCtx, {f}))
    BY <1>1 DEF OnlyFlags, decContextSetStatus, Contexts
  <2> QED
    BY <2>1 DEF OnlyFlags, checkStatus, Success, Failure, Contexts
<1> QED
  BY <1>2, <1>3, <1>4, <1>5, <1>6, <1>7, <1>8 DEF OtherStatement

LEMMA NextIInv == IInv /\ [Next]_vars => IInv'
<1> SUFFICES ASSUME IInv, [Next]_vars PROVE IInv'
  OBVIOUS
<1>1. ASSUME NEW v \in VTabs, Open(v) PROVE IInv'
  BY <1>1, OpenIInv
<1>2. CASE Filter
  BY <1>2, FilterIInv
<1>3. CASE Column
  BY <1>3, ColumnIInv
<1>4. CASE NextRow
  BY <1>4, NextRowIInv
<1>5. CASE Close
  BY <1>5, CloseIInv DEF Close, IInv, TypeOK
<1>6. ASSUME NEW f \in ScanFlags, Evaluate(f) PROVE IInv'
  BY <1>6, EvaluateIInv
<1>7. ASSUME NEW f \in ScanFlags, OtherStatement(f) PROVE IInv'
  BY <1>7, OtherStatementIInv
<1>8. CASE UNCHANGED vars
  <2>1. UNCHANGED <<decCtx, phase, vtab, row, scans, owed, fresh, raised, wrong, here, cleared>>
    BY <1>8 DEF vars, cursor, history
  <2>2. TypeOK' /\ NullOnlyIfCleared' /\ ClearingRepeatsNothing'
    BY <2>1 DEF IInv, TypeOK, HistoryOK, NullOnlyIfCleared, ClearingRepeatsNothing, Values,
                decimalContextColumn
  <2>3. LoopInv'
    BY <2>1 DEF IInv, LoopInv, InRow, xEof, decimalContextEof, decimalStatusEof, decimalTrapsEof,
                decimalGetFlag, decimalGetTrap
  <2>4. ContextInv'
    BY <2>1 DEF IInv, ContextInv, InRow, decimalContextColumn
  <2>5. NoneSkipped'
    BY <2>1 DEF IInv, NoneSkipped, Passed, TableFlags
  <2>6. NoneRepeated'
    BY <2>1 DEF IInv, NoneRepeated, InRow, TableFlags
  <2> QED
    BY <2>2, <2>3, <2>4, <2>5, <2>6 DEF IInv
<1> QED
  BY <1>1, <1>2, <1>3, <1>4, <1>5, <1>6, <1>7, <1>8 DEF Next

LEMMA IInvHolds == Spec => []IInv
BY InitIInv, NextIInv, PTL DEF Spec

-----------------------------------------------------------------------------
(***************************************************************************)
(* Theorems.                                                               *)
(***************************************************************************)

\* The row number stays within the table, and every value that is read is
\* one of the table's (the cursor methods of decimal.c).
THEOREM TypeCorrect == Spec => []TypeOK
<1>1. IInv => TypeOK
  BY DEF IInv
<1> QED
  BY <1>1, IInvHolds, PTL

\* A row that xEof announced is null in xColumn only if a flag was cleared
\* in between.
THEOREM NullExplained == Spec => []NullOnlyIfCleared
<1>1. IInv => NullOnlyIfCleared
  BY DEF IInv
<1> QED
  BY <1>1, IInvHolds, PTL

\* However many conditions are raised while a table is read, and wherever
\* they are in extended_flags, the first scan misses no row that was there
\* when it started.
THEOREM NothingSkipped == Spec => []RaisingSkipsNothing
<1>1. IInv => RaisingSkipsNothing
  <2> SUFFICES ASSUME IInv, phase = "eof", scans = 1
               PROVE  owed = {}
    BY DEF RaisingSkipsNothing
  <2>1. CASE vtab = "Context"
    BY <2>1 DEF IInv, ContextInv
  <2>2. CASE vtab # "Context"
    <3>1. \A r \in owed : r \in Flags
      <4>1. NULL \notin owed
        BY DEF IInv, LoopInv
      <4> QED
        BY <2>2, <4>1, FlagTable DEF IInv, TypeOK
    <3> QED
      BY <2>2, <3>1 DEF IInv, NoneSkipped, Flags
  <2> QED
    BY <2>1, <2>2
<1> QED
  BY <1>1, IInvHolds, PTL

\* However many flags are cleared while a table is read, and however often
\* its rows are, no scan shows a flag in two rows or one that was not there
\* when it started.
THEOREM NothingRepeated == Spec => []ClearingRepeatsNothing
<1>1. IInv => ClearingRepeatsNothing
  BY DEF IInv
<1> QED
  BY <1>1, IInvHolds, PTL

=============================================================================
