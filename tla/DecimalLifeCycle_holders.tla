---------------------- MODULE DecimalLifeCycle_holders ----------------------
(***************************************************************************)
(* Lemmas about the operators of DecimalLifeCycle: how many hold a         *)
(* connected table, and what locking and unlocking do to it.               *)
(***************************************************************************)
EXTENDS DecimalLifeCycle, FiniteSetTheorems, TLAPS

(***************************************************************************)
(* Counting the holders of a table.  epo, st and tr stand for pEpoTab,     *)
(* stmt and aVTrans, before a step or after it.                            *)
(***************************************************************************)
LinksOf(epo, i) == { m \in VTabs : epo[m] = i }
CompiledFor(st, i) == { s \in Stmts : st[s] # NULL /\ st[s].vtab = i }
EntriesOf(tr, i) == { k \in 1 .. Len(tr) : tr[k] = i }
Holders(epo, st, tr, i) ==
    Cardinality(LinksOf(epo, i)) + Cardinality(CompiledFor(st, i)) + Cardinality(EntriesOf(tr, i))

EpoMaps == [VTabs -> Addresses \cup {0}]
StmtMaps == [Stmts -> {NULL} \cup Statements]
One(test) == IF test THEN 1 ELSE 0

LEMMA VTabsFinite == IsFiniteSet(VTabs)
<1>1. VTabs = (({} \cup {"Status"}) \cup {"Traps"}) \cup {"Context"}
  BY DEF VTabs
<1> QED
  BY <1>1, FS_EmptySet, FS_AddElement

\* The holders of a table are finite in number, and none if and only if no
\* module, statement or transaction reaches it.
LEMMA HoldersFinite ==
    ASSUME NEW epo \in EpoMaps, NEW st \in StmtMaps, NEW tr \in Seq(Addresses), NEW i
    PROVE  /\ IsFiniteSet(LinksOf(epo, i))
           /\ IsFiniteSet(CompiledFor(st, i))
           /\ IsFiniteSet(EntriesOf(tr, i))
           /\ Cardinality(LinksOf(epo, i)) \in Nat
           /\ Cardinality(CompiledFor(st, i)) \in Nat
           /\ Cardinality(EntriesOf(tr, i)) \in Nat
           /\ Holders(epo, st, tr, i) \in Nat
<1>1. IsFiniteSet(LinksOf(epo, i))
  BY VTabsFinite, FS_Subset DEF LinksOf
<1>2. IsFiniteSet(CompiledFor(st, i))
  BY LifeCycleAssumption, FS_Subset DEF CompiledFor
<1>3. IsFiniteSet(EntriesOf(tr, i))
  <2>1. IsFiniteSet(1 .. Len(tr))
    BY FS_Interval
  <2>2. EntriesOf(tr, i) \in SUBSET (1 .. Len(tr))
    BY DEF EntriesOf
  <2> QED
    BY <2>1, <2>2, FS_Subset
<1> QED
  BY <1>1, <1>2, <1>3, FS_CardinalityType DEF Holders

LEMMA NoHolders ==
    ASSUME NEW epo \in EpoMaps, NEW st \in StmtMaps, NEW tr \in Seq(Addresses), NEW i
    PROVE  Holders(epo, st, tr, i) = 0 <=>
              /\ \A m \in VTabs : epo[m] # i
              /\ \A s \in Stmts : st[s] = NULL \/ st[s].vtab # i
              /\ \A k \in 1 .. Len(tr) : tr[k] # i
<1>1. Holders(epo, st, tr, i) = 0 <=>
         LinksOf(epo, i) = {} /\ CompiledFor(st, i) = {} /\ EntriesOf(tr, i) = {}
  BY HoldersFinite, FS_EmptySet DEF Holders
<1> QED
  BY <1>1 DEF LinksOf, CompiledFor, EntriesOf

LEMMA LinkAdds ==
    ASSUME NEW epo \in EpoMaps, NEW st \in StmtMaps, NEW tr \in Seq(Addresses), NEW i \in Addresses,
           NEW m \in VTabs, epo[m] = 0, NEW e \in EpoMaps, e[m] # 0,
           \A n \in VTabs \ {m} : e[n] = epo[n]
    PROVE  Holders(e, st, tr, i) = IF i = e[m] THEN Holders(epo, st, tr, i) + 1
                                               ELSE Holders(epo, st, tr, i)
<1>1. i # 0
  BY DEF Addresses
<1>2. m \notin LinksOf(epo, i)
  BY <1>1 DEF LinksOf
<1>3. LinksOf(e, i) = IF i = e[m] THEN LinksOf(epo, i) \cup {m} ELSE LinksOf(epo, i)
  BY <1>1 DEF LinksOf, EpoMaps
<1>4. Cardinality(LinksOf(e, i)) = Cardinality(LinksOf(epo, i)) + One(i = e[m])
  <2>1. IsFiniteSet(LinksOf(epo, i))
    BY HoldersFinite
  <2>2. Cardinality(LinksOf(epo, i) \cup {m}) = Cardinality(LinksOf(epo, i)) + 1
    BY <1>2, <2>1, FS_AddElement
  <2>3. Cardinality(LinksOf(epo, i)) \in Nat
    BY HoldersFinite
  <2> QED
    BY <1>3, <2>2, <2>3 DEF One
<1> QED
  BY <1>4, HoldersFinite DEF Holders, One

LEMMA UnlinkSubtracts ==
    ASSUME NEW epo \in EpoMaps, NEW st \in StmtMaps, NEW tr \in Seq(Addresses), NEW i \in Addresses,
           \A m, n \in VTabs : epo[m] = epo[n] /\ epo[m] # 0 => m = n
    PROVE  \A z \in EpoMaps : (\A m \in VTabs : z[m] = 0) =>
              Holders(z, st, tr, i) = IF \E m \in VTabs : epo[m] = i
                                      THEN Holders(epo, st, tr, i) - 1
                                      ELSE Holders(epo, st, tr, i)
<1> SUFFICES ASSUME NEW z \in EpoMaps, \A m \in VTabs : z[m] = 0
             PROVE  Holders(z, st, tr, i) = IF \E m \in VTabs : epo[m] = i
                                            THEN Holders(epo, st, tr, i) - 1
                                            ELSE Holders(epo, st, tr, i)
  OBVIOUS
<1>1. i # 0
  BY DEF Addresses
<1>2. Cardinality(LinksOf(z, i)) = 0
  BY <1>1, FS_EmptySet DEF LinksOf
<1>3. Cardinality(LinksOf(epo, i)) = One(\E m \in VTabs : epo[m] = i)
  <2>1. CASE \E m \in VTabs : epo[m] = i
    <3>1. PICK m \in VTabs : epo[m] = i
      BY <2>1
    <3>2. LinksOf(epo, i) = {m}
      BY <1>1, <3>1 DEF LinksOf
    <3> QED
      BY <2>1, <3>2, FS_Singleton DEF One
  <2>2. CASE ~\E m \in VTabs : epo[m] = i
    BY <2>2, FS_EmptySet DEF LinksOf, One
  <2> QED
    BY <2>1, <2>2
<1> QED
  BY <1>2, <1>3, HoldersFinite DEF Holders, One

LEMMA CompileAdds ==
    ASSUME NEW epo \in EpoMaps, NEW st \in StmtMaps, NEW tr \in Seq(Addresses), NEW i,
           NEW s \in Stmts, st[s] = NULL, NEW t \in StmtMaps, t[s] # NULL,
           \A r \in Stmts \ {s} : t[r] = st[r]
    PROVE  Holders(epo, t, tr, i) = IF t[s].vtab = i THEN Holders(epo, st, tr, i) + 1
                                                     ELSE Holders(epo, st, tr, i)
<1>1. s \notin CompiledFor(st, i)
  BY DEF CompiledFor
<1>2. CompiledFor(t, i) = IF t[s].vtab = i THEN CompiledFor(st, i) \cup {s} ELSE CompiledFor(st, i)
  BY DEF CompiledFor, StmtMaps
<1>3. Cardinality(CompiledFor(t, i)) = Cardinality(CompiledFor(st, i)) + One(t[s].vtab = i)
  <2>1. IsFiniteSet(CompiledFor(st, i))
    BY HoldersFinite
  <2>2. Cardinality(CompiledFor(st, i) \cup {s}) = Cardinality(CompiledFor(st, i)) + 1
    BY <1>1, <2>1, FS_AddElement
  <2>3. Cardinality(CompiledFor(st, i)) \in Nat
    BY HoldersFinite
  <2> QED
    BY <1>2, <2>2, <2>3 DEF One
<1> QED
  BY <1>3, HoldersFinite DEF Holders, One

LEMMA FinalizeSubtracts ==
    ASSUME NEW epo \in EpoMaps, NEW st \in StmtMaps, NEW tr \in Seq(Addresses), NEW i,
           NEW s \in Stmts, st[s] # NULL,
           NEW t \in StmtMaps, t[s] = NULL, \A r \in Stmts \ {s} : t[r] = st[r]
    PROVE  Holders(epo, t, tr, i) = IF st[s].vtab = i THEN Holders(epo, st, tr, i) - 1
                                                      ELSE Holders(epo, st, tr, i)
<1>1. CompiledFor(t, i) = IF st[s].vtab = i THEN CompiledFor(st, i) \ {s} ELSE CompiledFor(st, i)
  BY DEF CompiledFor, StmtMaps
<1>2. st[s].vtab = i => s \in CompiledFor(st, i)
  BY DEF CompiledFor
<1>3. Cardinality(CompiledFor(t, i)) = Cardinality(CompiledFor(st, i)) - One(st[s].vtab = i)
  <2>1. IsFiniteSet(CompiledFor(st, i))
    BY HoldersFinite
  <2>2. st[s].vtab = i =>
           Cardinality(CompiledFor(st, i) \ {s}) = Cardinality(CompiledFor(st, i)) - 1
    BY <1>2, <2>1, FS_RemoveElement
  <2>3. Cardinality(CompiledFor(st, i)) \in Nat
    BY HoldersFinite
  <2> QED
    BY <1>1, <2>2, <2>3 DEF One
<1> QED
  BY <1>3, HoldersFinite DEF Holders, One

LEMMA BeginAdds ==
    ASSUME NEW epo \in EpoMaps, NEW st \in StmtMaps, NEW tr \in Seq(Addresses), NEW i,
           NEW t \in Seq(Addresses), Len(t) = Len(tr) + 1, \A k \in 1 .. Len(tr) : t[k] = tr[k]
    PROVE  Holders(epo, st, t, i) = IF t[Len(t)] = i THEN Holders(epo, st, tr, i) + 1
                                                     ELSE Holders(epo, st, tr, i)
<1>1. Len(tr) + 1 \notin EntriesOf(tr, i)
  BY DEF EntriesOf
<1>2. EntriesOf(t, i) = IF t[Len(t)] = i THEN EntriesOf(tr, i) \cup {Len(tr) + 1} ELSE EntriesOf(tr, i)
  BY DEF EntriesOf
<1>3. Cardinality(EntriesOf(t, i)) = Cardinality(EntriesOf(tr, i)) + One(t[Len(t)] = i)
  <2>1. IsFiniteSet(EntriesOf(tr, i))
    BY HoldersFinite
  <2>2. Cardinality(EntriesOf(tr, i) \cup {Len(tr) + 1}) = Cardinality(EntriesOf(tr, i)) + 1
    BY <1>1, <2>1, FS_AddElement
  <2>3. Cardinality(EntriesOf(tr, i)) \in Nat
    BY HoldersFinite
  <2> QED
    BY <1>2, <2>2, <2>3 DEF One
<1> QED
  BY <1>3, HoldersFinite DEF Holders, One

NoDuplicates(tr) == \A j, k \in 1 .. Len(tr) : tr[j] = tr[k] => j = k

LEMMA EndSubtracts ==
    ASSUME NEW epo \in EpoMaps, NEW st \in StmtMaps, NEW tr \in Seq(Addresses), NEW i,
           NoDuplicates(tr)
    PROVE  Holders(epo, st, << >>, i) = Holders(epo, st, tr, i) - One(i \in Range(tr))
<1>1. Cardinality(EntriesOf(<< >>, i)) = 0
  BY FS_EmptySet DEF EntriesOf
<1>2. Cardinality(EntriesOf(tr, i)) = One(i \in Range(tr))
  <2>1. CASE i \in Range(tr)
    <3>1. PICK k \in 1 .. Len(tr) : tr[k] = i
      BY <2>1 DEF Range
    <3>2. EntriesOf(tr, i) = {k}
      BY <3>1 DEF EntriesOf, NoDuplicates
    <3> QED
      BY <2>1, <3>2, FS_Singleton DEF One
  <2>2. CASE i \notin Range(tr)
    <3>1. EntriesOf(tr, i) = {}
      BY <2>2 DEF EntriesOf, Range
    <3> QED
      BY <2>2, <3>1, FS_EmptySet DEF One
  <2> QED
    BY <2>1, <2>2
<1> QED
  BY <1>1, <1>2, HoldersFinite DEF Holders, One

(***************************************************************************)
(* What unlocking does to the table at one address.  Counted(x, n): the    *)
(* table x has n holders.  SameTable(x, w): the table w is what is left of *)
(* the table x.                                                            *)
(***************************************************************************)
TableMaps == [Addresses -> {NULL} \cup VTables]
Counted(x, n) == IF x = NULL THEN n = 0 ELSE x.nRef = n /\ n > 0
SameTable(x, w) == w # NULL => x # NULL /\ w.module = x.module /\ w.decCtx = x.decCtx

LEMMA TableFields ==
    ASSUME NEW x \in {NULL} \cup VTables, x # NULL
    PROVE  /\ x \in VTables
           /\ x.module \in VTabs /\ x.decCtx \in Loads /\ x.oldCtx \in BOOLEAN
           /\ x.nRef \in Nat /\ x.nRef > 0
BY DEF VTables

LEMMA LockSound ==
    ASSUME NEW vt \in TableMaps, NEW i \in Addresses, vt[i] # NULL
    PROVE  /\ sqlite3VtabLock(vt, i) \in TableMaps
           /\ sqlite3VtabLock(vt, i) = [vt EXCEPT ![i] = [vt[i] EXCEPT !.nRef = @ + 1]]
           /\ [vt[i] EXCEPT !.nRef = @ + 1] \in VTables
BY DEF sqlite3VtabLock, TableMaps, VTables

LEMMA UnlockSound ==
    ASSUME NEW vt \in TableMaps, NEW S \in SUBSET Addresses, NEW i \in Addresses,
           i \in S => vt[i] # NULL, NEW n \in Nat, Counted(vt[i], n)
    PROVE  LET w == sqlite3VtabUnlock(vt, S)[i]
           IN  /\ w \in {NULL} \cup VTables
               /\ Counted(w, n - One(i \in S))
               /\ SameTable(vt[i], w)
               /\ w # NULL => w.oldCtx = vt[i].oldCtx
<1> DEFINE w == sqlite3VtabUnlock(vt, S)[i]
<1>1. NULL \notin VTables
  BY NullAssumption
<1>2. CASE i \in S /\ vt[i].nRef = 1
  <2>1. w = NULL
    BY <1>2 DEF sqlite3VtabUnlock
  <2> QED
    BY <1>2, <2>1 DEF Counted, SameTable, One
<1>3. CASE i \in S /\ vt[i].nRef # 1
  <2>1. w = [vt[i] EXCEPT !.nRef = @ - 1]
    BY <1>3 DEF sqlite3VtabUnlock
  <2>2. vt[i] \in VTables
    BY <1>3, TableFields DEF TableMaps
  <2>3. w \in VTables /\ w.nRef = vt[i].nRef - 1 /\ w.module = vt[i].module
           /\ w.decCtx = vt[i].decCtx /\ w.oldCtx = vt[i].oldCtx
    BY <1>3, <2>1, <2>2 DEF VTables
  <2> HIDE DEF w
  <2>4. w # NULL /\ vt[i] # NULL
    BY <1>1, <2>2, <2>3
  <2>5. n - One(i \in S) = n - 1 /\ vt[i].nRef = n
    BY <1>3, <2>4 DEF Counted, One
  <2>6. w.nRef = n - 1 /\ n - 1 > 0
    BY <1>3, <2>2, <2>3, <2>5 DEF VTables
  <2> QED
    BY <2>3, <2>4, <2>5, <2>6 DEF Counted, SameTable, w
<1>4. CASE i \notin S
  <2>1. w = vt[i] /\ n - One(i \in S) = n
    BY <1>4 DEF sqlite3VtabUnlock, One
  <2> HIDE DEF w
  <2>2. w \in {NULL} \cup VTables
    BY <2>1 DEF TableMaps
  <2> QED
    BY <2>1, <2>2 DEF Counted, SameTable, w
<1> QED
  BY <1>2, <1>3, <1>4

LEMMA UnlockType ==
    ASSUME NEW vt \in TableMaps, NEW S \in SUBSET Addresses, \A i \in S : vt[i] # NULL
    PROVE  sqlite3VtabUnlock(vt, S) \in TableMaps
<1> DEFINE u == sqlite3VtabUnlock(vt, S)
<1>1. ASSUME NEW i \in Addresses PROVE u[i] \in {NULL} \cup VTables
  <2>1. CASE vt[i] = NULL
    BY <2>1, UnlockSound DEF Counted
  <2>2. CASE vt[i] # NULL
    BY <2>2, UnlockSound, TableFields DEF Counted, TableMaps
  <2> QED
    BY <2>1, <2>2
<1> QED
  BY <1>1 DEF sqlite3VtabUnlock, TableMaps

\* The end of a transaction: the tables in it lose their copy and a holder.
LEMMA FinaliserSound ==
    ASSUME NEW vt \in TableMaps, aVTrans \in Seq(Addresses),
           \A j \in Range(aVTrans) : vt[j] # NULL,
           NEW i \in Addresses, NEW n \in Nat, Counted(vt[i], n)
    PROVE  LET w == callFinaliser(vt)[i]
           IN  /\ w \in {NULL} \cup VTables
               /\ Counted(w, n - One(i \in Range(aVTrans)))
               /\ SameTable(vt[i], w)
               /\ w # NULL => w.oldCtx = (vt[i].oldCtx /\ i \notin Range(aVTrans))
<1> DEFINE told == [j \in Addresses |->
                       IF j \in Range(aVTrans) THEN [vt[j] EXCEPT !.oldCtx = FALSE] ELSE vt[j]]
           w == callFinaliser(vt)[i]
<1>1. callFinaliser(vt) = sqlite3VtabUnlock(told, Range(aVTrans))
  BY DEF callFinaliser
<1>2. Range(aVTrans) \in SUBSET Addresses
  BY DEF Range
<1>3. ASSUME NEW j \in Range(aVTrans)
      PROVE  /\ told[j] \in VTables /\ told[j] # NULL /\ told[j].nRef = vt[j].nRef
             /\ told[j].module = vt[j].module /\ told[j].decCtx = vt[j].decCtx
             /\ told[j].oldCtx = FALSE
  <2>1. told[j] = [vt[j] EXCEPT !.oldCtx = FALSE]
    BY <1>2
  <2>2. vt[j] \in VTables
    BY <1>2 DEF TableMaps
  <2> HIDE DEF told
  <2>3. told[j] \in VTables
    BY <2>1, <2>2 DEF VTables
  <2>4. told[j] # NULL
    BY <2>3, NullAssumption
  <2> QED
    BY <2>1, <2>2, <2>3, <2>4 DEF VTables
<1>4. \A j \in Addresses \ Range(aVTrans) : told[j] = vt[j]
  OBVIOUS
<1>5. told \in TableMaps
  BY <1>2, <1>3 DEF TableMaps
<1>6. Counted(told[i], n) /\ SameTable(vt[i], told[i])
         /\ (told[i] # NULL => told[i].oldCtx = (vt[i].oldCtx /\ i \notin Range(aVTrans)))
  <2>1. CASE i \in Range(aVTrans)
    BY <1>3, <2>1 DEF Counted, SameTable
  <2>2. CASE i \notin Range(aVTrans)
    <3>1. told[i] = vt[i]
      BY <1>4, <2>2
    <3>2. vt[i] # NULL => vt[i].oldCtx \in BOOLEAN
      BY TableFields DEF TableMaps
    <3> HIDE DEF told
    <3>3. told[i] # NULL => told[i].oldCtx = (vt[i].oldCtx /\ i \notin Range(aVTrans))
      BY <2>2, <3>1, <3>2
    <3> QED
      BY <3>1, <3>3 DEF Counted, SameTable
  <2> QED
    BY <2>1, <2>2
<1> HIDE DEF told
<1>7. /\ w \in {NULL} \cup VTables
      /\ Counted(w, n - One(i \in Range(aVTrans)))
      /\ SameTable(told[i], w)
      /\ w # NULL => w.oldCtx = told[i].oldCtx
  <2>1. i \in Range(aVTrans) => told[i] # NULL
    BY <1>3
  <2>2. Counted(told[i], n)
    BY <1>6
  <2>3. LET u == sqlite3VtabUnlock(told, Range(aVTrans))[i]
        IN  /\ u \in {NULL} \cup VTables
            /\ Counted(u, n - One(i \in Range(aVTrans)))
            /\ SameTable(told[i], u)
            /\ u # NULL => u.oldCtx = told[i].oldCtx
    BY <1>2, <1>5, <2>1, <2>2, UnlockSound
  <2> QED
    BY <1>1, <2>3
<1> QED
  BY <1>6, <1>7 DEF SameTable

LEMMA FinaliserType ==
    ASSUME NEW vt \in TableMaps, aVTrans \in Seq(Addresses),
           \A j \in Range(aVTrans) : vt[j] # NULL
    PROVE  callFinaliser(vt) \in TableMaps
<1> DEFINE u == callFinaliser(vt)
<1>1. ASSUME NEW i \in Addresses PROVE u[i] \in {NULL} \cup VTables
  <2>1. CASE vt[i] = NULL
    BY <2>1, FinaliserSound DEF Counted
  <2>2. CASE vt[i] # NULL
    BY <2>2, FinaliserSound, TableFields DEF Counted, TableMaps
  <2> QED
    BY <2>1, <2>2
<1>2. u = [i \in Addresses |-> u[i]]
  BY DEF callFinaliser, sqlite3VtabUnlock
<1> QED
  BY <1>1, <1>2 DEF TableMaps

(***************************************************************************)
(* The two ways of letting tables go, for all addresses at once.  Copies:  *)
(* the tables with a copy of the context are those of the transaction.     *)
(***************************************************************************)
CountedAll(vt, epo, st, tr) == \A i \in Addresses : Counted(vt[i], Holders(epo, st, tr, i))
Copies(vt, tr) == \A i \in Addresses : i \in Range(tr) <=> vt[i] # NULL /\ vt[i].oldCtx
SameTables(vt, wt) == \A i \in Addresses : SameTable(vt[i], wt[i])

LEMMA TransactionHeld ==
    ASSUME NEW epo \in EpoMaps, NEW st \in StmtMaps, NEW tr \in Seq(Addresses),
           NEW vt \in TableMaps, CountedAll(vt, epo, st, tr), NEW i \in Range(tr)
    PROVE  i \in Addresses /\ vt[i] # NULL
<1>1. PICK k \in 1 .. Len(tr) : tr[k] = i
  BY DEF Range
<1>2. i \in Addresses
  BY <1>1
<1>3. Holders(epo, st, tr, i) # 0
  BY <1>1, NoHolders
<1> QED
  BY <1>2, <1>3 DEF CountedAll, Counted

LEMMA UnlockAll ==
    ASSUME NEW epo \in EpoMaps, NEW st \in StmtMaps, NEW tr \in Seq(Addresses),
           NEW epo2 \in EpoMaps, NEW st2 \in StmtMaps, NEW S \in SUBSET Addresses,
           NEW vt \in TableMaps, CountedAll(vt, epo, st, tr), Copies(vt, tr),
           \A i \in S : vt[i] # NULL,
           \A i \in Addresses : Holders(epo2, st2, tr, i) = Holders(epo, st, tr, i) - One(i \in S)
    PROVE  /\ sqlite3VtabUnlock(vt, S) \in TableMaps
           /\ CountedAll(sqlite3VtabUnlock(vt, S), epo2, st2, tr)
           /\ Copies(sqlite3VtabUnlock(vt, S), tr)
           /\ SameTables(vt, sqlite3VtabUnlock(vt, S))
<1> DEFINE u == sqlite3VtabUnlock(vt, S)
<1>1. u \in TableMaps
  BY UnlockType
<1>2. ASSUME NEW i \in Addresses
      PROVE  /\ Counted(u[i], Holders(epo2, st2, tr, i))
             /\ SameTable(vt[i], u[i])
             /\ u[i] # NULL => u[i].oldCtx = vt[i].oldCtx
  <2>1. Holders(epo, st, tr, i) \in Nat
    BY HoldersFinite
  <2>2. Counted(vt[i], Holders(epo, st, tr, i))
    BY DEF CountedAll
  <2> QED
    BY <2>1, <2>2, UnlockSound
<1> HIDE DEF u
<1>3. CountedAll(u, epo2, st2, tr)
  BY <1>2 DEF CountedAll
<1>4. ASSUME NEW i \in Addresses PROVE i \in Range(tr) <=> u[i] # NULL /\ u[i].oldCtx
  <2>1. i \in Range(tr) => u[i] # NULL
    BY <1>1, <1>3, TransactionHeld
  <2> QED
    BY <1>2, <2>1 DEF Copies, SameTable
<1> QED
  BY <1>1, <1>2, <1>3, <1>4 DEF Copies, SameTables, u

LEMMA FinaliseAll ==
    ASSUME NEW epo \in EpoMaps, NEW st \in StmtMaps, aVTrans \in Seq(Addresses),
           NoDuplicates(aVTrans), NEW vt \in TableMaps,
           CountedAll(vt, epo, st, aVTrans), Copies(vt, aVTrans)
    PROVE  /\ callFinaliser(vt) \in TableMaps
           /\ CountedAll(callFinaliser(vt), epo, st, << >>)
           /\ Copies(callFinaliser(vt), << >>)
           /\ SameTables(vt, callFinaliser(vt))
<1> DEFINE u == callFinaliser(vt)
<1>1. \A j \in Range(aVTrans) : vt[j] # NULL
  BY TransactionHeld
<1>2. u \in TableMaps
  BY <1>1, FinaliserType
<1>3. ASSUME NEW i \in Addresses
      PROVE  /\ Counted(u[i], Holders(epo, st, << >>, i))
             /\ SameTable(vt[i], u[i])
             /\ u[i] # NULL => u[i].oldCtx = (vt[i].oldCtx /\ i \notin Range(aVTrans))
  <2>1. Holders(epo, st, aVTrans, i) \in Nat
    BY HoldersFinite
  <2>2. Counted(vt[i], Holders(epo, st, aVTrans, i))
    BY DEF CountedAll
  <2>3. Holders(epo, st, << >>, i) = Holders(epo, st, aVTrans, i) - One(i \in Range(aVTrans))
    BY EndSubtracts
  <2> QED
    BY <1>1, <2>1, <2>2, <2>3, FinaliserSound
<1> HIDE DEF u
<1>4. ASSUME NEW i \in Addresses PROVE i \in Range(<< >>) <=> u[i] # NULL /\ u[i].oldCtx
  <2>1. i \notin Range(<< >>)
    BY DEF Range
  <2>2. ~(u[i] # NULL /\ u[i].oldCtx)
    BY <1>3 DEF Copies, SameTable
  <2> QED
    BY <2>1, <2>2
<1> QED
  BY <1>2, <1>3, <1>4 DEF Copies, CountedAll, SameTables, u

\* With no holders left there are no tables left.
LEMMA NoneLeft ==
    ASSUME NEW epo \in EpoMaps, NEW st \in StmtMaps, NEW vt \in TableMaps,
           CountedAll(vt, epo, st, << >>),
           \A m \in VTabs : epo[m] = 0, \A s \in Stmts : st[s] = NULL,
           NEW i \in Addresses
    PROVE  vt[i] = NULL
<1>1. i # 0
  BY DEF Addresses
<1>2. Holders(epo, st, << >>, i) = 0
  <2> DEFINE tr == << >>
  <2>1. tr \in Seq(Addresses) /\ \A k \in 1 .. Len(tr) : tr[k] # i
    OBVIOUS
  <2> HIDE DEF tr
  <2>2. Holders(epo, st, tr, i) = 0
    BY <1>1, <2>1, NoHolders
  <2> QED
    BY <2>2 DEF tr
<1> QED
  BY <1>2 DEF CountedAll, Counted

\* Starting or ending a statement changes none of its holdings.
SetActive(s) == \/ stmt' = [stmt EXCEPT ![s].active = TRUE]
                \/ stmt' = [stmt EXCEPT ![s].active = FALSE]

LEMMA ActiveKeeps ==
    ASSUME stmt \in StmtMaps, NEW s \in Stmts, stmt[s] # NULL, SetActive(s)
    PROVE  /\ stmt' \in StmtMaps
           /\ \A r \in Stmts : stmt'[r] = NULL <=> stmt[r] = NULL
           /\ \A epo, tr, i : Holders(epo, stmt', tr, i) = Holders(epo, stmt, tr, i)
<1>1. stmt[s] \in Statements /\ NULL \notin Statements
  BY NullAssumption DEF StmtMaps
<1>2. \A r \in Stmts \ {s} : stmt'[r] = stmt[r]
  BY DEF StmtMaps, SetActive
<1>3. \/ stmt'[s] = [stmt[s] EXCEPT !.active = TRUE]
      \/ stmt'[s] = [stmt[s] EXCEPT !.active = FALSE]
  BY DEF StmtMaps, SetActive
<1>4. stmt'[s] \in Statements /\ stmt'[s].vtab = stmt[s].vtab
  BY <1>1, <1>3 DEF Statements
<1>5. stmt' \in StmtMaps
  BY <1>2, <1>4 DEF StmtMaps, SetActive
<1>6. \A r \in Stmts : stmt'[r] = NULL <=> stmt[r] = NULL
  BY <1>1, <1>2, <1>4
<1>7. ASSUME NEW i PROVE CompiledFor(stmt', i) = CompiledFor(stmt, i)
  BY <1>2, <1>4, <1>6 DEF CompiledFor
<1>8. \A epo, tr, i : Holders(epo, stmt', tr, i) = Holders(epo, stmt, tr, i)
  BY <1>7 DEF Holders
<1> QED
  BY <1>5, <1>6, <1>8

LEMMA AppendSet ==
    ASSUME NEW tr \in Seq(Addresses), NEW j \in Addresses
    PROVE  Append(tr, j) \in Seq(Addresses) /\ Range(Append(tr, j)) = Range(tr) \cup {j}
<1> DEFINE t == Append(tr, j)
<1>1. /\ t \in Seq(Addresses) /\ Len(t) = Len(tr) + 1 /\ t[Len(tr) + 1] = j
      /\ \A k \in 1 .. Len(tr) : t[k] = tr[k]
  OBVIOUS
<1> HIDE DEF t
<1>2. Range(t) = { t[k] : k \in 1 .. Len(t) } /\ Range(tr) = { tr[k] : k \in 1 .. Len(tr) }
  BY <1>1 DEF Range
<1>3. Range(t) = Range(tr) \cup {j}
  BY <1>1, <1>2
<1> QED
  BY <1>1, <1>3 DEF t

=============================================================================
