----------------------- MODULE DecimalLifeCycle_tables -----------------------
(***************************************************************************)
(* Every step of DecimalLifeCycle keeps the invariant of the connected     *)
(* tables: each is held as often as its reference count says, and has a    *)
(* copy of the context exactly while it is in the transaction.             *)
(***************************************************************************)
EXTENDS DecimalLifeCycle_holders

(***************************************************************************)
(* The tables.  ReferencesCounted is inductive once a transaction holds no *)
(* table twice and no two modules are linked to one table; that a closing  *)
(* connection is left with no table needs to know what a zombie has        *)
(* already let go of.                                                      *)
(***************************************************************************)
TablesTyped ==
    /\ vtable \in TableMaps
    /\ pEpoTab \in EpoMaps
    /\ aVTrans \in Seq(Addresses)
    /\ autoCommit \in BOOLEAN
    /\ stmt \in StmtMaps

TransactionOpen == aVTrans # << >> => ~autoCommit \/ \E s \in Stmts : ActiveWrite(s)

LinksMatch == \A m \in VTabs : pEpoTab[m] # 0 => vtable[pEpoTab[m]].module = m

Closing ==
    /\ db \in {"open", "zombie", "closed"}
    /\ db # "open" => \A m \in VTabs : pEpoTab[m] = 0
    /\ db = "closed" => aVTrans = << >> /\ \A s \in Stmts : stmt[s] = NULL
    /\ db = "zombie" => \E s \in Stmts : stmt[s] # NULL

TablesInv ==
    /\ TablesTyped
    /\ CountedAll(vtable, pEpoTab, stmt, aVTrans)
    /\ NoDuplicates(aVTrans)
    /\ LinksMatch
    /\ Copies(vtable, aVTrans)
    /\ TransactionOpen
    /\ Closing

LEMMA TablesInvImplies == TablesInv => ReferencesCounted /\ CopiesMatchTransaction
BY DEF TablesInv, CountedAll, Counted, Holders, LinksOf, CompiledFor, EntriesOf,
       ReferencesCounted, Links, Compiled, Entries,
       Copies, TransactionOpen, CopiesMatchTransaction

\* Whatever reaches a table finds it connected.
LEMMA HeldTables ==
    ASSUME TablesTyped, CountedAll(vtable, pEpoTab, stmt, aVTrans)
    PROVE  /\ \A m \in VTabs : pEpoTab[m] # 0 =>
                 pEpoTab[m] \in Addresses /\ vtable[pEpoTab[m]] # NULL
           /\ \A s \in Stmts : stmt[s] # NULL /\ stmt[s].vtab # 0 =>
                 stmt[s].vtab \in Addresses /\ vtable[stmt[s].vtab] # NULL
           /\ \A i \in Range(aVTrans) : i \in Addresses /\ vtable[i] # NULL
<1>1. ASSUME NEW m \in VTabs, pEpoTab[m] # 0
      PROVE  pEpoTab[m] \in Addresses /\ vtable[pEpoTab[m]] # NULL
  <2>1. pEpoTab[m] \in Addresses
    BY <1>1 DEF TablesTyped, EpoMaps
  <2> QED
    BY <1>1, <2>1, NoHolders DEF CountedAll, Counted, TablesTyped
<1>2. ASSUME NEW s \in Stmts, stmt[s] # NULL, stmt[s].vtab # 0
      PROVE  stmt[s].vtab \in Addresses /\ vtable[stmt[s].vtab] # NULL
  <2>1. stmt[s].vtab \in Addresses
    BY <1>2 DEF TablesTyped, StmtMaps, Statements
  <2> QED
    BY <1>2, <2>1, NoHolders DEF CountedAll, Counted, TablesTyped
<1>3. ASSUME NEW i \in Range(aVTrans) PROVE i \in Addresses /\ vtable[i] # NULL
  <2>1. PICK k \in 1 .. Len(aVTrans) : aVTrans[k] = i
    BY DEF Range, TablesTyped
  <2>2. i \in Addresses
    BY <2>1 DEF TablesTyped
  <2> QED
    BY <2>1, <2>2, NoHolders DEF CountedAll, Counted, TablesTyped
<1> QED
  BY <1>1, <1>2, <1>3

-----------------------------------------------------------------------------
(***************************************************************************)
(* Every step keeps the invariant of the tables.                           *)
(***************************************************************************)
AuxTyped == pAux \in [VTabs -> Loads \cup {0}]

LEMMA TablesInit == Init => TablesInv
<1> SUFFICES ASSUME Init PROVE TablesInv
  OBVIOUS
<1>1. TablesTyped
  BY DEF Init, TablesTyped, TableMaps, EpoMaps, StmtMaps
<1>2. CountedAll(vtable, pEpoTab, stmt, aVTrans)
  <2>1. ASSUME NEW i \in Addresses PROVE Holders(pEpoTab, stmt, aVTrans, i) = 0
    <3>1. i # 0
      BY DEF Addresses
    <3>2. /\ \A m \in VTabs : pEpoTab[m] # i
          /\ \A s \in Stmts : stmt[s] = NULL
          /\ \A k \in 1 .. Len(aVTrans) : aVTrans[k] # i
      BY <3>1 DEF Init
    <3> QED
      BY <1>1, <3>2, NoHolders DEF TablesTyped
  <2> QED
    BY <2>1 DEF Init, CountedAll, Counted
<1>3. NoDuplicates(aVTrans) /\ LinksMatch /\ Closing /\ aVTrans = << >>
  BY DEF Init, NoDuplicates, LinksMatch, Closing
<1>4. Copies(vtable, aVTrans)
  BY DEF Init, Copies, Range
<1> QED
  BY <1>1, <1>2, <1>3, <1>4 DEF TablesInv, TransactionOpen

LEMMA PrepareKeepsTables ==
    ASSUME TablesInv, NEW s \in Stmts, NEW kind \in PlainKinds, Prepare(s, kind)
    PROVE  TablesInv'
<1> DEFINE new == NewStatement(kind, 0)
<1>1. new \in Statements /\ new.vtab = 0
  BY DEF NewStatement, Statements
<1>2. /\ stmt[s] = NULL /\ stmt' = [stmt EXCEPT ![s] = new] /\ db = "open"
      /\ vtable' = vtable /\ pEpoTab' = pEpoTab /\ aVTrans' = aVTrans
      /\ autoCommit' = autoCommit /\ db' = db
  BY DEF Prepare, tables
<1> HIDE DEF new
<1>3. TablesTyped'
  BY <1>1, <1>2 DEF TablesInv, TablesTyped, StmtMaps
<1>4. CountedAll(vtable, pEpoTab, stmt, aVTrans)'
  <2>1. ASSUME NEW i \in Addresses
        PROVE  Holders(pEpoTab, stmt', aVTrans, i) = Holders(pEpoTab, stmt, aVTrans, i)
    <3>1. new.vtab # i
      BY <1>1 DEF Addresses
    <3>2. Holders(pEpoTab, stmt, aVTrans, i) \in Nat
      BY HoldersFinite DEF TablesInv, TablesTyped
    <3>3. /\ pEpoTab \in EpoMaps /\ stmt \in StmtMaps /\ aVTrans \in Seq(Addresses)
          /\ stmt' \in StmtMaps
      BY <1>3 DEF TablesInv, TablesTyped
    <3>4. /\ stmt[s] = NULL /\ stmt'[s] # NULL /\ stmt'[s].vtab # i
          /\ \A r \in Stmts \ {s} : stmt'[r] = stmt[r]
      BY <1>1, <1>2, <3>1, <3>3, NullAssumption DEF StmtMaps
    <3> QED
      BY <3>3, <3>4, CompileAdds
  <2> QED
    BY <1>2, <2>1 DEF CountedAll, TablesInv
<1>5. TransactionOpen'
  <2>1. \A t \in Stmts : ActiveWrite(t) => t # s /\ stmt'[t] = stmt[t]
    BY <1>2 DEF ActiveWrite, Active, TablesInv, TablesTyped, StmtMaps
  <2> QED
    BY <1>2, <2>1 DEF TablesInv, TransactionOpen, ActiveWrite, Active
<1>6. NoDuplicates(aVTrans)' /\ LinksMatch' /\ Copies(vtable, aVTrans)' /\ Closing'
  BY <1>2 DEF TablesInv, LinksMatch, Closing
<1> QED
  BY <1>3, <1>4, <1>5, <1>6 DEF TablesInv

\* A query, or a write that ends inside a transaction.
LEMMA ActivityKeepsTables ==
    ASSUME TablesInv, NEW s \in Stmts, stmt[s] # NULL, SetActive(s),
           UNCHANGED <<db, vtable, pEpoTab, aVTrans, autoCommit>>,
           TransactionOpen'
    PROVE  TablesInv'
<1>1. /\ pEpoTab \in EpoMaps /\ stmt \in StmtMaps /\ aVTrans \in Seq(Addresses)
  BY DEF TablesInv, TablesTyped
<1>2. /\ stmt' \in StmtMaps
      /\ \A r \in Stmts : stmt'[r] = NULL <=> stmt[r] = NULL
      /\ \A i : Holders(pEpoTab, stmt', aVTrans, i) = Holders(pEpoTab, stmt, aVTrans, i)
  BY <1>1, ActiveKeeps
<1>3. TablesTyped'
  BY <1>2 DEF TablesInv, TablesTyped
<1>4. CountedAll(vtable, pEpoTab, stmt, aVTrans)'
  BY <1>2 DEF TablesInv, CountedAll
<1>5. NoDuplicates(aVTrans)' /\ LinksMatch' /\ Copies(vtable, aVTrans)'
  BY DEF TablesInv, LinksMatch
<1>6. Closing'
  BY <1>2 DEF TablesInv, Closing
<1> QED
  BY <1>3, <1>4, <1>5, <1>6 DEF TablesInv

LEMMA QueryKeepsTables ==
    ASSUME TablesInv, NEW s \in Stmts, StepQuery(s) \/ EndQuery(s)
    PROVE  TablesInv'
<1>1. SetActive(s)
  BY DEF StepQuery, EndQuery, SetActive
<1>2. /\ stmt[s] # NULL /\ stmt[s].kind # "write"
      /\ UNCHANGED <<db, vtable, pEpoTab, aVTrans, autoCommit>>
  BY DEF StepQuery, EndQuery, Active, tables
<1>3. \A t \in Stmts : ActiveWrite(t) => t # s /\ stmt'[t] = stmt[t]
  BY <1>1, <1>2 DEF ActiveWrite, SetActive, TablesInv, TablesTyped, StmtMaps
<1>4. TransactionOpen'
  BY <1>2, <1>3 DEF TablesInv, TransactionOpen, ActiveWrite, Active
<1> QED
  BY <1>1, <1>2, <1>4, ActivityKeepsTables

LEMMA StartWriteKeepsTables ==
    ASSUME TablesInv, NEW s \in Stmts, StartWrite(s)
    PROVE  TablesInv'
<1> DEFINE i == stmt[s].vtab
<1>1. /\ stmt[s] # NULL /\ stmt[s].kind = "write" /\ stmt' = [stmt EXCEPT ![s].active = TRUE]
      /\ db' = db /\ pEpoTab' = pEpoTab /\ autoCommit' = autoCommit /\ xBegin(i)
  BY DEF StartWrite
<1>2. /\ pEpoTab \in EpoMaps /\ stmt \in StmtMaps /\ aVTrans \in Seq(Addresses)
      /\ vtable \in TableMaps
  BY DEF TablesInv, TablesTyped
<1>3. i \in Addresses /\ i # 0
  <2>1. stmt[s] \in Statements
    BY <1>1, <1>2 DEF StmtMaps
  <2> QED
    BY <1>1, <2>1 DEF Statements, PlainKinds, Addresses
<1>4. vtable[i] # NULL
  BY <1>1, <1>3, HeldTables DEF TablesInv
<1> HIDE DEF i
<1>5. /\ SetActive(s)
      /\ stmt' \in StmtMaps
      /\ \A r \in Stmts : stmt'[r] = NULL <=> stmt[r] = NULL
      /\ \A tr, j : Holders(pEpoTab, stmt', tr, j) = Holders(pEpoTab, stmt, tr, j)
  BY <1>1, <1>2, ActiveKeeps DEF SetActive
<1>6. TransactionOpen'
  <2>1. stmt'[s] = [stmt[s] EXCEPT !.active = TRUE] /\ stmt[s] \in Statements
    BY <1>1, <1>2 DEF StmtMaps
  <2>2. stmt'[s].kind = "write" /\ stmt'[s].active
    BY <1>1, <2>1 DEF Statements
  <2> QED
    BY <1>1, <1>5, <2>2 DEF TransactionOpen, ActiveWrite, Active
<1>7. CASE i \in Range(aVTrans)
  <2>1. UNCHANGED <<db, vtable, pEpoTab, aVTrans, autoCommit>>
    BY <1>1, <1>7 DEF xBegin
  <2> QED
    BY <1>1, <1>5, <1>6, <2>1, ActivityKeepsTables
<1>8. CASE i \notin Range(aVTrans)
  <2> DEFINE x == vtable[i]
             w == [[x EXCEPT !.oldCtx = TRUE] EXCEPT !.nRef = @ + 1]
  <2>1. x \in VTables
    BY <1>2, <1>3, <1>4, TableFields DEF TableMaps
  <2>2. vtable' = [vtable EXCEPT ![i] = w] /\ aVTrans' = Append(aVTrans, i)
    <3>1. vtable' = sqlite3VtabLock([vtable EXCEPT ![i].oldCtx = TRUE], i)
             /\ aVTrans' = Append(aVTrans, i)
      BY <1>1, <1>8 DEF xBegin
    <3> QED
      BY <1>2, <1>3, <3>1 DEF sqlite3VtabLock, TableMaps
  <2> HIDE DEF x
  <2>3. w \in VTables /\ w.module = x.module /\ w.oldCtx = TRUE /\ w.nRef = x.nRef + 1
    <3>1. x.nRef \in Nat /\ x.nRef + 1 \in Nat \ {0}
      BY <2>1 DEF VTables
    <3> QED
      BY <2>1, <3>1 DEF VTables
  <2> HIDE DEF w
  <2>4. w # NULL
    BY <2>3, NullAssumption
  <2>5. vtable' \in TableMaps /\ vtable'[i] = w /\ \A j \in Addresses \ {i} : vtable'[j] = vtable[j]
    BY <1>2, <1>3, <2>2, <2>3 DEF TableMaps
  <2>6. aVTrans' \in Seq(Addresses) /\ Range(aVTrans') = Range(aVTrans) \cup {i}
    BY <1>2, <1>3, <2>2, AppendSet
  <2>7. TablesTyped'
    BY <1>1, <1>5, <2>5, <2>6 DEF TablesInv, TablesTyped
  <2>8. ASSUME NEW j \in Addresses
        PROVE  Counted(vtable'[j], Holders(pEpoTab', stmt', aVTrans', j))
    <3>1. Holders(pEpoTab', stmt', aVTrans', j) = Holders(pEpoTab, stmt, aVTrans', j)
      BY <1>1, <1>5
    <3>2. Holders(pEpoTab, stmt, aVTrans', j)
             = IF j = i THEN Holders(pEpoTab, stmt, aVTrans, j) + 1
                        ELSE Holders(pEpoTab, stmt, aVTrans, j)
      <4>1. /\ aVTrans' \in Seq(Addresses) /\ Len(aVTrans') = Len(aVTrans) + 1
            /\ aVTrans'[Len(aVTrans')] = i /\ \A k \in 1 .. Len(aVTrans) : aVTrans'[k] = aVTrans[k]
        BY <1>2, <1>3, <2>2
      <4> QED
        BY <1>2, <1>3, <4>1, BeginAdds
    <3>3. Counted(vtable[j], Holders(pEpoTab, stmt, aVTrans, j))
      BY DEF TablesInv, CountedAll
    <3>4. Holders(pEpoTab, stmt, aVTrans, j) \in Nat
      BY <1>2, HoldersFinite
    <3>5. CASE j = i
      <4>1. x.nRef = Holders(pEpoTab, stmt, aVTrans, j)
        BY <1>4, <3>3, <3>5 DEF Counted, x
      <4> QED
        BY <2>3, <2>4, <2>5, <3>1, <3>2, <3>4, <3>5, <4>1 DEF Counted
    <3>6. CASE j # i
      BY <2>5, <3>1, <3>2, <3>3, <3>6
    <3> QED
      BY <3>5, <3>6
  <2>9. CountedAll(vtable, pEpoTab, stmt, aVTrans)'
    BY <2>8 DEF CountedAll
  <2>10. NoDuplicates(aVTrans)'
    <3>1. \A k \in 1 .. Len(aVTrans) : aVTrans[k] # i
      BY <1>8 DEF Range
    <3> QED
      BY <1>2, <1>3, <2>2, <3>1 DEF TablesInv, NoDuplicates
  <2>11. LinksMatch'
    BY <1>1, <1>2, <1>3, <2>3, <2>5 DEF TablesInv, LinksMatch, EpoMaps, x
  <2>12. Copies(vtable, aVTrans)'
    BY <2>3, <2>4, <2>5, <2>6 DEF TablesInv, Copies
  <2>13. Closing'
    <3>1. db # "closed"
      BY DEF StartWrite, Idle
    <3> QED
      BY <1>1, <1>5, <3>1 DEF TablesInv, Closing
  <2> QED
    BY <1>6, <2>7, <2>9, <2>10, <2>11, <2>12, <2>13 DEF TablesInv
<1> QED
  BY <1>7, <1>8

LEMMA StatementAdds ==
    ASSUME stmt \in StmtMaps, stmt' \in StmtMaps, NEW s \in Stmts, stmt[s] = NULL, stmt'[s] # NULL,
           \A r \in Stmts \ {s} : stmt'[r] = stmt[r],
           NEW epo \in EpoMaps, NEW tr \in Seq(Addresses), NEW i
    PROVE  Holders(epo, stmt', tr, i) = IF stmt'[s].vtab = i THEN Holders(epo, stmt, tr, i) + 1
                                                             ELSE Holders(epo, stmt, tr, i)
BY CompileAdds

\* A statement is compiled for the table at address i, which is w now.
LEMMA CompiledKeepsTables ==
    ASSUME TablesInv, db = "open", db' = db, autoCommit' = autoCommit, aVTrans' = aVTrans,
           NEW s \in Stmts, stmt[s] = NULL, stmt' \in StmtMaps,
           \A r \in Stmts \ {s} : stmt'[r] = stmt[r],
           NEW i \in Addresses, vtable' \in TableMaps,
           vtable'[i] # NULL, vtable'[i].oldCtx <=> i \in Range(aVTrans),
           \A j \in Addresses \ {i} : vtable'[j] = vtable[j],
           NEW m \in VTabs, pEpoTab' \in EpoMaps, pEpoTab'[m] = i, vtable'[i].module = m,
           \A n \in VTabs \ {m} : pEpoTab'[n] = pEpoTab[n] /\ pEpoTab[n] # i,
           CountedAll(vtable', pEpoTab', stmt', aVTrans)
    PROVE  TablesInv'
<1>1. TablesTyped'
  BY DEF TablesInv, TablesTyped
<1>2. CountedAll(vtable, pEpoTab, stmt, aVTrans)'
  OBVIOUS
<1>3. LinksMatch'
  <2>1. ASSUME NEW n \in VTabs, pEpoTab'[n] # 0 PROVE vtable'[pEpoTab'[n]].module = n
    <3>1. CASE n = m
      BY <3>1
    <3>2. CASE n # m
      <4>1. pEpoTab'[n] = pEpoTab[n] /\ pEpoTab[n] \in Addresses \ {i}
        BY <2>1, <3>2 DEF EpoMaps
      <4> QED
        BY <2>1, <4>1 DEF TablesInv, LinksMatch
    <3> QED
      BY <3>1, <3>2
  <2> QED
    BY <2>1 DEF LinksMatch
<1>4. Copies(vtable, aVTrans)'
  BY DEF TablesInv, Copies
<1>5. TransactionOpen'
  <2>1. \A t \in Stmts : ActiveWrite(t) => t # s
    BY DEF ActiveWrite, Active
  <2> QED
    BY <2>1 DEF TablesInv, TransactionOpen, ActiveWrite, Active
<1>6. Closing' /\ NoDuplicates(aVTrans)'
  BY DEF TablesInv, Closing
<1> QED
  BY <1>1, <1>2, <1>3, <1>4, <1>5, <1>6 DEF TablesInv

LEMMA PrepareOnTableKeepsTables ==
    ASSUME TablesInv, AuxTyped, NEW s \in Stmts, NEW kind \in TableKinds, NEW m \in VTabs,
           PrepareOnTable(s, kind, m)
    PROVE  TablesInv'
<1>1. /\ pEpoTab \in EpoMaps /\ stmt \in StmtMaps /\ aVTrans \in Seq(Addresses)
      /\ vtable \in TableMaps
  BY DEF TablesInv, TablesTyped
<1>2. PICK i \in Addresses :
         /\ IF pEpoTab[m] # 0
            THEN i = pEpoTab[m] /\ vtable' = sqlite3VtabLock(vtable, i)
            ELSE /\ vtable[i] = NULL
                 /\ vtable' = sqlite3VtabLock([vtable EXCEPT ![i] = xConnect(m)], i)
         /\ pEpoTab' = [pEpoTab EXCEPT ![m] = i]
         /\ stmt' = [stmt EXCEPT ![s] = NewStatement(kind, i)]
  BY DEF PrepareOnTable
<1>3. /\ db = "open" /\ db' = db /\ stmt[s] = NULL /\ autoCommit' = autoCommit
      /\ aVTrans' = aVTrans /\ pAux[m] # 0
  BY DEF PrepareOnTable
<1>4. /\ stmt' \in StmtMaps /\ stmt'[s] # NULL /\ stmt'[s].vtab = i
      /\ \A r \in Stmts \ {s} : stmt'[r] = stmt[r]
  <2> DEFINE new == NewStatement(kind, i)
  <2>1. new \in Statements /\ new.vtab = i /\ stmt' = [stmt EXCEPT ![s] = new]
    BY <1>2 DEF NewStatement, Statements
  <2>2. new # NULL
    BY <2>1, NullAssumption
  <2> HIDE DEF new
  <2> QED
    BY <1>1, <2>1, <2>2 DEF StmtMaps
<1>5. /\ pEpoTab' \in EpoMaps /\ pEpoTab'[m] = i /\ i # 0
      /\ \A n \in VTabs \ {m} : pEpoTab'[n] = pEpoTab[n]
  BY <1>1, <1>2 DEF EpoMaps, Addresses
<1>6. ASSUME NEW j \in Addresses
      PROVE  /\ Holders(pEpoTab', stmt', aVTrans, j)
                   = IF j = i THEN Holders(pEpoTab', stmt, aVTrans, j) + 1
                              ELSE Holders(pEpoTab', stmt, aVTrans, j)
             /\ Holders(pEpoTab, stmt, aVTrans, j) \in Nat
             /\ Counted(vtable[j], Holders(pEpoTab, stmt, aVTrans, j))
  <2>1. Holders(pEpoTab', stmt', aVTrans, j)
           = IF stmt'[s].vtab = j THEN Holders(pEpoTab', stmt, aVTrans, j) + 1
                                  ELSE Holders(pEpoTab', stmt, aVTrans, j)
    BY <1>1, <1>3, <1>4, <1>5, StatementAdds
  <2>2. Holders(pEpoTab, stmt, aVTrans, j) \in Nat
    BY <1>1, HoldersFinite
  <2>3. Counted(vtable[j], Holders(pEpoTab, stmt, aVTrans, j))
    BY DEF TablesInv, CountedAll
  <2> QED
    BY <1>4, <2>1, <2>2, <2>3
<1>7. CASE pEpoTab[m] # 0
  <2> DEFINE w == [vtable[i] EXCEPT !.nRef = @ + 1]
  <2>1. i = pEpoTab[m] /\ vtable[i] # NULL /\ vtable[i] \in VTables /\ vtable[i].module = m
    BY <1>1, <1>2, <1>7, HeldTables DEF TablesInv, LinksMatch, TableMaps
  <2>2. w \in VTables /\ vtable' = [vtable EXCEPT ![i] = w]
    BY <1>1, <1>2, <1>7, <2>1, LockSound
  <2>3. w.module = m /\ w.oldCtx = vtable[i].oldCtx /\ w.nRef = vtable[i].nRef + 1
    BY <2>1 DEF VTables
  <2> HIDE DEF w
  <2>4. w # NULL
    BY <2>2, NullAssumption
  <2>5. /\ vtable' \in TableMaps /\ vtable'[i] = w
        /\ \A j \in Addresses \ {i} : vtable'[j] = vtable[j]
    BY <1>1, <2>2 DEF TableMaps
  <2>6. pEpoTab' = pEpoTab
    BY <1>1, <1>5, <2>1 DEF EpoMaps
  <2>7. vtable'[i].oldCtx <=> i \in Range(aVTrans)
    BY <2>1, <2>3, <2>5 DEF TablesInv, Copies
  <2>8. \A n \in VTabs \ {m} : pEpoTab'[n] = pEpoTab[n] /\ pEpoTab[n] # i
    BY <1>5, <2>1, <2>6 DEF TablesInv, LinksMatch
  <2>9. ASSUME NEW j \in Addresses PROVE Counted(vtable'[j], Holders(pEpoTab', stmt', aVTrans, j))
    BY <1>6, <2>1, <2>3, <2>4, <2>5, <2>6, SMTT(60) DEF Counted
  <2>10. CountedAll(vtable', pEpoTab', stmt', aVTrans)
    BY <2>9 DEF CountedAll
  <2>11. vtable'[i] # NULL /\ vtable'[i].module = m
    BY <2>3, <2>4, <2>5
  <2> QED
    BY <1>3, <1>4, <1>5, <2>5, <2>7, <2>8, <2>10, <2>11, CompiledKeepsTables
<1>8. CASE pEpoTab[m] = 0
  <2> DEFINE x == xConnect(m)
             w == [x EXCEPT !.nRef = @ + 1]
  <2>1. x \in VTables /\ x.module = m /\ x.oldCtx = FALSE /\ x.nRef = 1
    <3>1. pAux[m] \in Loads
      BY <1>3 DEF AuxTyped
    <3> QED
      BY <3>1 DEF xConnect, VTables
  <2>2. vtable[i] = NULL /\ vtable' = sqlite3VtabLock([vtable EXCEPT ![i] = x], i)
    BY <1>2, <1>8
  <2> HIDE DEF x
  <2>3. vtable' = [vtable EXCEPT ![i] = w]
    BY <1>1, <2>2 DEF sqlite3VtabLock, TableMaps
  <2>4. w \in VTables /\ w.module = m /\ w.oldCtx = FALSE /\ w.nRef = 2
    BY <2>1 DEF VTables
  <2> HIDE DEF w
  <2>5. w # NULL
    BY <2>4, NullAssumption
  <2>6. /\ vtable' \in TableMaps /\ vtable'[i] = w
        /\ \A j \in Addresses \ {i} : vtable'[j] = vtable[j]
    BY <1>1, <2>3, <2>4 DEF TableMaps
  <2>7. Holders(pEpoTab, stmt, aVTrans, i) = 0
    BY <1>6, <2>2 DEF Counted
  <2>8. /\ \A n \in VTabs : pEpoTab[n] # i
        /\ \A k \in 1 .. Len(aVTrans) : aVTrans[k] # i
    BY <1>1, <2>7, NoHolders
  <2>9. vtable'[i].oldCtx <=> i \in Range(aVTrans)
    <3>1. i \notin Range(aVTrans)
      BY <1>1, <2>8 DEF Range
    <3> QED
      BY <2>4, <2>6, <3>1
  <2>10. ASSUME NEW j \in Addresses
         PROVE  Holders(pEpoTab', stmt, aVTrans, j)
                   = IF j = i THEN Holders(pEpoTab, stmt, aVTrans, j) + 1
                              ELSE Holders(pEpoTab, stmt, aVTrans, j)
    BY <1>1, <1>5, <1>8, LinkAdds
  <2>11. ASSUME NEW j \in Addresses PROVE Counted(vtable'[j], Holders(pEpoTab', stmt', aVTrans, j))
    BY <1>6, <2>4, <2>5, <2>6, <2>7, <2>10, SMTT(60) DEF Counted
  <2>12. CountedAll(vtable', pEpoTab', stmt', aVTrans)
    BY <2>11 DEF CountedAll
  <2>13. vtable'[i] # NULL /\ vtable'[i].module = m
    BY <2>4, <2>5, <2>6
  <2>14. \A n \in VTabs \ {m} : pEpoTab'[n] = pEpoTab[n] /\ pEpoTab[n] # i
    BY <1>5, <2>8
  <2> QED
    BY <1>3, <1>4, <1>5, <2>6, <2>9, <2>12, <2>13, <2>14, CompiledKeepsTables, SMTT(60)
<1> QED
  BY <1>7, <1>8

LEMMA InvFacts ==
    ASSUME TablesInv
    PROVE  /\ pEpoTab \in EpoMaps /\ stmt \in StmtMaps /\ aVTrans \in Seq(Addresses)
           /\ vtable \in TableMaps
           /\ CountedAll(vtable, pEpoTab, stmt, aVTrans)
           /\ NoDuplicates(aVTrans) /\ Copies(vtable, aVTrans)
BY DEF TablesInv, TablesTyped

LEMMA EmptyTransaction == << >> \in Seq(Addresses) /\ NoDuplicates(<< >>)
BY DEF NoDuplicates

\* The tables that are left belong to the modules they belonged to.
LEMMA LinksKept ==
    ASSUME TablesInv, vtable' \in TableMaps, SameTables(vtable, vtable'), pEpoTab' = pEpoTab,
           CountedAll(vtable', pEpoTab', stmt', aVTrans'),
           stmt' \in StmtMaps, aVTrans' \in Seq(Addresses)
    PROVE  LinksMatch'
<1> SUFFICES ASSUME NEW m \in VTabs, pEpoTab[m] # 0 PROVE vtable'[pEpoTab[m]].module = m
  BY DEF LinksMatch
<1>1. pEpoTab[m] \in Addresses /\ pEpoTab' \in EpoMaps
  BY InvFacts DEF EpoMaps
<1>2. Holders(pEpoTab', stmt', aVTrans', pEpoTab[m]) # 0
  BY <1>1, NoHolders
<1>3. vtable'[pEpoTab[m]] # NULL
  BY <1>1, <1>2 DEF CountedAll, Counted
<1> QED
  BY <1>1, <1>3 DEF SameTables, SameTable, TablesInv, LinksMatch

\* xCommit or xRollback of every table in the transaction.
LEMMA FinaliserKeepsTables ==
    ASSUME TablesInv, db' = db, db # "closed", pEpoTab' = pEpoTab,
           vtable' = callFinaliser(vtable), aVTrans' = << >>, autoCommit' \in BOOLEAN,
           stmt' \in StmtMaps, \A r \in Stmts : stmt'[r] = NULL <=> stmt[r] = NULL,
           \A epo, tr, i : Holders(epo, stmt', tr, i) = Holders(epo, stmt, tr, i)
    PROVE  TablesInv'
<1>1. /\ vtable' \in TableMaps
      /\ CountedAll(vtable', pEpoTab, stmt, << >>)
      /\ Copies(vtable', << >>)
      /\ SameTables(vtable, vtable')
  BY InvFacts, FinaliseAll
<1>2. CountedAll(vtable', pEpoTab', stmt', aVTrans')
  BY <1>1 DEF CountedAll
<1>3. TablesTyped'
  BY <1>1, InvFacts, EmptyTransaction DEF TablesTyped
<1>4. LinksMatch'
  BY <1>1, <1>2, EmptyTransaction, LinksKept
<1>5. Closing'
  BY DEF TablesInv, Closing
<1>6. TransactionOpen' /\ NoDuplicates(aVTrans)'
  BY EmptyTransaction DEF TransactionOpen
<1> QED
  BY <1>1, <1>2, <1>3, <1>4, <1>5, <1>6 DEF TablesInv

LEMMA EndWriteKeepsTables ==
    ASSUME TablesInv, NEW s \in Stmts, EndWrite(s)
    PROVE  TablesInv'
<1>1. /\ SetActive(s) /\ stmt[s] # NULL /\ db' = db /\ db # "closed"
      /\ pEpoTab' = pEpoTab /\ autoCommit' = autoCommit
  BY DEF EndWrite, SetActive, ActiveWrite, Active, Idle
<1>2. /\ stmt' \in StmtMaps
      /\ \A r \in Stmts : stmt'[r] = NULL <=> stmt[r] = NULL
      /\ \A epo, tr, i : Holders(epo, stmt', tr, i) = Holders(epo, stmt, tr, i)
  BY <1>1, InvFacts, ActiveKeeps
<1>3. CASE autoCommit /\ \A t \in Stmts \ {s} : ~ActiveWrite(t)
  <2>1. vtable' = callFinaliser(vtable) /\ aVTrans' = << >> /\ autoCommit' \in BOOLEAN
    BY <1>1, <1>3 DEF EndWrite, TablesInv, TablesTyped
  <2> QED
    BY <1>1, <1>2, <2>1, FinaliserKeepsTables
<1>4. CASE ~(autoCommit /\ \A t \in Stmts \ {s} : ~ActiveWrite(t))
  <2>1. vtable' = vtable /\ aVTrans' = aVTrans
    BY <1>4 DEF EndWrite
  <2>2. \A t \in Stmts \ {s} : ActiveWrite(t) => ActiveWrite(t)'
    <3>1. \A t \in Stmts \ {s} : stmt'[t] = stmt[t]
      BY <1>1, InvFacts DEF SetActive, StmtMaps
    <3> QED
      BY <3>1 DEF ActiveWrite, Active
  <2>3. TransactionOpen'
    BY <1>1, <1>4, <2>2 DEF TransactionOpen
  <2> QED
    BY <1>1, <2>1, <2>3, ActivityKeepsTables
<1> QED
  BY <1>3, <1>4

LEMMA RollbackWriteKeepsTables ==
    ASSUME TablesInv, NEW s \in Stmts, RollbackWrite(s)
    PROVE  TablesInv'
<1>1. /\ SetActive(s) /\ stmt[s] # NULL /\ db' = db /\ db # "closed"
      /\ pEpoTab' = pEpoTab /\ autoCommit' \in BOOLEAN
      /\ vtable' = callFinaliser(vtable) /\ aVTrans' = << >>
  BY DEF RollbackWrite, SetActive, ActiveWrite, Active, Idle
<1>2. /\ stmt' \in StmtMaps
      /\ \A r \in Stmts : stmt'[r] = NULL <=> stmt[r] = NULL
      /\ \A epo, tr, i : Holders(epo, stmt', tr, i) = Holders(epo, stmt, tr, i)
  BY <1>1, InvFacts, ActiveKeeps
<1> QED
  BY <1>1, <1>2, FinaliserKeepsTables

LEMMA StepTransactionKeepsTables ==
    ASSUME TablesInv, NEW s \in Stmts, StepTransaction(s)
    PROVE  TablesInv'
<1>1. db' = db /\ db # "closed" /\ pEpoTab' = pEpoTab /\ stmt' = stmt /\ autoCommit' \in BOOLEAN
  BY DEF StepTransaction, Idle
<1>2. CASE autoCommit' = FALSE /\ UNCHANGED <<vtable, aVTrans>>
  <2>1. TablesTyped' /\ TransactionOpen'
    BY <1>1, <1>2 DEF TablesInv, TablesTyped, TransactionOpen
  <2>2. CountedAll(vtable, pEpoTab, stmt, aVTrans)' /\ NoDuplicates(aVTrans)'
           /\ Copies(vtable, aVTrans)'
    BY <1>1, <1>2, InvFacts
  <2>3. LinksMatch' /\ Closing'
    BY <1>1, <1>2 DEF TablesInv, LinksMatch, Closing
  <2> QED
    BY <2>1, <2>2, <2>3 DEF TablesInv
<1>3. CASE vtable' = callFinaliser(vtable) /\ aVTrans' = << >>
  <2>1. /\ stmt' \in StmtMaps /\ \A r \in Stmts : stmt'[r] = NULL <=> stmt[r] = NULL
        /\ \A epo, tr, i : Holders(epo, stmt', tr, i) = Holders(epo, stmt, tr, i)
    BY <1>1, InvFacts
  <2> QED
    BY <1>1, <1>3, <2>1, FinaliserKeepsTables
<1> QED
  BY <1>2, <1>3 DEF StepTransaction

LEMMA SameTablesTransitive ==
    ASSUME NEW u, NEW v, NEW w, SameTables(u, v), SameTables(v, w)
    PROVE  SameTables(u, w)
BY DEF SameTables, SameTable

\* The connection closes once nothing is linked or compiled any more.
LEMMA ClosedKeepsTables ==
    ASSUME pEpoTab' \in EpoMaps, \A m \in VTabs : pEpoTab'[m] = 0,
           stmt' \in StmtMaps, \A s \in Stmts : stmt'[s] = NULL,
           vtable' \in TableMaps, aVTrans' = << >>, autoCommit' = TRUE, db' = "closed",
           CountedAll(vtable', pEpoTab', stmt', << >>), Copies(vtable', << >>)
    PROVE  TablesInv'
<1>1. TablesTyped' /\ NoDuplicates(aVTrans')
  BY EmptyTransaction DEF TablesTyped
<1>2. LinksMatch' /\ TransactionOpen' /\ Closing'
  BY DEF LinksMatch, TransactionOpen, Closing
<1> QED
  BY <1>1, <1>2 DEF TablesInv

LEMMA FinalizeKeepsTables ==
    ASSUME TablesInv, NEW s \in Stmts, Finalize(s)
    PROVE  TablesInv' /\ SameTables(vtable, vtable')
<1> DEFINE S == {stmt[s].vtab} \ {0}
           vt == sqlite3VtabUnlock(vtable, S)
           last == db = "zombie" /\ \A t \in Stmts \ {s} : stmt[t] = NULL
<1>1. /\ stmt[s] # NULL /\ ~ActiveWrite(s) /\ stmt' = [stmt EXCEPT ![s] = NULL]
      /\ pEpoTab' = pEpoTab /\ db # "closed"
      /\ IF last THEN CloseZombie(vt, TRUE)
                 ELSE /\ vtable' = vt
                      /\ UNCHANGED <<db, heap, pUserData, pAux, library, aVTrans, autoCommit>>
  BY DEF Finalize, Idle
<1>2. /\ stmt' \in StmtMaps /\ stmt'[s] = NULL
      /\ \A r \in Stmts \ {s} : stmt'[r] = stmt[r]
  BY <1>1, InvFacts DEF StmtMaps
<1>3. S \in SUBSET Addresses /\ \A i \in S : vtable[i] # NULL
  BY <1>1, HeldTables DEF TablesInv
<1>4. ASSUME NEW i \in Addresses
      PROVE  Holders(pEpoTab, stmt', aVTrans, i)
                = Holders(pEpoTab, stmt, aVTrans, i) - One(i \in S)
  <2>1. Holders(pEpoTab, stmt', aVTrans, i)
           = IF stmt[s].vtab = i THEN Holders(pEpoTab, stmt, aVTrans, i) - 1
                                 ELSE Holders(pEpoTab, stmt, aVTrans, i)
    <3>1. stmt[s] # NULL /\ pEpoTab \in EpoMaps /\ stmt \in StmtMaps /\ aVTrans \in Seq(Addresses)
      BY <1>1, InvFacts
    <3> QED
      BY <1>2, <3>1, FinalizeSubtracts
  <2>2. i \in S <=> stmt[s].vtab = i
    BY DEF Addresses
  <2>3. Holders(pEpoTab, stmt, aVTrans, i) \in Nat
    BY InvFacts, HoldersFinite
  <2> QED
    BY <2>1, <2>2, <2>3 DEF One
<1> HIDE DEF S
<1>5. /\ vt \in TableMaps
      /\ CountedAll(vt, pEpoTab, stmt', aVTrans)
      /\ Copies(vt, aVTrans)
      /\ SameTables(vtable, vt)
  BY <1>2, <1>3, <1>4, InvFacts, UnlockAll
<1> HIDE DEF vt
<1>6. CASE last
  <2>1. /\ vtable' = callFinaliser(vt) /\ db' = "closed" /\ aVTrans' = << >> /\ autoCommit' = TRUE
    BY <1>1, <1>6 DEF CloseZombie
  <2>2. /\ vtable' \in TableMaps
        /\ CountedAll(vtable', pEpoTab, stmt', << >>)
        /\ Copies(vtable', << >>)
        /\ SameTables(vt, vtable')
    BY <1>2, <1>5, <2>1, InvFacts, FinaliseAll
  <2>3. \A m \in VTabs : pEpoTab'[m] = 0
    BY <1>1, <1>6 DEF TablesInv, Closing
  <2>4. \A t \in Stmts : stmt'[t] = NULL
    BY <1>2, <1>6
  <2>5. pEpoTab' \in EpoMaps /\ CountedAll(vtable', pEpoTab', stmt', << >>)
    BY <1>1, <2>2, InvFacts
  <2>6. TablesInv'
    BY <1>2, <2>1, <2>2, <2>3, <2>4, <2>5, ClosedKeepsTables
  <2> QED
    BY <1>5, <2>2, <2>6, SameTablesTransitive
<1>7. CASE ~last
  <2>1. vtable' = vt /\ db' = db /\ aVTrans' = aVTrans /\ autoCommit' = autoCommit
    BY <1>1, <1>7
  <2>2. TablesTyped'
    BY <1>1, <1>2, <1>5, <2>1 DEF TablesInv, TablesTyped
  <2>3. CountedAll(vtable', pEpoTab', stmt', aVTrans') /\ Copies(vtable', aVTrans')
           /\ NoDuplicates(aVTrans') /\ SameTables(vtable, vtable')
    BY <1>1, <1>5, <2>1, InvFacts
  <2>4. LinksMatch'
    BY <1>1, <2>2, <2>3, LinksKept DEF TablesTyped
  <2>5. TransactionOpen'
    <3>1. \A t \in Stmts : ActiveWrite(t) => ActiveWrite(t)'
      BY <1>1, <1>2 DEF ActiveWrite, Active
    <3> QED
      BY <2>1, <3>1 DEF TablesInv, TransactionOpen
  <2>6. Closing'
    BY <1>1, <1>2, <1>7, <2>1 DEF TablesInv, Closing
  <2> QED
    BY <2>2, <2>3, <2>4, <2>5, <2>6 DEF TablesInv
<1> QED
  BY <1>6, <1>7

LEMMA CloseKeepsTables ==
    ASSUME TablesInv, NEW forceZombie \in BOOLEAN, Close(forceZombie)
    PROVE  TablesInv' /\ SameTables(vtable, vtable')
<1> DEFINE S == { pEpoTab[m] : m \in VTabs } \ {0}
           vt == sqlite3VtabUnlock(vtable, S)
           busy == \E s \in Stmts : stmt[s] # NULL
<1>1. /\ pEpoTab' = [m \in VTabs |-> 0] /\ stmt' = stmt /\ aVTrans' = << >>
      /\ vtable' = callFinaliser(vt)
      /\ IF busy THEN db' \in {"open", "zombie"} /\ autoCommit' = autoCommit
                 ELSE db' = "closed" /\ autoCommit' = TRUE
  BY DEF Close, CloseZombie
<1>2. pEpoTab' \in EpoMaps /\ \A m \in VTabs : pEpoTab'[m] = 0
  BY <1>1 DEF EpoMaps
<1>3. S \in SUBSET Addresses /\ \A i \in S : vtable[i] # NULL
  BY HeldTables DEF TablesInv
<1>4. ASSUME NEW i \in Addresses
      PROVE  Holders(pEpoTab', stmt, aVTrans, i)
                = Holders(pEpoTab, stmt, aVTrans, i) - One(i \in S)
  <2>1. \A m, n \in VTabs : pEpoTab[m] = pEpoTab[n] /\ pEpoTab[m] # 0 => m = n
    BY DEF TablesInv, LinksMatch
  <2>2. Holders(pEpoTab', stmt, aVTrans, i)
           = IF \E m \in VTabs : pEpoTab[m] = i THEN Holders(pEpoTab, stmt, aVTrans, i) - 1
                                                ELSE Holders(pEpoTab, stmt, aVTrans, i)
    BY <1>2, <2>1, InvFacts, UnlinkSubtracts
  <2>3. i \in S <=> \E m \in VTabs : pEpoTab[m] = i
    BY DEF Addresses
  <2>4. Holders(pEpoTab, stmt, aVTrans, i) \in Nat
    BY InvFacts, HoldersFinite
  <2> QED
    BY <2>2, <2>3, <2>4 DEF One
<1> HIDE DEF S
<1>5. /\ vt \in TableMaps
      /\ CountedAll(vt, pEpoTab', stmt, aVTrans)
      /\ Copies(vt, aVTrans)
      /\ SameTables(vtable, vt)
  BY <1>2, <1>3, <1>4, InvFacts, UnlockAll
<1> HIDE DEF vt
<1>6. /\ vtable' \in TableMaps
      /\ CountedAll(vtable', pEpoTab', stmt, << >>)
      /\ Copies(vtable', << >>)
      /\ SameTables(vt, vtable')
  BY <1>1, <1>2, <1>5, InvFacts, FinaliseAll
<1>7. TablesInv'
  <2>1. CASE busy
    <3>1. TablesTyped'
      BY <1>1, <1>2, <1>6, <2>1, InvFacts, EmptyTransaction DEF TablesInv, TablesTyped
    <3>2. LinksMatch' /\ TransactionOpen' /\ Closing'
      BY <1>1, <1>2, <2>1 DEF LinksMatch, TransactionOpen, Closing
    <3> QED
      BY <1>1, <1>6, <3>1, <3>2, EmptyTransaction DEF TablesInv
  <2>2. CASE ~busy
    <3>1. stmt' \in StmtMaps /\ \A s \in Stmts : stmt'[s] = NULL
      BY <1>1, <2>2, InvFacts
    <3> QED
      BY <1>1, <1>2, <1>6, <2>2, <3>1, ClosedKeepsTables
  <2> QED
    BY <2>1, <2>2
<1> QED
  BY <1>5, <1>6, <1>7, SameTablesTransitive

LEMMA SameTablesReflexive == SameTables(vtable, vtable)
BY DEF SameTables, SameTable

LEMMA WriteSameTables ==
    ASSUME TablesInv, NEW s \in Stmts,
           StartWrite(s) \/ EndWrite(s) \/ RollbackWrite(s) \/ StepTransaction(s)
    PROVE  SameTables(vtable, vtable')
<1>1. CASE vtable' = vtable
  BY <1>1, SameTablesReflexive
<1>2. CASE vtable' = callFinaliser(vtable)
  BY <1>2, InvFacts, FinaliseAll
<1>3. CASE StartWrite(s) /\ vtable' # vtable
  <2> DEFINE i == stmt[s].vtab
  <2>1. vtable' = sqlite3VtabLock([vtable EXCEPT ![i].oldCtx = TRUE], i)
    BY <1>3 DEF StartWrite, xBegin
  <2>2. i \in Addresses /\ vtable[i] # NULL
    <3>1. stmt[s] # NULL /\ stmt[s].kind = "write" /\ stmt[s] \in Statements
      BY <1>3, InvFacts DEF StartWrite, StmtMaps
    <3>2. i # 0
      BY <3>1, SMTT(60) DEF Statements, PlainKinds, Addresses
    <3> QED
      BY <3>1, <3>2, HeldTables DEF TablesInv
  <2> HIDE DEF i
  <2>3. vtable[i] \in VTables
    BY <2>2, InvFacts DEF TableMaps
  <2>4. vtable'[i].module = vtable[i].module /\ vtable'[i].decCtx = vtable[i].decCtx
    BY <2>1, <2>2, <2>3, InvFacts DEF sqlite3VtabLock, TableMaps, VTables
  <2>5. \A j \in Addresses \ {i} : vtable'[j] = vtable[j]
    BY <2>1, <2>2, InvFacts DEF sqlite3VtabLock, TableMaps
  <2> QED
    BY <2>2, <2>4, <2>5 DEF SameTables, SameTable
<1> QED
  BY <1>1, <1>2, <1>3 DEF EndWrite, RollbackWrite, StepTransaction

LoadStep == StartLoad \/ Register \/ RegistrationFails \/ EndLoad

LEMMA LoadKeepsTables ==
    ASSUME TablesInv, LoadStep
    PROVE  TablesInv' /\ vtable' = vtable /\ db' = db
<1>1. UNCHANGED <<db, vtable, pEpoTab, aVTrans, autoCommit, stmt>>
  BY DEF LoadStep, StartLoad, Register, RegistrationFails, EndLoad, tables
<1> QED
  BY <1>1, SMTT(60) DEF TablesInv, TablesTyped, CountedAll, NoDuplicates, LinksMatch, Copies,
              TransactionOpen, ActiveWrite, Active, Closing

LEMMA StutterKeepsTables == TablesInv /\ UNCHANGED vars => TablesInv'
BY SMTT(60) DEF vars, tables, TablesInv, TablesTyped, CountedAll, NoDuplicates, LinksMatch, Copies,
       TransactionOpen, ActiveWrite, Active, Closing

\* Every step keeps the invariant of the tables.
LEMMA TablesStep == TablesInv /\ AuxTyped /\ [Next]_vars => TablesInv'
<1> SUFFICES ASSUME TablesInv, AuxTyped, [Next]_vars PROVE TablesInv'
  OBVIOUS
<1>1. CASE LoadStep
  BY <1>1, LoadKeepsTables
<1>2. ASSUME NEW s \in Stmts, NEW kind \in PlainKinds, Prepare(s, kind) PROVE TablesInv'
  BY <1>2, PrepareKeepsTables
<1>3. ASSUME NEW s \in Stmts, NEW kind \in TableKinds, NEW m \in VTabs, PrepareOnTable(s, kind, m)
      PROVE  TablesInv'
  BY <1>3, PrepareOnTableKeepsTables
<1>4. ASSUME NEW s \in Stmts, StepQuery(s) \/ EndQuery(s) PROVE TablesInv'
  BY <1>4, QueryKeepsTables
<1>5. ASSUME NEW s \in Stmts, StartWrite(s) \/ EndWrite(s) \/ RollbackWrite(s)
      PROVE  TablesInv'
  BY <1>5, StartWriteKeepsTables, EndWriteKeepsTables, RollbackWriteKeepsTables
<1>6. ASSUME NEW s \in Stmts, StepTransaction(s) PROVE TablesInv'
  BY <1>6, StepTransactionKeepsTables
<1>7. ASSUME NEW s \in Stmts, Finalize(s) PROVE TablesInv'
  BY <1>7, FinalizeKeepsTables
<1>8. ASSUME NEW forceZombie \in BOOLEAN, Close(forceZombie) PROVE TablesInv'
  BY <1>8, CloseKeepsTables
<1>9. CASE UNCHANGED vars
  BY <1>9, StutterKeepsTables
<1> QED
  BY <1>1, <1>2, <1>3, <1>4, <1>5, <1>6, <1>7, <1>8, <1>9 DEF Next, LoadStep
=============================================================================
