---------------------------- MODULE DecimalVTabs ----------------------------
(***************************************************************************)
(* The virtual tables decContext, decStatus and decTraps of decimal.c, and *)
(* the transactions SQLite runs on them.                                   *)
(*                                                                         *)
(* One connection has one shared context, decCtx, on which all the decimal *)
(* functions and the three tables operate.  Before the first row a         *)
(* transaction writes in a table, SQLite calls the table's xBegin, which   *)
(* keeps a copy of the context; xCommit drops the copy and xRollback puts  *)
(* it back.  SQLite remembers the tables to be told in aVTrans, in the     *)
(* order of their xBegin.                                                  *)
(*                                                                         *)
(* A write statement calls xUpdate once per row; between two rows the      *)
(* statement may evaluate decimal functions (in a WHERE clause or in the   *)
(* SELECT of an INSERT), which raise flags in the same context.            *)
(***************************************************************************)
EXTENDS DecContext, SequencesExt

CONSTANTS
    ContextRows,   \* rows an UPDATE of decContext writes
    FlagNames,     \* names a write of decStatus or decTraps mentions
    Conditions,    \* sets of flags one evaluation of a function raises
    TablesPerTxn,  \* most tables one transaction writes
    MaxSavepoints  \* most savepoints open at a time

VTabs == {"Context", "Status", "Traps"}

\* A running statement: the table it writes and, as history, the context
\* in which it started.
Statements == [vtab : VTabs, before : Contexts]

ASSUME InputsAssumption ==
    /\ TablesPerTxn \in Nat /\ MaxSavepoints \in Nat
    /\ Conditions \subseteq SUBSET Flags
    /\ NULL \notin Contexts \cup Statements
    /\ \A row \in ContextRows :
          /\ row.prec \in Int \cup {NULL}
          /\ row.emax \in Int \cup {NULL}
          /\ row.emin \in Int \cup {NULL}

VARIABLES
    decCtx,       \* the context shared by the functions and the tables
    oldCtx,       \* oldCtx[v]: the copy kept by table v, or NULL
    aVTrans,      \* the tables in the transaction, in the order of xBegin
    autoCommit,   \* FALSE between BEGIN and COMMIT or ROLLBACK
    pSavepoint,   \* how many savepoints are open
    isTransactionSavepoint,   \* the first of them began the transaction
    stmt,         \* the write statement that is running, or NULL
    rc            \* the result of the last write statement

vars == <<decCtx, oldCtx, aVTrans, autoCommit, pSavepoint, isTransactionSavepoint, stmt, rc>>
savepoints == <<pSavepoint, isTransactionSavepoint>>

TypeOK ==
    /\ decCtx \in Contexts
    /\ oldCtx \in [VTabs -> Contexts \cup {NULL}]
    /\ aVTrans \in Seq(VTabs)
    /\ autoCommit \in BOOLEAN
    /\ pSavepoint \in 0 .. MaxSavepoints /\ isTransactionSavepoint \in BOOLEAN
    /\ stmt \in Statements \cup {NULL}
    /\ rc \in {"OK", "ERROR"}

Init ==
    /\ decCtx = initDefaultContext
    /\ oldCtx = [v \in VTabs |-> NULL]
    /\ aVTrans = << >>
    /\ autoCommit = TRUE
    /\ pSavepoint = 0 /\ isTransactionSavepoint = FALSE
    /\ stmt = NULL
    /\ rc = "OK"

-----------------------------------------------------------------------------
(***************************************************************************)
(* The xUpdate methods.  A change is a record with the operation, the name *)
(* in the old row (a row of the table, hence a flag) and the new row.      *)
(***************************************************************************)
ContextChanges ==
    {[op |-> "delete"], [op |-> "insert"]} \cup [op : {"update"}, new : ContextRows]

FlagChanges ==
    [op : {"delete"}, old : FlagNames \cap Flags]
        \cup [op : {"insert"}, new : FlagNames \cup {NULL}]
        \cup [op : {"update"}, old : FlagNames \cap Flags, new : FlagNames \cup {NULL}]

Changes(v) == IF v = "Context" THEN ContextChanges ELSE FlagChanges

\* Four setters in turn, stopping at the first that refuses its value.
decimalContextUpdate(c, ch) ==
    IF \/ ch.op \in {"delete", "insert"}
       \/ NULL \in {ch.new.prec, ch.new.emax, ch.new.emin, ch.new.round}
    THEN Failure(c)
    ELSE LET p == decimalSetPrecision(c, ch.new.prec)
             x == IF p.ok THEN decimalSetMaxExp(p.ctx, ch.new.emax) ELSE p
             n == IF x.ok THEN decimalSetMinExp(x.ctx, ch.new.emin) ELSE x
         IN  IF n.ok THEN decimalSetRoundingMode(n.ctx, ch.new.round) ELSE n

decimalStatusUpdate(c, ch) ==
    CASE ch.op = "delete" -> decimalClearFlag(c, ch.old)
      [] ch.op # "delete" /\ ch.new = NULL -> Failure(c)
      [] ch.op = "insert" /\ ch.new # NULL -> decimalSetFlag(c, ch.new)
      [] ch.op = "update" /\ ch.new # NULL ->
            LET cleared == decimalClearFlag(c, ch.old)
            IN  IF cleared.ok THEN decimalSetFlag(cleared.ctx, ch.new) ELSE cleared

\* A flag that becomes a trap is first removed from the status.
decimalTrapsUpdate(c, ch) ==
    LET add(d) == LET cleared == decimalClearFlag(d, ch.new)
                  IN  IF cleared.ok THEN decimalSetTrap(cleared.ctx, ch.new) ELSE cleared
    IN  CASE ch.op = "delete" -> decimalClearTrap(c, ch.old)
          [] ch.op # "delete" /\ ch.new = NULL -> Failure(c)
          [] ch.op = "insert" /\ ch.new # NULL -> add(c)
          [] ch.op = "update" /\ ch.new # NULL ->
                LET dropped == decimalClearTrap(c, ch.old)
                IN  IF dropped.ok THEN add(dropped.ctx) ELSE dropped

xUpdate(v, c, ch) ==
    CASE v = "Context" -> decimalContextUpdate(c, ch)
      [] v = "Status"  -> decimalStatusUpdate(c, ch)
      [] v = "Traps"   -> decimalTrapsUpdate(c, ch)

-----------------------------------------------------------------------------
(***************************************************************************)
(* The transaction methods, as SQLite calls them.                          *)
(***************************************************************************)

\* Mutant: every statement takes a new copy.
xBegin_EachStatement(v) ==
    /\ Contains(aVTrans, v) \/ Len(aVTrans) < TablesPerTxn
    /\ oldCtx' = [oldCtx EXCEPT ![v] = decCtx]
    /\ aVTrans' = IF Contains(aVTrans, v) THEN aVTrans ELSE Append(aVTrans, v)

\* sqlite3VtabBegin: xBegin, unless the table is in the transaction already.
xBegin(v) ==
    IF Contains(aVTrans, v)
    THEN UNCHANGED <<oldCtx, aVTrans>>
    ELSE /\ Len(aVTrans) < TablesPerTxn
         /\ oldCtx' = [oldCtx EXCEPT ![v] = decCtx]
         /\ aVTrans' = Append(aVTrans, v)

\* Mutant: the copies are freed but the pointers to them stay.
ForgetSnapshots_Dangling ==
    /\ aVTrans' = << >>
    /\ UNCHANGED oldCtx

ForgetSnapshots ==
    /\ oldCtx' = [v \in VTabs |-> IF Contains(aVTrans, v) THEN NULL ELSE oldCtx[v]]
    /\ aVTrans' = << >>

\* callFinaliser with xCommit
xCommitAll == ForgetSnapshots /\ UNCHANGED decCtx

\* callFinaliser with xRollback: every table of aVTrans in turn copies its
\* snapshot over the whole context, so that the last copy is what remains.
xRollbackAll(c) ==
    /\ decCtx' = IF aVTrans = << >> THEN c ELSE oldCtx[Last(aVTrans)]
    /\ ForgetSnapshots

\* Mutant: the error ends the statement as success would.
Abort_Keeps(c) ==
    /\ stmt' = NULL
    /\ rc' = "ERROR"
    /\ decCtx' = c
    /\ UNCHANGED <<autoCommit, savepoints>>
    /\ IF autoCommit THEN ForgetSnapshots ELSE UNCHANGED <<oldCtx, aVTrans>>

\* sqlite3VdbeHalt after an error, c being the context at that point: outside
\* a transaction everything is rolled back; inside one only the statement is,
\* which none of the tables hears of (they have no xSavepoint methods).
Abort(c) ==
    /\ stmt' = NULL
    /\ rc' = "ERROR"
    /\ UNCHANGED <<autoCommit, savepoints>>
    /\ IF autoCommit THEN xRollbackAll(c)
                     ELSE decCtx' = c /\ UNCHANGED <<oldCtx, aVTrans>>

-----------------------------------------------------------------------------
(***************************************************************************)
(* Steps of the connection.                                                *)
(***************************************************************************)
ExecBegin ==
    /\ stmt = NULL /\ autoCommit
    /\ autoCommit' = FALSE
    /\ UNCHANGED <<decCtx, oldCtx, aVTrans, savepoints, stmt, rc>>

sqlite3CloseSavepoints == pSavepoint' = 0 /\ isTransactionSavepoint' = FALSE

ExecCommit ==
    /\ stmt = NULL /\ ~autoCommit
    /\ autoCommit' = TRUE
    /\ xCommitAll
    /\ sqlite3CloseSavepoints
    /\ UNCHANGED <<stmt, rc>>

ExecRollback ==
    /\ stmt = NULL /\ ~autoCommit
    /\ autoCommit' = TRUE
    /\ xRollbackAll(decCtx)
    /\ sqlite3CloseSavepoints
    /\ UNCHANGED <<stmt, rc>>

\* SAVEPOINT: outside a transaction it begins one.
ExecSavepoint ==
    /\ stmt = NULL /\ pSavepoint < MaxSavepoints
    /\ pSavepoint' = pSavepoint + 1
    /\ autoCommit' = FALSE
    /\ isTransactionSavepoint' = (isTransactionSavepoint \/ autoCommit)
    /\ UNCHANGED <<decCtx, oldCtx, aVTrans, stmt, rc>>

\* RELEASE of the k-th savepoint, and with it those after it: if it began the
\* transaction, that is committed.
ExecRelease(k) ==
    /\ stmt = NULL
    /\ pSavepoint' = k - 1
    /\ IF k = 1 /\ isTransactionSavepoint
       THEN xCommitAll /\ autoCommit' = TRUE /\ isTransactionSavepoint' = FALSE
       ELSE UNCHANGED <<decCtx, oldCtx, aVTrans, autoCommit, isTransactionSavepoint>>
    /\ UNCHANGED <<stmt, rc>>

\* ROLLBACK TO the k-th savepoint, which remains: the tables are not told
\* (they have no xRollbackTo), and stay in the transaction.
ExecRollbackTo(k) ==
    /\ stmt = NULL
    /\ pSavepoint' = k
    /\ UNCHANGED <<decCtx, oldCtx, aVTrans, autoCommit, isTransactionSavepoint, stmt, rc>>

\* OP_VBegin at the start of INSERT, UPDATE or DELETE on table v
StartWrite(v) ==
    /\ stmt = NULL
    /\ xBegin(v)
    /\ stmt' = [vtab |-> v, before |-> decCtx]
    /\ UNCHANGED <<decCtx, autoCommit, savepoints, rc>>

\* OP_VUpdate: one row; an error ends the statement.
WriteRow(ch) ==
    /\ stmt # NULL
    /\ LET r == xUpdate(stmt.vtab, decCtx, ch)
       IN  IF r.ok
           THEN decCtx' = r.ctx /\ UNCHANGED <<oldCtx, aVTrans, autoCommit, savepoints, stmt, rc>>
           ELSE Abort(r.ctx)

\* The statement ends without error; outside a transaction that commits it.
EndWrite ==
    /\ stmt # NULL
    /\ stmt' = NULL
    /\ rc' = "OK"
    /\ IF autoCommit THEN xCommitAll ELSE UNCHANGED <<decCtx, oldCtx, aVTrans>>
    /\ UNCHANGED <<autoCommit, savepoints>>

\* An interrupt, or another error that forces SQLite to give up the whole
\* transaction the running statement is part of.
Interrupt ==
    /\ stmt # NULL
    /\ stmt' = NULL
    /\ rc' = "ERROR"
    /\ autoCommit' = TRUE
    /\ xRollbackAll(decCtx)
    /\ sqlite3CloseSavepoints

\* A decimal function that raises the given conditions and checks the status,
\* evaluated by the running write statement or by a query.
Evaluate(raised) ==
    LET r == checkStatus(decContextSetStatus(decCtx, raised))
    IN  IF r.ok \/ stmt = NULL
        THEN decCtx' = r.ctx /\ UNCHANGED <<oldCtx, aVTrans, autoCommit, savepoints, stmt, rc>>
        ELSE Abort(r.ctx)

EvaluateClearStatus ==
    /\ decCtx' = decimalClearStatus(decCtx)
    /\ UNCHANGED <<oldCtx, aVTrans, autoCommit, savepoints, stmt, rc>>

Next ==
    \/ ExecBegin
    \/ ExecCommit
    \/ ExecRollback
    \/ ExecSavepoint
    \/ \E k \in 1 .. pSavepoint : ExecRelease(k) \/ ExecRollbackTo(k)
    \/ \E v \in VTabs : StartWrite(v)
    \/ stmt # NULL /\ \E ch \in Changes(stmt.vtab) : WriteRow(ch)
    \/ EndWrite
    \/ Interrupt
    \/ \E raised \in Conditions : Evaluate(raised)
    \/ EvaluateClearStatus

Spec == Init /\ [][Next]_vars

-----------------------------------------------------------------------------
(***************************************************************************)
(* Safety.                                                                 *)
(***************************************************************************)

\* Bounds every user of a context relies on: the encoder needs a precision
\* of whole three-digit units no larger than its buffers, decNumber needs
\* its exponent limits on either side of zero.
ValidContext(c) ==
    /\ c.digits \in 1 .. DECNUMDIGITS /\ c.digits % 3 = 0
    /\ c.emax \in 1 .. DEC_MAX_EMAX
    /\ c.emin \in -DEC_MAX_EMAX .. -1

\* The live context and every copy that a rollback may put back are usable,
\* although an update may stop half-way (decimalContextUpdate) and be kept.
ContextsStayValid ==
    /\ ValidContext(decCtx)
    /\ \A v \in VTabs : oldCtx[v] # NULL => ValidContext(oldCtx[v])

\* A table holds a copy exactly while SQLite will call its xCommit or
\* xRollback, each of which uses the copy without looking (decimal.c 391-409):
\* no call finds a null copy and no copy is overwritten by a second xBegin.
SnapshotsMatchTransaction ==
    /\ \A v \in VTabs : oldCtx[v] # NULL <=> Contains(aVTrans, v)
    /\ \A i, j \in 1 .. Len(aVTrans) : aVTrans[i] = aVTrans[j] => i = j
    /\ autoCommit /\ stmt = NULL => aVTrans = << >>

\* A statement that fails outside a transaction leaves the context as it
\* found it, whatever rows it had written and whatever flags the functions
\* it called had raised.
AutocommitFailureRestores ==
    [][ (autoCommit /\ stmt # NULL /\ stmt' = NULL /\ rc' = "ERROR")
            => decCtx' = stmt.before ]_vars

\* decimal.c 203: a table "keeps tracks of the original context, for
\* rollback".  Giving up a transaction brings back the context in which it
\* wrote its first table.
RollbackRestoresOriginal ==
    [][ (aVTrans # << >> /\ aVTrans' = << >> /\ (ExecRollback \/ Interrupt))
            => decCtx' = oldCtx[Head(aVTrans)] ]_vars

\* sqlite3.c 17012: a statement that fails inside a transaction has its
\* changes backed out.
FailedStatementBackedOut ==
    [][ (~autoCommit /\ stmt # NULL /\ stmt' = NULL /\ rc' = "ERROR")
            => decCtx' = stmt.before ]_vars

(***************************************************************************)
(* What the tables promise together: one context with undo points, the     *)
(* copies of the tables in the order they were taken.                      *)
(***************************************************************************)
Undo == [i \in 1 .. Len(aVTrans) |-> oldCtx[aVTrans[i]]]

Atomic == INSTANCE AtomicContext WITH ctx <- decCtx, saved <- Undo

\* Whatever the statements, errors, interrupts and savepoints, the three tables
\* and SQLite's calls of their transaction methods implement AtomicContext: a
\* write of a table changes the context in place, only the end of the
\* transaction discards the undo points, and a rollback undoes all that
\* happened since the last of them, in one step.
AtomicSpec == Atomic!Spec
=============================================================================
