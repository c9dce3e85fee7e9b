------------------------ MODULE DecimalVTabs_proofs ------------------------
(***************************************************************************)
(* Proofs about DecimalVTabs, for every set of inputs and any number of    *)
(* tables in a transaction.                                                *)
(***************************************************************************)
EXTENDS DecimalVTabs, TLAPS

(***************************************************************************)
(* The operations on a context return a context, and keep its bounds even  *)
(* when they fail half-way.                                                *)
(***************************************************************************)
Sound(r) == /\ r.ok \in BOOLEAN
            /\ r.ctx \in Contexts
            /\ ValidContext(r.ctx)

LEMMA FlagsSound ==
    ASSUME NEW c \in Contexts, ValidContext(c), NEW name
    PROVE  /\ Sound(decimalClearFlag(c, name))
           /\ Sound(decimalSetFlag(c, name))
           /\ Sound(decimalClearTrap(c, name))
           /\ Sound(decimalSetTrap(c, name))
BY DEF Sound, Contexts, ValidContext, Success, Failure,
       decimalClearFlag, decimalSetFlag, decimalClearTrap, decimalSetTrap

LEMMA PrecisionSound ==
    ASSUME NEW c \in Contexts, ValidContext(c), NEW x \in Int
    PROVE  Sound(decimalSetPrecision(c, x))
BY DigitsAssumption
   DEF Sound, Contexts, ValidContext, Success, Failure, decimalSetPrecision

LEMMA ExponentsSound ==
    ASSUME NEW c \in Contexts, ValidContext(c), NEW x \in Int
    PROVE  /\ Sound(decimalSetMaxExp(c, x))
           /\ Sound(decimalSetMinExp(c, x))
BY ExponentAssumption
   DEF Sound, Contexts, ValidContext, Success, Failure,
       decimalSetMaxExp, decimalSetMinExp

LEMMA RoundingSound ==
    ASSUME NEW c \in Contexts, ValidContext(c), NEW mode
    PROVE  Sound(decimalSetRoundingMode(c, mode))
BY DEF Sound, Contexts, ValidContext, Success, Failure,
       decimalSetRoundingMode, rounding_mode

LEMMA StatusSound ==
    ASSUME NEW c \in Contexts, ValidContext(c), NEW raised \in SUBSET Flags
    PROVE  /\ decContextSetStatus(c, raised) \in Contexts
           /\ ValidContext(decContextSetStatus(c, raised))
           /\ Sound(checkStatus(c))
           /\ decimalClearStatus(c) \in Contexts
           /\ ValidContext(decimalClearStatus(c))
BY DEF Sound, Contexts, ValidContext, Success, Failure,
       decContextSetStatus, checkStatus, decimalClearStatus

LEMMA ContextUpdateSound ==
    ASSUME NEW c \in Contexts, ValidContext(c), NEW ch \in ContextChanges
    PROVE  Sound(decimalContextUpdate(c, ch))
<1> DEFINE refused == \/ ch.op \in {"delete", "insert"}
                      \/ NULL \in {ch.new.prec, ch.new.emax, ch.new.emin, ch.new.round}
           p == decimalSetPrecision(c, ch.new.prec)
           x == IF p.ok THEN decimalSetMaxExp(p.ctx, ch.new.emax) ELSE p
           n == IF x.ok THEN decimalSetMinExp(x.ctx, ch.new.emin) ELSE x
           r == IF n.ok THEN decimalSetRoundingMode(n.ctx, ch.new.round) ELSE n
<1>1. CASE refused
  BY <1>1 DEF decimalContextUpdate, Sound, Failure
<1>2. CASE ~refused
  <2>1. ch.new \in ContextRows
    BY <1>2 DEF ContextChanges
  <2>2. ch.new.prec \in Int /\ ch.new.emax \in Int /\ ch.new.emin \in Int
    BY <1>2, <2>1, InputsAssumption
  <2>3. Sound(p)
    BY <2>2, PrecisionSound
  <2>4. Sound(x)
    BY <2>2, <2>3, ExponentsSound DEF Sound
  <2>5. Sound(n)
    BY <2>2, <2>4, ExponentsSound DEF Sound
  <2>6. Sound(r)
    BY <2>5, RoundingSound DEF Sound
  <2>7. decimalContextUpdate(c, ch) = r
    BY <1>2 DEF decimalContextUpdate
  <2> QED
    BY <2>6, <2>7
<1> QED
  BY <1>1, <1>2

LEMMA StatusUpdateSound ==
    ASSUME NEW c \in Contexts, ValidContext(c), NEW ch \in FlagChanges
    PROVE  Sound(decimalStatusUpdate(c, ch))
<1> DEFINE cleared == decimalClearFlag(c, ch.old)
<1>1. Sound(cleared) /\ Sound(Failure(c)) /\ Sound(decimalSetFlag(c, ch.new))
  BY FlagsSound DEF Sound, Failure
<1>2. cleared.ok => Sound(decimalSetFlag(cleared.ctx, ch.new))
  BY <1>1, FlagsSound DEF Sound
<1>3. ch.op \in {"delete", "insert", "update"}
  BY DEF FlagChanges
<1> QED
  BY <1>1, <1>2, <1>3 DEF decimalStatusUpdate

LEMMA TrapsUpdateSound ==
    ASSUME NEW c \in Contexts, ValidContext(c), NEW ch \in FlagChanges
    PROVE  Sound(decimalTrapsUpdate(c, ch))
<1> DEFINE cleared(d) == decimalClearFlag(d, ch.new)
           add(d) == IF cleared(d).ok THEN decimalSetTrap(cleared(d).ctx, ch.new) ELSE cleared(d)
           dropped == decimalClearTrap(c, ch.old)
<1>1. ASSUME NEW d \in Contexts, ValidContext(d)
      PROVE  Sound(add(d))
  <2>1. Sound(cleared(d))
    BY <1>1, FlagsSound
  <2>2. Sound(decimalSetTrap(cleared(d).ctx, ch.new))
    BY <2>1, FlagsSound DEF Sound
  <2> QED
    BY <2>1, <2>2
<1>2. Sound(dropped) /\ Sound(Failure(c))
  BY FlagsSound DEF Sound, Failure
<1>3. Sound(add(dropped.ctx)) /\ Sound(add(c))
  <2> HIDE DEF add, dropped
  <2> QED
    BY <1>1, <1>2 DEF Sound
<1>4. ch.op \in {"delete", "insert", "update"}
  BY DEF FlagChanges
<1> QED
  BY <1>2, <1>3, <1>4 DEF decimalTrapsUpdate

LEMMA UpdateSound ==
    ASSUME NEW c \in Contexts, ValidContext(c), NEW v \in VTabs, NEW ch \in Changes(v)
    PROVE  Sound(xUpdate(v, c, ch))
BY ContextUpdateSound, StatusUpdateSound, TrapsUpdateSound
   DEF xUpdate, VTabs, Changes

-----------------------------------------------------------------------------
(***************************************************************************)
(* The inductive invariant.  SnapshotsMatchTransaction does not say which  *)
(* table's copy exists while a statement runs outside a transaction; that  *)
(* it is the statement's own, taken when it started, is StatementInv.      *)
(***************************************************************************)
StatementInv ==
    stmt # NULL =>
        /\ Contains(aVTrans, stmt.vtab)
        /\ autoCommit => aVTrans = <<stmt.vtab>> /\ oldCtx[stmt.vtab] = stmt.before

IInv == TypeOK /\ ContextsStayValid /\ SnapshotsMatchTransaction /\ StatementInv

\* After the finalisers ran, no table holds a copy.
LEMMA ForgetAll ==
    ASSUME TypeOK, SnapshotsMatchTransaction, ForgetSnapshots
    PROVE  oldCtx' = [v \in VTabs |-> NULL] /\ aVTrans' = << >>
BY DEF TypeOK, SnapshotsMatchTransaction, ForgetSnapshots

\* What a rollback puts back is a usable context.
LEMMA RollbackContext ==
    ASSUME IInv, NEW c \in Contexts, ValidContext(c), xRollbackAll(c)
    PROVE  decCtx' \in Contexts /\ ValidContext(decCtx')
<1>1. CASE aVTrans = << >>
  BY <1>1 DEF xRollbackAll
<1>2. CASE aVTrans # << >>
  <2>1. Len(aVTrans) \in 1 .. Len(aVTrans) /\ Last(aVTrans) \in VTabs
    BY <1>2 DEF IInv, TypeOK, Last
  <2>2. Contains(aVTrans, Last(aVTrans))
    BY <2>1 DEF Contains, Last
  <2>3. oldCtx[Last(aVTrans)] # NULL
    BY <2>1, <2>2 DEF IInv, SnapshotsMatchTransaction
  <2> QED
    BY <1>2, <2>1, <2>3 DEF IInv, TypeOK, ContextsStayValid, xRollbackAll
<1> QED
  BY <1>1, <1>2

\* Outside a statement, with no table in the transaction.
LEMMA AtRest ==
    ASSUME decCtx' \in Contexts, ValidContext(decCtx'),
           oldCtx' = [v \in VTabs |-> NULL], aVTrans' = << >>,
           autoCommit' \in BOOLEAN, stmt' = NULL, rc' \in {"OK", "ERROR"},
           pSavepoint' \in 0 .. MaxSavepoints, isTransactionSavepoint' \in BOOLEAN
    PROVE  IInv'
<1>1. TypeOK'
  BY DEF TypeOK
<1>2. ContextsStayValid'
  BY DEF ContextsStayValid
<1>3. SnapshotsMatchTransaction'
  BY DEF SnapshotsMatchTransaction, Contains
<1>4. StatementInv'
  BY DEF StatementInv
<1> QED
  BY <1>1, <1>2, <1>3, <1>4 DEF IInv

\* A step that changes the context in place, and perhaps ends the statement
\* inside a transaction.
LEMMA InPlace ==
    ASSUME IInv, decCtx' \in Contexts, ValidContext(decCtx'),
           UNCHANGED <<oldCtx, aVTrans, autoCommit>>,
           pSavepoint' \in 0 .. MaxSavepoints, isTransactionSavepoint' \in BOOLEAN,
           rc' \in {"OK", "ERROR"},
           stmt' = stmt \/ (stmt' = NULL /\ ~autoCommit)
    PROVE  IInv'
<1>1. TypeOK'
  BY DEF IInv, TypeOK
<1>2. ContextsStayValid'
  BY DEF IInv, ContextsStayValid
<1>3. SnapshotsMatchTransaction'
  BY DEF IInv, SnapshotsMatchTransaction, Contains
<1>4. StatementInv'
  BY DEF IInv, StatementInv, Contains
<1> QED
  BY <1>1, <1>2, <1>3, <1>4 DEF IInv

LEMMA AbortInv ==
    ASSUME IInv, NEW c \in Contexts, ValidContext(c), Abort(c)
    PROVE  IInv'
<1>1. CASE autoCommit
  <2>1. decCtx' \in Contexts /\ ValidContext(decCtx')
    BY <1>1, RollbackContext DEF Abort
  <2>2. oldCtx' = [v \in VTabs |-> NULL] /\ aVTrans' = << >>
    BY <1>1, ForgetAll DEF Abort, xRollbackAll, IInv
  <2> QED
    BY <1>1, <2>1, <2>2, AtRest DEF Abort, IInv, TypeOK, savepoints
<1>2. CASE ~autoCommit
  BY <1>2, InPlace DEF Abort, IInv, TypeOK, savepoints
<1> QED
  BY <1>1, <1>2

LEMMA InitInv == Init => IInv
<1> SUFFICES ASSUME Init PROVE IInv
  OBVIOUS
<1>1. initDefaultContext \in Contexts /\ ValidContext(initDefaultContext)
  <2>1. \A i \in 1 .. 13 : extended_flags[i] \in Flags
    BY DEF Flags, FLAGS_MAX
  <2>2. /\ extended_flags[2] = "Conversion syntax"
        /\ extended_flags[3] = "Division by zero"
        /\ extended_flags[4] = "Division impossible"
        /\ extended_flags[5] = "Division undefined"
        /\ extended_flags[7] = "Out of memory"
        /\ extended_flags[8] = "Invalid context"
        /\ extended_flags[9] = "Invalid operation"
    BY DEF extended_flags
  <2>3. {"Conversion syntax", "Division by zero", "Division undefined",
         "Division impossible", "Out of memory", "Invalid context",
         "Invalid operation"} \subseteq Flags
    <3>1. /\ extended_flags[2] \in Flags /\ extended_flags[3] \in Flags
          /\ extended_flags[4] \in Flags /\ extended_flags[5] \in Flags
          /\ extended_flags[7] \in Flags /\ extended_flags[8] \in Flags
          /\ extended_flags[9] \in Flags
      BY <2>1
    <3>2. /\ "Conversion syntax" \in Flags /\ "Division by zero" \in Flags
          /\ "Division impossible" \in Flags /\ "Division undefined" \in Flags
          /\ "Out of memory" \in Flags /\ "Invalid context" \in Flags
          /\ "Invalid operation" \in Flags
      BY <2>2, <3>1
    <3> QED
      BY <3>2
  <2>4. DEC_Errors \subseteq Flags
    BY DEF DEC_Errors
  <2>5. initDefaultContext.traps \subseteq Flags
    BY <2>3, <2>4 DEF initDefaultContext
  <2>6. /\ initDefaultContext.status \in SUBSET Flags
        /\ initDefaultContext.traps \in SUBSET Flags
        /\ initDefaultContext.round \in rounding_mode
        /\ initDefaultContext.digits = DECNUMDIGITS
        /\ initDefaultContext.emax = DEC_MAX_EMAX
        /\ initDefaultContext.emin = -DEC_MAX_EMAX
    BY <2>5 DEF initDefaultContext, rounding_mode
  <2>7. ValidContext(initDefaultContext)
    BY <2>6, DigitsAssumption, ExponentAssumption DEF ValidContext
  <2>8. initDefaultContext =
          [digits |-> initDefaultContext.digits, emax |-> initDefaultContext.emax,
           emin |-> initDefaultContext.emin, round |-> initDefaultContext.round,
           status |-> initDefaultContext.status, traps |-> initDefaultContext.traps]
    BY DEF initDefaultContext
  <2> QED
    BY <2>6, <2>7, <2>8, DigitsAssumption, ExponentAssumption DEF Contexts
<1>2. TypeOK
  <2>1. 0 \in 0 .. MaxSavepoints
    BY InputsAssumption
  <2>2. decCtx \in Contexts /\ aVTrans \in Seq(VTabs) /\ stmt \in Statements \cup {NULL}
    BY <1>1 DEF Init
  <2>3. oldCtx \in [VTabs -> Contexts \cup {NULL}]
    BY DEF Init
  <2>4. /\ pSavepoint \in 0 .. MaxSavepoints
        /\ autoCommit \in BOOLEAN /\ isTransactionSavepoint \in BOOLEAN
        /\ rc \in {"OK", "ERROR"}
    BY <2>1, Zenon DEF Init
  <2> QED
    BY <2>2, <2>3, <2>4 DEF TypeOK
<1>3. ContextsStayValid
  BY <1>1 DEF Init, ContextsStayValid
<1>4. SnapshotsMatchTransaction
  BY DEF Init, SnapshotsMatchTransaction, Contains
<1>5. StatementInv
  BY DEF Init, StatementInv
<1> QED
  BY <1>2, <1>3, <1>4, <1>5 DEF IInv

\* The tables of the transaction after xBegin: v is among them, and outside
\* a transaction, where there was none, it is the only one.
LEMMA StartWriteInv ==
    ASSUME IInv, NEW v \in VTabs, StartWrite(v)
    PROVE  IInv'
<1> stmt = NULL /\ stmt' = [vtab |-> v, before |-> decCtx]
    /\ UNCHANGED <<decCtx, autoCommit, rc>> /\ xBegin(v)
    /\ UNCHANGED <<pSavepoint, isTransactionSavepoint>>
  BY DEF StartWrite, savepoints
<1> stmt' \in Statements /\ stmt' # NULL /\ stmt'.vtab = v /\ stmt'.before = decCtx
  BY InputsAssumption DEF IInv, TypeOK, Statements
<1>1. CASE Contains(aVTrans, v)
  <2> UNCHANGED <<oldCtx, aVTrans>>
    BY <1>1 DEF xBegin
  <2>1. TypeOK'
    BY DEF IInv, TypeOK
  <2>2. ContextsStayValid'
    BY DEF IInv, ContextsStayValid
  <2>3. SnapshotsMatchTransaction'
    BY DEF IInv, SnapshotsMatchTransaction, Contains
  <2>4. Contains(aVTrans, v)' /\ ~autoCommit
    BY <1>1 DEF IInv, SnapshotsMatchTransaction, Contains
  <2> QED
    BY <2>1, <2>2, <2>3, <2>4 DEF IInv, StatementInv
<1>2. CASE ~Contains(aVTrans, v)
  <2> /\ oldCtx' = [oldCtx EXCEPT ![v] = decCtx]
      /\ aVTrans' = Append(aVTrans, v)
    BY <1>2 DEF xBegin
  <2> aVTrans \in Seq(VTabs) /\ oldCtx \in [VTabs -> Contexts \cup {NULL}] /\ decCtx \in Contexts
    BY DEF IInv, TypeOK
  <2>0. decCtx # NULL /\ oldCtx'[v] = decCtx
    BY InputsAssumption
  <2>1. TypeOK'
    BY DEF IInv, TypeOK
  <2>2. ContextsStayValid'
    BY DEF IInv, ContextsStayValid
  <2>3. \A w \in VTabs : Contains(aVTrans, w)' <=> Contains(aVTrans, w) \/ w = v
    BY DEF Contains
  <2>4. SnapshotsMatchTransaction'
    <3>1. \A w \in VTabs : oldCtx'[w] # NULL <=> Contains(aVTrans, w)'
      BY <2>0, <2>3 DEF IInv, SnapshotsMatchTransaction
    <3>2. \A i, j \in 1 .. Len(aVTrans') : aVTrans'[i] = aVTrans'[j] => i = j
      BY <1>2 DEF IInv, SnapshotsMatchTransaction, Contains
    <3> QED
      BY <3>1, <3>2 DEF SnapshotsMatchTransaction
  <2>5. autoCommit => aVTrans' = <<v>>
    BY DEF IInv, SnapshotsMatchTransaction
  <2>6. StatementInv'
    BY <2>0, <2>3, <2>5 DEF StatementInv
  <2> QED
    BY <2>1, <2>2, <2>4, <2>6 DEF IInv
<1> QED
  BY <1>1, <1>2

LEMMA NextInv == IInv /\ [Next]_vars => IInv'
<1> SUFFICES ASSUME IInv, [Next]_vars PROVE IInv'
  OBVIOUS
<1> decCtx \in Contexts /\ ValidContext(decCtx)
  BY DEF IInv, TypeOK, ContextsStayValid
<1>0. 0 \in 0 .. MaxSavepoints
  BY InputsAssumption
<1>1. CASE ExecBegin
  <2>1. TypeOK'
    BY <1>1 DEF IInv, TypeOK, ExecBegin, savepoints
  <2>2. ContextsStayValid' /\ StatementInv'
    BY <1>1 DEF IInv, ContextsStayValid, StatementInv, ExecBegin
  <2>3. SnapshotsMatchTransaction'
    BY <1>1 DEF IInv, SnapshotsMatchTransaction, Contains, ExecBegin
  <2> QED
    BY <2>1, <2>2, <2>3 DEF IInv
<1>2. CASE ExecCommit
  <2>1. oldCtx' = [v \in VTabs |-> NULL] /\ aVTrans' = << >>
    BY <1>2, ForgetAll DEF IInv, ExecCommit, xCommitAll
  <2> QED
    BY <1>0, <1>2, <2>1, AtRest DEF IInv, TypeOK, ExecCommit, xCommitAll, sqlite3CloseSavepoints
<1>3. CASE ExecRollback
  <2>1. oldCtx' = [v \in VTabs |-> NULL] /\ aVTrans' = << >>
    BY <1>3, ForgetAll DEF IInv, ExecRollback, xRollbackAll
  <2>2. decCtx' \in Contexts /\ ValidContext(decCtx')
    BY <1>3, RollbackContext DEF ExecRollback
  <2> QED
    BY <1>0, <1>3, <2>1, <2>2, AtRest DEF IInv, TypeOK, ExecRollback, sqlite3CloseSavepoints
<1>4. ASSUME NEW v \in VTabs, StartWrite(v) PROVE IInv'
  BY <1>4, StartWriteInv
<1>5. ASSUME stmt # NULL, NEW ch \in Changes(stmt.vtab), WriteRow(ch) PROVE IInv'
  <2> DEFINE r == xUpdate(stmt.vtab, decCtx, ch)
  <2>1. stmt.vtab \in VTabs
    BY <1>5 DEF IInv, TypeOK, Statements
  <2>2. Sound(r)
    BY <1>5, <2>1, UpdateSound
  <2>3. CASE r.ok
    BY <1>5, <2>2, <2>3, InPlace DEF WriteRow, Sound, IInv, TypeOK, savepoints
  <2>4. CASE ~r.ok
    BY <1>5, <2>2, <2>4, AbortInv DEF WriteRow, Sound
  <2> QED
    BY <2>3, <2>4
<1>6. CASE EndWrite
  <2>1. CASE autoCommit
    <3>1. oldCtx' = [v \in VTabs |-> NULL] /\ aVTrans' = << >>
      BY <1>6, <2>1, ForgetAll DEF IInv, EndWrite, xCommitAll
    <3> QED
      BY <1>6, <2>1, <3>1, AtRest DEF EndWrite, xCommitAll, IInv, TypeOK, savepoints
  <2>2. CASE ~autoCommit
    BY <1>6, <2>2, InPlace DEF EndWrite, IInv, TypeOK, savepoints
  <2> QED
    BY <2>1, <2>2
<1>7. CASE Interrupt
  <2>1. oldCtx' = [v \in VTabs |-> NULL] /\ aVTrans' = << >>
    BY <1>7, ForgetAll DEF IInv, Interrupt, xRollbackAll
  <2>2. decCtx' \in Contexts /\ ValidContext(decCtx')
    BY <1>7, RollbackContext DEF Interrupt
  <2> QED
    BY <1>0, <1>7, <2>1, <2>2, AtRest DEF Interrupt, sqlite3CloseSavepoints
<1>8. ASSUME NEW raised \in Conditions, Evaluate(raised) PROVE IInv'
  <2> DEFINE r == checkStatus(decContextSetStatus(decCtx, raised))
  <2>1. Sound(r)
    BY InputsAssumption, StatusSound
  <2>2. CASE r.ok \/ stmt = NULL
    BY <1>8, <2>1, <2>2, InPlace DEF Evaluate, Sound, IInv, TypeOK, savepoints
  <2>3. CASE ~(r.ok \/ stmt = NULL)
    BY <1>8, <2>1, <2>3, AbortInv DEF Evaluate, Sound
  <2> QED
    BY <2>2, <2>3
<1>9. CASE EvaluateClearStatus
  <2>1. decCtx' \in Contexts /\ ValidContext(decCtx')
    BY <1>9, StatusSound DEF EvaluateClearStatus
  <2> QED
    BY <1>9, <2>1, InPlace DEF EvaluateClearStatus, IInv, TypeOK, savepoints
<1>10. CASE UNCHANGED vars
  BY <1>10, InPlace DEF vars, IInv, TypeOK
<1>11. CASE ExecSavepoint
  <2>1. pSavepoint' \in 0 .. MaxSavepoints
    BY <1>11, InputsAssumption DEF ExecSavepoint, IInv, TypeOK
  <2>2. TypeOK'
    BY <1>11, <2>1 DEF ExecSavepoint, IInv, TypeOK
  <2>3. ContextsStayValid' /\ StatementInv'
    BY <1>11 DEF IInv, ContextsStayValid, StatementInv, ExecSavepoint
  <2>4. SnapshotsMatchTransaction'
    BY <1>11 DEF IInv, SnapshotsMatchTransaction, Contains, ExecSavepoint
  <2> QED
    BY <2>2, <2>3, <2>4 DEF IInv
<1>12. ASSUME NEW k \in 1 .. pSavepoint, ExecRelease(k) PROVE IInv'
  <2>1. pSavepoint' \in 0 .. MaxSavepoints
    BY <1>12, InputsAssumption DEF ExecRelease, IInv, TypeOK
  <2>2. CASE k = 1 /\ isTransactionSavepoint
    <3>1. oldCtx' = [v \in VTabs |-> NULL] /\ aVTrans' = << >>
      BY <1>12, <2>2, ForgetAll DEF IInv, ExecRelease, xCommitAll
    <3> QED
      BY <1>12, <2>1, <2>2, <3>1, AtRest DEF IInv, TypeOK, ExecRelease, xCommitAll
  <2>3. CASE ~(k = 1 /\ isTransactionSavepoint)
    BY <1>12, <2>1, <2>3, InPlace DEF ExecRelease, IInv, TypeOK
  <2> QED
    BY <2>2, <2>3
<1>13. ASSUME NEW k \in 1 .. pSavepoint, ExecRollbackTo(k) PROVE IInv'
  <2>1. pSavepoint' \in 0 .. MaxSavepoints
    BY <1>13, InputsAssumption DEF ExecRollbackTo, IInv, TypeOK
  <2> QED
    BY <1>13, <2>1, InPlace DEF ExecRollbackTo, IInv, TypeOK
<1> QED
  BY <1>11, <1>12, <1>13, <1>1, <1>2, <1>3, <1>4, <1>5, <1>6, <1>7, <1>8, <1>9, <1>10 DEF Next

-----------------------------------------------------------------------------
(***************************************************************************)
(* Theorems.                                                               *)
(***************************************************************************)

\* The state keeps its type: the context is always a context, whichever
\* setters, functions, commits and rollbacks ran on it.
THEOREM TypeCorrect == Spec => []TypeOK
<1>1. IInv => TypeOK
  BY DEF IInv
<1> QED
  BY <1>1, InitInv, NextInv, PTL DEF Spec

\* No sequence of table writes, failures half-way through a row, commits and
\* rollbacks leaves precision or exponent limits decNumber cannot use.
THEOREM ContextsValid == Spec => []ContextsStayValid
<1>1. IInv => ContextsStayValid
  BY DEF IInv
<1> QED
  BY <1>1, InitInv, NextInv, PTL DEF Spec

\* xCommit and xRollback always find the copy they use, and xBegin never
\* overwrites one (decimal.c 379-409), however many tables are written.
THEOREM SnapshotsMatch == Spec => []SnapshotsMatchTransaction
<1>1. IInv => SnapshotsMatchTransaction
  BY DEF IInv
<1> QED
  BY <1>1, InitInv, NextInv, PTL DEF Spec

\* A statement that fails outside a transaction leaves no trace in the
\* context (decimalVTabRollback, called by sqlite3VdbeHalt).
THEOREM AutocommitAtomic == Spec => AutocommitFailureRestores
<1> DEFINE Fails == autoCommit /\ stmt # NULL /\ stmt' = NULL /\ rc' = "ERROR"
           A == Fails => decCtx' = stmt.before
<1>1. IInv /\ [Next]_vars => [A]_vars
  <2> SUFFICES ASSUME IInv, Next, Fails PROVE decCtx' = stmt.before
    OBVIOUS
  <2>0. /\ aVTrans = <<stmt.vtab>> /\ oldCtx[stmt.vtab] = stmt.before
        /\ stmt.vtab \in VTabs
    BY DEF IInv, StatementInv, TypeOK, Statements
  <2>1. Last(aVTrans) = stmt.vtab /\ aVTrans # << >>
    BY <2>0 DEF Last
  <2>2. \A c : xRollbackAll(c) => decCtx' = stmt.before
    BY <2>0, <2>1 DEF xRollbackAll
  <2>3. \A c : Abort(c) => decCtx' = stmt.before
    BY <2>2 DEF Abort
  <2>4. CASE EndWrite
    BY <2>4 DEF EndWrite
  <2>5. CASE Interrupt
    BY <2>2, <2>5 DEF Interrupt
  <2>6. ASSUME NEW ch \in Changes(stmt.vtab), WriteRow(ch) PROVE decCtx' = stmt.before
    BY <2>3, <2>6 DEF WriteRow
  <2>7. ASSUME NEW raised \in Conditions, Evaluate(raised) PROVE decCtx' = stmt.before
    BY <2>3, <2>7 DEF Evaluate
  <2> QED
    BY <2>4, <2>5, <2>6, <2>7
       DEF Next, ExecBegin, ExecCommit, ExecRollback, ExecSavepoint, ExecRelease,
           ExecRollbackTo, StartWrite, EvaluateClearStatus
<1> QED
  BY <1>1, InitInv, NextInv, PTL DEF Spec, AutocommitFailureRestores

(***************************************************************************)
(* The tables implement AtomicContext.  A step of theirs is one of four.   *)
(***************************************************************************)

\* The context changes in place: Change, or a stutter.
InPlaceStep == decCtx' \in Contexts /\ UNCHANGED <<oldCtx, aVTrans>>

\* The transaction ends with the copy that was taken last: Rollback.
UndoStep == decCtx' = oldCtx[aVTrans[Len(aVTrans)]] /\ aVTrans # << >> /\ aVTrans' = << >>

\* The transaction ends with the context as it is: Commit, or a stutter.
KeepStep == decCtx' = decCtx /\ aVTrans' = << >>

\* A table takes its first copy: Begin.
SetStep == decCtx' = decCtx /\ Len(aVTrans) < TablesPerTxn /\ Undo' = Append(Undo, decCtx)

LEMMA UndoLength ==
    ASSUME TypeOK
    PROVE  /\ Len(Undo) = Len(aVTrans) /\ Len(Undo) \in Nat
           /\ \A i \in 1 .. Len(aVTrans) : Undo[i] = oldCtx[aVTrans[i]]
           /\ Undo = << >> <=> aVTrans = << >>
<1> aVTrans \in Seq(VTabs)
  BY DEF TypeOK
<1> QED
  BY DEF Undo

\* A table that was not in the transaction adds an undo point at the end.
LEMMA UndoGrows ==
    ASSUME IInv, NEW v \in VTabs, ~Contains(aVTrans, v),
           aVTrans' = Append(aVTrans, v), oldCtx' = [oldCtx EXCEPT ![v] = decCtx]
    PROVE  Undo' = Append(Undo, decCtx)
<1> DEFINE n == Len(aVTrans)
<1>1. /\ aVTrans \in Seq(VTabs) /\ oldCtx \in [VTabs -> Contexts \cup {NULL}]
      /\ n \in Nat
  BY DEF IInv, TypeOK
<1>2. /\ Len(aVTrans') = n + 1 /\ aVTrans'[n + 1] = v
      /\ \A i \in 1 .. n : aVTrans'[i] = aVTrans[i] /\ aVTrans[i] # v /\ aVTrans[i] \in VTabs
  BY <1>1 DEF Contains
<1>3. /\ \A i \in 1 .. n : oldCtx'[aVTrans'[i]] = Undo[i]
      /\ oldCtx'[aVTrans'[n + 1]] = decCtx
  BY <1>1, <1>2 DEF Undo
<1>4. Undo' = [i \in 1 .. n + 1 |-> IF i <= n THEN Undo[i] ELSE decCtx]
  BY <1>1, <1>2, <1>3 DEF Undo
<1>5. Append(Undo, decCtx) = [i \in 1 .. n + 1 |-> IF i <= n THEN Undo[i] ELSE decCtx]
  BY <1>1 DEF Undo
<1> QED
  BY <1>4, <1>5

LEMMA StepKinds ==
    ASSUME IInv, IInv', [Next]_vars
    PROVE  InPlaceStep \/ UndoStep \/ KeepStep \/ SetStep
<1> USE DEF InPlaceStep
<1> decCtx \in Contexts /\ decCtx' \in Contexts /\ aVTrans \in Seq(VTabs)
    /\ oldCtx \in [VTabs -> Contexts \cup {NULL}]
  BY DEF IInv, TypeOK
<1>1. ASSUME NEW c, xRollbackAll(c), aVTrans # << >> PROVE UndoStep
  BY <1>1 DEF xRollbackAll, ForgetSnapshots, UndoStep, Last
<1>2. ASSUME stmt # NULL PROVE aVTrans # << >>
  BY <1>2 DEF IInv, StatementInv, Contains
<1>3. ASSUME NEW c, stmt # NULL, Abort(c) PROVE UndoStep \/ InPlaceStep
  BY <1>1, <1>2, <1>3 DEF Abort
<1>4. ASSUME xCommitAll PROVE KeepStep
  BY <1>4 DEF xCommitAll, ForgetSnapshots, KeepStep
<1>5. CASE ExecRollback
  <2>1. CASE aVTrans = << >>
    BY <1>5, <2>1 DEF ExecRollback, xRollbackAll, ForgetSnapshots, KeepStep
  <2> QED
    BY <1>1, <1>5, <2>1 DEF ExecRollback
<1>6. ASSUME NEW v \in VTabs, StartWrite(v) PROVE InPlaceStep \/ SetStep
  <2>1. CASE Contains(aVTrans, v)
    BY <1>6, <2>1 DEF StartWrite, xBegin
  <2>2. CASE ~Contains(aVTrans, v)
    <3>1. /\ aVTrans' = Append(aVTrans, v) /\ oldCtx' = [oldCtx EXCEPT ![v] = decCtx]
          /\ Len(aVTrans) < TablesPerTxn /\ decCtx' = decCtx
      BY <1>6, <2>2 DEF StartWrite, xBegin
    <3> QED
      BY <2>2, <3>1, UndoGrows DEF SetStep
  <2> QED
    BY <2>1, <2>2
<1>7. ASSUME NEW ch, WriteRow(ch) PROVE UndoStep \/ InPlaceStep
  BY <1>3, <1>7 DEF WriteRow
<1>8. ASSUME NEW raised, Evaluate(raised) PROVE UndoStep \/ InPlaceStep
  BY <1>3, <1>8 DEF Evaluate
<1>9. CASE EndWrite
  BY <1>4, <1>9 DEF EndWrite
<1>10. CASE Interrupt
  BY <1>1, <1>2, <1>10 DEF Interrupt
<1>11. ASSUME NEW k, ExecRelease(k) PROVE KeepStep \/ InPlaceStep
  BY <1>4, <1>11 DEF ExecRelease
<1> QED
  BY <1>4, <1>5, <1>6, <1>7, <1>8, <1>9, <1>10, <1>11
     DEF Next, vars, ExecBegin, ExecCommit, ExecSavepoint, ExecRollbackTo, EvaluateClearStatus

\* The tables and SQLite's calls of their transaction methods give the
\* functions one context with an undo point for each table written, for any
\* number of tables, savepoints, rows and names (decimal.c 379-409).
THEOREM Refinement == Spec => AtomicSpec
<1>1. Init => Atomic!Init
  <2>1. Atomic!DEC_Errors = DEC_Errors
    BY DEF DEC_Errors, Atomic!DEC_Errors, Flags, Atomic!Flags, extended_flags,
           Atomic!extended_flags, FLAGS_MAX, Atomic!FLAGS_MAX
  <2>2. Atomic!initDefaultContext = initDefaultContext
    BY <2>1 DEF initDefaultContext, Atomic!initDefaultContext
  <2>3. Init => Undo = << >>
    BY DEF Init, Undo
  <2> QED
    BY <2>2, <2>3 DEF Init, Atomic!Init
<1>2. ASSUME IInv, IInv', [Next]_vars
      PROVE  [Atomic!Next]_<<decCtx, Undo>>
  <2>0. Atomic!Contexts = Contexts
    BY DEF Contexts, Atomic!Contexts, rounding_mode, Atomic!rounding_mode,
           Flags, Atomic!Flags, extended_flags, Atomic!extended_flags,
           FLAGS_MAX, Atomic!FLAGS_MAX
  <2>1. CASE InPlaceStep
    BY <2>0, <2>1 DEF InPlaceStep, Undo, Atomic!Next, Atomic!Change
  <2>2. Undo = << >> <=> aVTrans = << >>
    BY <1>2, UndoLength DEF IInv
  <2>3. aVTrans' = << >> => Undo' = << >>
    BY DEF Undo
  <2>4. CASE UndoStep
    <3>1. decCtx' = Undo[Len(Undo)]
      BY <1>2, <2>4, UndoLength DEF UndoStep, IInv, TypeOK
    <3> QED
      BY <2>2, <2>3, <2>4, <3>1 DEF UndoStep, Atomic!Next, Atomic!Rollback
  <2>5. CASE KeepStep
    BY <2>2, <2>3, <2>5 DEF KeepStep, Atomic!Next, Atomic!Commit
  <2>6. CASE SetStep
    BY <1>2, <2>6, UndoLength DEF SetStep, IInv, Atomic!Next, Atomic!Begin
  <2> QED
    BY <1>2, <2>1, <2>4, <2>5, <2>6, StepKinds
<1> QED
  BY <1>1, <1>2, InitInv, NextInv, PTL DEF Spec, AtomicSpec, Atomic!Spec
=============================================================================
