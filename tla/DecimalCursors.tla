--------------------------- MODULE DecimalCursors ---------------------------
(***************************************************************************)
(* Reading the virtual tables of decimal.c: one cursor, and everything     *)
(* else on the connection that changes the flags under it.                 *)
(*                                                                         *)
(* A cursor is a row number.  SQLite opens it, calls xFilter and then      *)
(* xEof, xColumn and xNext in turn; the inner table of a join is filtered  *)
(* again for every row of the outer one, and the columns of the outer one  *)
(* are read again for every row of the inner one.  A row of decStatus or   *)
(* decTraps is the n-th flag that is set at the moment of the call, so     *)
(* what a row number means shifts when flags come and go during the scan.  *)
(***************************************************************************)
EXTENDS DecContext, FiniteSetsExt

CONSTANTS
    ScanFlags,   \* the flags that come and go
    MaxScans     \* most times one cursor is filtered

ASSUME ScanFlagsAssumption == ScanFlags \subseteq Flags /\ MaxScans \in Nat

VTabs == {"Context", "Status", "Traps"}

VARIABLES
    decCtx,     \* the shared context
    phase,      \* where SQLite's loop over the rows stands
    vtab, row,  \* the table and the row number of the cursor
    scans,      \* how often xFilter was called
    owed,       \* history: the rows of the last xFilter that were not read yet,
                \*          none once a flag was cleared
    fresh,      \* history: those that were not read in an earlier row, none
                \*          once a flag was raised
    raised,     \* history: whether a flag of the table was raised since xFilter
    wrong,      \* history: whether, before that, a row showed what is not in fresh
    here,       \* history: what was read of the current row
    cleared     \* history: whether a flag of the table was cleared since the
                \*          last xEof

cursor == <<vtab, row, scans>>
history == <<owed, fresh, raised, wrong, here, cleared>>
vars == <<decCtx, phase, cursor, history>>

-----------------------------------------------------------------------------
(***************************************************************************)
(* The methods that read.                                                  *)
(***************************************************************************)

\* How many of the first i flags are set.
CountSet(set, i) == Cardinality({ j \in 1 .. i : extended_flags[j] \in set })

\* Where the loop has counted n + 1 of them.
Hits(set, n) ==
    { i \in 1 .. FLAGS_MAX : extended_flags[i] \in set /\ CountSet(set, i) = n + 1 }

\* Mutant: past the end, the last flag is returned once more.
NthSet_LastTwice(set, n) ==
    LET hits == IF Hits(set, n) = {} THEN Hits(set, n - 1) ELSE Hits(set, n)
    IN  IF hits = {} THEN NULL ELSE extended_flags[Min(hits)]

\* Mutant: the flag itself is not counted.
NthSet_SkipsFirst(set, n) ==
    IF Hits(set, n + 1) = {} THEN NULL ELSE extended_flags[Min(Hits(set, n + 1))]

\* The n-th flag of the set, counting from 0 in the order of extended_flags,
\* or null.
NthSet(set, n) ==
    IF Hits(set, n) = {} THEN NULL ELSE extended_flags[Min(Hits(set, n))]

decimalGetFlag(n) == NthSet(decCtx.status, n)
decimalGetTrap(n) == NthSet(decCtx.traps, n)

decimalContextEof(n) == n = 1
decimalStatusEof(n) == decimalGetFlag(n) = NULL
decimalTrapsEof(n) == decimalGetTrap(n) = NULL

\* Mutant: the only row of decContext is not the last.
xEof_TwoRows(v, n) ==
    CASE v = "Context" -> n = 2
      [] v = "Status"  -> decimalStatusEof(n)
      [] v = "Traps"   -> decimalTrapsEof(n)

\* Mutant: one row more is announced than there is.
xEof_OneMore(v, n) ==
    CASE v = "Context" -> decimalContextEof(n)
      [] v = "Status"  -> n > 0 /\ decimalStatusEof(n - 1)
      [] v = "Traps"   -> n > 0 /\ decimalTrapsEof(n - 1)

xEof(v, n) ==
    CASE v = "Context" -> decimalContextEof(n)
      [] v = "Status"  -> decimalStatusEof(n)
      [] v = "Traps"   -> decimalTrapsEof(n)

\* All columns of the row.
decimalContextColumn ==
    [prec |-> decCtx.digits, emax |-> decCtx.emax, emin |-> decCtx.emin, round |-> decCtx.round]
decimalStatusColumn(n) == decimalGetFlag(n)
decimalTrapsColumn(n) == decimalGetTrap(n)

xColumn(v, n) ==
    CASE v = "Context" -> decimalContextColumn
      [] v = "Status"  -> decimalStatusColumn(n)
      [] v = "Traps"   -> decimalTrapsColumn(n)

TableFlags(v) == IF v = "Status" THEN decCtx.status ELSE decCtx.traps

Rows(v) == IF v = "Context" THEN {xColumn(v, 0)} ELSE TableFlags(v)

ContextValues == [prec : Int, emax : Int, emin : Int, round : rounding_mode]

\* The null that ends a table is no value of a row.
ASSUME NullAssumption == NULL \notin Flags /\ NULL \notin ContextValues

Values(v) == IF v = "Context" THEN ContextValues ELSE Flags \cup {NULL}

HistoryOK == raised \in BOOLEAN /\ wrong \in BOOLEAN /\ cleared \in BOOLEAN

TypeOK ==
    /\ decCtx \in Contexts
    /\ phase \in {"closed", "open", "row", "read", "eof"}
    /\ vtab \in VTabs
    /\ row \in 0 .. IF vtab = "Context" THEN 1 ELSE FLAGS_MAX
    /\ scans \in 0 .. MaxScans
    /\ \A r \in owed \cup fresh \cup here : r \in Values(vtab)
    /\ HistoryOK

\* Any set of flags and traps: they are the connection's to change.
Init ==
    /\ \E s, t \in SUBSET ScanFlags :
          decCtx = [initDefaultContext EXCEPT !.status = s, !.traps = t]
    /\ phase = "closed"
    /\ vtab = "Context" /\ row = 0 /\ scans = 0
    /\ owed = {} /\ fresh = {} /\ here = {}
    /\ raised = FALSE /\ wrong = FALSE /\ cleared = FALSE

-----------------------------------------------------------------------------
(***************************************************************************)
(* The loop of SQLite over the rows (OP_VOpen, OP_VFilter, OP_VColumn,     *)
(* OP_VNext).                                                              *)
(***************************************************************************)
NewHistory(rows) ==
    /\ owed' = rows /\ fresh' = rows /\ here' = {}
    /\ raised' = FALSE /\ wrong' = FALSE /\ cleared' = FALSE

Open(v) ==
    /\ phase = "closed"
    /\ phase' = "open"
    /\ vtab' = v /\ row' = 0 /\ scans' = 0
    /\ NewHistory({})
    /\ UNCHANGED decCtx

\* xFilter itself does nothing: the row number stays where it was.
Filter ==
    /\ phase \in {"open", "eof"} /\ scans < MaxScans
    /\ scans' = scans + 1
    /\ phase' = IF xEof(vtab, row) THEN "eof" ELSE "row"
    /\ NewHistory(Rows(vtab))
    /\ UNCHANGED <<decCtx, vtab, row>>

\* OP_VColumn, once or again for the same row: SQLite keeps no value of the
\* row between two rows of the result.
Column ==
    /\ phase \in {"row", "read"}
    /\ phase' = "read"
    /\ owed' = owed \ {xColumn(vtab, row)}
    /\ here' = here \cup {xColumn(vtab, row)}
    /\ wrong' = (wrong \/ (~ raised /\ xColumn(vtab, row) \notin fresh \cup {NULL}))
    /\ UNCHANGED <<decCtx, cursor, fresh, raised, cleared>>

\* Mutant: the row number is not advanced.
NextRow_Stays ==
    /\ phase = "read"
    /\ phase' = IF xEof(vtab, row) THEN "eof" ELSE "row"
    /\ UNCHANGED <<decCtx, cursor, history>>

NextRow ==
    /\ phase = "read"
    /\ row' = row + 1
    /\ phase' = IF xEof(vtab, row + 1) THEN "eof" ELSE "row"
    /\ fresh' = fresh \ here /\ here' = {} /\ cleared' = FALSE
    /\ UNCHANGED <<decCtx, vtab, scans, owed, raised, wrong>>

\* The cursor is freed.
Closed ==
    /\ phase' = "closed"
    /\ vtab' = "Context" /\ row' = 0 /\ scans' = 0
    /\ NewHistory({})

\* At the end, or earlier when the statement is reset.
Close ==
    /\ phase # "closed"
    /\ Closed
    /\ UNCHANGED decCtx

-----------------------------------------------------------------------------
(***************************************************************************)
(* Everything else that changes the flags during the scan.                 *)
(***************************************************************************)
Becomes(c) ==
    LET now(d) == IF vtab = "Status" THEN d.status ELSE d.traps
        grew == vtab # "Context" /\ now(c) \ now(decCtx) # {}
        shrank == vtab # "Context" /\ now(decCtx) \ now(c) # {}
    IN  /\ decCtx' = c
        /\ raised' = (raised \/ grew)
        /\ fresh' = IF grew THEN {} ELSE fresh
        /\ cleared' = (cleared \/ shrank)
        /\ owed' = IF shrank THEN {} ELSE owed
        /\ UNCHANGED <<phase, cursor, wrong, here>>

\* A function of the query that raises a condition: at any time, also
\* between the xEof and the xColumn of a row.  A trapped condition is an
\* error and ends the query.
Evaluate(f) ==
    LET r == checkStatus(decContextSetStatus(decCtx, {f}))
    IN  IF r.ok
        THEN Becomes(r.ctx)
        ELSE decCtx' = r.ctx /\ Closed

\* Other statements, between two rows of the result: their functions, their
\* writes of decStatus and decTraps, and decClearStatus(), which the query
\* itself runs only before its first row because it is registered as
\* deterministic and has no arguments.  In a join there are many rows of the
\* result to one of the table, so this may also happen before a column is read.
OtherStatement(f) ==
    \/ Becomes(decimalSetFlag(decCtx, f).ctx)
    \/ Becomes(decimalClearFlag(decCtx, f).ctx)
    \/ Becomes(decimalSetTrap(decimalClearFlag(decCtx, f).ctx, f).ctx)
    \/ Becomes(decimalClearTrap(decCtx, f).ctx)
    \/ Becomes(decimalClearStatus(decCtx))
    \/ Becomes(checkStatus(decContextSetStatus(decCtx, {f})).ctx)

Next ==
    \/ \E v \in VTabs : Open(v)
    \/ Filter
    \/ Column
    \/ NextRow
    \/ Close
    \/ \E f \in ScanFlags : Evaluate(f)
    \/ \E f \in ScanFlags : OtherStatement(f)

\* Once it is started, SQLite's loop runs on by itself.
Fairness == WF_vars(Column) /\ WF_vars(NextRow)

Spec == Init /\ [][Next]_vars /\ Fairness

-----------------------------------------------------------------------------
(***************************************************************************)
(* Properties.                                                             *)
(***************************************************************************)

\* Conditions raised by the query that reads a table never make it miss a
\* row that was there when the scan started (decimalGetFlag counts up from
\* the first flag at each call): raising moves rows only to higher numbers.
RaisingSkipsNothing == phase = "eof" /\ scans = 1 => owed = {}

\* Flags cleared during the scan never make it show a flag in two rows, or
\* one that was not there when the scan started, however often each row is
\* read: clearing moves rows only to lower numbers.
ClearingRepeatsNothing == ~ wrong

\* The column "flag" is declared "not null" (decimal.c 252 and 261), and the
\* xColumn methods pass on a null flag without looking.  A null is read only
\* if a flag was cleared after xEof had announced the row: never because of
\* what was raised, nor of what was cleared earlier in the scan.
NullOnlyIfCleared == NULL \in here => cleared

\* A scan ends even if flags come and go all the time.
EveryScanEnds == phase \in {"row", "read"} ~> phase \in {"eof", "closed"}

\* decimal.c 234: decContext "is a one-row table", however often it is
\* scanned.
OneRowTable == phase = "eof" /\ vtab = "Context" => owed = {}
=============================================================================
