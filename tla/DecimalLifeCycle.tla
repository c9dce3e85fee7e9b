-------------------------- MODULE DecimalLifeCycle --------------------------
(***************************************************************************)
(* How long the objects of the extension live: the shared context that     *)
(* sqlite3_decimal_init allocates, the functions and modules registered    *)
(* with a pointer to it, the tables connected to the modules, the copies a *)
(* transaction keeps, and the shared library the code is in.               *)
(*                                                                         *)
(* A load registers the functions, then the modules decStatus, decTraps    *)
(* and decContext, and gives up at the first that fails, undoing nothing.  *)
(* Only decContext is registered with a destructor, so that the connection *)
(* frees the context when it closes.  Meanwhile a connected table is held  *)
(* by its module, by the statements compiled for it and by the transaction *)
(* that wrote it; it is disconnected when the last of them lets go.  A     *)
(* connection closed by sqlite3_close_v2 lives on as a zombie until its    *)
(* last statement is finalised.                                            *)
(*                                                                         *)
(* A context is named by the number of the load that allocated it; 0 is a  *)
(* null pointer.  Values play no part here: see DecimalVTabs.  A context   *)
(* that cannot be allocated is no state of this module: its initialisation *)
(* writes through the null pointer and ends the process.                   *)
(***************************************************************************)
EXTENDS Integers, FiniteSets, Sequences, Functions

CONSTANTS
    aFunc,        \* names of the functions and aggregates, in order
    Stmts,        \* the prepared statements an application may hold
    MaxLoads,     \* bound on the loads of the extension in a connection
    MaxVTables,   \* bound on the tables connected at a time
    NULL

Functions == Range(aFunc)
VTabs == {"Status", "Traps", "Context"}
Registrations == aFunc \o << "Status", "Traps", "Context" >>
Loads == 1 .. MaxLoads
Addresses == 1 .. MaxVTables

\* Statements that touch no table: a call of a decimal function, BEGIN, and
\* the end of a transaction by COMMIT or ROLLBACK.
PlainKinds == {"call", "begin", "end"}
TableKinds == {"read", "write"}

\* A connected table (a decimalContextVTab, held by a VTable of SQLite), and
\* a prepared statement.
VTables == [module : VTabs, decCtx : Loads, oldCtx : BOOLEAN, nRef : Nat \ {0}]
Statements == [kind : TableKinds, vtab : Addresses, active : BOOLEAN]
                 \cup [kind : PlainKinds, vtab : {0}, active : BOOLEAN]

ASSUME LifeCycleAssumption ==
    /\ aFunc \in Seq(STRING) /\ Functions \cap VTabs = {}
    /\ IsFiniteSet(Stmts)
    /\ MaxLoads \in Nat /\ MaxVTables \in Nat

ASSUME NullAssumption ==
    NULL \notin Functions \cup VTabs \cup VTables \cup Statements
                  \cup [ctx : Loads, next : 1 .. Len(Registrations) + 1]

VARIABLES
    db,          \* "open", "zombie" or "closed"
    load,        \* the load in progress, or NULL
    heap,        \* heap[c]: what has become of the context of load c
    failedAt,    \* failedAt[c]: the registration load c failed at, or NULL
    pUserData,   \* pUserData[f]: the context function f was registered with
    pAux,        \* pAux[m]: the context module m was registered with
    library,     \* open handles of the shared library, and those db will close
    vtable,      \* vtable[i]: the connected table at address i, or NULL
    pEpoTab,     \* pEpoTab[m]: the table connected to module m
    aVTrans,     \* the tables in the transaction
    autoCommit,  \* FALSE between BEGIN and COMMIT or ROLLBACK
    stmt         \* stmt[s]: the prepared statement s, or NULL

registry == <<failedAt, pUserData, pAux>>
tables == <<vtable, pEpoTab, aVTrans>>
vars == <<db, load, heap, registry, library, tables, autoCommit, stmt>>

TypeOK ==
    /\ db \in {"open", "zombie", "closed"}
    /\ load \in {NULL} \cup [ctx : Loads, next : 1 .. Len(Registrations) + 1]
    /\ heap \in [Loads -> {"none", "live", "freed", "corrupt"}]
    /\ failedAt \in [Loads -> Functions \cup VTabs \cup {NULL}]
    /\ pUserData \in [Functions -> Loads \cup {0}]
    /\ pAux \in [VTabs -> Loads \cup {0}]
    /\ library \in [handles : Nat, aExtension : Nat]
    /\ vtable \in [Addresses -> {NULL} \cup VTables]
    /\ pEpoTab \in [VTabs -> Addresses \cup {0}]
    /\ aVTrans \in Seq(Addresses)
    /\ autoCommit \in BOOLEAN
    /\ stmt \in [Stmts -> {NULL} \cup Statements]

Init ==
    /\ db = "open" /\ load = NULL
    /\ heap = [c \in Loads |-> "none"]
    /\ failedAt = [c \in Loads |-> NULL]
    /\ pUserData = [f \in Functions |-> 0]
    /\ pAux = [m \in VTabs |-> 0]
    /\ library = [handles |-> 0, aExtension |-> 0]
    /\ vtable = [i \in Addresses |-> NULL]
    /\ pEpoTab = [m \in VTabs |-> 0]
    /\ aVTrans = << >>
    /\ autoCommit = TRUE
    /\ stmt = [s \in Stmts |-> NULL]

\* The connection can be used: its mutex is not held by a load.
Idle == db \in {"open", "zombie"} /\ load = NULL

Active(s) == stmt[s] # NULL /\ stmt[s].active
ActiveWrite(s) == Active(s) /\ stmt[s].kind = "write"

-----------------------------------------------------------------------------
(***************************************************************************)
(* sqlite3_load_extension and sqlite3_decimal_init.  The load holds the    *)
(* mutex of the connection, so that no other step comes between its own.   *)
(***************************************************************************)

\* decimalContextDestroy
decimalContextDestroy(h, c) ==
    [h EXCEPT ![c] = IF @ = "live" THEN "freed" ELSE "corrupt"]

\* dlopen, then decimalInitSystem, which allocates a context.
StartLoad ==
    /\ Idle /\ db = "open"
    /\ \E c \in Loads :
          /\ heap[c] = "none" /\ \A d \in 1 .. c - 1 : heap[d] # "none"
          /\ heap' = [heap EXCEPT ![c] = "live"]
          /\ load' = [ctx |-> c, next |-> 1]
    /\ library' = [library EXCEPT !.handles = @ + 1]
    /\ UNCHANGED <<db, registry, tables, autoCommit, stmt>>

\* Mutant: a module may be registered again.
Refused_ModulesReplaced(name) ==
    name \in Functions /\ pUserData[name] # 0 /\ \E s \in Stmts : Active(s)

\* A function cannot be replaced while a statement is active (SQLITE_BUSY),
\* a module never (SQLITE_MISUSE).
Refused(name) ==
    \/ name \in Functions /\ pUserData[name] # 0 /\ \E s \in Stmts : Active(s)
    \/ name \in VTabs /\ pAux[name] # 0

\* sqlite3_create_function or sqlite3_create_module, with success.
Register ==
    /\ load # NULL /\ load.next <= Len(Registrations)
    /\ LET name == Registrations[load.next]
       IN  /\ ~Refused(name)
           /\ pUserData' = IF name \in Functions
                           THEN [pUserData EXCEPT ![name] = load.ctx] ELSE pUserData
           /\ pAux' = IF name \in VTabs THEN [pAux EXCEPT ![name] = load.ctx] ELSE pAux
    /\ load' = [load EXCEPT !.next = @ + 1]
    /\ UNCHANGED <<db, heap, failedAt, library, tables, autoCommit, stmt>>

\* A new name needs memory; a function that is replaced needs none.
NeedsMemory(name) ==
    IF name \in Functions THEN pUserData[name] = 0 ELSE pAux[name] = 0

\* Mutant: the entry point frees the context of a load that failed.
RegistrationFails_FreesContext ==
    /\ load # NULL /\ load.next <= Len(Registrations)
    /\ LET name == Registrations[load.next]
       IN  /\ Refused(name) \/ NeedsMemory(name)
           /\ failedAt' = [failedAt EXCEPT ![load.ctx] = name]
           /\ heap' = decimalContextDestroy(heap, load.ctx)
    /\ load' = NULL
    /\ library' = [library EXCEPT !.handles = @ - 1]
    /\ UNCHANGED <<db, pUserData, pAux, tables, autoCommit, stmt>>

\* A registration is refused or runs out of memory.  sqlite3_decimal_init
\* returns and the library is closed; what was registered stays.  For the
\* module with a destructor createModule calls it on the context.
RegistrationFails ==
    /\ load # NULL /\ load.next <= Len(Registrations)
    /\ LET name == Registrations[load.next]
       IN  /\ Refused(name) \/ NeedsMemory(name)
           /\ failedAt' = [failedAt EXCEPT ![load.ctx] = name]
           /\ heap' = IF name = "Context" THEN decimalContextDestroy(heap, load.ctx) ELSE heap
    /\ load' = NULL
    /\ library' = [library EXCEPT !.handles = @ - 1]
    /\ UNCHANGED <<db, pUserData, pAux, tables, autoCommit, stmt>>

\* Everything is registered: the connection keeps the handle of the library,
\* or, out of memory, forgets it without closing it.
EndLoad ==
    /\ load # NULL /\ load.next > Len(Registrations)
    /\ load' = NULL
    /\ \E kept \in {0, 1} : library' = [library EXCEPT !.aExtension = @ + kept]
    /\ UNCHANGED <<db, heap, registry, tables, autoCommit, stmt>>

-----------------------------------------------------------------------------
(***************************************************************************)
(* Connected tables, and who holds them.                                   *)
(***************************************************************************)

\* sqlite3VtabLock
sqlite3VtabLock(vt, i) == [vt EXCEPT ![i].nRef = @ + 1]

\* Mutant: the table is disconnected one release too late.
sqlite3VtabUnlock_Late(vt, S) ==
    [i \in Addresses |->
        CASE i \in S /\ vt[i].nRef = 0 -> NULL
          [] i \in S /\ vt[i].nRef # 0 -> [vt[i] EXCEPT !.nRef = @ - 1]
          [] i \notin S -> vt[i]]

\* sqlite3VtabUnlock on each table of a set; the last holder of a table
\* disconnects it, which frees the table and its copy of the context.
sqlite3VtabUnlock(vt, S) ==
    [i \in Addresses |->
        CASE i \in S /\ vt[i].nRef = 1 -> NULL
          [] i \in S /\ vt[i].nRef # 1 -> [vt[i] EXCEPT !.nRef = @ - 1]
          [] i \notin S -> vt[i]]

\* xCommit or xRollback of every table in the transaction: the copy is
\* freed, and the transaction lets go of the table.
callFinaliser(vt) ==
    LET told == [i \in Addresses |->
                    IF i \in Range(aVTrans) THEN [vt[i] EXCEPT !.oldCtx = FALSE] ELSE vt[i]]
    IN  sqlite3VtabUnlock(told, Range(aVTrans))

\* Mutant: the transaction does not lock the table.
xBegin_Unlocked(i) ==
    IF i \in Range(aVTrans)
    THEN UNCHANGED <<vtable, aVTrans>>
    ELSE /\ vtable' = [vtable EXCEPT ![i].oldCtx = TRUE]
         /\ aVTrans' = Append(aVTrans, i)

\* sqlite3VtabBegin: xBegin, unless the table is in the transaction already.
xBegin(i) ==
    IF i \in Range(aVTrans)
    THEN UNCHANGED <<vtable, aVTrans>>
    ELSE /\ vtable' = sqlite3VtabLock([vtable EXCEPT ![i].oldCtx = TRUE], i)
         /\ aVTrans' = Append(aVTrans, i)

\* vtabCallConstructor: xConnect stores the context of the module.
xConnect(m) == [module |-> m, decCtx |-> pAux[m], oldCtx |-> FALSE, nRef |-> 1]

(***************************************************************************)
(* Statements.  One that expired because a function was replaced is        *)
(* compiled again, which is a Finalize and a Prepare.                      *)
(***************************************************************************)
NewStatement(kind, i) == [kind |-> kind, vtab |-> i, active |-> FALSE]

Prepare(s, kind) ==
    /\ Idle /\ db = "open" /\ stmt[s] = NULL
    /\ stmt' = [stmt EXCEPT ![s] = NewStatement(kind, 0)]
    /\ UNCHANGED <<db, load, heap, registry, library, tables, autoCommit>>

\* A statement on a table locks it, connecting it first if need be.
PrepareOnTable(s, kind, m) ==
    /\ Idle /\ db = "open" /\ stmt[s] = NULL /\ pAux[m] # 0
    /\ \E i \in Addresses :
          /\ IF pEpoTab[m] # 0
             THEN i = pEpoTab[m] /\ vtable' = sqlite3VtabLock(vtable, i)
             ELSE /\ vtable[i] = NULL /\ \A j \in 1 .. i - 1 : vtable[j] # NULL
                  /\ vtable' = sqlite3VtabLock([vtable EXCEPT ![i] = xConnect(m)], i)
          /\ pEpoTab' = [pEpoTab EXCEPT ![m] = i]
          /\ stmt' = [stmt EXCEPT ![s] = NewStatement(kind, i)]
    /\ UNCHANGED <<db, load, heap, registry, library, aVTrans, autoCommit>>

\* sqlite3_step of a query, up to a row.
StepQuery(s) ==
    /\ Idle /\ stmt[s] # NULL /\ ~Active(s) /\ stmt[s].kind \in {"call", "read"}
    /\ stmt' = [stmt EXCEPT ![s].active = TRUE]
    /\ UNCHANGED <<db, load, heap, registry, library, tables, autoCommit>>

\* The query ends or is reset.
EndQuery(s) ==
    /\ Idle /\ Active(s) /\ stmt[s].kind \in {"call", "read"}
    /\ stmt' = [stmt EXCEPT ![s].active = FALSE]
    /\ UNCHANGED <<db, load, heap, registry, library, tables, autoCommit>>

\* OP_VBegin of a write
StartWrite(s) ==
    /\ Idle /\ stmt[s] # NULL /\ ~Active(s) /\ stmt[s].kind = "write"
    /\ xBegin(stmt[s].vtab)
    /\ stmt' = [stmt EXCEPT ![s].active = TRUE]
    /\ UNCHANGED <<db, load, heap, registry, library, pEpoTab, autoCommit>>

\* Mutant: the snapshot is not released at the end of a lone statement.
EndWrite_NoFinaliser(s) ==
    /\ Idle /\ ActiveWrite(s)
    /\ stmt' = [stmt EXCEPT ![s].active = FALSE]
    /\ UNCHANGED <<db, load, heap, registry, library, tables, autoCommit>>

\* sqlite3VdbeHalt of a write, with or without an error: outside a
\* transaction the last writer commits or rolls back.
EndWrite(s) ==
    /\ Idle /\ ActiveWrite(s)
    /\ stmt' = [stmt EXCEPT ![s].active = FALSE]
    /\ IF autoCommit /\ \A t \in Stmts \ {s} : ~ActiveWrite(t)
       THEN vtable' = callFinaliser(vtable) /\ aVTrans' = << >>
       ELSE UNCHANGED <<vtable, aVTrans>>
    /\ UNCHANGED <<db, load, heap, registry, library, pEpoTab, autoCommit>>

\* sqlite3VdbeHalt of a write that an interrupt, a full disk or an I/O error
\* ends, or that was told to: sqlite3RollbackAll, and the connection is back in
\* autocommit mode whatever transaction it was in.
RollbackWrite(s) ==
    /\ Idle /\ ActiveWrite(s)
    /\ stmt' = [stmt EXCEPT ![s].active = FALSE]
    /\ vtable' = callFinaliser(vtable) /\ aVTrans' = << >>
    /\ autoCommit' = TRUE
    /\ UNCHANGED <<db, load, heap, registry, library, pEpoTab>>

\* OP_AutoCommit.  COMMIT waits for the writers, ROLLBACK does not; both
\* let go of the tables.
StepTransaction(s) ==
    /\ Idle /\ stmt[s] # NULL
    /\ \/ /\ stmt[s].kind = "begin" /\ autoCommit
          /\ autoCommit' = FALSE
          /\ UNCHANGED <<vtable, aVTrans>>
       \/ /\ stmt[s].kind = "end" /\ ~autoCommit
          /\ autoCommit' = TRUE
          /\ vtable' = callFinaliser(vtable) /\ aVTrans' = << >>
    /\ UNCHANGED <<db, load, heap, registry, library, pEpoTab, stmt>>

-----------------------------------------------------------------------------
(***************************************************************************)
(* The end of the connection.                                              *)
(***************************************************************************)

\* sqlite3LeaveMutexAndCloseZombie with no statement left, vt and inTrans
\* being the tables and the transaction at that point: roll back, drop the
\* functions, run the destructors of the modules, close the libraries.
CloseZombie(vt, inTrans) ==
    /\ db' = "closed"
    /\ vtable' = IF inTrans THEN callFinaliser(vt) ELSE vt
    /\ heap' = IF pAux["Context"] # 0 THEN decimalContextDestroy(heap, pAux["Context"]) ELSE heap
    /\ pUserData' = [f \in Functions |-> 0]
    /\ pAux' = [m \in VTabs |-> 0]
    /\ library' = [handles |-> library.handles - library.aExtension, aExtension |-> 0]
    /\ aVTrans' = << >>
    /\ autoCommit' = TRUE

\* sqlite3_finalize; the last statement of a zombie takes it along.
Finalize(s) ==
    /\ Idle /\ stmt[s] # NULL /\ ~ActiveWrite(s)
    /\ stmt' = [stmt EXCEPT ![s] = NULL]
    /\ LET vt == sqlite3VtabUnlock(vtable, {stmt[s].vtab} \ {0})
       IN  IF db = "zombie" /\ \A t \in Stmts \ {s} : stmt[t] = NULL
           THEN CloseZombie(vt, TRUE)
           ELSE /\ vtable' = vt
                /\ UNCHANGED <<db, heap, pUserData, pAux, library, aVTrans, autoCommit>>
    /\ UNCHANGED <<load, failedAt, pEpoTab>>

\* Mutant: the statements are not looked at.
Close_Regardless(forceZombie) ==
    /\ Idle /\ db = "open"
    /\ pEpoTab' = [m \in VTabs |-> 0]
    /\ LET linked == { pEpoTab[m] : m \in VTabs } \ {0}
           vt == callFinaliser(sqlite3VtabUnlock(vtable, linked))
       IN  CloseZombie(vt, FALSE)
    /\ UNCHANGED <<load, failedAt, stmt>>

\* sqlite3_close and sqlite3_close_v2: disconnect the tables, roll back those
\* in the transaction, and only then see whether statements are left.
Close(forceZombie) ==
    /\ Idle /\ db = "open"
    /\ pEpoTab' = [m \in VTabs |-> 0]
    /\ LET linked == { pEpoTab[m] : m \in VTabs } \ {0}
           vt == callFinaliser(sqlite3VtabUnlock(vtable, linked))
           busy == \E s \in Stmts : stmt[s] # NULL
       IN  IF busy
           THEN /\ db' = IF forceZombie THEN "zombie" ELSE "open"
                /\ vtable' = vt /\ aVTrans' = << >>
                /\ UNCHANGED <<heap, pUserData, pAux, library, autoCommit>>
           ELSE CloseZombie(vt, FALSE)
    /\ UNCHANGED <<load, failedAt, stmt>>

Next ==
    \/ StartLoad \/ Register \/ RegistrationFails \/ EndLoad
    \/ \E s \in Stmts, kind \in PlainKinds : Prepare(s, kind)
    \/ \E s \in Stmts, kind \in TableKinds, m \in VTabs : PrepareOnTable(s, kind, m)
    \/ \E s \in Stmts : StepQuery(s) \/ EndQuery(s)
    \/ \E s \in Stmts : StartWrite(s) \/ EndWrite(s) \/ RollbackWrite(s)
    \/ \E s \in Stmts : StepTransaction(s)
    \/ \E s \in Stmts : Finalize(s)
    \/ \E forceZombie \in BOOLEAN : Close(forceZombie)

Spec == Init /\ [][Next]_vars
-----------------------------------------------------------------------------
(***************************************************************************)
(* Safety.                                                                 *)
(***************************************************************************)

\* Tables connected to one address by its module, by statements and by the
\* transaction.
Links(i) == { m \in VTabs : pEpoTab[m] = i }
Compiled(i) == { s \in Stmts : stmt[s] # NULL /\ stmt[s].vtab = i }
Entries(i) == { k \in 1 .. Len(aVTrans) : aVTrans[k] = i }

\* The reference count of a table (sqlite3VtabLock, sqlite3VtabUnlock) is the
\* number of its holders: no table is disconnected (decimalStatusDisconnect
\* and its like free it) while the module, a statement or the transaction can
\* still reach it, and none outlives them, whatever the order of closing,
\* finalising, committing and connecting again.
ReferencesCounted ==
    \A i \in Addresses :
        LET holders == Cardinality(Links(i)) + Cardinality(Compiled(i)) + Cardinality(Entries(i))
        IN  IF vtable[i] = NULL THEN holders = 0
                                ELSE vtable[i].nRef = holders /\ holders > 0

\* A table holds a copy of the context exactly while it is in the
\* transaction, also when the connection was closed in between, and a
\* transaction outlives neither the statement nor the BEGIN it belongs to:
\* xCommit and xRollback never free a copy twice, and xBegin never forgets one.
CopiesMatchTransaction ==
    /\ \A i \in Addresses :
          i \in Range(aVTrans) <=> vtable[i] # NULL /\ vtable[i].oldCtx
    /\ aVTrans # << >> => ~autoCommit \/ \E s \in Stmts : ActiveWrite(s)

\* The contexts that modules or connected tables point to, and those that
\* functions do.
TableContexts ==
    ({ pAux[m] : m \in VTabs } \ {0})
        \cup { vtable[i].decCtx : i \in { j \in Addresses : vtable[j] # NULL } }
FunctionContexts == { pUserData[f] : f \in Functions } \ {0}

\* No function, module or table points to a context that has been freed,
\* with one exception: when the very last registration of a load fails,
\* SQLite runs its destructor on the context that all the earlier
\* registrations of that load keep (decimal.c 846-849).  No context is freed
\* twice.  A completed load keeps its context and its code until the
\* connection is gone.
NoDanglingContext ==
    /\ \A c \in TableContexts \cup FunctionContexts :
          heap[c] = "live" \/ failedAt[c] = "Context"
    /\ \A c \in Loads : heap[c] # "corrupt"
    /\ pAux["Context"] # 0 => heap[pAux["Context"]] = "live" /\ library.handles > 0

\* The three tables work on one context, however often the extension is
\* loaded, wherever a load fails and whenever the tables are connected: what
\* is set in decContext and cleared in decStatus is what decTraps acts upon.
TablesShareContext == \A c, d \in TableContexts : c = d

\* impl_decimal.h 32: "The returned context will be passed to any application
\* function and to the modules implementing the virtual tables."  Once a
\* load has completed, and while none is in progress, functions and tables
\* point to one context.
ContextIsShared ==
    load = NULL /\ pAux["Context"] # 0 => \A c, d \in TableContexts \cup FunctionContexts : c = d

\* A closed connection has released every table and every copy, and every
\* context but those of loads that failed; a zombie still has a statement to
\* be finalised, so that it is not left behind.
CloseReleasesEverything ==
    /\ db = "closed" => /\ \A i \in Addresses : vtable[i] = NULL
                        /\ \A c \in Loads : heap[c] = "live" => failedAt[c] # NULL
    /\ db = "zombie" => \E s \in Stmts : stmt[s] # NULL
=============================================================================
