---------------------------- MODULE AtomicContext ----------------------------
(***************************************************************************)
(* What the virtual tables promise: a context with undo points.  A         *)
(* transaction sets an undo point at its first write of each table; a      *)
(* commit drops them; a rollback returns to the last and undoes everything *)
(* that happened since.  When a transaction writes one table, there is one *)
(* undo point, and a rollback undoes the transaction.                      *)
(***************************************************************************)
EXTENDS DecContext

CONSTANT TablesPerTxn   \* most undo points of a transaction

VARIABLES
    ctx,    \* the context
    saved   \* the undo points, oldest first; none outside a transaction

Init ==
    /\ ctx = initDefaultContext
    /\ saved = << >>

Begin ==
    /\ Len(saved) < TablesPerTxn
    /\ saved' = Append(saved, ctx)
    /\ UNCHANGED ctx

\* Functions and table writes alike change the context in place.
Change ==
    /\ ctx' \in Contexts
    /\ UNCHANGED saved

Commit ==
    /\ saved # << >>
    /\ saved' = << >>
    /\ UNCHANGED ctx

Rollback ==
    /\ saved # << >>
    /\ ctx' = saved[Len(saved)]
    /\ saved' = << >>

Next == Begin \/ Change \/ Commit \/ Rollback

Spec == Init /\ [][Next]_<<ctx, saved>>
=============================================================================
