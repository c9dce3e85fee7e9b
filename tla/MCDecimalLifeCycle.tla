------------------------- MODULE MCDecimalLifeCycle -------------------------
(* A connection with one function and one aggregate, loaded twice. *)
EXTENDS DecimalLifeCycle, TLC

MCaFunc == << "Add", "Sum" >>

\* The statements are interchangeable.
StmtSymmetry == Permutations(Stmts)
=============================================================================
