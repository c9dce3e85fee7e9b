-------------------------- MODULE MCDecimalCursors --------------------------
(***************************************************************************)
(* Inputs for model checking DecimalCursors: three flags, one of them      *)
(* before and one after the middle one in the order of extended_flags.     *)
(***************************************************************************)
EXTENDS DecimalCursors

MCScanFlags == {"Division by zero", "Inexact result", "Overflow"}
=============================================================================
