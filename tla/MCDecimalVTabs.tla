--------------------------- MODULE MCDecimalVTabs ---------------------------
(***************************************************************************)
(* Inputs for model checking DecimalVTabs: a name that is a flag, trapped  *)
(* by default, and one that is no flag.  The rows of decContext are good,  *)
(* or refused by each of the setters, or contain a NULL; they have the     *)
(* same values, so that few contexts result.                               *)
(***************************************************************************)
EXTENDS DecimalVTabs

Row(p, x, n, r) == [prec |-> p, emax |-> x, emin |-> n, round |-> r]

MCContextRows ==
    { Row(3, 9, -9, "ROUND_UP"),       Row(39, DEC_MAX_EMAX, -DEC_MAX_EMAX, "DEFAULT"),
      Row(42, 9, -9, "ROUND_UP"),      Row(4, 9, -9, "ROUND_UP"),
      Row(3, 0, -9, "ROUND_UP"),       Row(3, 9, 0, "ROUND_UP"),
      Row(3, 9, -9, "no such mode"),   Row(3, 9, NULL, "ROUND_UP") }

MCFlagNames == {"Overflow", "no such flag"}

MCConditions == { {"Overflow"} }
=============================================================================
