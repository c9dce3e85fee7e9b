----------------------------- MODULE DecContext -----------------------------
(***************************************************************************)
(* The shared decimal context and the operations of impl_decinfinite.c on  *)
(* it: the defaults, the setters behind the three virtual tables, and the  *)
(* status check that turns a trapped condition into an SQL error.          *)
(*                                                                         *)
(* An operation that may fail returns a record [ok, ctx]: ctx is the       *)
(* context it leaves behind, which a failing operation may have changed.   *)
(***************************************************************************)
EXTENDS Integers, Sequences

CONSTANTS
    DECNUMDIGITS,   \* largest number of digits of a coefficient (39)
    DEC_MAX_EMAX,   \* largest adjusted exponent (999,999,999)
    NULL            \* the SQL NULL, and the C null pointer

\* The digits of a coefficient fill whole three-digit units (decInfinite.h).
ASSUME DigitsAssumption == DECNUMDIGITS \in Nat \ {0} /\ DECNUMDIGITS % 3 = 0
ASSUME ExponentAssumption == DEC_MAX_EMAX \in Nat \ {0}

(***************************************************************************)
(* Flags.  A status word and a trap mask are sets of flags.                *)
(***************************************************************************)
extended_flags ==
    << "Clamped", "Conversion syntax", "Division by zero",
       "Division impossible", "Division undefined", "Inexact result",
       "Out of memory", "Invalid context", "Invalid operation", "Overflow",
       "Rounded result", "Subnormal", "Underflow" >>

FLAGS_MAX == 13

Flags == { extended_flags[i] : i \in 1 .. FLAGS_MAX }

\* The conditions decNumber groups as errors; the rest are informational.
DEC_Errors == Flags \ {"Clamped", "Inexact result", "Rounded result", "Subnormal"}

rounding_mode ==
    {"ROUND_CEILING", "ROUND_UP", "ROUND_HALF_UP", "ROUND_HALF_EVEN",
     "ROUND_HALF_DOWN", "ROUND_DOWN", "ROUND_FLOOR", "ROUND_05UP"}

Contexts == [digits : Int, emax : Int, emin : Int, round : rounding_mode,
             status : SUBSET Flags, traps : SUBSET Flags]

\* initDefaultContext: the traps it adds are among those of decContextDefault.
initDefaultContext ==
    [digits |-> DECNUMDIGITS, emax |-> DEC_MAX_EMAX, emin |-> -DEC_MAX_EMAX,
     round |-> "ROUND_HALF_UP", status |-> {},
     traps |-> DEC_Errors \cup
        {"Conversion syntax", "Division by zero", "Division undefined",
         "Division impossible", "Out of memory", "Invalid context",
         "Invalid operation"}]

Success(c) == [ok |-> TRUE, ctx |-> c]
Failure(c) == [ok |-> FALSE, ctx |-> c]

(***************************************************************************)
(* Setters of the Context virtual table.                                   *)
(***************************************************************************)
decimalSetPrecision(c, prec) ==
    IF prec <= 0 \/ prec > DECNUMDIGITS \/ prec % 3 # 0
    THEN Failure(c)
    ELSE Success([c EXCEPT !.digits = prec])

decimalSetMaxExp(c, exp) ==
    IF exp <= 0 \/ exp > DEC_MAX_EMAX
    THEN Failure(c)
    ELSE Success([c EXCEPT !.emax = exp])

\* Mutant: only the lower limit is checked.
decimalSetMinExp_AnySign(c, exp) ==
    IF exp < -DEC_MAX_EMAX THEN Failure(c) ELSE Success([c EXCEPT !.emin = exp])

decimalSetMinExp(c, exp) ==
    IF exp >= 0 \/ exp < -DEC_MAX_EMAX
    THEN Failure(c)
    ELSE Success([c EXCEPT !.emin = exp])

\* Mutant: the result of the lookup is not checked.
decimalSetRoundingMode_Unchecked(c, mode) ==
    Success([c EXCEPT !.round = IF mode = "DEFAULT" THEN "ROUND_HALF_UP" ELSE mode])

decimalSetRoundingMode(c, mode) ==
    CASE mode = "DEFAULT"       -> Success([c EXCEPT !.round = "ROUND_HALF_UP"])
      [] mode \in rounding_mode -> Success([c EXCEPT !.round = mode])
      [] OTHER                  -> Failure(c)

(***************************************************************************)
(* Setters of the Status and Traps virtual tables.  A name is a flag of    *)
(* extended_flags or it is refused; decimalClearFlag and the others look   *)
(* it up with flag_string_to_int, which compares prefixes: names here are  *)
(* already reduced to the flag they match.                                 *)
(***************************************************************************)
decimalClearFlag(c, name) ==
    IF name \in Flags THEN Success([c EXCEPT !.status = @ \ {name}])
                      ELSE Failure(c)

decimalSetFlag(c, name) ==
    IF name \in Flags THEN Success([c EXCEPT !.status = @ \cup {name}])
                      ELSE Failure(c)

decimalClearTrap(c, name) ==
    IF name \in Flags THEN Success([c EXCEPT !.traps = @ \ {name}])
                      ELSE Failure(c)

decimalSetTrap(c, name) ==
    IF name \in Flags THEN Success([c EXCEPT !.traps = @ \cup {name}])
                      ELSE Failure(c)

(***************************************************************************)
(* What decNumber does with the conditions an operation raised, the check  *)
(* that reports the trapped ones, and decClearStatus().                    *)
(***************************************************************************)
decContextSetStatus(c, raised) == [c EXCEPT !.status = @ \cup raised]

\* Reporting an error clears the flags that caused it.
checkStatus(c) ==
    IF c.status \cap c.traps # {}
    THEN Failure([c EXCEPT !.status = @ \ c.traps])
    ELSE Success(c)

decimalClearStatus(c) == [c EXCEPT !.status = {}]

=============================================================================
