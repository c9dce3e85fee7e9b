------------------------- MODULE MCDecimalFunctions -------------------------
(***************************************************************************)
(* Instances of DecimalFunctions: a few decimals of every kind, and calls  *)
(* with every combination of them.                                         *)
(***************************************************************************)
EXTENDS DecimalFunctions

CallsOf(fun, arity, values) == { [fun |-> fun, args |-> s] : s \in [1 .. arity -> values] }

Garbage == {Finite(1), Infinity(-1)}

\* Every kind of value, every function, few decimals.
AnyValues == {SQLNull, SQLReal, SQLInteger(1), Text(sNaN), BadByte}
AnyOperands == {Text(Finite(4)), Text(sNaN), BadText}

ControlCalls ==
    UNION { CallsOf(f, 1, AnyValues) : f \in {"Minus", "ToInt32"} }
    \cup UNION { CallsOf(f, 2, AnyOperands) : f \in {"Compare", "Divide", "Add"} }
    \cup { [fun |-> "Add", args |-> <<>>],
           [fun |-> "Add", args |-> <<Text(sNaN), Text(Finite(4)), SQLReal>>] }

\* The algebra of the functions.
Numbers == {Finite(-3), Finite(-2), Finite(0), Finite(1), Finite(4), Infinity(1), Infinity(-1), NaN, sNaN}
Texts == { Text(x) : x \in Numbers }

ResultCalls ==
    UNION { CallsOf(f, 3, Texts) : f \in {"Add", "Multiply", "Max", "Min", "MaxMag", "MinMag", "FMA"} }
    \cup UNION { CallsOf(f, 2, Texts) : f \in {"Compare", "Divide", "Max", "Min"} }
    \cup UNION { CallsOf(f, 1, Texts) : f \in {"Create", "IsNaN", "ToInt32", "Minus"} }
    \cup UNION { CallsOf(f, 1, AnyValues) : f \in {"ToString", "Bytes", "Digits"} }
    \cup CallsOf("Create", 1, BadBlobs(Garbage))
    \cup { [fun |-> f, args |-> <<>>] : f \in {"Add", "Max", "Min", "MaxMag", "MinMag", "Multiply"} }

AllCalls == ControlCalls \cup ResultCalls

\* The results are looked at in the default context, the control in all.
MCCalls(c, k) == IF c = initDefaultContext /\ k = 0 THEN AllCalls ELSE ControlCalls

MCAggregations == { {f} : f \in AggregateFunctions } \cup {{"Sum", "Avg"}}

ControlRows == {SQLNull, Text(Finite(4)), Text(sNaN), BadText}
RaisingRows == {Text(sNaN), BadText}
ResultRows == { Text(Finite(n)) : n \in {-3, 1, 4} } \cup {Blob(NaN), SQLNull}

\* A single aggregate in the default context steps until its counter wraps,
\* rounding on the way.
Rounding == {"Inexact result", "Rounded result"}

MCRowValues(c, k, A, n) ==
    (IF n >= 2 THEN {} ELSE IF Cardinality(A) = 1 THEN ControlRows ELSE RaisingRows)
    \cup (IF c \in { [initDefaultContext EXCEPT !.status = s] : s \in {{}, Rounding} }
             /\ k = MaxCalls /\ Cardinality(A) = 1 /\ n < 2 ^ CountWidth + 1
          THEN ResultRows ELSE {})

MCFlagNames == {"Invalid operation", "Overflow"}
=============================================================================
