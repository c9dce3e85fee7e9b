-------------------------- MODULE DecimalFunctions --------------------------
(***************************************************************************)
(* The SQL functions: scalar, variadic and aggregate, evaluated row after  *)
(* row by a query over the shared context.  A call decodes its arguments,  *)
(* computes, and reports the trapped conditions its status check finds;    *)
(* the first error ends the query.  The status flags outlive the call, the *)
(* query, and the rows of an aggregate, and every function shares them.    *)
(***************************************************************************)
EXTENDS DecContext, Decimals, FiniteSetsExt

CONSTANTS
    Calls(_, _),  \* the calls a query may make in a context after a number of
                  \* calls: records [fun, args]
    Aggregations, \* the sets of aggregate functions a query may compute together
    RowValues(_, _, _, _),
                  \* in a context, after a number of calls, the values an aggregate
                  \* of a set of aggregates may be stepped with after a number of rows
    CountWidth,   \* bits of the counter of rows (32)
    MaxCalls,     \* bound on the calls and aggregates of one query
    FlagNames     \* the flags other statements write to decStatus, decTraps

ASSUME CountAssumption == CountWidth \in Nat \ {0} /\ 2 ^ CountWidth \in Nat \ {0}
ASSUME BoundAssumption == MaxCalls \in Nat
ASSUME NamesAssumption == FlagNames \subseteq Flags

VARIABLES
    decCtx,    \* the shared context
    query,     \* "idle", "running", "finalising" its aggregates, "failed", "done"
    calls,     \* the calls made by this query
    call,      \* the last call, if nothing came after it: [fun, args], for an
               \* aggregate [fun, rows], or NULL
    reply,     \* what the last call returned, or NULL
    aggr,      \* the aggregate being computed, or NULL
    owed,      \* trapped conditions raised by this query and not reported
    left       \* trapped flags set on purpose, by decCompare, or by a variadic
               \* call that gave up, and not reported

vars == <<decCtx, query, calls, call, reply, aggr, owed, left>>

(***************************************************************************)
(* SQL values.  A text or a blob is the decimal it denotes; a malformed    *)
(* one carries what its conversion leaves in the result: a quiet NaN for a *)
(* text, and for a blob what decInfiniteToNumber had put there when it     *)
(* gave up.                                                                *)
(***************************************************************************)
SQLNull == [type |-> "null", num |-> NaN, good |-> TRUE]
SQLReal == [type |-> "real", num |-> NaN, good |-> TRUE]
SQLInteger(n) == [type |-> "integer", num |-> decNumberFromInt32(sqlite3_value_int(n)),
                  good |-> TRUE]
Text(x) == [type |-> "text", num |-> x, good |-> TRUE]
Blob(x) == [type |-> "blob", num |-> x, good |-> TRUE]
BadText == [type |-> "text", num |-> NaN, good |-> FALSE]

\* One byte: the number has been zeroed.  More: the number was not yet set,
\* and holds whatever the stack held.
BadByte == [type |-> "blob", num |-> Finite(0), good |-> FALSE]
SQLValues == [type : {"null", "real", "integer", "text", "blob"}, num : Decimals, good : BOOLEAN]

BadBlobs(garbage) == { [type |-> "blob", num |-> x, good |-> FALSE] : x \in garbage }

(***************************************************************************)
(* Replies.                                                                *)
(***************************************************************************)
Error == [kind |-> "error"]
NullReply == [kind |-> "null"]
TextReply(x) == [kind |-> "text", num |-> x]
IntReply(n) == [kind |-> "int", int |-> n]

\* The encoding has one byte for all NaNs of a sign: signalling is lost.
BlobReply(x) == [kind |-> "blob", num |-> IF x = sNaN THEN NaN ELSE x]

Outcome(c, r, conditions) == [ctx |-> c, reply |-> r, raised |-> conditions]

(***************************************************************************)
(* decode: one argument, and the arguments of a call from left to right up *)
(* to the first that fails.                                                *)
(***************************************************************************)
decode(c, v) ==
    IF v.type \in {"null", "real"}
    THEN [ok |-> FALSE, ctx |-> c, num |-> NaN, raised |-> {}]
    ELSE LET raised == IF v.good THEN {} ELSE {"Conversion syntax"}
             check == checkStatus(decContextSetStatus(c, raised))
         IN  [ok |-> check.ok, ctx |-> check.ctx, num |-> v.num, raised |-> raised]

\* d[i]: after i arguments.
decodeArgs(c, args) ==
    LET Step(d, e) ==
            [ok |-> e.ok, ctx |-> e.ctx, nums |-> Append(d.nums, e.num),
             raised |-> d.raised \cup e.raised]
        d[i \in 0 .. Len(args)] ==
            IF i = 0 THEN [ok |-> TRUE, ctx |-> c, nums |-> <<>>, raised |-> {}]
            ELSE IF d[i - 1].ok THEN Step(d[i - 1], decode(d[i - 1].ctx, args[i]))
            ELSE d[i - 1]
    IN  d[Len(args)]

\* The end of every function that computes: raise, check, answer.
Finish(c, raised, before, answer) ==
    LET check == checkStatus(decContextSetStatus(c, raised))
    IN  Outcome(check.ctx, IF check.ok THEN answer ELSE Error, before \cup raised)

(***************************************************************************)
(* Scalar functions.  Minus, Divide and FMA stand for all functions of one *)
(* to three arguments that compute and check (OP1, OP2, FMA), IsNaN for    *)
(* the predicates, Digits for the functions that are not implemented.      *)
(***************************************************************************)
CheckedOp(f, x) ==
    CASE f = "Minus"  -> decNumberMinus(x[1])
      [] f = "Divide" -> decNumberDivide(x[1], x[2])
      [] f = "FMA"    -> decNumberFMA(x[1], x[2], x[3])

decimalOP(f, c, args) ==
    LET d == decodeArgs(c, args)
        r == CheckedOp(f, d.nums)
    IN  IF d.ok THEN Finish(d.ctx, r.raised, d.raised, BlobReply(r.value))
                ELSE Outcome(d.ctx, Error, d.raised)

decimalToInt32(c, args) ==
    LET d == decodeArgs(c, args)
        r == decNumberToInt32(d.nums[1])
    IN  IF d.ok THEN Finish(d.ctx, r.raised, d.raised, IntReply(r.int))
                ELSE Outcome(d.ctx, Error, d.raised)

\* No check after the comparison.
decimalCompare(c, args) ==
    LET d == decodeArgs(c, args)
        r == decNumberCompare(d.nums[1], d.nums[2])
    IN  IF d.ok THEN Outcome(decContextSetStatus(d.ctx, r.raised), BlobReply(r.value),
                             d.raised \cup r.raised)
                ELSE Outcome(d.ctx, Error, d.raised)

\* Functions that convert or inspect their argument and raise nothing more.
Inspect(f, x) ==
    CASE f = "Create"   -> BlobReply(x)
      [] f = "ToString" -> TextReply(x)
      [] f = "IsNaN"    -> IntReply(IF IsNaN(x) THEN 1 ELSE 0)

decimalInspect(f, c, args) ==
    LET d == decodeArgs(c, args)
    IN  Outcome(d.ctx, IF d.ok THEN Inspect(f, d.nums[1]) ELSE Error, d.raised)

\* The bytes (or, decBits, the bits) of a blob are listed as they are, well
\* formed or not.
decimalBytes(c, v) ==
    Outcome(c, IF v.type = "blob" THEN TextReply(v.num) ELSE Error, {})

(***************************************************************************)
(* Variadic functions: each further argument is decoded, and its status    *)
(* checked, after the operation on the arguments before it.                *)
(***************************************************************************)
VariadicOp(f, x, y) ==
    CASE f = "Add"      -> decNumberAdd(x, y)
      [] f = "Multiply" -> decNumberMultiply(x, y)
      [] f = "Max"      -> decNumberMax(x, y)
      [] f = "MaxMag"   -> decNumberMaxMag(x, y)
      [] f = "Min"      -> decNumberMin(x, y)
      [] f = "MinMag"   -> decNumberMinMag(x, y)

VariadicDefault(f) ==
    CASE f \in {"Add", "MinMag"} -> Finite(0)
      [] f \in {"Max", "MaxMag"} -> Infinity(1)
      [] f = "Min"               -> Infinity(-1)
      [] f = "Multiply"          -> Finite(2)

\* One more argument, decoded to d, after the result a.
VariadicStep(f, a, d) ==
    LET r == VariadicOp(f, a.num, d.num)
    IN  IF d.ok THEN [ok |-> TRUE, ctx |-> decContextSetStatus(d.ctx, r.raised), num |-> r.value,
                      raised |-> a.raised \cup d.raised \cup r.raised]
                ELSE [a EXCEPT !.ok = FALSE, !.ctx = d.ctx, !.raised = @ \cup d.raised]

\* a[i]: after i arguments, of at least one.
VariadicResult(f, c, args) ==
    LET a[i \in 1 .. Len(args)] ==
            IF i = 1 THEN decode(c, args[1])
            ELSE IF a[i - 1].ok THEN VariadicStep(f, a[i - 1], decode(a[i - 1].ctx, args[i]))
            ELSE a[i - 1]
    IN  a[Len(args)]

FinishVariadic(a) ==
    IF a.ok THEN Finish(a.ctx, {}, a.raised, BlobReply(a.num))
            ELSE Outcome(a.ctx, Error, a.raised)

decimalOPn(f, c, args) ==
    IF args = <<>> THEN Outcome(c, BlobReply(VariadicDefault(f)), {})
                   ELSE FinishVariadic(VariadicResult(f, c, args))

NotImplemented(c) == Outcome(c, Error, {})

Unary == {"Minus", "Create", "ToString", "IsNaN", "ToInt32", "Bytes", "Digits"}
Binary == {"Divide", "Compare"}
Variadic == {"Add", "Multiply", "Max", "MaxMag", "Min", "MinMag"}

\* SQLite calls a function only with the number of arguments it is declared for.
IsCall(k) ==
    /\ k.args \in Seq(SQLValues)
    /\ \/ k.fun \in Unary /\ Len(k.args) = 1
       \/ k.fun \in Binary /\ Len(k.args) = 2
       \/ k.fun = "FMA" /\ Len(k.args) = 3
       \/ k.fun \in Variadic

\* A variadic call that has computed something and then meets a value that is
\* no decimal: decode returns before its status check.
GivesUp(k) == k.fun \in Variadic /\ \E i \in 3 .. Len(k.args) : k.args[i].type = "real"

\* The wrappers of decimal.c answer NULL before anything is decoded.
Apply(f, c, args) ==
    IF \E i \in DOMAIN args : args[i].type = "null" THEN Outcome(c, NullReply, {})
    ELSE CASE f \in {"Minus", "Divide", "FMA"}         -> decimalOP(f, c, args)
           [] f \in Variadic                           -> decimalOPn(f, c, args)
           [] f \in {"Create", "ToString", "IsNaN"}    -> decimalInspect(f, c, args)
           [] f = "ToInt32" -> decimalToInt32(c, args)
           [] f = "Compare" -> decimalCompare(c, args)
           [] f = "Bytes"   -> decimalBytes(c, args[1])
           [] f = "Digits"  -> NotImplemented(c)

-----------------------------------------------------------------------------
(***************************************************************************)
(* Aggregate functions.  The accumulator is AggregateData; rows lists the  *)
(* values it was stepped with, and stepped says that SQLite allocated it   *)
(* (an accumulator never allocated is not finalised when a query fails).   *)
(***************************************************************************)
AggregateFunctions == {"Sum", "Min", "Max", "Avg"}

AggrOp(f, x, y) ==
    CASE f \in {"Sum", "Avg"} -> decNumberAdd(x, y)
      [] f = "Min"            -> decNumberMin(x, y)
      [] f = "Max"            -> decNumberMax(x, y)

AggrDefault(f) ==
    CASE f = "Sum" -> Finite(0)
      [] f = "Max" -> Infinity(1)
      [] f = "Min" -> Infinity(-1)
      [] f = "Avg" -> NaN

NoData == [stepped |-> FALSE, count |-> 0, value |-> Finite(0), rows |-> <<>>]

\* The counter is a uint32_t.
Incremented(count) == (count + 1) % 2 ^ CountWidth

\* xStep: a NULL is skipped by the wrapper; another value is decoded, then
\* combined without a check.
AggrStep(f, c, data, v) ==
    LET d == decode(c, v)
        r == IF data.count = 0 THEN Result(d.num, {}) ELSE AggrOp(f, data.value, d.num)
        rows == Append(data.rows, v)
    IN  CASE v.type = "null" ->
                [ok |-> TRUE, ctx |-> c, raised |-> {}, data |-> [data EXCEPT !.rows = rows]]
          [] v.type # "null" /\ d.ok ->
                [ok |-> TRUE, ctx |-> decContextSetStatus(d.ctx, r.raised),
                 raised |-> d.raised \cup r.raised,
                 data |-> [stepped |-> TRUE, count |-> Incremented(data.count),
                           value |-> r.value, rows |-> rows]]
          [] v.type # "null" /\ ~d.ok ->
                [ok |-> FALSE, ctx |-> d.ctx, raised |-> d.raised,
                 data |-> [data EXCEPT !.stepped = TRUE]]

\* Mutant: the result of checkStatus is ignored.
AggrFinal_ErrorIgnored(f, c, data) ==
    LET value == IF data.count = 0 THEN AggrDefault(f) ELSE data.value
        r == IF f = "Avg" THEN decNumberDivide(value, Finite(2 * data.count))
                          ELSE Result(value, {})
    IN  Outcome(checkStatus(decContextSetStatus(c, r.raised)).ctx, BlobReply(r.value), r.raised)

\* Mutant: the average divides by all rows, NULLs included.
AggrFinal_AllRows(f, c, data) ==
    LET value == IF data.count = 0 THEN AggrDefault(f) ELSE data.value
        r == IF f = "Avg" THEN decNumberDivide(value, Finite(2 * Len(data.rows)))
                          ELSE Result(value, {})
    IN  Finish(c, r.raised, {}, BlobReply(r.value))

\* xFinal: the average divides by the number of rows.
AggrFinal(f, c, data) ==
    LET value == IF data.count = 0 THEN AggrDefault(f) ELSE data.value
        r == IF f = "Avg" THEN decNumberDivide(value, Finite(2 * data.count))
                          ELSE Result(value, {})
    IN  Finish(c, r.raised, {}, BlobReply(r.value))

\* The order in which SQLite finalises accumulators is not specified.
AnyOrder(S) == CHOOSE s \in [1 .. Cardinality(S) -> S] : IsInjective(s)

\* A query that fails finalises the accumulators it leaves behind.
ReleaseAggregates(c, accumulators) ==
    LET order == AnyOrder({ f \in DOMAIN accumulators : accumulators[f].stepped })
        d[i \in 0 .. Len(order)] ==
            IF i = 0 THEN c ELSE AggrFinal(order[i], d[i - 1], accumulators[order[i]]).ctx
    IN  d[Len(order)]

-----------------------------------------------------------------------------
ASSUME AggregationsAssumption == Aggregations \subseteq SUBSET AggregateFunctions

NoAggregates == [f \in {} |-> NoData]

Pending(c) == c.status \cap c.traps

TypeOK ==
    /\ decCtx \in Contexts
    /\ query \in {"idle", "running", "finalising", "failed", "done"}
    /\ calls \in 0 .. MaxCalls
    /\ reply = NULL \/ reply = Error \/ reply = NullReply \/ DOMAIN reply = {"kind", "int"}
          \/ reply.num \in Decimals
    /\ DOMAIN aggr \subseteq AggregateFunctions
    /\ \A f \in DOMAIN aggr : aggr[f].value \in Decimals /\ aggr[f].count \in 0 .. 2 ^ CountWidth - 1
    /\ owed \subseteq Flags /\ left \subseteq Flags

Init ==
    /\ decCtx = initDefaultContext
    /\ query = "idle" /\ calls = 0
    /\ call = NULL /\ reply = NULL
    /\ aggr = NoAggregates
    /\ owed = {} /\ left = {}

StartQuery ==
    /\ query \in {"idle", "failed", "done"}
    /\ query' = "running" /\ calls' = 0
    /\ call' = NULL /\ reply' = NULL /\ aggr' = NoAggregates
    /\ UNCHANGED <<decCtx, owed, left>>

\* After an error: the statement ends, its accumulators are released.  What a
\* call that gave up did not check may still be there.
Fail(c, accumulators, unchecked) ==
    /\ query' = "failed"
    /\ decCtx' = ReleaseAggregates(c, accumulators)
    /\ aggr' = NoAggregates
    /\ owed' = {}
    /\ left' = (left \cup unchecked) \cap Pending(decCtx')

CallFunction(k) ==
    LET o == Apply(k.fun, decCtx, k.args)
        trapped == o.raised \cap decCtx.traps
    IN  /\ calls' = calls + 1 /\ call' = k /\ reply' = o.reply
        /\ \/ /\ o.reply = Error
              /\ Fail(o.ctx, aggr, IF GivesUp(k) THEN trapped ELSE {})
           \/ /\ o.reply # Error
              /\ decCtx' = o.ctx
              /\ IF k.fun = "Compare"
                 THEN left' = left \cup trapped /\ owed' = owed
                 ELSE owed' = owed \cup trapped /\ left' = left
              /\ UNCHANGED <<query, aggr>>

StartAggregation(A) ==
    /\ query = "running" /\ aggr = NoAggregates /\ calls < MaxCalls
    /\ calls' = calls + 1
    /\ aggr' = [f \in A |-> NoData]
    /\ call' = NULL /\ reply' = NULL
    /\ UNCHANGED <<decCtx, query, owed, left>>

\* One row.
StepAggregate(f, v) ==
    LET s == AggrStep(f, decCtx, aggr[f], v)
    IN  /\ query = "running"
        /\ \/ /\ ~s.ok
              /\ call' = [fun |-> f, rows |-> <<v>>] /\ reply' = Error
              /\ Fail(s.ctx, [aggr EXCEPT ![f] = s.data], {})
           \/ /\ s.ok
              /\ decCtx' = s.ctx
              /\ aggr' = [aggr EXCEPT ![f] = s.data]
              /\ owed' = owed \cup (s.raised \cap decCtx.traps)
              /\ call' = NULL /\ reply' = NULL
              /\ UNCHANGED <<query, left>>
        /\ UNCHANGED calls

FinalAggregate(f) ==
    LET o == AggrFinal(f, decCtx, aggr[f])
        rest == [g \in DOMAIN aggr \ {f} |-> aggr[g]]
    IN  /\ query \in {"running", "finalising"}
        /\ call' = [fun |-> f, rows |-> aggr[f].rows] /\ reply' = o.reply
        /\ \/ /\ o.reply = Error
              /\ Fail(o.ctx, rest, {})
           \/ /\ o.reply # Error
              /\ decCtx' = o.ctx
              /\ owed' = owed \cup (o.raised \cap decCtx.traps)
              /\ aggr' = rest
              /\ query' = IF DOMAIN rest = {} THEN "running" ELSE "finalising"
              /\ UNCHANGED left
        /\ UNCHANGED calls

\* The last row has been returned.
EndQuery ==
    /\ query = "running" /\ aggr = NoAggregates
    /\ query' = "done"
    /\ call' = NULL /\ reply' = NULL
    /\ UNCHANGED <<decCtx, calls, aggr, owed, left>>

(***************************************************************************)
(* Other statements, between two queries or between two rows of one, write *)
(* the Status and Traps tables.  An aggregation runs within one step of    *)
(* its statement: nothing comes between its rows.                          *)
(***************************************************************************)
WriteFlags(change) ==
    /\ aggr = NoAggregates
    /\ change.ok
    /\ decCtx' = change.ctx
    /\ call' = NULL /\ reply' = NULL
    /\ UNCHANGED <<query, calls, aggr, owed>>

InsertStatus(f) ==
    /\ WriteFlags(decimalSetFlag(decCtx, f))
    /\ left' = left \cup ({f} \cap decCtx.traps)

DeleteStatus(f) ==
    /\ WriteFlags(decimalClearFlag(decCtx, f))
    /\ left' = left \ {f}

\* Mutant: an old flag is left in the status.
TrapsInsert_KeepsFlag(c, f) == decimalSetTrap(c, f)

\* TrapsUpdate clears the flag before it sets the trap.
TrapsInsert(c, f) == decimalSetTrap(decimalClearFlag(c, f).ctx, f)

InsertTrap(f) ==
    /\ WriteFlags(TrapsInsert(decCtx, f))
    /\ left' = left \ {f}

DeleteTrap(f) ==
    /\ WriteFlags(decimalClearTrap(decCtx, f))
    /\ left' = left \ {f}

\* select decClearStatus(): a call without arguments that SQLite evaluates
\* once, before the first row.
ClearStatus ==
    /\ query \in {"idle", "failed", "done"}
    /\ decCtx' = decimalClearStatus(decCtx)
    /\ left' = {}
    /\ call' = NULL /\ reply' = NULL
    /\ UNCHANGED <<query, calls, aggr, owed>>

Next ==
    \/ StartQuery \/ EndQuery \/ ClearStatus
    \/ /\ query = "running" /\ calls < MaxCalls
       /\ \E k \in Calls(decCtx, calls) : IsCall(k) /\ CallFunction(k)
    \/ \E A \in Aggregations : StartAggregation(A)
    \/ \E f \in DOMAIN aggr :
          \E v \in RowValues(decCtx, calls, DOMAIN aggr, Len(aggr[f].rows)) :
             v \in SQLValues /\ StepAggregate(f, v)
    \/ \E f \in DOMAIN aggr : FinalAggregate(f)
    \/ \E f \in FlagNames :
          InsertStatus(f) \/ DeleteStatus(f) \/ InsertTrap(f) \/ DeleteTrap(f)

Spec == Init /\ [][Next]_vars

-----------------------------------------------------------------------------
(***************************************************************************)
(* Properties                                                              *)
(***************************************************************************)

\* checkStatus is called after every operation but decCompare's, so a trapped
\* flag is pending only because decCompare raised it, because a statement
\* inserted it into decStatus, because an aggregate that is still running
\* raised it, or because a variadic call raised it and then met a value that
\* is no decimal.  Otherwise an unrelated later call would fail for it.
PendingIsExplained ==
    Pending(decCtx) \subseteq left \cup (IF aggr = NoAggregates THEN {} ELSE owed)

\* A trapped condition makes the query fail: a query that ends well, with all
\* its aggregates finalised, raised none, except in decCompare.
TrappedConditionEndsQuery == query = "done" => owed = {}

\* The operands of a call are its arguments, those of an aggregate the rows
\* that are not NULL.
Operands(k) ==
    IF "rows" \in DOMAIN k THEN SelectSeq(k.rows, LAMBDA v : v.type # "null") ELSE k.args

\* The counter of an aggregate can tell its rows: the next one after
\* 2^CountWidth - 1 makes it zero again, and what was accumulated is forgotten.
Countable(k) == "rows" \in DOMAIN k => Len(Operands(k)) < 2 ^ CountWidth

\* "If some, but not all arguments are `NaN`, the maximum is computed as if
\* there were no `NaN`" (impl_decimal.h): decGreatest, decLeast and the
\* aggregates decMax, decMin, in whatever order the operands come, as long as
\* the counter can tell the rows.
Extremum(f, numbers) ==
    CHOOSE x \in numbers : \A y \in numbers : decCompare(x, y) * (IF f = "Max" THEN 1 ELSE -1) >= 0

NaNsAreIgnored ==
    (call # NULL /\ reply # NULL) =>
        LET operands == { v.num : v \in Range(Operands(call)) }
            numbers == { x \in operands : ~IsNaN(x) }
        IN  (/\ call.fun \in {"Max", "Min"} /\ reply.kind = "blob" /\ Countable(call)
             /\ operands # {} /\ sNaN \notin operands)
                => reply.num = IF numbers = {} THEN NaN ELSE Extremum(call.fun, numbers)

(***************************************************************************)
(* decSum and decAvg over finite rows, as long as the counter can tell     *)
(* them and nothing overflowed.  Every addition rounds, so that decSum is  *)
(* off the sum of the rows by at most half the distance of two neighbours  *)
(* for every addition, and decAvg is such a sum, divided by the number of  *)
(* rows that are not NULL.  Both are exact if nothing inexact is reported. *)
(***************************************************************************)
SumAndAverage ==
    (call # NULL /\ reply # NULL) =>
        LET rows == Operands(call)
            n == Len(rows)
            sum == MapThenSumSet(LAMBDA i : rows[i].num.n, DOMAIN rows)
            exact == "Inexact result" \notin decCtx.status
            sums == IF exact THEN {sum} ELSE sum - (n - 1) .. sum + (n - 1)
        IN  (/\ call.fun \in {"Sum", "Avg"} /\ reply.kind = "blob" /\ Countable(call)
             /\ rows # <<>> /\ \A i \in DOMAIN rows : rows[i].num.class = "finite"
             /\ "Overflow" \notin decCtx.status)
                => IF call.fun = "Sum" THEN reply.num \in { Finite(s) : s \in sums }
                   ELSE /\ reply.num \in { decFinish(s, n).value : s \in sums }
                        /\ exact => reply.num.n * n = sum
=============================================================================
