# A TLA+ model of the SQLite decimal extension

This directory is a verification development for `sqlite3decimal`, an extension
that adds decimal arithmetic to SQLite: SQL functions over decimals, three
virtual tables that show and change the settings of the arithmetic, and an
order-preserving encoding of decimals in blobs. Source paths are relative to
the root of the repository (`src/decimal.c` is the extension's C file).

## 1. The system

| part | source | state | operations |
|---|---|---|---|
| shared context | `src/impl_decinfinite.c` 180-444, `decNumber/decContext.c` | precision, exponent limits, rounding mode, status flags, traps: one `decContext` per connection | defaults, setters, `checkStatus`, `decClearStatus()` |
| virtual tables, writing | `src/decimal.c` 190-705 | per table a copy of the context, `oldCtx` | `xUpdate`, `xBegin`, `xCommit`, `xRollback` |
| virtual tables, reading | the same | per cursor a row number | `xOpen`, `xFilter`, `xEof`, `xColumn`, `xNext`, `xClose` |
| scalar and variadic functions | `src/decimal.c` 32-169, `src/impl_decinfinite.c` 457-785 | none of their own | decode, compute, check, reply |
| aggregate functions | `src/impl_decinfinite.c` 787-874 | `AggregateData` per aggregate and query | step, final |
| encoding | `src/decInfinite.c`, `src/decInfinite.h` | none; the encoder modifies its argument | `decInfiniteFromNumber`, `decInfiniteToNumber` |
| inspection of encodings | `src/decInfinite.c` 969-1090 | none | bytes and bits of a blob as text |
| life cycle | `src/decimal.c` 724-853 | ownership of the context | registration, reload, close |
| decNumber | `src/decNumber/` (vendored) | | arithmetic |
| SQLite | `src/sqlite/` (vendored) | open transaction, running statements | calls all of the above |

Everything meets in the shared context. A function raises flags in it and reads
its traps and precision; the tables change all of it; a rollback replaces all of
it; a cursor reads it while any of this goes on. SQLite decides the order: rows
of several statements interleave on one connection, statements fail half-way,
transactions end in a commit, a rollback or an interrupt.

What is hard to get right, and hard to test:

- three tables with a copy each of one context, and which copy a rollback restores;
- updates that fail between two assignments, inside and outside a transaction;
- scans over a table whose rows are counted anew at each call;
- trapped flags that nobody reported and that make a later, unrelated call fail;
- aggregates that check the flags late, several of them in one query;
- an encoding with tables, carries and variable lengths, where each border
  between two cases must preserve the order of the decimals;
- blobs the encoder did not write, and numbers at the limits of the exponent;
- a context that functions, modules, connected tables and transactions point to,
  with one owner that is registered last;
- arithmetic that rounds in several places, in units of three digits, on operands
  another context has produced.

`PROJECT.json` lists these hazards with their lines and the properties for them.

## 2. Modules

| module | models |
|---|---|
| `DecContext` | the context as a record; setters return `[ok, ctx]`, where `ctx` is what a failing setter leaves behind |
| `AtomicContext` | abstract: a context with undo points |
| `DecimalVTabs` | the three tables and the transactions and savepoints of SQLite; implements `AtomicContext` |
| `DecimalVTabs_proofs` | theorems about it |
| `DecimalCursors` | one cursor and everything that changes the flags under it |
| `DecimalCursors_proofs` | theorems about it |
| `Decimals` | results and conditions of the decNumber operations, over a small range of numbers |
| `DecimalFunctions` | queries that call functions and aggregates over the shared context |
| `DecInfinite` | the encoder and decoder, as operators on sequences of bytes |
| `DecInfinite_proofs` | theorems about its operators |
| `DecUnits_proofs` | lemmas on three-digit units, which these rest on |
| `DecimalEncoding` | a value that is encoded, stored, decoded, computed with, or received from elsewhere |
| `DecNumber` | the operations of decNumber that the extension calls: rounding, limits, conditions, on coefficients as integers |
| `DecimalArithmetic` | calls of 33 SQL functions with these operations, and the exact results they are compared with |
| `DecimalLifeCycle` | loading, registering, connecting, transactions and closing: who holds what, and for how long |
| `DecimalLifeCycle_holders`, `_tables`, `_proofs` | theorems about it: counting the holders of a table, the invariant of the tables, that of the contexts and the theorems |
| `MC...` | instances for TLC |

Composition: `DecContext` is extended by the tables, the cursors and the
functions, so all three work on the same operations; `DecimalFunctions` composes
the context, the arithmetic and the writes of flags; `DecimalCursors` composes a
scan with functions and writes. `DecimalLifeCycle` composes the extension with
the parts of SQLite that keep its objects alive. `Decimals` and `DecNumber` model
the same library at two depths: `Decimals` is enough to see which conditions a
query raises and when, `DecNumber` has every step that decides a digit.

### Correspondence

Operators and actions have the names of the C functions they translate; a
definition without a namesake is listed in the `map` of `PROJECT.json`. Flags
are sets of names, contexts are records, pointers are values or `NULL`.

`DecimalVTabs`: `decCtx`, `oldCtx` are the fields of `decimalContextVTab`;
`aVTrans` and `autoCommit` are fields of SQLite's `sqlite3`; `stmt` is the
running write statement with, as a history, the context it started in.
`StartWrite` is `OP_VBegin`, `WriteRow` is `OP_VUpdate` with the whole `xUpdate`
method and what SQLite does when it fails; `EndWrite` and `Abort` are the end of
a statement in `sqlite3VdbeHalt`; `Interrupt` ends in `sqlite3RollbackAll`;
`Evaluate` is a function call during a statement or between two. Of the
rows of `decContext` only the values matter, of the names of flags only which
flag they denote: `flag_string_to_int` compares prefixes, so `Overflow!` is
`Overflow`. `ExecSavepoint`, `ExecRelease` and `ExecRollbackTo` are `OP_Savepoint`
outside a write statement: the modules have no savepoint methods, so the tables
hear of a savepoint only if it is the transaction.

`DecimalCursors`: `phase` is where SQLite's loop stands; `owed`, `fresh`, `here`,
`raised`, `wrong` and `cleared` are histories: the rows of the start that are still
to be read (none once a flag was cleared), those not read in an earlier row (none once
a flag was raised), what was read of the current row, and what has happened to the
flags since. A function of the scanning query may run between `xEof` and `xColumn`;
so may another statement, because in a join there are many rows of the result to one
of the table.

`DecimalFunctions`: a value is reduced to the decimal it denotes, whether it is
well formed, and, if not, what a failed conversion leaves in the result (for a
blob of several bytes: any of a set of numbers, because the code does not
initialise it). `owed` and `left` are histories of trapped conditions. One
operation stands for each macro that generates functions: Minus for OP1, Divide
for OP2, IsNaN for the predicates, Digits for the functions that are not
implemented. `Decimals` has numbers that are multiples of one half within
`MaxHalves`, beyond `MaxExact` only every second of them, so that sums round as
they do in a context whose digits are used up, and overflow, inexact results and
ties happen with few numbers;
SQL integers have more bits than the C int, of `IntWidth` bits, and the row
counter of an aggregate has `CountWidth` bits.

`DecInfinite`: tables, masks and shifts as in the code, with `%` and `\div`. A
position in the stream is the byte and its free bits, like `bitPos`.

`DecNumber`: a number is a record of kind, sign, coefficient and exponent; the
coefficient is one integer, and where the code works on its units of three digits
in a way that could be wrong (comparison, rotation, long division, the zeros of a
quotient) the operator does too. Integer division and remainder are the exception:
`IntegerDivision` finds one digit at a time with `\div` and `%`, where the code
subtracts multiples of the divisor aligned to units (4478-4490) and in the end cuts
the digits of a padded last unit (4686-4691); that alignment is not modelled. An operation returns `[value, raised]`; `Work`
is the pair of a number and its residue that the C functions pass on.
Apart from the runs, the operators were compared with the compiled library on
24,000 random calls in small contexts, without a difference.

`DecimalLifeCycle`: a context is named after the load that allocated it; `heap`
says whether it is live, freed, or freed twice. `pUserData`, `pAux`, `pEpoTab`,
`nRef`, `aVTrans` and `aExtension` are fields of SQLite's structures. `Register`
and `RegistrationFails` are the calls in `sqlite3_decimal_init`; `EndWrite` and
`RollbackWrite` are the two ways a write statement ends in `sqlite3VdbeHalt`, the
second with `sqlite3RollbackAll`; `Close` is
`sqlite3_close` and `sqlite3_close_v2`. `failedAt` is a history.

## 3. Properties and runs

### Tables

`VTabs` (pass). Statements, transactions and savepoints, with up to two tables in
a transaction. `ContextsStayValid`: no sequence of updates, failures and rollbacks
leaves limits the library cannot use. `SnapshotsMatchTransaction`: `xCommit` and
`xRollback` always find a copy, and no copy is lost.
`AutocommitFailureRestores`: a failing statement outside a transaction leaves the
context as it was. `AtomicSpec`: refinement of `AtomicContext`, whose undo points
are the copies of the tables in the transaction, in the order of their `xBegin`; a
rollback returns to the last of them, and undoes the transaction if it wrote one
table only.

`VTabsRollback` (violation). With two tables, a rollback restores the copy of
the table written last, which contains the writes to the first one.

`VTabsAbort` (violation). A statement that fails inside a transaction keeps what
it wrote.

### Cursors

`CursorScan` (pass). `RaisingSkipsNothing`, `ClearingRepeatsNothing`: what a scan
still guarantees when flags only come, or only go. `NullOnlyIfCleared`: the row
that `xEof` announced is there for `xColumn`, unless a flag was cleared in between.
`EveryScanEnds`.

`CursorRescan` (violation). A second scan with the same cursor finds nothing.

### Functions

`Functions` (pass). `PendingIsExplained`: a trapped flag waits in the
status only for a reason the model can name, so a call does not fail for what
an unrelated statement did; the one exception in the code is `decCompare`, which
does not check. `TrappedConditionEndsQuery`: no query that raised a trapped
condition ends well. `NaNsAreIgnored` for maxima and minima, in any order
of operands. `SumAndAverage`: a sum differs from the exact one by no more than the
roundings of its additions, and is exact if no inexact result was reported; an
average divides by the rows that are not NULL. Both are claimed for fewer rows than
the counter counts; the run goes beyond that.

### Encoding

`Encoding` (pass). `OrderPreserved` on all pairs of 200 numbers: the
comparison of blobs is that of the decimals, and equal decimals have the same
encoding. `RoundTrip` and `FitsBuffer` for 728 numbers: the above,
every exponent of the look-up tables, units that are split by either digit when
digits are aligned, and numbers computed at the limits of the exponent. Byte strings of
other origin are decoded too: `TypeOK` says that what is accepted is within
decNumber's limits, and that a number the extension computed or wrote has the digits
it counts; a foreign number that has them is read back and fits as well. One that has
not (a first declet below 100) breaks the assumptions of `decShiftToMost`, and
nothing more is claimed of it. `BitsShowTheDecoding`: `decBits` separates sign,
exponent and declets where the decoder does, and its text fits its buffer.

`EncodingSubnormal` (violation). A subnormal result has an exponent that the
encoder asserts not to happen; its encoding is refused by the decoder.

### Arithmetic

`Arithmetic` (pass). Each function is called once in a context of three digits with
exponents from -2 to 3, in all eight rounding modes, with numbers at the limits of that
context and beyond; some also with six digits, with the largest exponents, with
fewer exponents above zero than digits, or with exponents longer than the numbers
the range allows.
`CorrectlyRounded`: the result is the exact one rounded once, with exactly the
conditions that describe it. `IdealExponent`: an exact result has the exponent the
operation suggests. `ResultFits`: no result is outside the context, but for the
functions that do not look at the exponent range (`decShift`, `decRotate`,
`decInvert`, and `decLogB` with ten digits or more), whose results still have no more
digits than the precision.
`QuantizeRounds` and `RoundsToIntegral` state every outcome, that of a carry
beyond the largest exponent included. `DivisionIdentity`, `CompareIsExact`,
`NextIsAdjacent`, `ScalingKeepsDirection`, `RotateIsCyclic` for the functions they
are named after. `ExtremaAreSymmetric`: the order of two arguments does
not matter for maxima and minima.

`ToIntegralStatus` (violation). With a condition pending from an earlier call,
`decToIntegral` of a finite number is NaN: the function works on a copy of the
context and takes the old status of that copy for its own.

### Life cycle

`LifeCycle` (pass). `ReferencesCounted`: a table lives exactly as long as its
module, a statement or the transaction holds it. `CopiesMatchTransaction`: `xBegin`,
`xCommit`, `xRollback` and `xDisconnect` together free each copy once.
`NoDanglingContext`: nothing points to a freed context, with the one exception
the code has: if the registration of `decContext`, the last, fails, SQLite destroys
the context that everything registered before it uses. `TablesShareContext`: the
tables never see two contexts, however often the extension is loaded.
`CloseReleasesEverything`: a closed connection leaves nothing behind but the
contexts of loads that failed, and a zombie always has a statement that ends it.

`LifeCycleReload` (violation). The functions and the tables are to share one context,
but a second load after a complete one replaces the functions before it is refused:
from then on they work with a context the tables do not show.

### Comments and code

The six runs that end in a violation are quoted, with what they contradict, in the findings of
`PROJECT.json`. Smaller disagreements between a comment and the code, which the
model follows the code in and which have no run of their own:

- `decimal.c` 253, "primary key (flag)": a flag raised before the current one
  during a scan makes the current one appear twice;
- `impl_decinfinite.c` 73, "Creates a decimal from an integer": from its low 32
  bits;
- `impl_decimal.h` 821, the product "is computed as if there were no `NaN`": a NaN
  makes the product NaN;
- `impl_decimal.h` 520, "rounded to a 32-bit integer": a fraction is an error;
- `impl_decinfinite.c` 343, DEC_Clamped and DEC_Rounded "are never set by
  decNumber": they are;
- `decimal.c` 826, SQLITE_DETERMINISTIC: results depend on the shared context;
- `decInfinite.c` 845, digits are a multiple of three after aligning: not for a
  decoded blob whose first unit is below 100;
- `impl_decimal.h` 318, `decIsCanonical`: always 1, also for a blob with a
  trailing byte;
- `impl_decinfinite.c` 686, trailing zeros are trimmed "to make the exponent equal to
  zero (if the decimal is integer)": `decToInt32('1E3')` is an invalid operation;
- `decimal.c` 252 and 261, "flag text not null": a row whose flag is cleared between
  `xEof` and `xColumn` is NULL;
- `impl_decinfinite.c` 51-54, a malformed blob "is a quiet `NaN` or an error": with the
  condition untrapped it is zero, or for several bytes whatever the stack held;
- `impl_decimal.h` 831, "Aggregate sum for decimals": each addition rounds, and after
  2^32 rows the sum starts anew;
- `impl_decimal.h` 472 and 496, "A zero result has positive sign", of Minus and Plus: in
  the mode `ROUND_FLOOR` -(+0) and +(-0) are -0, as `CorrectlyRounded` says;
- `impl_decimal.h` 537, "No flag is set by this function" (ToIntegral): a number with a fraction beyond the
  largest exponent is an invalid operation; and one that rounding carries there becomes
  Infinity with no flag (with emax 3, 9999.9), which `RoundsToIntegral` states;
- `decNumber.c` 5953, an overflow of Quantize "is a "don't fit" situation": a carry
  beyond the largest exponent is an overflow, and the result Infinity, as
  `QuantizeRounds` states;
- `decNumber.c` 1710, a number "smaller than tiniest", and `impl_decimal.h` 478-487, the
  "next" number "according to IEEE 754 rules": not among the subnormal numbers of the
  default context, which `NextIsAdjacent` leaves out;
- `decInfinite.h` 107, "The maximum space an encoded number can use is #DECINF_MAXSIZE":
  not for a number decoded from a blob whose first unit is below 100, encoded again;
- `decimal.c` 732, a context that cannot be allocated is reported: it has been written
  to before;
- `decInfinite.c` 291, the limit of the unary prefix: its counter has eight bits.

### Bounds

- Tables: rows that are valid, invalid in each column, and NULL; flags inside and
  outside the traps, an unknown name. Statements write any number of rows, and
  the state space is finite by itself. Two tables in a transaction are the fewest
  whose copies can differ, two savepoints the fewest that nest; the theorems have no such bounds.
- Cursors: three flags, in the order of the table, so that one can come or go
  before, at, or after the current row; two scans.
- Functions: two calls or aggregations in a query, two rows for the control,
  two aggregates at a time; for the results as many rows as make a
  counter of two bits wrap, and numbers (`MaxExact`, `MaxHalves`) of which three rows
  suffice to round or to overflow. Queries follow each other
  without bound, which is where flags leak.
- Encoding: coefficients and exponents at the borders of the cases of the code
  (see `MCDecimalEncoding`), with the real constants 39, 30 and 999999999.
- Arithmetic: coefficients up to 9999, so that the exact results stay within the
  32-bit integers of TLC, against a precision of three: this gives operands longer than the
  precision, carries, ties, subnormal results and overflow. One call at a time
  (two in `ToIntegralStatus`), because only the status outlives a call.
- Life cycle: two loads, two statements, two tables connected at a time, two functions;
  the statements are symmetric. The theorems hold for any number of each.

### Fairness

Only `DecimalCursors` assumes any: weak fairness of `Column` and `NextRow`. Both
are steps of the loop that one `sqlite3_step` call runs, or that the
application runs by calling it again; a scan that is given up is closed, which
satisfies the property as well. Nothing is assumed of the flags, of other
statements, or of `Close`.

Deadlock is checked in every run but those of `DecimalArithmetic`, where the bound on
the calls ends a behaviour, and `LifeCycle`, which ends with the closed connection.

## 4. Theorems

`DecimalVTabs_proofs`, for every set of rows, names and conditions and every
value of the limits, from the assumptions named in `DecContext` and
`DecimalVTabs` (the precision is a positive multiple of three, the exponent limit
is positive, conditions are sets of flags, `NULL` is no context):

- `TypeCorrect`, `ContextsValid`, `SnapshotsMatch` from one inductive invariant,
  `IInv`. The properties alone are not inductive: that a rollback restores a
  valid context needs valid copies, that it finds one needs the correspondence
  of copies and `aVTrans`, and that the context of a failed statement is restored
  needs `StatementInv`: while a statement runs in autocommit mode, `aVTrans`
  holds its table alone, with the copy of the context in which it started;
- `AutocommitAtomic`, an action property, from `IInv`;
- `Refinement`: `Spec => AtomicSpec`, for any number of tables in a transaction. Each
  action sets an undo point, drops or restores them, or changes the context in
  place; that the copies of `aVTrans` are there, which `IInv` says, makes the undo
  points a sequence of contexts.

`DecimalLifeCycle_proofs` and the two modules it extends, for any number of loads,
statements, connected tables and functions, from the assumptions of `DecimalLifeCycle` (functions
are not named like tables; `NULL` is none of the values it is told from):

- `References`, `CopiesMatch` from the inductive invariant `TablesInv`.
  Reference counts are sums of three cardinalities, and the lemmas of
  `DecimalLifeCycle_holders` say how each changes when a holder comes or goes.
  Counting alone is not inductive: a transaction must hold no table twice, a linked table must be
  the one of its module, and a zombie must have let go of its links;
- `NoDangling`, `Shared`, `CloseReleases`, `TypeCorrect` with `ContextInv`: every pointer is
  good; the modules were registered in order, and so with one context; a live context is
  being loaded, is owned by `decContext`, or belongs to a load that failed; an open
  library handle exists for each load that completed.

Both invariants were model-checked on the instance of `LifeCycle` before they were
proved.

`DecimalCursors_proofs`, for any set of flags that come and go and any number of scans, from the
assumptions of `DecContext` and `DecimalCursors` (`NULL` is no value of a row):

- `TypeCorrect`, `NullExplained`, `NothingSkipped`, `NothingRepeated` from one
  inductive invariant, which relates the row number to the histories: as long as flags
  were only raised, the rows still to be read are counted after the current number, and as
  long as they were only cleared, what is counted after it was not read before. What
  carries it are lemmas on the counting loop of `decimalGetFlag`: a flag's count is no
  lower when more flags are set, no two flags that are set have the same count, and
  the row of a number is the flag with the count one above it.

`DecInfinite_proofs`, for coefficients of every length:

- `QuotientExact`: the multiplication and shift of `QUOT10` divides exactly;
- `ComplementInverse`: the ten's complement undoes itself and yields units;
- `ShiftAligns`: `decShiftToMost` multiplies the coefficient by a power of ten,
  unit by unit with exact carries, and leaves three digits in the first unit. Its
  arithmetic is in `DecUnits_proofs`.

Only model-checked: liveness (`EveryScanEnds`), which needs fairness and `ENABLED`;
the properties of `DecimalFunctions`; order and round trip
of whole encodings, which are computed by recursion over the bytes; and the arithmetic:
`DecNumber` has RECURSIVE operators, and what recursion computes for every
input needs an induction the provers cannot do.

## 5. Not modelled

- `decExp`, `decLn`, `decLog10`, `decPow`, `decSqrt`: the library iterates with working
  precisions of nine digits or more in the smallest context, whose products and
  quotients exceed the 32-bit integers of TLC; a model of them on units would be the
  C code again.
- `decGetCoeff`, which returns an array nothing has written; `decStr`, `decBytes`, `decStatus()`
  and `decVersion()`, whose results are texts; `decInfiniteSign` and the like, which have no caller.
- Signed zeros in `Decimals` (they are in `DecNumber` and `DecInfinite`); error
  messages; `xRename`; the SIGFPE handler.
- Memory failures, except in the registrations: where the code checks for them it
  returns at once, where it does not (`decimalContextCreate`) the process ends.
- What an application does between two steps beyond other statements of the connection: a
  connection is used by one thread at a time, which SQLite's mutex enforces.
- `src/impl_stub.c`, a template in which every operation is refused, and the build utilities.

The vendored sources are by far the largest part of the repository: `sqlite3.c`, the
SQLite shell, the Jim interpreter of its build and the formats of decNumber the
extension does not use. What the extension never calls is not its behaviour, so most of their lines
correspond to nothing here. Of the extension's own three files most lines do.

## 6. Plan

1. An inductive invariant for `DecimalFunctions` (`PendingIsExplained`), and lemmas on
   `pack` and `unpack`.
2. Several cursors and write statements at once on the composed tables.
