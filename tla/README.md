# A verification development of rkt-polars

rkt-polars gives Racket the polars data-frame library: a Rust crate
(`rust/src`, built as `libcompat`) exports C functions, and `polars/private`
wraps them. This directory holds TLA+ modules that model the parts of it that
are hard to test, the TLC runs that check them, and proofs for TLAPS.

- `cd tla && tlc -config MCHandles.cfg MCHandles` checks a run (the table below
  has them all);
- `tlapm HandlesProofs.tla` checks the proofs about `Handles`; likewise
  `ForeignCallsProofs`, `ExtentProofs`, `StagedWriteProofs`, `OperandsProofs`,
  `ValuesProofs` (the six value modules), `FilesProofs` (`FrameFiles`, `CsvReads`,
  `CsvInference` and `NativeLibs`) and `RowReadsProofs`.

## The system

| Component | State | Operations | Talks to |
|---|---|---|---|
| Owned pointers (`foreign.rkt`, `expr-core.rkt`, `generic/core.rkt`, `rust/src/*/core.rs`) | boxes on the Rust heap, cpointer tags, registered releases, drop counters | producers, accessors, drops, wrapping, finalization | everything |
| Error channel and panic guard (`ffi/errors.rs`, `ffi/results.rs`, `foreign.rkt`) | reason slot and guard depth per OS thread, a process-wide guard count and panic hook | clear, record, guard, catch, read the reason | every entry point that can fail |
| Resource extents (`resource.rkt`) | the value or box an extent holds | `with-release`, `with-releases`, `with-release-pool` | operators, verbs, raw buffers |
| Staged file writers (`dataframe/io.rs`) | a directory, a staging counter per process | `write-csv`, `-json`, `-ndjson`, `-parquet` | the file system, other writers |
| Packed string blocks (`resource.rkt`, `ffi/strings.rs`) | none | encode, decode | every call that passes strings |
| Bulk row copies (`series/copy.rs`, `bulk.rkt`) | caller's buffers | row ranges, fixed-width and string copies | `series->list` and friends |
| Operators and operands (`generic/operators.rkt`, `operands.rkt`, `logical.rkt`) | temporary series and expressions | arithmetic, comparison, connectives, overflow check | extents, owned pointers |
| Scan and read options (`lazyframe/csv.rs`, `scan.rs`, `ndjson.rs`, `dataframe/parquet.rs`, `json.rs`) | a plan | rename, select, override dtypes, null values, row index, first rows, row groups, levels, rows to infer from | polars, writers |
| Expressions and sorting (`expr/*.rs`) | expression trees | constructors, `expr-sort` | polars |
| Row ranges (`lazyframe/rows.rs`, `expr/selection.rs`, `dataframe/core.rs`) | none | head, tail, slice | polars |
| Dtypes across the boundary (`types/dtype.rs`, `foreign.rkt`) | none | show, cast, override, literal, select by dtype | casts, readers, literals |
| Reductions (`generic/reductions.rkt`, `series/reductions.rs`, `types/optionals.rs`) | none | sum, mean, min, max, std, var, n-unique | polars |
| Temporal conversions (`temporal.rkt`, `series/time_zone.rs`) | none | calendar arithmetic | operands, printing |
| Other verbs, joins, printing (`generic/*.rkt`) | none of their own | one-to-one wrappers | polars |
| Native library installation (`install-compat.rkt`, `scripts/install-native-libs.sh`) | library and marker files | install a candidate or a dev build | the file system, a running racket |
| Vendored polars-stream (`rust/vendor`) | upstream's | upstream's, with a patched CSV batch source; numbers the rows of NDJSON | polars |

How they meet: a Racket program calls a verb; the verb makes temporaries inside
an extent, which owns pointers; each native call converts pointers (checking
their tags), runs Rust code under a panic guard, and reports failure through the
reason slot. The collector releases what nobody released.

What is hard here:

- *Concurrency.* Racket threads interleave between atomic extents
  (`call-as-atomic`, and everything `allocator`/`deallocator` wraps). Places run
  on OS threads of their own and share the process: its panic hook, its staging
  counter. Polars has worker threads. Other processes write the same files.
- *Asynchrony.* Breaks and kills arrive anywhere breaks are enabled; the
  collector and its finalizer thread run whenever they like.
- *Failure.* Panics under nested guards, releases that raise, system calls that
  fail, processes that die.
- *Two of everything.* Two CSV readers of polars that know different options, two
  routes to a reduction, two sides of a packed block, two installers: each pair
  must agree. Racket's integers have no width, and every one of Rust's has
  another.

`PROJECT.json` lists each hazard at its line with the properties that cover it, or
why none does.

## What makes each component correct

- Owned pointers: a box has one owner, is released at most once, never while a
  thread can reach it unless the program drops it, and at last always.
- Error channel: a failure reports its own reason; guards balance whatever
  panics; the hook hides each panic that a guard catches and, but for one case it
  cannot tell apart, none that no guard does.
- Extents: each acquired value is released once, in reverse order, after the
  code that uses it is gone, through breaks, kills, raises and re-entry.
- Writers: a reader of the target sees the old file or a whole new one.
- Operators: the caller's operands survive, temporaries are released once and
  not before the last call that reads them, the result is returned alive.
- Row copies: row *i* reads as row *i*, whatever window, scratch buffer and nulls
  it comes through; no write leaves its buffer.
- Packed blocks: each side reads what the other wrote, and Rust reads nothing
  outside a block whatever its words say.
- Options: whatever is combined, the frame read is the one the request means of
  the file, or the request is refused.
- Expressions and ranges: a sort is never given what has not a row's length; a
  slice keeps the rows Racket's integers ask for, whatever polars' widths.
- Dtypes and reductions: a dtype shown or written is the one used; an answer does
  not depend on the route.
- Integer operands: a row that wrapped is never given out.
- Installation: a mapped library keeps its bytes, there is always a whole one, and
  a run ends as its role promises.

## Modules

### `Handles` — owned pointers

A *pointer* is a cpointer with a tag (`unmade`, `live`, `dropped`), a kind (the
type of its tag) and an address. `heap` says whose box lies at an address; an
address is reused once its box is freed, a pointer never is. `releases` is what
`allocator` registered. A *wrapper* is a `series`, `dataframe` or `lazyframe`
struct; `Unwrap` is `owned-pointer-arg`. (`expr` structs carry
`prop:cpointer` but not `prop:owned-pointer`: their release is registered on the
struct, which is then the pointer of the model.)

| Action | Code |
|---|---|
| `Make` | a constructor wrapped in `(allocator X-drop)` |
| `Derive` | a producer over a value: conversion, call and registration in one atomic extent; also a `call/reason` call |
| `Convert`, `Callout` | a plain accessor: tag check, then the native call; threads may run in between |
| `Drop` | `series-drop` and siblings: `release-owned` |
| `Wrap` | `wrap-series` and siblings |
| `Collect`, `Finalize` | the collector finds a registered pointer unreachable; the finalizer thread runs its drop |
| `Share`, `Forget`, `Kill` | what programs do with values and threads |

`SharedDrops` decides whether a program breaks the manual's rule "a drop must
not run while another thread uses the same series" (`reference.scrbl:2374`).
With it broken, a stale plain call is the *only* fault that can occur
(`OnlyStaleCallouts`); with it kept there is none (`NoMemoryFault`).

### `ForeignCalls` — error channel and panic guard

One `slot` and `depth` per place (Racket threads of a place share its OS thread),
one `active` count. A call is `entered` (the place is taken: `call/reason` is
atomic), `running`, possibly under nested guards, `panicking`, `failing`,
`returned` (waiting to read its reason) and `idle`. `Entries` are the ways an
entry point is written: guarded (`scalar_result`, `boxed_result`), unguarded
(`boxed_unguarded`), silent (no `clear_last_error`; called without reading the
slot). A reason is the pair of thread and call number that recorded it, so that
any mix-up shows.

`Panic` is one that a guard of its call catches, on the calling thread or on a
worker; `ForeignPanic` is one that nothing catches, on a thread of the program's
own or on a worker that runs for no guarded call. `mishaps` collects what the hook
gets wrong. It cannot tell for whom a worker runs, so it silences the second kind
on a worker while any call of any place is under a guard, and
`tests/last_error.rs:53-54` accepts that. `HookTellsPanicsApart` says that this is
the only thing it gets wrong: a caught panic is never printed, a thread that is no
worker is never silenced, and neither is a worker beside no guard, whatever errors
and panics closed the guards before.

### `Bracket` and `Extent` — resource extents

`Bracket` is the promise: every resource goes from `none` to `owned` to
`released` (outside the body) or `collected`, and the body is entered once.
`Extent` is one evaluation of one of the three forms: `kind` chooses where the
acquire happens (pre thunk, or body), `box` is what the extent holds, `names`
what the body's names are bound to. `Acquire` and `Store` are two steps because
a break may separate them in a body; breaks are disabled in pre and post thunks,
so for `with-release` none does. `ImplementsBracket` is the refinement.

### `AtomicReplace` and `StagedWrite` — file writers

`StagedWrite` is `write_checked_frame` with a step per system call. `dir` links
names to inodes, so an unlinked or renamed file keeps its content for those who
have it open. A staging name is a pid and a counter value; two processes may have
one pid. `route` tells whether the caller's path is the target or a symbolic link
to it. Failures are nondeterministic outcomes of each step. `AtomicReplace` is
what the manual promises; `ReplacesAtomically` shows that writes to a regular or
missing file, named by its path, implement it.

For a dangling link they do not: `create_staged` finds the target missing and
opens it with `File::create`, which truncates a file that another writer has put
there since. The run `staged_link` shows a complete file becoming an empty one,
against `reference.scrbl:1076` ("An existing file is replaced atomically").

### `Operands` — what operators own

One application of an operator: a fold over its arguments for arithmetic, one
round for a comparison or connective. `frames` is the stack of `with-release`
clauses entered, each with its value and whether it releases it; what `Extent`
shows of one clause is taken for granted here (leaving it runs its release
once). `value` is what the last expression returned, which no clause owns;
`todo` holds the calls still to return, `plan` the clauses that
`series-through-expr/raw` or `series-scalars` has yet to enter.

| Action | Code |
|---|---|
| `Fold`, `Finish`, `Unary`, `Dispatch` | `binary-arith` and the variadic wrappers, `define-cmp`, `combine` |
| `LiftLeft`, `LiftRight`, `CombineExprs` | `call-with-exprs`; a connective lifts without a clause |
| `Operand`, `Self`, `ApplyOperator`, `NameResult` | `operand-series`, `self-series`, the native operator, the comparison's name |
| `CastLeft`, `CastRight`, `DivideSeries`, `Floor` | `series-true-div` and the floor of its quotient |
| `Literal`, `Build`, `OutputColumn`, `Fitting`, `Verdict` | `expression-form-op`, `series-through-expr/raw`, the overflow check |
| `Leave`, `ReturnToCaller`, `Raise`, `Break`, `Unwind` | control flow: any native step may raise, any place be broken |

Which rule of `operands.rkt` applies to a pair of dtypes is a nondeterministic
choice among those the operands' shapes allow, so the properties hold whatever
the table says. The literals that a connective lifts, and a result whose overflow
check or renaming raised, are left to the collector; `NothingLeft` says so.

### `RowReads` — bulk row copies

Columns, windows and matrices, down to who wrote which byte. `mem` is what was
written to the scratch buffer or to a buffer of the column's own, `room` the
addresses that are allocated there: native copies check the lengths they are
told, and only the Racket side knows what lies behind them. Entries are small
numbers (strings their lengths, decimals two words of two bits), and `usize` goes
up to `UsizeMax`. Chunks of a series are left out: a copy concatenates them.

| Action | Code |
|---|---|
| `Hit`, `Miss`, `Deliver` | `element` of `in-series` and `frame-rows` |
| `Column`, `Collect` | `rows` with its validity buffer and scratch, `collect` |
| `CopyPhysical`, `CopyZoned`, `CopyDecimal`, `CopyCat`, `SizeStrings`, `CopyStrings` | the native copies and the `*-rows` functions that call them |
| `Double`, `Finish`, `Native` | `dataframe->f64vector`; `series_copy_as_f64` with any arguments |
| `Fails`, `Resume` | a step raises; a consumer (of `sequence-generate`) asks again |

`element` moves the window's start before it converts the rows. If that
conversion raises, the rows of the window before stay under the new start, and a
consumer that catches the exception and asks again is given them. The run
`rows_resumed` shows it, against `reference.scrbl:2046`. With consumers that give
up then (`Resumes` false) every row reads right, also after a first window that
failed and after a request for an earlier row, which raises.

### `SortExprs`, `RowRanges`, `StrBlocks`, `DTypes`, `Reductions`, `IntegerOperands` — values

Six modules about code that turns one value into another. They share no state;
`MCValues` checks them in one run, together with `ForeignCalls` and `Operands`: a
behaviour runs one `part` and the others stay where they start.

`SortExprs`. polars' sort reads out of bounds when its input has one value per
group, so `expr_sort_with_options` looks at the tree it is given. An expression
is what the two structural rules (`is_one_value`, `is_per_row`) and polars'
evaluation make of its tree, so the slots of a program reach the images of trees
of every depth. The actions are the constructors; functions neither rule looks
into (`Apply`) differ by the shape they give. polars' evaluation is external.

`RowRanges`. A frame is its rows; `kept` is the range a plan keeps after any
chain of heads, tails and slices, `asked` the range Racket's integers ask for.
`LazySlice`, `ExprSlice` and their siblings narrow offsets and lengths as
`lazyframe/rows.rs` and `expr/selection.rs` do; `CutPlan` and `CutExpr` are what
polars does with an offset whose negation does not fit.

`StrBlocks`. Memory is bytes and words are made of bytes, so a damaged count
makes offsets of characters. `Write` packs as `resource.rkt` does, with padding
that was never cleared; `Damage` overwrites one word; `Decode` is `ffi/strings.rs`;
`Answer`, `Hear` and `Drop` are the way back, to the size that is freed.

`DTypes`. A dtype crosses as four numbers that lose a zone's name, an Enum's
categories and a nested dtype's inside; Racket asks for the first two and passes
them through entry points of their own. A program is shown a series' dtype or
writes one (`Show`, `WriteDType`), then casts, reads, makes a literal or selects
with it. `meant` is the dtype it had in mind, an unknown spelling of a zone
included.

`Reductions`. `ReduceSeries` routes an operation by dtype to a typed entry point,
to a dispersion (for booleans, of their cast to float64) or to the expression's
aggregation, as that of small integers' sums and of the spread of float32; or it
has no route and refuses. An answer is an optional whose status is a failure, a
null or a value, and a value has a dtype. polars may fail under any call. Totals
are recursive functions over the cells, which a proof can unfold.

What an answer should be is what Python polars gives (`PythonTells`), against
which the repository's own table is made (`scripts/reductions-expected.py`). It is
what the column aggregates to, except that the mean of float32 is not rounded to
float32: the native entry point answers in float64, too. The manual is of two
minds. `reference.scrbl:2257` lets `sum` preserve the input dtype, which the run
`reductions_promoted` shows it does not, while 1523-1524 and 1537-1539 widen small
integers as the code does; and 1526-1527 calls the mean of float32 a float32,
while 2258 and the code have it a float64.

`IntegerOperands`. `IntegerClass` and `IntegerAction` are the rows of
`operand-rules` for a series of integers; `Overflows` is the check of
`fitting-result` by the extremes of the series. `Half` gives each width the first
magnitude past its signed range: 2^(b-1) in the code, and at least doubling from
one width to the next in the assumption. Operands of other dtypes are not modelled
here.

### `ReadFrames`, `FrameFiles`, `CsvReads`, `CsvInference`, `NativeLibs` — files

Checked in one run by `MCFiles`, by `part` as above.

`ReadFrames` holds what all readers do: the first rows, and the row index, which
polars numbers from zero and the library shifts (`OffsetRows`).

`FrameFiles`. A frame is written as Parquet (row groups, codec levels narrowed
from an `i32`) or JSON and NDJSON (a misleading extension is refused), and read
with every combination of options: columns by name or index from either end,
row index, path column, first rows, schema and overrides. `file.height` is the
height of the frame that was written, whatever became of its groups.

NDJSON is read through a plan. `ScanNdjson` is `ndjson_scan`, which overrides a
schema itself, has polars override an inferred one and refuses an offset that is
no `IdxSize`; `NextMorsel` is the plan at work, of which polars makes morsels of any
height. Unlike Parquet and CSV, whose index polars counts from zero and the
library shifts and checks, NDJSON's is numbered by polars from the offset given:
`NumberMorsel` is polars' node, with an offset of its own that each morsel moves
on. The node adds a morsel's rows to it before it sends the morsel, and panics where
the sum is no `IdxSize`, so `FilesAsAsked` allows NDJSON an index one row shorter
than Parquet's. The run `ndjson_numbered` shows what the manual says
(`reference.scrbl:1313`) failing there: one row at offset 4294967295 is refused.
A schema's dtypes are told apart only by who declares them, and an inference
length only by whether it is 0. What polars infers from no lines at all is left
open, so an empty NDJSON file is read with a schema only.

`CsvReads`. `EagerReader` and `LazyReader` are polars' two CSV readers, which
know the header's names; the library translates a request in new names
(`InFileNames`), reads, renames and adds the row index last, along `EagerPlain`,
`EagerRenamed` and `RenamedScan`. `MeansSomething` and `IsMeant` say what the request
means, without any of this: the file's columns are renamed, and everything else is
said of the new names.

`CsvInference`. polars reserves room for the rows it is told to infer from.
`RowsToInfer` says all of them instead where the number could not be reserved or
is more than the file can hold, which `MostRows` bounds by bytes and compression.

`NativeLibs`. The pre-installer in its three ways (`candidate`, `forced`, and
`override` by the variable) and the dev shell's script (`script`), a step per
file operation, any two beside each other, from whatever killed runs left.
`Fail` (a step fails or a break comes) cleans up; `Kill` does not. `Map` is a
racket that loads the library. `RunsEndAsAsked` speaks of runs beside which
nobody else changes the two names: the steps do not exclude each other, and an
unforced pre-installer that looks between the script's two renames finds a
library without its marker and puts the candidate in its place.

## Runs

| Run | Instance | Shows |
|---|---|---|
| `handles_shared` | 2 threads, 3 pointers, 2 addresses, 1 wrapper, 2 kinds; drops unrestricted; symmetric | `OwnedOnce` `CollectorSparesReachable` `OnlyStaleCallouts` `DroppedForGood` |
| `handles_ruled` | the same with 2 pointers, the manual's rule, fairness, no symmetry | `NoMemoryFault`, `NothingLeaks` |
| `extent` | the three forms, up to 4 resources, any raise, break, kill, re-entry | `ReverseOrder` `NothingHeldAfter` `NamesAreHeld` `ImplementsBracket` `AllSettled` |
| `staged_safety` | 2 writers in 2 processes with one pid, target absent, writable, read-only, a directory or special, by path or link, crashes, an outsider | `TargetNeverTorn`, `WritesEnd` |
| `staged_atomic` | 3 writers, 2 in one process, equal or different pids, 3 counter values, regular or missing target by path, crashes | `StagingExclusive` `NoLitter` `ReplacesAtomically` |
| `row_reads` | up to 3 rows and 2 columns (at most 4 entries) of 10 dtypes, windows of up to 3 rows | `RightRow` `NextReadable` `BuffersFit` `MatrixWhole` |
| `library_values` | one part at a time: 2 slots of expressions; `IdxSize` up to 4 and `i64` up to 7; texts of up to 2 strings of up to 2 characters, in words of 2 bytes; 4 spellings of 2 zones; series of up to 3 cells; integers of 2, 3 and 4 bits beside series of up to 2; 2 threads in a place and 1 in another, 2 calls each, guards 2 deep; 4 kinds of operator on up to 3 arguments among 2 series, an expression and plain values, repeats included, with any rule, raise and break | `SortFitsItsInput` `KeptIsAsked` `StringsSurvive` `DamageContained` `DTypesSurvive` `ReductionsAgree` `IntegersFit` `ReasonIsOwn` `DepthBalanced` `HookTellsPanicsApart` `ActiveWhileGuarded` `CallersKept` `OwnedByOneClause` `BoundIsLive` `NothingLeft` |
| `library_files` | one part at a time: headers of 1 and 2 names, 0 and 3 rows, groups of 1, 2 and 4 rows, every mix of options, morsels of any height; up to 2 files to infer from; 2 installers, 2 builds and the candidate, 2 runs | `FilesAsAsked` `ReadMeansRequest` `InferenceReach` `LibraryUnharmed` `RunsEndAsAsked` |
| `rows_resumed` | the same with consumers that resume | violates `RightRow` |
| `staged_link` | 2 writers, path and link, target missing | violates `ExistingReplacedWhole` |
| `reductions_promoted` | `Reductions` alone, as in `library_values` | violates `SumsKeepDType` |
| `ndjson_numbered` | files of 2 rows, an offset of 2 under `IdxMax` 3 | violates `IndexesThatFitAreGiven` |

`library_values` reaches 608,173 states and `library_files` 2,646,462, in two
minutes; the others fewer.

Deadlock checking is off everywhere: in every model the threads or writers may
simply be done.

Bounds. Three pointers over two addresses make an address be reused with a stale
reference still about; a third thread adds no new kind of race, since every
action concerns at most two. Two calls per thread are needed for a stale reason,
two guards for nesting. Four resources leave releases on both sides of one that
raises. Three writers allow a name collision inside a process and across two at
once; with `MaxCounter` at 2 each of them can lose once and go on. With three
arguments the fold consumes a result of its own, and with two series and an
expression among them every dispatch occurs. Windows of two rows over three
leave a short last one, windows of three put a code where a categorical's names
would go unaligned, two by two entries tell the orders of a matrix apart, and
arguments up to a `UsizeMax` of 7 wrap around.

In `library_values`, two slots suffice because an expression is only its image
under the rules, and every operator reads at most what two slots hold and one
overwrites; `IdxMax` of 4 under `I64Max` of 7 makes each narrowing happen; words
of two bytes in base 4 leave counts that point past a block and characters of two
bytes that a wrong offset cuts; `SmallHalf` 2 against `WideHalf` 32 makes a sum of
two or three small integers wrap where only the small width is kept; integers of up to 4
bits have, for each of two narrower widths and both signs, values past it, past
the signed maximum and past everything. In `library_files`, three rows against
`IdxMax` 3 and an offset of 2 make an index overflow, in the first morsel or a
later one, and an offset past `IdxMax` is refused before; groups of 2 rows do not
divide 3, and groups of 4 are past them; `Free` 2, `RowBytes` 2 and
`Never` 14 leave numbers in every class, and `MaxBytes` 2 with expansions 1, 2
and 4 tell the bounds of compressed files apart; two runs let any two ways of
installing meet, and a second follow one that failed or was killed.

`MaxCounter`, `MaxCalls`, `MaxGuards`, `N`, `MaxArgs`, `MaxRows`, `MaxCells`, `MaxCols`,
`UsizeMax`, `MaxInts`, `MaxBytes`, `MaxRuns`, `MaxChosen` and `MaxNames` (columns
chosen or overridden, and new names), the widths and the small sets of names and
numbers in the configurations (`Levels`, `GroupSizes`, `Firsts`, `Indices`,
`Heights`, `Offsets`, `CsvFirsts`, `CsvIndices`) are the only bounds, and each appears in a guard, in `Init` or in the
set an input is taken from.

Each module states its type invariant, and each module with theorems proves it for
every value of the constants; the runs' configurations leave it out, and any of
them takes it as one more INVARIANT (`ValuesTypeOK` and `OptionsTypeOK` for the
two composed runs).

Fairness. `Handles`: the collector and the finalizer thread run on, and a native
call that was entered returns; nothing is assumed of the program. `Extent`: a
thread that unwinds goes on (post thunks run to the end), and the collector
runs. `StagedWrite`: an entered Rust call keeps executing and its data are
finite. No other module states liveness: what `ForeignCalls`, `Operands`,
`RowReads` and the parts of the composed runs do ends when the call returns.

Symmetry is used only in `handles_shared`, which has no liveness property.

## Proofs

Each theorem holds for every value of the constants that satisfies the module's
named assumptions; TLC evaluates those on every run. In each module one inductive
invariant is shown to hold initially and to be kept by every step, a lemma per
action, and the theorems follow from it.

### `HandlesProofs`

For any number of threads, pointers, wrappers, addresses and kinds:

| Theorem | Property |
|---|---|
| `TypeCorrect` | `TypeOK` |
| `BoxesOwnedOnce` | `OwnedOnce` |
| `ReachableSpared` | `CollectorSparesReachable` |
| `OnlyCalloutsGoStale` | `OnlyStaleCallouts` |
| `MemorySafe` | `NoMemoryFault` |
| `NeverRevived` | `DroppedForGood` |
| `ReleasesCounted` | `CountsReleases` (proved, in no run) |

`IInv` strengthens the invariants with three facts they do not
say: a box lies at the address its pointer holds (`BoxesPlaced`: so freeing one
pointer's box disturbs no other's), whatever a thread holds was produced
(`RootsMade`: so producing a pointer makes nothing reachable), and the values of
pending plain calls are live when the rule is kept (`CalloutsLive`). Only two
kinds of step change boxes, and each has a lemma: `ProduceKeepsIInv` (fresh
pointer, fresh address) and `ReleaseKeepsIInv` (the tag check saw the pointer
live, so by `OwnedOnce` the box is its own). All others move references, and
`RootsKeepIInv` covers them. The assumptions are `ConstantsAssumption` of
`Handles`; `ReleasesCounted` needs the pointers to be finitely many because it
counts them.

### `ForeignCallsProofs`

For any number of places and threads and any depth of guards:

| Theorem | Property |
|---|---|
| `CallsAreWellTyped` | `CallsTypeOK` |
| `FailuresReportTheirOwnReason` | `ReasonIsOwn` |
| `GuardsUnwind` | `DepthBalanced` |
| `HookIsRight` | `HookTellsPanicsApart` |
| `ActiveCountIsSound` | `ActiveWhileGuarded` |

`CallsIInv` adds who holds a place (`Holding`), what a call has done by each of
its stages (`Course`), that the slot of a place holds the reason of the thread
that has it (`SlotIsOwn`), and that the process-wide `active` is the number of
all open levels (`GuardsCounted`). The last is what a lost decrement after a
panic would break, and needs the levels to be counted, since two threads may be
inside guards at once. It is also what `HookIsRight` needs of `ForeignPanic`: a
worker's panic is silenced by a positive count alone, and the count is positive
only while a guard is open.

### `ExtentProofs`

For any number of resources:

| Theorem | Property |
|---|---|
| `ExtentIsTyped` | `TypeOK` |
| `ReleasesReverse` | `ReverseOrder` |
| `LeftExtentsHoldNothing` | `NothingHeldAfter` |
| `NamesStayHeld` | `NamesAreHeld` |
| `ExtentImplementsBracket` | `ImplementsBracket` |

`ExtentIInv` says that the box holds just what is held, the latest first
(`BoxHolds`); that a resource made and not stored is the latest of all (`InTurn`);
that whatever was released came after all that is still held (`LaterFirst`); and
what each phase leaves to no one (`ByPhase`).
The refinement maps each initial state and each step to one of `Bracket` or to a
stutter; it is proved of `Spec`, without the fairness the run adds.

### `StagedWriteProofs`

For any number of writers and processes, pids equal or not:

| Theorem | Property |
|---|---|
| `StagedIsTyped` | `TypeOK` |
| `StagingIsExclusive` | `StagingExclusive` |
| `NoLitterIsLeft` | `NoLitter` |
| `TargetIsNeverTorn` | `TargetNeverTorn` |
| `CallsReplaceAtomically` | `ReplacesAtomically` |

`StagedIInv` relates a writer's stage to what it has open (`Opened`), each staging
name to the one writer whose file it links (`StagingExclusive`), and the target to
writers that are done (`AtTargetIsDone`) or write in place (`WholeOrInPlace`). The
last theorem assumes `OnlyRegular`: calls name the target by its path, it is
regular or missing, and no outsider makes it anything else. Without that it is
false, as `staged_link` shows. `RegularIInv` adds what then holds of the target.

### `OperandsProofs`

For any number of arguments and series:

| Theorem | Property |
|---|---|
| `OperandsAreTyped` | `OperandsTypeOK` |
| `CallersAreKept` | `CallersKept` |
| `OneClauseOwns` | `OwnedByOneClause` |
| `BoundStayLive` | `BoundIsLive` |
| `NothingElseIsLeft` | `NothingLeft` |

`HeapIInv` is about the stack and the heap: values are numbered in the order they
were made, a clause that releases a value lies under every other that names it,
and what is live and no caller's is owned, returned or left to the collector.
Every action is one of six changes of the heap, and each has a lemma (`HeapStays`,
`HeapBindsHeld`, `HeapBindsFresh`, `HeapTakes`, `HeapYields`, `HeapPops`). `CourseIInv` says at which step of the fold what is bound, so
that each action's operands are among the bound values.

### `ValuesProofs`

| Theorem | Property |
|---|---|
| `SortsAreTyped`, `SortRulesAreSound`, `SortsFitTheirInput` | `SortTypeOK`, `RulesAreSound`, `SortFitsItsInput` |
| `RangesAreTyped`, `RowsKeptAreRowsAsked` | `RangesTypeOK`, `KeptIsAsked` |
| `DTypesAreTyped`, `DTypesAreKept` | `DTypesTypeOK`, `DTypesSurvive` |
| `IntegersAreTyped`, `IntegersFitTheirDType` | `IntsTypeOK`, `IntegersFit` |
| `ReductionsAreTyped`, `RoutesAgree` | `ReductionsTypeOK`, `ReductionsAgree` |
| `BlocksAreTyped`, `StringsAlwaysSurvive`, `DamageIsContained` | `BlocksTypeOK`, `StringsSurvive`, `DamageContained` |

`SortIInv`: every expression a program holds is `Sound`, that is, what a rule says
of it is how polars evaluates it; a lemma per node shows the rules keep that.
`RangesIInv`: the rows kept and asked for are equal or both empty, which each
head, tail and slice keeps whatever the two widths are, as long as an `IdxSize` is
no wider than an `i64` (`WidthsAssumption`).

`DTypesIInv`: a dtype the program holds is the image of exactly one dtype
(`HeldDType`, and `meant` is that one) or is the unknown dtype, which every entry
point refuses. For each kind there is a lemma that a cast, an override and a
literal give what is meant or refuse. The database of zones is any that has a
canonical spelling for each of its zones (`ZonesAssumption`).

`IntsIInv` says that a series given out is in the range of its dtype.
`IntegersFit` then rests on one lemma per operator: sums, differences and products
are monotone or antitone in the element, so an overflow anywhere is an overflow at
one of the two extremes that `fitting-result` looks at (`SumsOverflow`,
`ExtremesAre`); a quotient leaves the range of the dtype only for the least value
over -1 (`QuotientFits`); and a value within the range is not changed by wrapping.

`ReductionsIInv`: totals, squares and extremes of any series are integers, by
induction over the set of indexes not yet folded; each route then tells what
`PythonTells` says of the same cells, in the dtype it says (`ReduceAgrees`), and a
pair of an operation and a dtype without a route is one that Python refuses.
Both compute in the width of the dtype they answer in, so what the proof comes down
to is that each route answers in the right one: small integers do not wrap because
their sum has the wide dtype.

`BlocksIInv`: until it is answered, a block's memory is at least as long as its
first word says (`Honest`) and, undamaged, is read as what was said; an answer
`Carries` the strings Rust read. Words come first: a number's bytes give it back
(`WordOfIs`), digit by digit. Then `BlockLayout` places each word of a header and
each byte after it, and `JoinedAt` finds a string between the lengths of what was
joined before it and with it; so both readers of a packed block give the strings
(`PackedOneReads`, `PackedListReads`). For a damaged block only the readers' own
checks are left: whatever passes them lies inside the block (`RoomIs`) and is cut
one string after another (`CutsJoin`), and overwriting a word keeps a block
`Honest`, its first word included (`DamagedIsHonest`). `TextsAssumption` says that
strings are valid UTF-8 and that their sizes are counted in one word: a block is
never as large as memory.

### `FilesProofs`

| Theorem | Property |
|---|---|
| `FilesAreTyped`, `FilesAreAsAsked` | `FilesTypeOK`, `FilesAsAsked` |
| `CsvReadsAreTyped`, `ReadsMeanTheirRequest` | `CsvTypeOK`, `ReadMeansRequest` |
| `InferenceIsTyped`, `InferenceReachesAsAsked` | `InferenceTypeOK`, `InferenceReach` |
| `LibrariesAreTyped`, `LibraryStaysUnharmed`, `RunsEndRight` | `LibsTypeOK`, `LibraryUnharmed`, `RunsEndAsAsked` |

`InferIInv` is the type of the files and the memory, from which the arithmetic of
`RowsToInfer` follows (`InferenceAssumption`: rows that are always reserved are
fewer than those never are).

`LibsIInv`, for any number of installers, builds and runs: what is linked under the
two names was completely written (`LinksAreWhole`), a mapped inode has not been
written since (`MappedStays`), a temporary file belongs to the one run that staged
it, and `AloneIsRight` says at each step of a run what the two names hold if nobody
else changed them since it began. Renaming is the only way a name comes to link
another inode, which is why a mapped library survives.

`FilesIInv` and `CsvIInv` say that what was read is what the code computes of the
request; what remains are lemmas about the operators, for files of any size and
requests of any length. A file's groups of rows hold its rows again, in order
(`GroupsAre`, by induction over the groups), and those rows are the written
frame's (`FileIs`). A selection that is possible puts the
row index and the columns where they were asked for (`SelectIs`, `SelectAnswers`);
overridden fields agree with the schema (`OverriddenIs`). A shifted row index is
the one asked for or the read fails (`OffsetIs`). An NDJSON read is the one step
that goes on: `Reading` says that what came so far is the first of the rows,
numbered from the offset, and that the node stands at the number after them; a
scan begins so (`ScanIsReading`) and a morsel of any height keeps it or fails for
a number that is no `IdxSize` (`MorselIsReading`).

For `CsvReads` every way to a frame is reduced to one, `Target`: the row index, then
the columns at the places the request picks, in order. Places that differ have
exactly one order (`OrderExists`, by induction over their number, and `InOrderIs`).
A request that passes `in_file_names` picks the same places of the header
(`PickedMoves`) and gives each column the dtype and null values it was given under
its new name (`MovedIs`, `TranslatedGives`, which need the new names to differ), so
that reading and renaming gives the columns the request speaks of (`ColumnRenamed`).
`EagerIs` and `ScanGives` then show that both of polars' readers give `Target`, and
both for the same requests, `TargetMeansRequest` that this is what `IsMeant` says.

`FilesAssumption` and `CsvAssumption` say that options are lists of names and
numbers, and that polars gives no two columns of a file one name. `NamesAssumption`
keeps the names of columns from the value that marks a failure, and it and
`CsvAssumption` keep an option that is not given from one that is.

### `RowReadsProofs`

For any number of rows and columns, any window and any width of `usize`:

| Theorem | Property |
|---|---|
| `RowReadsAreTyped` | `TypeOK` |
| `RowsReadRight` | `RightRow` |
| `NextIsReadable` | `NextReadable` |
| `BuffersAlwaysFit` | `BuffersFit` |
| `MatricesAreWhole` | `MatrixWhole` |

The second and third assume that a consumer gives up once a later window's
conversion raised (`~Resumes`): without that they are false, as `rows_resumed`
shows of the second. The others hold either way.

The invariant, `IInv`, is a conjunction of what is known of each piece of state.
`BuiltRight` and `BlockRight` relate the converted columns to the rows of the
window; they are why `RightRow` follows. `StageRight` says what lies in memory
between the steps of one column: after `CopyCat` the codes and the table of names
(`CodesRight`), before `Collect` that every element reads as its row
(`ElementsRight`). `ValidRight` says when the validity buffer has been written, and
`RoomRight` what is allocated for whom: the scratch of a window, or what the column
at hand was given. `MatrixRight` says which places of a matrix are written.

Memory is reasoned about through two lemmas: an element that was put is got
(`PutGet`), and a copy leaves alone what lies beside it (`PutKeeps`). The second is
what a categorical needs, whose codes and offsets share the scratch: `NamesFit`
shows that the offsets start after the codes, at an odd count too, and end within
16 bytes a row and one row more. Strings are found again because every byte lies
between the offsets of one string only (`ByteIsOf`); the entries of a matrix
because a number has one quotient and one remainder (`PlacesAre`). That the last
row's index does not wrap is `DoublesFit` for `dataframe->f64vector` and part of
`NativeKeeps` for any arguments.

`ConstantsAssumption` says that rows and entries fit a `usize`, and that the values
standing for null, for unwritten memory and for no buffer are not numbers, bits or
blocks. Entries, and the two words of a decimal, are the model's few: the theorems
say nothing of a decimal's other words. That `NamesIn` and `EndsOf`, which are recursive
functions, have values at all is proved by induction (`NamesExist`, `EndsExist`).

### Induction

The library's induction theorems take the induction hypothesis as an operator, which
the installed backends cannot instantiate. What is proved by induction here is put
as a statement about a *set* of numbers instead: `LeastNat` (a non-empty set of
naturals has a least element, from `WellFoundedInduction`) gives `InductionOnSet`,
and the set is the set of `n` for which the statement holds.

### Only model-checked

`NothingLeaks`, `AllSettled` and `WritesEnd` are liveness under fairness, which the
prover does not do, as it does not do ENABLED. Every other property of the runs
that pass is a theorem, with the provisos above; TLC still checks each of them, where a mistake shows as a
counterexample. There are no RECURSIVE operators.

## Not modelled

- Which polars function a producer or accessor calls, and its result.
- The collector's own algorithm and the Racket scheduler: external, by what
  `ffi/unsafe/alloc` and `dynamic-wind` guarantee.
- An entry point outside `guard_panic` that panics (it would abort the process);
  the source's own audit of entry points (`tests/guard_audit.rs`) excludes it.
- Owner, ACLs and hard links of a replaced file, which the manual excludes too.
- Temporal conversions: pure functions of one value, calendar arithmetic of
  `racket/base` on one side and of chrono on the other.
- Other verbs, joins, reshaping and printing: wrappers with no state and no case
  analysis of their own.
- The rules for operands that are not integers, and what a comparison computes.
- CSV separators, quoting, rows skipped before or after a header and the other
  options passed to polars as they are; paths and patterns; a file that changes
  between a scan and its collection.
- The vendored polars-stream but for the node that numbers NDJSON's rows.
- Modes changed beside a write: in the runs of `StagedWrite` nobody changes the mode
  of the target, so the mode a writer read is never stale.
- The components marked `partly` or `not_modelled` in `PROJECT.json` say there what
  is left out.
