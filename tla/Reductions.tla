----------------------------- MODULE Reductions -----------------------------
(***************************************************************************)
(* The sum, mean, least, greatest and spread of a series.  Racket routes   *)
(* each by the dtype: to an entry point typed by the element, which        *)
(* answers in the element's own width but for a mean, to one that answers  *)
(* in float64, or to the expression's aggregation over a frame of one      *)
(* column, whose one cell it reads                                         *)
(* (polars/private/generic/reductions.rkt, rust/src/series/reductions.rs). *)
(* An answer is an optional: a status, which tells a failure from a null   *)
(* from a value, and the value (rust/src/types/optionals.rs).              *)
(*                                                                         *)
(* A cell is Null or a number; a boolean is 0 or 1, and so is a string, by *)
(* its place among the strings.  "small" stands for the integers of 8 and  *)
(* 16 bits, "integer" for the others, and "string" for what orders as one. *)
(* The arithmetic of floats is exact here; that an answer was rounded to   *)
(* float32, or not, is told by its dtype.                                  *)
(***************************************************************************)
EXTENDS Integers, FiniteSets, SequencesExt

CONSTANTS
  Null,
  Elements,             \* what a series holds
  SmallHalf, WideHalf,  \* half as many as the values of a small integer, and of any other
  MaxRows

ASSUME NumbersAssumption ==
  /\ SmallHalf \in Nat \ {0} /\ WideHalf \in Nat \ {0} /\ SmallHalf <= WideHalf
  /\ Elements \subseteq Int /\ Null \notin Int /\ MaxRows \in Nat

VARIABLES
  series,     \* [kind, cells]
  reduction,  \* the reduction asked for last, [op, ddof]
  told,       \* what the program was told
  failed      \* whether polars failed under the call

redVars == <<series, reduction, told, failed>>

Floats  == {"float32", "float64"}
Numeric == {"small", "integer"} \cup Floats
Kinds == Numeric \cup {"boolean", "string", "null", "duration", "date", "datetime", "decimal"}
Ops == {"sum", "mean", "min", "max", "std", "var"}

Wrap(n, half) == ((n + half) % (2 * half)) - half
InWidth(n, dtype) ==
  IF dtype \in Floats THEN n ELSE Wrap(n, IF dtype = "small" THEN SmallHalf ELSE WideHalf)
Cells(kind) ==
  {Null} \cup CASE kind = "null"    -> {}
               [] kind = "boolean" -> {0, 1}
               [] kind = "small"   -> Elements \cap (-SmallHalf .. SmallHalf - 1)
               [] OTHER            -> Elements

\* A number told is a quotient: of a mean, and over one of anything else.
Value(n, of, dtype) == [is |-> "value", n |-> n, of |-> of, dtype |-> dtype]
PolarsNull == [is |-> "null", n |-> 0, of |-> 1, dtype |-> "null"]
Error == [is |-> "error", n |-> 0, of |-> 1, dtype |-> "null"]

\* The type invariant of the module's state.
ReductionsTypeOK ==
  /\ series.kind \in Kinds
  /\ series.cells \in SeqOf(Cells(series.kind), MaxRows)
  /\ reduction.op \in Ops \cup {"none", "n-unique"} /\ reduction.ddof \in 0 .. 2
  /\ told.is \in {"value", "null", "error"} /\ told.dtype \in Kinds
  /\ failed \in BOOLEAN

-----------------------------------------------------------------------------
(* polars: the reductions of a typed array.                                *)

Present(cells) == {i \in DOMAIN cells : cells[i] # Null}
PresentCells(cells) == {cells[i] : i \in Present(cells)}
SumOf(numbers) ==
  LET sum[i \in 0 .. Len(numbers)] == IF i = 0 THEN 0 ELSE sum[i - 1] + numbers[i] IN
  sum[Len(numbers)]
Total(cells) == SumOf([i \in DOMAIN cells |-> IF cells[i] = Null THEN 0 ELSE cells[i]])
Squares(cells) == SumOf([i \in DOMAIN cells |-> IF cells[i] = Null THEN 0 ELSE cells[i] * cells[i]])
\* Of the squares of the distances from the mean, times the count.
Spread(cells) == Cardinality(Present(cells)) * Squares(cells) - Total(cells) * Total(cells)

\* Of no elements; a spread, of no more than its degrees of freedom.
NoAnswer(op, ddof, n) == IF op \in {"std", "var"} THEN n <= ddof ELSE op # "sum" /\ n = 0

\* What it comes to in a dtype; a std is told by the var it is the root of.
Reduced(op, ddof, cells, dtype) ==
  LET n == Cardinality(Present(cells)) IN
  IF NoAnswer(op, ddof, n) THEN PolarsNull
  ELSE CASE op = "sum"            -> Value(InWidth(Total(cells), dtype), 1, dtype)
         [] op = "mean"           -> Value(Total(cells), n, dtype)
         [] op = "min"            -> Value(Min(PresentCells(cells)), 1, dtype)
         [] op = "max"            -> Value(Max(PresentCells(cells)), 1, dtype)
         [] op \in {"std", "var"} -> Value(Spread(cells), n * (n - ddof), dtype)

\* What a column of a kind aggregates to, when its answer has a dtype.
AnswerIn(op, ddof, kind, cells, dtype) ==
  CASE op \in {"sum", "std", "var"} /\ kind \in {"string", "date", "datetime"} -> Error
    [] op = "var" /\ kind = "duration"                            -> Error
    [] kind = "null" \/ (op = "mean" /\ kind = "string")           -> PolarsNull
    [] OTHER                                   -> Reduced(op, ddof, cells, dtype)

\* polars: the dtype an aggregation gives its column.  The sum of small
\* integers and of booleans is a wider integer.
AggregateDType(op, kind) ==
  CASE op = "sum" /\ kind \in {"small", "boolean"}                          -> "integer"
    [] op = "mean" /\ kind \in {"small", "integer", "boolean", "decimal"}   -> "float64"
    [] op = "mean" /\ kind = "date"                                         -> "datetime"
    [] op \in {"std", "var"} /\ kind \notin {"float32", "duration"}         -> "float64"
    [] OTHER                                                                -> kind
ColumnAggregate(op, ddof, kind, cells) == AnswerIn(op, ddof, kind, cells, AggregateDType(op, kind))

\* What Python polars tells of a series: what its column would be, but for the
\* mean of float32, which it does not round (scripts/reductions-expected.py).
PythonDType(op, kind) ==
  IF op = "mean" /\ kind = "float32" THEN "float64" ELSE AggregateDType(op, kind)
PythonTells(op, ddof, kind, cells) == AnswerIn(op, ddof, kind, cells, PythonDType(op, kind))

-----------------------------------------------------------------------------
(* Rust: `CompatOpt*`, and the entry points that answer with one.          *)

Opt(valid, value) == [valid |-> valid, value |-> value]
OptNone == Opt(0, PolarsNull)
\* Fault: a failure looks like a null.
OptFailedAsNone == Opt(0, PolarsNull)
OptFailed == Opt(-1, PolarsNull)
FromOption(answer) == IF answer.is = "value" THEN Opt(1, answer) ELSE OptNone

\* `scalar_result` and `with_series`: an error and a panic are failures.
ScalarResult(fails, opt) == IF fails THEN OptFailed ELSE opt

\* `series_sum_i32_v2` and the like: downcast to the entry point's element.
\* The mean of any element is a `CompatOptF64`.
TypedReduction(op, kind, s, fails) ==
  ScalarResult(fails \/ s.kind # kind,
               FromOption(Reduced(op, 0, s.cells, IF op = "mean" THEN "float64" ELSE kind)))
\* `series_std_v2` and `series_var_v2`: a `CompatOptF64` of any element.
Dispersion(op, ddof, s, fails) ==
  ScalarResult(fails, FromOption(Reduced(op, ddof, s.cells, "float64")))

\* `series_ref_is_null` and `series_ref_*`, of an index from 0.
RefIsNull(s, i) ==
  IF i >= Len(s.cells) THEN -1
  ELSE IF \E j \in DOMAIN s.cells : s.cells[j] = Null
       THEN (IF s.cells[i + 1] = Null THEN 1 ELSE 0) ELSE 0
RefTyped(s, kind, i) ==
  IF i >= Len(s.cells) \/ s.kind # kind \/ s.cells[i + 1] = Null THEN OptNone
  ELSE FromOption(Value(s.cells[i + 1], 1, kind))

-----------------------------------------------------------------------------
(* Racket.                                                                 *)

\* `call/foreign-error` with `#:ok? (negate negative?)`, then the optional's
\* datum, or polars-null where that is #f.
Heard(opt) ==
  CASE opt.valid < 0 -> Error
    [] opt.valid = 0 -> PolarsNull
    [] OTHER         -> opt.value

\* `series-value`: a null is asked about first, and a value that then has none
\* is an error.
SeriesValue(s, i) ==
  CASE RefIsNull(s, i) = 1 -> PolarsNull
    [] RefIsNull(s, i) = 0 ->
         LET opt == RefTyped(s, s.kind, i) IN IF opt.valid = 0 THEN Error ELSE opt.value
    [] OTHER -> Error

\* `series-agg-via-expr`: the frame's one cell, or polars' error.
ViaExpr(op, ddof, s, fails) ==
  LET answer == ColumnAggregate(op, ddof, s.kind, s.cells)
      out(cell) == [kind |-> AggregateDType(op, s.kind), cells |-> <<cell>>] IN
  IF fails \/ answer.is = "error" THEN Error
  ELSE IF answer.is = "null" THEN SeriesValue(out(Null), 0)
  ELSE [SeriesValue(out(answer.n), 0) EXCEPT !.of = answer.of]

\* Fault: the spread of a float32 series is asked of the entry point for float64.
RouteDispersed(op, kind) ==
  CASE op = "mean" /\ kind = "string"                            -> "null"
    [] op = "sum" /\ kind = "small"                              -> "expr"
    [] op \in {"sum", "mean", "min", "max"} /\ kind \in Numeric -> "native"
    [] op \in {"std", "var"} /\ kind \in Numeric                -> "dispersion"
    [] op \in {"std", "var"} /\ kind = "boolean"                -> "float64"
    [] OTHER                                                     -> "expr"
\* Fault: the sum of small integers is typed by them.
RouteTyped(op, kind) ==
  CASE op = "mean" /\ kind = "string"                            -> "null"
    [] op \in {"std", "var"} /\ kind = "float32"                -> "expr"
    [] op \in {"sum", "mean", "min", "max"} /\ kind \in Numeric -> "native"
    [] op \in {"std", "var"} /\ kind \in Numeric                -> "dispersion"
    [] op \in {"std", "var"} /\ kind = "boolean"                -> "float64"
    [] OTHER                                                     -> "expr"
\* `reduction-route`: the clauses are tried in order, and so no two overlap here.
Route(op, kind) ==
  CASE op = "mean" /\ kind = "string"                                     -> "null"
    [] op = "sum" /\ kind = "small"                                       -> "expr"
    [] op \in {"std", "var"} /\ kind = "float32"                          -> "expr"
    [] op = "sum" /\ kind \in Numeric \ {"small"}                         -> "native"
    [] op \in {"mean", "min", "max"} /\ kind \in Numeric                  -> "native"
    [] op \in {"std", "var"} /\ kind \in Numeric \ {"float32"}            -> "dispersion"
    [] op \in {"std", "var"} /\ kind = "boolean"                          -> "float64"
    [] op \in {"sum", "std", "var"} /\ kind \in {"null", "decimal"}       -> "expr"
    [] op = "sum" /\ kind \in {"boolean", "duration"}                     -> "expr"
    [] op = "std" /\ kind = "duration"                                    -> "expr"
    [] op = "mean" /\ kind \notin Numeric \cup {"string"}                 -> "expr"
    [] op \in {"min", "max"} /\ kind \notin Numeric                       -> "expr"
    [] OTHER                                                              -> "none"

\* `reduce-series`; only a spread of booleans is of their cast to float64.
ReduceSeries(op, ddof, s, fails) ==
  CASE Route(op, s.kind) = "native"     -> Heard(TypedReduction(op, s.kind, s, fails))
    [] Route(op, s.kind) = "dispersion" -> Heard(Dispersion(op, ddof, s, fails))
    [] Route(op, s.kind) = "float64"    ->
         Heard(Dispersion(op, ddof, [s EXCEPT !.kind = "float64"], fails))
    [] Route(op, s.kind) = "expr"       -> ViaExpr(op, ddof, s, fails)
    [] Route(op, s.kind) = "null"       -> PolarsNull
    [] OTHER                            -> Error

-----------------------------------------------------------------------------
ReductionsInit ==
  /\ \E kind \in Kinds : \E cells \in SeqOf(Cells(kind), MaxRows) :
       series = [kind |-> kind, cells |-> cells]
  /\ reduction = [op |-> "none", ddof |-> 0]
  /\ told = PolarsNull /\ failed = FALSE

\* polars may fail, or panic, under any call into it.
Reduce(op, ddof) ==
  /\ reduction' = [op |-> op, ddof |-> ddof]
  /\ failed' \in BOOLEAN
  /\ told' = ReduceSeries(op, ddof, series, failed')
  /\ UNCHANGED series

\* `series_n_unique_v2`, whose failure is -1.
NUnique ==
  /\ reduction' = [op |-> "n-unique", ddof |-> 0]
  /\ failed' \in BOOLEAN
  /\ told' = LET n == IF failed' THEN -1 ELSE Cardinality(ToSet(series.cells)) IN
             IF n < 0 THEN Error ELSE Value(n, 1, "integer")
  /\ UNCHANGED series

ReductionsNext == NUnique \/ \E op \in Ops, ddof \in 0 .. 2 : Reduce(op, ddof)
ReductionsSpec == ReductionsInit /\ [][ReductionsNext]_redVars

-----------------------------------------------------------------------------
\* However a reduction is routed, a series is told what Python polars tells of
\* it, in the same dtype: small integers do not wrap, the spread of float32 is
\* rounded to it and its mean is not, and a null stands only for one.  A call
\* that fails is an error, whose reason is raised, and never a null; what cannot
\* be reduced is refused
\* (generic/reductions.rkt:26-59, series/reductions.rs:4-15, ffi/results.rs:15-32).
ReductionsAgree ==
  reduction.op \in Ops =>
    told = IF failed /\ Route(reduction.op, series.kind) # "null" THEN Error
           ELSE PythonTells(reduction.op, reduction.ddof, series.kind, series.cells)

\* The manual's rule for numbers, "sum, min and max preserve the input dtype"
\* (reference.scrbl:2257); the code sums small integers as wider ones
\* (generic/reductions.rkt:29).
SumsKeepDType ==
  reduction.op \in {"sum", "min", "max"} /\ series.kind \in Numeric /\ told.is = "value"
    => told.dtype = series.kind
=============================================================================
