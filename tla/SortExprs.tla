----------------------------- MODULE SortExprs -----------------------------
(***************************************************************************)
(* `expr-sort`, and the expressions it may be given.  polars' own sort     *)
(* gathers a group's row indices from what its input evaluates to, so an   *)
(* input with one value per group is read out of bounds; the library looks *)
(* at the structure of the expression and returns such an input as it is,  *)
(* gives polars' sort only what has a value for every row, and sorts       *)
(* anything else by itself, which polars repairs first                     *)
(* (rust/src/expr/selection.rs).                                           *)
(*                                                                         *)
(* The rules are structural, so an expression is not its tree but what the *)
(* rules and the evaluation make of the tree:                              *)
(*   one      `is_one_value`                                               *)
(*   perRow   `is_per_row`                                                 *)
(*   shape    what polars evaluates it to in a group: "one" value, a value *)
(*            for each of the group's "rows", or a "list" of any length    *)
(*   leaf, expands, reads   what `witness` asks of an operand of a         *)
(*            division                                                     *)
(* The reachable values of the slots are therefore those of trees of every *)
(* depth.  How polars evaluates a node is external.                        *)
(***************************************************************************)
CONSTANTS
  Slots,  \* the variables of a program that hold an expression
  None    \* an empty slot

ASSUME NoneIsNoExpr == None \notin [one : BOOLEAN, perRow : BOOLEAN,
                                    shape : {"one", "rows", "list"},
                                    leaf : BOOLEAN, expands : BOOLEAN, reads : BOOLEAN]

VARIABLES
  exprs,   \* slot -> expression
  sorted   \* the last call of expr_sort_with_options: how, and the shape of its input

sortVars == <<exprs, sorted>>

Shapes == {"one", "rows", "list"}
Expr == [one : BOOLEAN, perRow : BOOLEAN, shape : Shapes,
         leaf : BOOLEAN, expands : BOOLEAN, reads : BOOLEAN]

\* The type invariant of the module's state.
SortTypeOK ==
  /\ exprs \in [Slots -> Expr \cup {None}]
  /\ sorted \in [how : {"never", "input", "sort", "sort_by"}, shape : Shapes]

-----------------------------------------------------------------------------
(* Leaves.                                                                 *)

Column == [one |-> FALSE, perRow |-> TRUE, shape |-> "rows",
           leaf |-> TRUE, expands |-> FALSE, reads |-> TRUE]
Selector == [Column EXCEPT !.leaf = FALSE, !.expands = TRUE, !.reads = FALSE]
Scalar == [one |-> TRUE, perRow |-> FALSE, shape |-> "one",
           leaf |-> TRUE, expands |-> FALSE, reads |-> FALSE]
SeriesLiteral(shape) == [Scalar EXCEPT !.one = FALSE, !.shape = shape]

(* Nodes.  An elementwise node stretches one value over the rest.          *)

Wider(s, t) == IF s = "one" THEN t ELSE IF "rows" \in {s, t} THEN "rows" ELSE s

\* A unary node that neither rule looks into.
Opaque(e, shape) ==
  [e EXCEPT !.one = FALSE, !.perRow = FALSE, !.shape = shape, !.leaf = FALSE]
\* A unary node both rules look through.
Wrapped(e) == [e EXCEPT !.leaf = FALSE]
Aggregated(e) == [e EXCEPT !.one = TRUE, !.perRow = FALSE, !.shape = "one", !.leaf = FALSE]

Both(a, b, one, perRow, shape) ==
  [one |-> one, perRow |-> perRow, shape |-> shape, leaf |-> FALSE,
   expands |-> a.expands \/ b.expands, reads |-> a.reads \/ b.reads]

\* Fault: an operation on one value and some rows is taken for one value.
BinaryEither(a, b) ==
  Both(a, b, a.one \/ b.one, a.perRow \/ b.perRow, Wider(a.shape, b.shape))
Binary(a, b) ==
  Both(a, b, a.one /\ b.one, a.perRow \/ b.perRow, Wider(a.shape, b.shape))

\* Functions, by the files they are in: nodes neither rule looks into.  A filter,
\* a slice and whatever drops nulls give a list of any length, and a window a
\* value for every row; a clip to no bounds is no node at all.
Beside(e, other) == Opaque(Binary(e, other), Wider(e.shape, other.shape))

DatePart(e) == Opaque(e, e.shape)
Parsed(e) == Opaque(e, e.shape)
MatchedBy(e, pattern) == Beside(e, pattern)
Substring(e, place) == Beside(e, place)
Rewritten(e, by) == Beside(e, by)
Tested(e, against) == {Opaque(e, e.shape), Beside(e, against)}
Calculated(e, by) == {Opaque(e, e.shape), Beside(e, by), e}
Shifted(e, fill) == {Opaque(e, e.shape), Beside(e, fill), Opaque(e, "list")}
Accumulated(e) == Opaque(e, e.shape)
Chosen(e, by) == {Opaque(e, e.shape), Beside(e, by), Opaque(Beside(e, by), "list")}
Windowed(e) == Opaque(e, "rows")

Conditional(p, t, f) == Binary(p, Binary(t, f))
\* polars fills a NaN by a conditional on what it fills.
Filled(e, by) ==
  {Opaque(e, e.shape), Beside(e, by), Opaque(e, "list"), Conditional(Opaque(e, e.shape), e, by)}

\* `witness`: the operand itself, or a null of its dtype, to tell an integer
\* division at run time.
Witness(e) == IF e.leaf \/ e.expands \/ ~e.reads THEN e ELSE Wrapped(Scalar)

\* `floor_if_integer`: the true quotient beside the witnesses of its operands.
\* Both rules look through it, to the quotient.
Division(a, b) ==
  LET quotient == Binary(a, b) IN
  [quotient EXCEPT !.shape = Wider(@, Wider(Witness(a).shape, Witness(b).shape))]

-----------------------------------------------------------------------------
(* The entry points: each reads its operands' slots and writes another.    *)

Held(s) == exprs[s] # None
Store(s, e) == exprs' = [exprs EXCEPT ![s] = e] /\ UNCHANGED sorted

MakeColumn(s) == Store(s, Column)
MakeSelector(s) == Store(s, Selector)
MakeLiteral(s) == Store(s, Scalar)
MakeSeriesLiteral(s) == \E shape \in Shapes : Store(s, SeriesLiteral(shape))

Rename(s, a) == Held(a) /\ Store(s, Wrapped(exprs[a]))
Cast(s, a) == Held(a) /\ Store(s, Wrapped(exprs[a]))
Aggregate(s, a) == Held(a) /\ Store(s, Aggregated(exprs[a]))

\* A function, a window or a choice of rows, with another expression beside it.
Apply(s, a, b) ==
  /\ Held(a) /\ Held(b)
  /\ LET e == exprs[a]
         other == exprs[b] IN
     \E f \in {DatePart(e), Parsed(e), Accumulated(e), Windowed(e), MatchedBy(e, other),
               Substring(e, other), Rewritten(e, other)}
             \cup Tested(e, other) \cup Calculated(e, other) \cup Shifted(e, other) \cup Filled(e, other)
             \cup Chosen(e, other) : Store(s, f)

\* `expr_exclude` is refused where no selector expands to several columns.
Exclude(s, a) == Held(a) /\ exprs[a].expands /\ Store(s, exprs[a])

Operate(s, a, b) == Held(a) /\ Held(b) /\ Store(s, Binary(exprs[a], exprs[b]))

\* Two operands that are integers before any frame is seen divide directly.
Divide(s, a, b) ==
  /\ Held(a) /\ Held(b)
  /\ \/ /\ ~(exprs[a].reads \/ exprs[a].expands \/ exprs[b].reads \/ exprs[b].expands)
        /\ Store(s, Binary(exprs[a], exprs[b]))
     \/ Store(s, Division(exprs[a], exprs[b]))

WhenThen(s, p, t, f) ==
  /\ Held(p) /\ Held(t) /\ Held(f)
  /\ Store(s, Conditional(exprs[p], exprs[t], exprs[f]))

\* `expr_sort_with_options`.  Only polars' sort is a node its rules look through.
Sort(s, a) ==
  /\ Held(a)
  /\ LET e == exprs[a] IN
     \/ /\ e.one
        /\ exprs' = [exprs EXCEPT ![s] = e]
        /\ sorted' = [how |-> "input", shape |-> e.shape]
     \/ /\ ~e.one /\ e.perRow
        /\ exprs' = [exprs EXCEPT ![s] = Wrapped(e)]
        /\ sorted' = [how |-> "sort", shape |-> e.shape]
     \/ /\ ~e.one /\ ~e.perRow
        /\ exprs' = [exprs EXCEPT ![s] = Opaque(e, e.shape)]
        /\ sorted' = [how |-> "sort_by", shape |-> e.shape]

SortInit ==
  /\ exprs = [s \in Slots |-> None]
  /\ sorted = [how |-> "never", shape |-> "one"]

SortNext ==
  \E s \in Slots :
    \/ MakeColumn(s) \/ MakeSelector(s) \/ MakeLiteral(s)
    \/ MakeSeriesLiteral(s)
    \/ \E a \in Slots :
         Rename(s, a) \/ Cast(s, a) \/ Aggregate(s, a) \/ Exclude(s, a) \/ Sort(s, a)
    \/ \E a, b \in Slots : Operate(s, a, b) \/ Divide(s, a, b) \/ Apply(s, a, b)
    \/ \E p, t, f \in Slots : WhenThen(s, p, t, f)

SortSpec == SortInit /\ [][SortNext]_sortVars

-----------------------------------------------------------------------------
\* A sort reads within its input and orders all of it: polars' sort is never
\* given one value per group, and an input is only returned unsorted when it
\* is one value in every group, whatever tree of operators, casts,
\* conditionals and divisions it is (expr/selection.rs:188-249).
SortFitsItsInput ==
  /\ sorted.how = "sort" => sorted.shape # "one"
  /\ sorted.how = "input" => sorted.shape = "one"

\* Why: the two rules are sound for every expression a program can build.
RulesAreSound ==
  \A s \in Slots : Held(s) =>
    /\ exprs[s].one => exprs[s].shape = "one"
    /\ exprs[s].perRow => exprs[s].shape = "rows"
=============================================================================
