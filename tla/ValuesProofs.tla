----------------------------- MODULE ValuesProofs -----------------------------
(***************************************************************************)
(* What turns one value into another.                                      *)
(*                                                                         *)
(* SortExprs, for every number of slots: whatever expressions a program    *)
(* builds, the two rules of `expr-sort` are sound for them, so polars'     *)
(* sort never gets one value per group.  The inductive invariant says it   *)
(* of every held expression; each kind of node keeps it.                   *)
(*                                                                         *)
(* RowRanges, for every width of a row index and of a Racket integer, and  *)
(* every frame that fits: what a program keeps of it is what it asked for. *)
(* A cut may place an empty range elsewhere than asked, so two ranges      *)
(* agree when they are equal or both empty, and each operation keeps that. *)
(*                                                                         *)
(* DTypes, for every database of zones: a dtype a program was shown or     *)
(* wrote is the dtype it gets.  The inductive invariant says what a dtype  *)
(* it holds means; every way to use one gives that meaning or refuses.     *)
(*                                                                         *)
(* IntegerOperands, for all widths and series: sums, differences and       *)
(* products are monotone in the element, so the two extremes tell whether  *)
(* one leaves the dtype; a quotient leaves it for the least value over -1  *)
(* alone; and what stays inside does not wrap.                             *)
(*                                                                         *)
(* Reductions, for all series and widths: totals and extremes are numbers, *)
(* by induction over the cells, and each route then tells what Python      *)
(* polars tells.                                                           *)
(*                                                                         *)
(* StrBlocks, for any width of a word and any texts whose sizes fit one:   *)
(* what is packed is read, and what is damaged is refused or read within   *)
(* what the block says it holds.  First that words are read as written,    *)
(* then that a block's parts are where its header says, then each reader.  *)
(***************************************************************************)
EXTENDS SortExprs, RowRanges, DTypes, IntegerOperands, Reductions, StrBlocks,
        SequenceTheorems, FiniteSetTheorems, WellFoundedInduction, TLAPS

-----------------------------------------------------------------------------
(* SortExprs.                                                              *)

Sound(e) ==
  /\ e \in Expr
  /\ e.one => e.shape = "one"
  /\ e.perRow => e.shape = "rows"

SortIInv ==
  /\ exprs \in [Slots -> Expr \cup {None}]
  /\ \A s \in Slots : Held(s) => Sound(exprs[s])
  /\ sorted \in [how : {"never", "input", "sort", "sort_by"}, shape : Shapes]
  /\ SortFitsItsInput

LEMMA NoneIsApart == None \notin Expr
BY NoneIsNoExpr DEF Expr, Shapes

\* What a slot can be given: a leaf.
LEMMA LeavesAreSound ==
  /\ Sound(Column) /\ Sound(Selector) /\ Sound(Scalar)
  /\ \A shape \in Shapes : Sound(SeriesLiteral(shape))
<1>1. Sound(Column) /\ Sound(Scalar)
  BY DEF Sound, Expr, Shapes, Column, Scalar
<1>2. Sound(Selector)
  BY DEF Sound, Expr, Shapes, Column, Selector
<1>3. \A shape \in Shapes : Sound(SeriesLiteral(shape))
  BY DEF Sound, Expr, Shapes, Scalar, SeriesLiteral
<1> QED BY <1>1, <1>2, <1>3

\* The shape a node takes from its two inputs is one of theirs, and it is one
\* value only where both are, and rows where either is.
LEMMA WiderOfShapes ==
  ASSUME NEW s \in Shapes, NEW t \in Shapes
  PROVE  /\ Wider(s, t) \in Shapes
         /\ s = "one" /\ t = "one" => Wider(s, t) = "one"
         /\ s = "rows" \/ t = "rows" => Wider(s, t) = "rows"
BY DEF Wider, Shapes

LEMMA UnaryIsSound ==
  ASSUME NEW e, Sound(e)
  PROVE  /\ Sound(Wrapped(e)) /\ Sound(Aggregated(e))
         /\ \A shape \in Shapes : Sound(Opaque(e, shape))
<1>1. Sound(Wrapped(e))
  BY DEF Sound, Expr, Wrapped
<1>2. Sound(Aggregated(e))
  BY DEF Sound, Expr, Shapes, Aggregated
<1>3. \A shape \in Shapes : Sound(Opaque(e, shape))
  BY DEF Sound, Expr, Opaque
<1> QED BY <1>1, <1>2, <1>3

LEMMA BinaryIsSound ==
  ASSUME NEW a, NEW b, Sound(a), Sound(b)
  PROVE  Sound(Binary(a, b))
<1>1. a \in Expr /\ b \in Expr /\ a.shape \in Shapes /\ b.shape \in Shapes
  BY DEF Sound, Expr
<1>2. Binary(a, b) \in Expr
  BY <1>1, WiderOfShapes DEF Binary, Both, Expr
<1>3. Binary(a, b).shape = Wider(a.shape, b.shape) /\ Binary(a, b).one = (a.one /\ b.one)
      /\ Binary(a, b).perRow = (a.perRow \/ b.perRow)
  BY DEF Binary, Both
<1> QED BY <1>1, <1>2, <1>3, WiderOfShapes DEF Sound

\* A function of an expression and perhaps another: no rule looks into it.
LEMMA AppliedIsSound ==
  ASSUME NEW e, NEW other, Sound(e), Sound(other),
         NEW f \in {DatePart(e), Parsed(e), Accumulated(e), Windowed(e), MatchedBy(e, other),
                    Substring(e, other), Rewritten(e, other)}
                   \cup Tested(e, other) \cup Calculated(e, other) \cup Shifted(e, other) \cup Filled(e, other)
                   \cup Chosen(e, other)
  PROVE  Sound(f)
<1>1. e.shape \in Shapes /\ other.shape \in Shapes /\ "rows" \in Shapes /\ "list" \in Shapes
  BY DEF Sound, Expr, Shapes
<1>2. Sound(Opaque(e, e.shape)) /\ Sound(Opaque(e, "rows")) /\ Sound(Opaque(e, "list"))
  BY <1>1, UnaryIsSound
<1>3. Sound(Beside(e, other))
  BY <1>1, BinaryIsSound, UnaryIsSound, WiderOfShapes DEF Beside
<1>4. Sound(Opaque(Beside(e, other), "list"))
  BY <1>1, <1>3, UnaryIsSound
<1>5. f \in {Opaque(e, e.shape), Opaque(e, "rows"), Opaque(e, "list"), Beside(e, other),
             Opaque(Beside(e, other), "list"), Conditional(Opaque(e, e.shape), e, other), e}
  BY DEF DatePart, Parsed, Accumulated, Windowed, MatchedBy, Substring, Rewritten, Tested,
         Calculated, Shifted, Filled, Chosen
<1>6. Sound(Conditional(Opaque(e, e.shape), e, other))
  BY <1>2, BinaryIsSound DEF Conditional
<1> QED BY <1>2, <1>3, <1>4, <1>5, <1>6

\* The witnesses beside a quotient stand in for its operands, or are one value:
\* they never take a shape the rules did not see.
LEMMA DivisionIsSound ==
  ASSUME NEW a, NEW b, Sound(a), Sound(b)
  PROVE  Sound(Division(a, b))
<1> DEFINE q == Binary(a, b)
           v == Witness(a).shape
           w == Witness(b).shape
<1>1. Sound(q) /\ q.shape \in Shapes /\ a.shape \in Shapes /\ b.shape \in Shapes
  BY BinaryIsSound DEF Sound, Expr
<1>2. v \in {a.shape, "one"} /\ w \in {b.shape, "one"}
  BY DEF Witness, Wrapped, Scalar
<1>3. v \in Shapes /\ w \in Shapes /\ Wider(v, w) \in Shapes
  BY <1>1, <1>2, WiderOfShapes DEF Shapes
<1>4. Division(a, b) = [q EXCEPT !.shape = Wider(q.shape, Wider(v, w))]
  BY DEF Division
<1>5. Division(a, b) \in Expr /\ Division(a, b).one = q.one /\ Division(a, b).perRow = q.perRow
      /\ Division(a, b).shape = Wider(q.shape, Wider(v, w))
  <2> HIDE DEF q, v, w
  <2> QED BY <1>1, <1>3, <1>4, WiderOfShapes DEF Sound, Expr
<1>6. q.one => a.shape = "one" /\ b.shape = "one"
  BY DEF Binary, Both, Sound
<1>7. q.one => Division(a, b).shape = "one"
  BY <1>1, <1>2, <1>3, <1>5, <1>6, WiderOfShapes DEF Sound
<1>8. q.perRow => Division(a, b).shape = "rows"
  BY <1>1, <1>3, <1>5, WiderOfShapes DEF Sound
<1> QED BY <1>5, <1>7, <1>8 DEF Sound

LEMMA StoreKeepsSortIInv ==
  ASSUME SortIInv, NEW s \in Slots, NEW e, Sound(e), Store(s, e)
  PROVE  SortIInv'
<1>1. e \in Expr /\ exprs' = [exprs EXCEPT ![s] = e] /\ sorted' = sorted
  BY DEF Store, Sound
<1>2. exprs' \in [Slots -> Expr \cup {None}]
  BY <1>1 DEF SortIInv
<1>3. \A r \in Slots : Held(r)' => Sound(exprs'[r])
  BY <1>1 DEF SortIInv, Held
<1> QED BY <1>1, <1>2, <1>3 DEF SortIInv, SortFitsItsInput, Sound, Held

\* `expr_sort_with_options`: an input is returned only where the first rule
\* holds, and polars' sort is given only where the second does.
LEMMA SortKeepsSortIInv ==
  ASSUME SortIInv, NEW s \in Slots, NEW a \in Slots, Sort(s, a)
  PROVE  SortIInv'
<1> DEFINE e == exprs[a]
<1>1. Sound(e) /\ e.shape \in Shapes
  BY DEF SortIInv, Sort, Sound, Expr
<1>2. PICK f : /\ Sound(f) /\ exprs' = [exprs EXCEPT ![s] = f]
               /\ \/ e.one /\ sorted' = [how |-> "input", shape |-> e.shape]
                  \/ e.perRow /\ sorted' = [how |-> "sort", shape |-> e.shape]
                  \/ sorted' = [how |-> "sort_by", shape |-> e.shape]
  <2>1. Sound(Wrapped(e)) /\ Sound(Opaque(e, e.shape))
    BY <1>1, UnaryIsSound
  <2> QED BY <1>1, <2>1 DEF Sort
<1>3. exprs' \in [Slots -> Expr \cup {None}]
  BY <1>2 DEF SortIInv, Sound
<1>4. \A r \in Slots : Held(r)' => Sound(exprs'[r])
  BY <1>2 DEF SortIInv, Held
<1>5. sorted' \in [how : {"never", "input", "sort", "sort_by"}, shape : Shapes]
  BY <1>1, <1>2
<1>6. SortFitsItsInput'
  BY <1>1, <1>2 DEF SortFitsItsInput, Sound
<1> QED BY <1>3, <1>4, <1>5, <1>6 DEF SortIInv, Sound, Held

LEMMA SortNextKeepsSortIInv == SortIInv /\ [SortNext]_sortVars => SortIInv'
<1> SUFFICES ASSUME SortIInv, [SortNext]_sortVars PROVE SortIInv'
  OBVIOUS
<1>1. CASE UNCHANGED sortVars
  BY <1>1 DEF sortVars, SortIInv, SortFitsItsInput, Sound, Held
<1>2. CASE SortNext
  <2>1. PICK s \in Slots :
          \/ MakeColumn(s) \/ MakeSelector(s) \/ MakeLiteral(s)
          \/ MakeSeriesLiteral(s)
          \/ \E a \in Slots :
               Rename(s, a) \/ Cast(s, a) \/ Aggregate(s, a) \/ Exclude(s, a) \/ Sort(s, a)
          \/ \E a, b \in Slots : Operate(s, a, b) \/ Divide(s, a, b) \/ Apply(s, a, b)
          \/ \E p, t, f \in Slots : WhenThen(s, p, t, f)
    BY <1>2 DEF SortNext
  <2>2. \A a \in Slots : Held(a) => Sound(exprs[a])
    BY DEF SortIInv
  <2>3. CASE \/ MakeColumn(s) \/ MakeSelector(s) \/ MakeLiteral(s)
             \/ MakeSeriesLiteral(s)
    BY <2>3, LeavesAreSound, StoreKeepsSortIInv
       DEF MakeColumn, MakeSelector, MakeLiteral, MakeSeriesLiteral
  <2>4. ASSUME NEW a \in Slots, Rename(s, a) \/ Cast(s, a) \/ Aggregate(s, a) \/ Exclude(s, a)
        PROVE  SortIInv'
    BY <2>2, <2>4, UnaryIsSound, StoreKeepsSortIInv DEF Rename, Cast, Aggregate, Exclude
  <2>5. ASSUME NEW a \in Slots, Sort(s, a) PROVE SortIInv'
    BY <2>5, SortKeepsSortIInv
  <2>6. ASSUME NEW a \in Slots, NEW b \in Slots, Operate(s, a, b) \/ Divide(s, a, b)
        PROVE  SortIInv'
    BY <2>2, <2>6, BinaryIsSound, DivisionIsSound, StoreKeepsSortIInv DEF Operate, Divide
  <2>7. ASSUME NEW a \in Slots, NEW b \in Slots, Apply(s, a, b) PROVE SortIInv'
    BY <2>2, <2>7, AppliedIsSound, StoreKeepsSortIInv DEF Apply
  <2>8. ASSUME NEW p \in Slots, NEW t \in Slots, NEW f \in Slots, WhenThen(s, p, t, f)
        PROVE  SortIInv'
    <3>1. Sound(exprs[p]) /\ Sound(exprs[t]) /\ Sound(exprs[f])
      BY <2>2, <2>8 DEF WhenThen
    <3>2. Sound(Conditional(exprs[p], exprs[t], exprs[f]))
      BY <3>1, BinaryIsSound DEF Conditional
    <3> QED BY <2>8, <3>2, StoreKeepsSortIInv DEF WhenThen
  <2> QED BY <2>1, <2>3, <2>4, <2>5, <2>6, <2>7, <2>8
<1> QED BY <1>1, <1>2 DEF SortNext

LEMMA SortSpecKeepsSortIInv == SortSpec => []SortIInv
<1>1. SortInit => SortIInv
  BY NoneIsApart DEF SortInit, SortIInv, Held, SortFitsItsInput, Shapes
<1> QED BY <1>1, SortNextKeepsSortIInv, PTL DEF SortSpec

\* A slot holds an expression or nothing, and the last sort is one of the four.
THEOREM SortsAreTyped == SortSpec => []SortTypeOK
<1>1. SortIInv => SortTypeOK
  BY DEF SortIInv, SortTypeOK
<1> QED BY <1>1, SortSpecKeepsSortIInv, PTL

\* `is_one_value` and `is_per_row` are sound for every expression a program can
\* build: what they say of its structure is how polars evaluates it.
THEOREM SortRulesAreSound == SortSpec => []RulesAreSound
<1>1. SortIInv => RulesAreSound
  BY DEF SortIInv, RulesAreSound, Sound
<1> QED BY <1>1, SortSpecKeepsSortIInv, PTL

\* polars' sort never reads outside a group of one value, and a sort returns
\* its input only where there is nothing to sort.
THEOREM SortsFitTheirInput == SortSpec => []SortFitsItsInput
<1>1. SortIInv => SortFitsItsInput
  BY DEF SortIInv
<1> QED BY <1>1, SortSpecKeepsSortIInv, PTL

-----------------------------------------------------------------------------
(* RowRanges.                                                              *)

Ranges == {r \in [lo : Nat, hi : Nat] : r.lo <= r.hi /\ r.hi <= IdxMax}
Within(x, r) == x \in Ranges /\ r.lo <= x.lo /\ x.hi <= r.hi
Empty(r) == r.lo = r.hi
Agree(x, y) == x = y \/ (Empty(x) /\ Empty(y))

RangesIInv ==
  /\ height \in 0 .. IdxMax
  /\ kept \in Ranges /\ kept.hi <= height
  /\ asked \in Ranges /\ asked.hi <= height
  /\ Agree(kept, asked)

LEMMA RangeFields ==
  ASSUME NEW lo \in Nat, NEW hi \in Nat, lo <= hi, hi <= IdxMax
  PROVE  RowRange(lo, hi) \in Ranges /\ RowRange(lo, hi).lo = lo /\ RowRange(lo, hi).hi = hi
BY DEF RowRange, Ranges

\* A cut takes a part of its range: `rows` of it from `start`, as far as there are.
LEMMA CutIsWithin ==
  ASSUME NEW r \in Ranges, NEW start \in Int, NEW rows \in Nat
  PROVE  /\ Within(Cut(r, start, rows), r)
         /\ LET n == r.hi - r.lo
                from == IF start < 0 THEN start + n ELSE start
            IN  /\ Cut(r, start, rows).lo = r.lo + Smaller(Larger(from, 0), n)
                /\ Cut(r, start, rows).hi = r.lo + Smaller(Larger(from + rows, 0), n)
<1> DEFINE n == r.hi - r.lo
           from == IF start < 0 THEN start + n ELSE start
           lo == r.lo + Smaller(Larger(from, 0), n)
           hi == r.lo + Smaller(Larger(from + rows, 0), n)
<1>0. IdxMax \in Nat
  BY WidthsAssumption
<1>1. r.lo \in Nat /\ r.hi \in Nat /\ r.lo <= r.hi /\ r.hi <= IdxMax
  BY DEF Ranges
<1>2. lo \in Nat /\ hi \in Nat /\ lo <= hi /\ hi <= r.hi /\ r.lo <= lo
  BY <1>1 DEF Smaller, Larger
<1>3. Cut(r, start, rows) = RowRange(lo, hi)
  BY DEF Cut
<1>4. hi <= IdxMax
  BY <1>0, <1>1, <1>2
<1>5. RowRange(lo, hi) \in Ranges /\ RowRange(lo, hi).lo = lo /\ RowRange(lo, hi).hi = hi
  <2> HIDE DEF lo, hi
  <2> QED BY <1>2, <1>4, RangeFields
<1> QED BY <1>2, <1>3, <1>5 DEF Within

\* What is asked for is a part of the range it is asked of.
LEMMA AskedIsWithin ==
  ASSUME NEW r \in Ranges, NEW offset \in Int, NEW n \in Nat
  PROVE  Within(RowHead(r, n), r) /\ Within(RowTail(r, n), r) /\ Within(RowSlice(r, offset, n), r)
<1>0. IdxMax \in Nat
  BY WidthsAssumption
<1>1. r.lo \in Nat /\ r.hi \in Nat /\ r.lo <= r.hi /\ r.hi <= IdxMax
  BY DEF Ranges
<1>2. Within(RowHead(r, n), r)
  BY <1>0, <1>1 DEF RowHead, RowRange, Smaller, Within, Ranges
<1>3. Within(RowTail(r, n), r)
  BY <1>0, <1>1 DEF RowTail, RowRange, Larger, Within, Ranges
<1>4. Within(RowSlice(r, offset, n), r)
  <2> DEFINE first == (IF offset < 0 THEN r.hi ELSE r.lo) + offset
             lo == Smaller(Larger(first, r.lo), r.hi)
             hi == Smaller(Larger(first + n, r.lo), r.hi)
  <2>1. lo \in Nat /\ hi \in Nat /\ lo <= hi /\ hi <= r.hi /\ r.lo <= lo /\ hi <= IdxMax
    BY <1>0, <1>1 DEF Smaller, Larger
  <2>2. RowSlice(r, offset, n) = RowRange(lo, hi)
    BY DEF RowSlice
  <2>3. RowRange(lo, hi) \in Ranges /\ RowRange(lo, hi).lo = lo /\ RowRange(lo, hi).hi = hi
    <3> HIDE DEF lo, hi
    <3> QED BY <2>1, RangeFields
  <2> QED BY <2>1, <2>2, <2>3 DEF Within
<1> QED BY <1>2, <1>3, <1>4

\* A range in fields: the same ends make the same range.
LEMMA SameEnds ==
  ASSUME NEW x \in Ranges, NEW y \in Ranges, x.lo = y.lo, x.hi = y.hi
  PROVE  x = y
BY DEF Ranges

\* A part of an empty range is empty.
LEMMA WithinEmpty ==
  ASSUME NEW x, NEW r \in Ranges, Within(x, r), Empty(r)
  PROVE  Empty(x)
BY DEF Within, Ranges, Empty

\* The three heads.
LEMMA HeadsAgree ==
  ASSUME NEW r \in Ranges, NEW n \in SliceLengths,
         NEW x \in {LazyHead(r, n), ExprHead(r, n), FrameHead(r, n)}
  PROVE  Within(x, r) /\ Agree(x, RowHead(r, n))
<1>0. IdxMax \in Nat /\ I64Max \in Nat /\ IdxMax <= I64Max /\ n \in Nat
  BY WidthsAssumption DEF SliceLengths, UsizeMax
<1>1. r.lo \in Nat /\ r.hi \in Nat /\ r.lo <= r.hi /\ r.hi <= IdxMax
  BY DEF Ranges
<1>2. PICK k \in Nat : x = Cut(r, 0, k) /\ Smaller(k, r.hi - r.lo) = Smaller(n, r.hi - r.lo)
  <2>1. CASE x = LazyHead(r, n)
    <3>1. SaturatingRows(n) \in Nat
          /\ Smaller(SaturatingRows(n), r.hi - r.lo) = Smaller(n, r.hi - r.lo)
      BY <1>0, <1>1 DEF SaturatingRows, Smaller
    <3>2. x = Cut(r, 0, SaturatingRows(n))
      BY <1>0, <2>1 DEF LazyHead, CutPlan, AsIdx
    <3> QED BY <3>1, <3>2
  <2>2. CASE x = ExprHead(r, n)
    <3>1. RowCount(n) \in Nat /\ Smaller(RowCount(n), r.hi - r.lo) = Smaller(n, r.hi - r.lo)
      BY <1>0, <1>1 DEF RowCount, Smaller
    <3>2. x = Cut(r, 0, RowCount(n))
      BY <1>0, <2>2 DEF ExprHead, CutExpr, AsNegated
    <3> QED BY <3>1, <3>2
  <2>3. CASE x = FrameHead(r, n)
    <3>1. Smaller(n, r.hi - r.lo) \in Nat
          /\ Smaller(Smaller(n, r.hi - r.lo), r.hi - r.lo) = Smaller(n, r.hi - r.lo)
      BY <1>0, <1>1 DEF Smaller
    <3> QED BY <2>3, <3>1 DEF FrameHead
  <2> QED BY <2>1, <2>2, <2>3
<1>3. Within(x, r) /\ x.lo = r.lo + Smaller(Larger(0, 0), r.hi - r.lo)
      /\ x.hi = r.lo + Smaller(Larger(0 + k, 0), r.hi - r.lo)
  BY <1>2, CutIsWithin
<1>4. x.lo = r.lo /\ x.hi = r.lo + Smaller(n, r.hi - r.lo)
  <2>1. Smaller(Larger(0, 0), r.hi - r.lo) = 0 /\ Larger(0 + k, 0) = k
    BY <1>1 DEF Smaller, Larger
  <2> QED BY <1>1, <1>2, <1>3, <2>1
<1>5. RowHead(r, n) \in Ranges /\ RowHead(r, n).lo = r.lo
      /\ RowHead(r, n).hi = r.lo + Smaller(n, r.hi - r.lo)
  <2>1. RowHead(r, n) \in Ranges
    BY <1>0, AskedIsWithin DEF Within
  <2> QED BY <1>0, <1>1, <2>1 DEF RowHead, RowRange, Smaller
<1> QED BY <1>3, <1>4, <1>5, SameEnds DEF Agree, Within

\* The three tails: no negated length leaves its width, and none is too short.
LEMMA TailsAgree ==
  ASSUME NEW r \in Ranges, NEW n \in SliceLengths,
         NEW x \in {LazyTail(r, n), ExprTail(r, n), FrameTail(r, n)}
  PROVE  Within(x, r) /\ Agree(x, RowTail(r, n))
<1>0. IdxMax \in Nat /\ I64Max \in Nat /\ IdxMax <= I64Max /\ n \in Nat
  BY WidthsAssumption DEF SliceLengths, UsizeMax
<1>1. r.lo \in Nat /\ r.hi \in Nat /\ r.lo <= r.hi /\ r.hi <= IdxMax
  BY DEF Ranges
<1>2. PICK k \in Nat : x = Cut(r, -k, k) /\ Smaller(k, r.hi - r.lo) = Smaller(n, r.hi - r.lo)
  <2>1. CASE x = LazyTail(r, n)
    <3> DEFINE k == SaturatingRows(n)
    <3>1. k \in Nat /\ k <= IdxMax /\ Smaller(k, r.hi - r.lo) = Smaller(n, r.hi - r.lo)
      BY <1>0, <1>1 DEF SaturatingRows, Smaller
    <3>2. AsIdx(-k) = -k
      BY <1>0, <3>1 DEF AsIdx
    <3> QED BY <2>1, <3>1, <3>2 DEF LazyTail, CutPlan
  <2>2. CASE x = ExprTail(r, n)
    <3> DEFINE k == RowCount(n)
    <3>1. k \in Nat /\ k <= I64Max /\ Smaller(k, r.hi - r.lo) = Smaller(n, r.hi - r.lo)
      BY <1>0, <1>1 DEF RowCount, Smaller
    <3>2. AsI64(k) = k /\ AsNegated(-k) = -k
      BY <1>0, <3>1 DEF AsI64, AsNegated
    <3> QED BY <2>2, <3>1, <3>2 DEF ExprTail, CutExpr
  <2>3. CASE x = FrameTail(r, n)
    <3>1. Smaller(n, r.hi - r.lo) \in Nat
          /\ Smaller(Smaller(n, r.hi - r.lo), r.hi - r.lo) = Smaller(n, r.hi - r.lo)
      BY <1>0, <1>1 DEF Smaller
    <3> QED BY <2>3, <3>1 DEF FrameTail
  <2> QED BY <2>1, <2>2, <2>3
<1> DEFINE rows == r.hi - r.lo
           from == IF -k < 0 THEN -k + rows ELSE -k
<1>3. Within(x, r) /\ x.lo = r.lo + Smaller(Larger(from, 0), rows)
      /\ x.hi = r.lo + Smaller(Larger(from + k, 0), rows)
  BY <1>2, CutIsWithin
<1>4. RowTail(r, n) \in Ranges /\ RowTail(r, n).lo = Larger(r.hi - n, r.lo) /\ RowTail(r, n).hi = r.hi
  BY <1>0, AskedIsWithin DEF Within, RowTail, RowRange
<1>5. CASE k = 0
  <2>1. x.lo = r.lo /\ x.hi = r.lo
    BY <1>1, <1>3, <1>5 DEF Smaller, Larger
  <2>2. n = 0 \/ rows = 0
    BY <1>0, <1>1, <1>2, <1>5 DEF Smaller
  <2>3. Empty(RowTail(r, n))
    BY <1>0, <1>1, <1>4, <2>2 DEF Empty, Larger
  <2> QED BY <1>3, <2>1, <2>3 DEF Agree, Empty
<1>6. CASE k # 0
  <2>1. from = rows - k
    BY <1>1, <1>2, <1>6
  <2>2. x.hi = r.hi
    BY <1>1, <1>2, <1>3, <2>1 DEF Smaller, Larger
  <2>3. x.lo = r.lo + Larger(rows - k, 0)
    BY <1>1, <1>2, <1>3, <2>1 DEF Smaller, Larger
  <2>4. x.lo = Larger(r.hi - n, r.lo)
    BY <1>0, <1>1, <1>2, <2>3 DEF Smaller, Larger
  <2> QED BY <1>3, <1>4, <2>2, <2>4, SameEnds DEF Agree, Within
<1> QED BY <1>5, <1>6

\* A cut at an offset and length is the slice asked for.
LEMMA CutIsSlice ==
  ASSUME NEW r \in Ranges, NEW offset \in Int, NEW length \in Nat
  PROVE  Cut(r, offset, length) = RowSlice(r, offset, length)
<1> DEFINE n == r.hi - r.lo
           from == IF offset < 0 THEN offset + n ELSE offset
           first == (IF offset < 0 THEN r.hi ELSE r.lo) + offset
<1>1. r.lo \in Nat /\ r.hi \in Nat /\ r.lo <= r.hi
  BY DEF Ranges
<1>2. first = r.lo + from /\ from \in Int
  BY <1>1
<1>3. \A y \in Int : r.lo + Smaller(Larger(y, 0), n) = Smaller(Larger(r.lo + y, r.lo), r.hi)
  BY <1>1 DEF Smaller, Larger
<1>4. r.lo + (from + length) = first + length
  BY <1>1, <1>2
<1>5. r.lo + Smaller(Larger(from, 0), n) = Smaller(Larger(first, r.lo), r.hi)
  BY <1>2, <1>3
<1>6. r.lo + Smaller(Larger(from + length, 0), n) = Smaller(Larger(first + length, r.lo), r.hi)
  <2>1. from + length \in Int
    BY <1>2
  <2> QED BY <1>3, <1>4, <2>1
<1> QED BY <1>5, <1>6 DEF Cut, RowSlice

\* Moving an offset that is too far from the end by as much as the length is
\* shortened, and stopping the length at as many rows as there can be, changes
\* nothing of a slice.
LEMMA MovedSlice ==
  ASSUME NEW r \in Ranges, NEW offset \in Int, NEW length \in Nat, NEW least \in Nat,
         IdxMax <= least,
         NEW rows \in Nat,
         LET moved == Larger(offset, -least)
             left == Minus(length, moved - offset)
         IN  rows = left \/ (least = IdxMax /\ rows = Smaller(left, IdxMax))
  PROVE  Cut(r, Larger(offset, -least), rows) = Cut(r, offset, length)
<1> DEFINE n == r.hi - r.lo
           moved == Larger(offset, -least)
           left == Minus(length, moved - offset)
           from == IF offset < 0 THEN offset + n ELSE offset
           start == IF moved < 0 THEN moved + n ELSE moved
<1>1. r.lo \in Nat /\ r.hi \in Nat /\ r.lo <= r.hi /\ n \in Nat /\ n <= IdxMax /\ IdxMax \in Nat
  BY WidthsAssumption DEF Ranges
<1>2. CASE offset >= -least
  <2>1. moved = offset /\ left = length /\ start = from
    BY <1>2 DEF Larger, Minus
  <2>2. Smaller(Larger(from + rows, 0), n) = Smaller(Larger(from + length, 0), n)
    <3>1. CASE rows = left
      BY <2>1, <3>1
    <3>2. CASE least = IdxMax /\ rows = Smaller(left, IdxMax) /\ rows # left
      <4>1. rows = IdxMax /\ length > IdxMax
        BY <1>1, <2>1, <3>2 DEF Smaller
      <4>2. CASE offset >= 0
        BY <1>1, <4>1, <4>2 DEF Smaller, Larger
      <4>3. CASE offset < 0
        <5>1. from = offset + n
          BY <4>3
        <5>2. from + rows >= n /\ from + length >= n
          BY <1>1, <1>2, <3>2, <4>1, <5>1
        <5>3. from + rows \in Int /\ from + length \in Int
          BY <1>1, <5>1
        <5> QED BY <1>1, <5>2, <5>3 DEF Smaller, Larger
      <4> QED BY <4>2, <4>3
    <3> QED BY <3>1, <3>2
  <2> QED BY <2>1, <2>2 DEF Cut
<1>3. CASE offset < -least
  <2>1. moved = -least /\ left = Larger(length + offset + least, 0) /\ left \in Nat
    BY <1>3 DEF Larger, Minus
  <2>2. from = offset + n /\ from < 0 /\ start <= 0 /\ start \in Int
    BY <1>1, <1>3, <2>1
  <2>3. Smaller(Larger(start, 0), n) = 0 /\ Smaller(Larger(from, 0), n) = 0
    BY <1>1, <2>2 DEF Smaller, Larger
  <2>4. Smaller(Larger(start + rows, 0), n) = Smaller(Larger(from + length, 0), n)
    <3>1. CASE n = 0
      BY <1>1, <2>2, <3>1 DEF Smaller, Larger
    <3>2. CASE n # 0
      <4>1. least > 0 /\ start = n - least
        BY <1>1, <2>1, <3>2
      <4>2. Smaller(Larger(start + left, 0), n) = Smaller(Larger(from + length, 0), n)
        BY <1>1, <1>3, <2>1, <2>2, <4>1 DEF Smaller, Larger
      <4>3. CASE rows = left
        BY <4>2, <4>3
      <4>4. CASE least = IdxMax /\ rows = Smaller(left, IdxMax) /\ rows # left
        <5>1. rows = IdxMax /\ left > IdxMax
          BY <1>1, <2>1, <4>4 DEF Smaller
        <5>2. start + rows = n /\ from + length > n
          BY <1>1, <2>1, <2>2, <4>1, <4>4, <5>1 DEF Larger
        <5>3. from + length \in Int
          BY <1>1, <2>2
        <5> QED BY <1>1, <5>2, <5>3 DEF Smaller, Larger
      <4> QED BY <4>3, <4>4
    <3> QED BY <3>1, <3>2
  <2> QED BY <2>3, <2>4 DEF Cut
<1> QED BY <1>2, <1>3

\* The three slices.
LEMMA SlicesAgree ==
  ASSUME NEW r \in Ranges, NEW offset \in SliceOffsets, NEW length \in SliceLengths,
         NEW x \in {LazySlice(r, offset, length), ExprSlice(r, offset, length),
                    FrameSlice(r, offset, length)}
  PROVE  Within(x, r) /\ Agree(x, RowSlice(r, offset, length))
<1>0. IdxMax \in Nat /\ I64Max \in Nat /\ IdxMax <= I64Max /\ length \in Nat /\ offset \in Int
      /\ -IdxMax \in Int /\ -I64Max \in Int
  BY WidthsAssumption DEF SliceLengths, SliceOffsets, UsizeMax
<1>1. x = Cut(r, offset, length)
  <2>1. CASE x = LazySlice(r, offset, length)
    <3> DEFINE start == Larger(offset, -IdxMax)
               left == Minus(length, start - offset)
    <3>1. start \in Int /\ start >= -IdxMax /\ start >= offset /\ left \in Nat
      BY <1>0 DEF Larger, Minus
    <3>2. SaturatingRows(left) = Smaller(left, IdxMax) /\ SaturatingRows(left) \in Nat
      BY <1>0, <3>1 DEF SaturatingRows, Smaller
    <3>3. AsIdx(start) = start
      BY <1>0, <3>1 DEF AsIdx
    <3>4. x = Cut(r, start, SaturatingRows(left))
      BY <2>1, <3>3 DEF LazySlice, CutPlan
    <3> QED BY <1>0, <3>2, <3>4, MovedSlice
  <2>2. CASE x = ExprSlice(r, offset, length)
    <3> DEFINE start == Larger(offset, -I64Max)
               left == Minus(length, start - offset)
    <3>1. start \in Int /\ start >= -I64Max /\ left \in Nat
      BY <1>0 DEF Larger, Minus
    <3>2. AsNegated(start) = start
      BY <1>0, <3>1 DEF AsNegated
    <3>3. x = Cut(r, start, left)
      BY <2>2, <3>2 DEF ExprSlice, CutExpr
    <3> QED BY <1>0, <3>1, <3>3, MovedSlice
  <2>3. CASE x = FrameSlice(r, offset, length)
    BY <2>3 DEF FrameSlice
  <2> QED BY <2>1, <2>2, <2>3
<1> QED BY <1>0, <1>1, CutIsSlice, CutIsWithin DEF Agree

\* Whatever agreed before an operation agrees after it: equal ranges by the
\* lemmas above, and empty ones because a part of nothing is nothing.
LEMMA StepKeepsAgreement ==
  ASSUME RangesIInv, UNCHANGED height, NEW x, NEW y,
         Within(x, kept), Within(y, asked), kept = asked => Agree(x, y),
         kept' = x, asked' = y
  PROVE  RangesIInv'
<1>1. height \in Nat /\ height <= IdxMax /\ x \in Ranges /\ y \in Ranges
  BY WidthsAssumption DEF RangesIInv, Within
<1>2. x.hi <= height /\ y.hi <= height
  BY <1>1, WidthsAssumption DEF RangesIInv, Within, Ranges
<1>3. Agree(x, y)
  BY WithinEmpty DEF RangesIInv, Agree
<1> QED BY <1>1, <1>2, <1>3 DEF RangesIInv

LEMMA RangesNextKeepsRangesIInv == RangesIInv /\ [RangesNext]_rangeVars => RangesIInv'
<1> SUFFICES ASSUME RangesIInv, [RangesNext]_rangeVars PROVE RangesIInv'
  OBVIOUS
<1>0. kept \in Ranges /\ asked \in Ranges
  BY DEF RangesIInv
<1>1. \A n \in SliceLengths : n \in Nat
  BY WidthsAssumption DEF SliceLengths, UsizeMax
<1>2. \A offset \in SliceOffsets : offset \in Int
  BY WidthsAssumption DEF SliceOffsets
<1>3. ASSUME NEW n \in SliceLengths, TakeHead(n) PROVE RangesIInv'
  BY <1>0, <1>1, <1>3, HeadsAgree, AskedIsWithin, StepKeepsAgreement DEF TakeHead
<1>4. ASSUME NEW n \in SliceLengths, TakeTail(n) PROVE RangesIInv'
  BY <1>0, <1>1, <1>4, TailsAgree, AskedIsWithin, StepKeepsAgreement DEF TakeTail
<1>5. ASSUME NEW offset \in SliceOffsets, NEW length \in SliceLengths, TakeSlice(offset, length)
      PROVE  RangesIInv'
  BY <1>0, <1>1, <1>2, <1>5, SlicesAgree, AskedIsWithin, StepKeepsAgreement DEF TakeSlice
<1>6. CASE UNCHANGED rangeVars
  BY <1>6 DEF rangeVars, RangesIInv
<1> QED BY <1>3, <1>4, <1>5, <1>6 DEF RangesNext

LEMMA RangesSpecKeepsRangesIInv == RangesSpec => []RangesIInv
<1>1. RangesInit => RangesIInv
  <2> SUFFICES ASSUME RangesInit PROVE RangesIInv
    OBVIOUS
  <2>1. height \in Nat /\ height <= IdxMax
    BY WidthsAssumption DEF RangesInit
  <2>2. RowRange(0, height) \in Ranges /\ RowRange(0, height).hi = height
    BY <2>1, RangeFields
  <2> QED BY <2>1, <2>2 DEF RangesInit, RangesIInv, Agree
<1> QED BY <1>1, RangesNextKeepsRangesIInv, PTL DEF RangesSpec

\* Both ranges stay inside the frame.
THEOREM RangesAreTyped == RangesSpec => []RangesTypeOK
<1>1. RangesIInv => RangesTypeOK
  <2> SUFFICES ASSUME RangesIInv PROVE RangesTypeOK
    OBVIOUS
  <2>1. ASSUME NEW r \in Ranges, r.hi <= height, height \in Nat
        PROVE  r \in [lo : 0 .. height, hi : 0 .. height] /\ r.lo <= r.hi
    <3>1. r.lo \in 0 .. height /\ r.hi \in 0 .. height /\ r.lo <= r.hi
      BY <2>1 DEF Ranges
    <3> QED BY <3>1 DEF Ranges
  <2> QED BY <2>1, WidthsAssumption DEF RangesIInv, RangesTypeOK
<1> QED BY <1>1, RangesSpecKeepsRangesIInv, PTL

\* Whatever the widths of a row index and of an integer from Racket, however
\* heads, tails and slices are chained: the rows kept are the rows asked for.
THEOREM RowsKeptAreRowsAsked == RangesSpec => []KeptIsAsked
<1>1. RangesIInv => KeptIsAsked
  <2> SUFFICES ASSUME RangesIInv PROVE RowsOf(kept) = RowsOf(asked)
    BY DEF KeptIsAsked
  <2>1. \A r \in Ranges : Empty(r) => RowsOf(r) = {}
    BY DEF Ranges, Empty, RowsOf
  <2> QED BY <2>1 DEF RangesIInv, Agree
<1> QED BY <1>1, RangesSpecKeepsRangesIInv, PTL

-----------------------------------------------------------------------------
(* DTypes.                                                                 *)

\* A code that was sent for a name is read as that name.
LEMMA NameOfCode ==
  ASSUME NEW names, DOMAIN names = 1 .. Len(names), Len(names) \in Nat, NEW name, NEW other
  PROVE  Name(names, Code(names, name), other) = IF name \in ToSet(names) THEN name ELSE other
<1>1. 0 \notin DOMAIN names
  OBVIOUS
<1>2. Contains(names, name) <=> name \in ToSet(names)
  BY DEF Contains, ToSet
<1>3. CASE name \in ToSet(names)
  <2>1. \E code \in DOMAIN names : names[code] = name
    BY <1>3 DEF ToSet
  <2>2. Code(names, name) \in DOMAIN names /\ names[Code(names, name)] = name
    BY <1>2, <1>3, <2>1 DEF Code
  <2> QED BY <1>3, <2>2 DEF Name
<1>4. CASE name \notin ToSet(names)
  BY <1>1, <1>2, <1>4 DEF Code, Name
<1> QED BY <1>3, <1>4

LEMMA TagsAreNames ==
  /\ DOMAIN Tags = 1 .. Len(Tags) /\ Len(Tags) \in Nat
  /\ DOMAIN Units = 1 .. Len(Units) /\ Len(Units) \in Nat
BY DEF Tags, Units

LEMMA NoneIsNoUnit == "none" \notin ToSet(Units) /\ "microseconds" \in ToSet(Units)
BY DEF Units, ToSet

LEMMA KindsAreTags ==
  /\ {"datetime", "duration", "enum", "decimal", "array", "date", "time", "list", "object", "struct", "binary-offset"} \subseteq ToSet(Tags)
  /\ "wide" \notin ToSet(Tags) /\ "refused" \notin ToSet(Tags) /\ "unknown" \notin ToSet(Tags)
BY DEF Tags, ToSet

\* The four numbers are never taken for the refusal.
LEMMA CompatIsNotRefused ==
  ASSUME NEW tag, NEW unit, NEW zoned, NEW width
  PROVE  Compat(tag, unit, zoned, width) # Refused
<1>1. DOMAIN Compat(tag, unit, zoned, width) = {"tag", "unit", "zoned", "width"}
  BY DEF Compat
<1>2. DOMAIN Refused = {"kind", "unit", "zone", "of"}
  BY DEF Refused, Plain, DType
<1> QED BY <1>1, <1>2

\* What a dtype of the program is in polars.
MeaningOf(d) ==
  [d EXCEPT !.unit = IF d.kind \in {"datetime", "duration"} /\ @ = "none"
                     THEN "microseconds" ELSE @,
            !.zone = IF @ \in DOMAIN Canonical THEN Canonical[@] ELSE @]

LEMMA MeaningIs ==
  ASSUME NEW tag, NEW unit, NEW zone, NEW of
  PROVE  MeaningOf(DType(tag, unit, zone, of)) =
           DType(tag, IF tag \in {"datetime", "duration"} /\ unit = "none" THEN "microseconds" ELSE unit,
                 IF zone \in DOMAIN Canonical THEN Canonical[zone] ELSE zone, of)
<1> DEFINE d == DType(tag, unit, zone, of)
           u == IF tag \in {"datetime", "duration"} /\ unit = "none" THEN "microseconds" ELSE unit
           z == IF zone \in DOMAIN Canonical THEN Canonical[zone] ELSE zone
           e == [d EXCEPT !.unit = u]
           f == [e EXCEPT !.zone = z]
<1>1. d = [kind |-> tag, unit |-> unit, zone |-> zone, of |-> of]
  BY DEF DType
<1> HIDE DEF d
<1>2. e = [kind |-> tag, unit |-> u, zone |-> zone, of |-> of]
  <2> HIDE DEF u
  <2> QED BY <1>1
<1>3. MeaningOf(d) = [e EXCEPT !.zone = IF e.zone \in DOMAIN Canonical THEN Canonical[e.zone] ELSE e.zone]
  BY <1>1 DEF MeaningOf
<1>4. MeaningOf(d) = f
  <2> HIDE DEF e
  <2> QED BY <1>2, <1>3
<1> HIDE DEF e
<1>5. f = [kind |-> tag, unit |-> u, zone |-> z, of |-> of]
  <2> HIDE DEF z, u
  <2> QED BY <1>2
<1> QED BY <1>4, <1>5 DEF d, DType

TagSet == ToSet(Tags)
UnitSet == ToSet(Units)

LEMMA DTypeFields ==
  ASSUME NEW tag, NEW unit, NEW zone, NEW of
  PROVE  LET d == DType(tag, unit, zone, of) IN
         d.kind = tag /\ d.unit = unit /\ d.zone = zone /\ d.of = of
BY DEF DType

LEMMA RefusedIsNoDType ==
  /\ Refused \notin PolarsDTypes
  /\ \A tag, unit, zone, of : tag # "refused" => DType(tag, unit, zone, of) # Refused
<1>1. \A tag, unit, zone, of : tag # "refused" => DType(tag, unit, zone, of) # Refused
  BY DTypeFields DEF Refused, Plain
<1>2. "wide" # "refused" /\ \A tag \in ToSet(Tags) : tag # "refused"
  BY KindsAreTags
<1> QED
  BY <1>1, <1>2 DEF PolarsDTypes, Plain, Datetime, Duration, Enum, Decimal, Array

\* What a dtype of an ordinary tag is lifted to.
LEMMA LiftIs ==
  ASSUME NEW tag, NEW unit, NEW zone, NEW of
  PROVE  Lift(DType(tag, unit, zone, of)) =
           IF tag \in Lifted /\ zone = NoZone
           THEN CASE tag = "datetime" -> Datetime(IF unit \in UnitSet THEN unit ELSE "microseconds", NoZone)
                  [] tag = "duration" -> Duration(IF unit \in UnitSet THEN unit ELSE "microseconds")
                  [] OTHER -> Plain(tag)
           ELSE Refused
<1> DEFINE d == DType(tag, unit, zone, of)
           c == Compat(Code(Tags, tag), Code(Units, unit), FALSE, 0)
<1>1. ToCompat(d) = IF tag \in Lifted /\ zone = NoZone THEN c ELSE Refused
  <2>1. d.kind = tag /\ d.unit = unit /\ d.zone = zone
    BY DTypeFields
  <2> HIDE DEF d
  <2> QED BY <2>1 DEF ToCompat
<1>2. CASE ~(tag \in Lifted /\ zone = NoZone)
  BY <1>1, <1>2 DEF Lift
<1>3. CASE tag \in Lifted /\ zone = NoZone
  <2>1. Lift(d) = FromCompat(c)
    BY <1>1, <1>3, CompatIsNotRefused DEF Lift
  <2>2. c.tag = Code(Tags, tag) /\ c.unit = Code(Units, unit)
    BY DEF Compat
  <2> HIDE DEF c
  <2>3. Name(Tags, c.tag, "unknown") = tag
    BY <1>3, <2>2, NameOfCode, TagsAreNames DEF Lifted
  <2>4. Name(Units, c.unit, "microseconds") = IF unit \in UnitSet THEN unit ELSE "microseconds"
    <3>1. Name(Units, Code(Units, unit), "microseconds") = IF unit \in ToSet(Units) THEN unit ELSE "microseconds"
      BY NameOfCode, TagsAreNames
    <3> QED BY <2>2, <3>1 DEF UnitSet
  <2> HIDE DEF c
  <2>5. FromCompat(c) = CASE tag = "datetime" -> Datetime(IF unit \in UnitSet THEN unit ELSE "microseconds", NoZone)
                          [] tag = "duration" -> Duration(IF unit \in UnitSet THEN unit ELSE "microseconds")
                          [] OTHER -> Plain(tag)
    BY <1>3, <2>3, <2>4 DEF FromCompat
  <2> QED BY <1>3, <2>1, <2>5
<1> QED BY <1>2, <1>3

\* The dtypes a program holds, which are those it was shown or wrote.
HeldDType(d) ==
  \/ \E tag \in TagSet : d = Plain(tag)
  \/ \E unit \in UnitSet \cup {"none"}, zone \in Spellings \cup {NoZone} : d = Datetime(unit, zone)
  \/ \E unit \in UnitSet \cup {"none"} : d = Duration(unit)
  \/ \E categories \in Categories \cup {<<"x", "x">>} : d = Enum(categories)
  \/ \E numbers : d = DType("decimal", "none", NoZone, numbers) \/ d = DType("array", "none", NoZone, numbers)

\* A use of a dtype is refused, or gives what the dtype means.
AsMeant(target, d) == target = Refused \/ (target = MeaningOf(d) /\ target \in PolarsDTypes)

\* Each way to use a dtype, for each constructor: it gives what is meant, or is
\* refused.
LEMMA PlainAsMeant ==
  ASSUME NEW tag \in TagSet
  PROVE  AsMeant(Lift(Plain(tag)), Plain(tag))
<1>1. NoZone \notin DOMAIN Canonical
  BY ZonesAssumption
<1>2. MeaningOf(Plain(tag)) = DType(tag, IF tag \in {"datetime", "duration"} THEN "microseconds" ELSE "none", NoZone, <<>>)
  BY <1>1, MeaningIs DEF Plain
<1>3. CASE tag \notin Lifted
  BY <1>3, LiftIs DEF AsMeant, Plain
<1>4. CASE tag \in Lifted
  <2>1. "none" \notin UnitSet /\ "microseconds" \in UnitSet
    BY NoneIsNoUnit DEF UnitSet
  <2>2. CASE tag = "datetime"
    <3>1. Lift(Plain(tag)) = Datetime("microseconds", NoZone)
      BY <1>4, <2>1, <2>2, LiftIs DEF Plain
    <3> QED BY <1>2, <2>1, <2>2, <3>1 DEF AsMeant, Datetime, PolarsDTypes, UnitSet
  <2>3. CASE tag = "duration"
    <3>1. Lift(Plain(tag)) = Duration("microseconds")
      BY <1>4, <2>1, <2>3, LiftIs DEF Plain
    <3> QED BY <1>2, <2>1, <2>3, <3>1 DEF AsMeant, Duration, PolarsDTypes, UnitSet
  <2>4. CASE tag \notin {"datetime", "duration"}
    <3>1. Lift(Plain(tag)) = Plain(tag)
      BY <1>4, <2>4, LiftIs DEF Plain
    <3>2. Plain(tag) \in PolarsDTypes
      BY <1>4, <2>4 DEF Lifted, Nested, Parameterized, PolarsDTypes
    <3> QED BY <1>2, <2>4, <3>1, <3>2 DEF AsMeant, Plain
  <2> QED BY <2>2, <2>3, <2>4
<1> QED BY <1>3, <1>4

LEMMA TemporalAsMeant ==
  /\ \A unit \in UnitSet \cup {"none"} : AsMeant(Lift(Duration(unit)), Duration(unit))
  /\ \A unit \in UnitSet \cup {"none"}, zone \in Spellings \cup {NoZone} :
       /\ AsMeant(Lift(Datetime(unit, zone)), Datetime(unit, zone))
       /\ zone # NoZone => AsMeant(DatetimeTz(unit, zone), Datetime(unit, zone))
<1>1. NoZone \notin DOMAIN Canonical /\ "none" \notin UnitSet /\ "microseconds" \in UnitSet
  BY ZonesAssumption, NoneIsNoUnit DEF UnitSet
<1>2. "datetime" \in Lifted /\ "duration" \in Lifted
  BY KindsAreTags DEF Lifted, Nested
<1>3. ASSUME NEW unit \in UnitSet \cup {"none"}
      PROVE  AsMeant(Lift(Duration(unit)), Duration(unit))
  <2> DEFINE u == IF unit \in UnitSet THEN unit ELSE "microseconds"
  <2>1. Lift(Duration(unit)) = Duration(u)
    BY <1>2, LiftIs DEF Duration
  <2>2. MeaningOf(Duration(unit)) = DType("duration", IF unit = "none" THEN "microseconds" ELSE unit, NoZone, <<>>)
    BY <1>1, MeaningIs DEF Duration
  <2>3. u = (IF unit = "none" THEN "microseconds" ELSE unit) /\ u \in UnitSet
    BY <1>1, <1>3
  <2>4. Duration(u) \in PolarsDTypes
    BY <2>3 DEF PolarsDTypes, UnitSet
  <2> QED BY <2>1, <2>2, <2>3, <2>4 DEF AsMeant, Duration
<1>4. ASSUME NEW unit \in UnitSet \cup {"none"}, NEW zone \in Spellings \cup {NoZone}
      PROVE  /\ AsMeant(Lift(Datetime(unit, zone)), Datetime(unit, zone))
             /\ zone # NoZone => AsMeant(DatetimeTz(unit, zone), Datetime(unit, zone))
  <2> DEFINE u == IF unit \in UnitSet THEN unit ELSE "microseconds"
  <2>1. Lift(Datetime(unit, zone)) = IF zone = NoZone THEN Datetime(u, NoZone) ELSE Refused
    BY <1>2, LiftIs DEF Datetime
  <2>2. MeaningOf(Datetime(unit, zone)) =
          DType("datetime", IF unit = "none" THEN "microseconds" ELSE unit,
                IF zone \in DOMAIN Canonical THEN Canonical[zone] ELSE zone, <<>>)
    BY MeaningIs DEF Datetime
  <2>3. u = (IF unit = "none" THEN "microseconds" ELSE unit) /\ u \in UnitSet
    BY <1>1, <1>4
  <2>4. Datetime(u, NoZone) \in PolarsDTypes
    BY <2>3 DEF PolarsDTypes, UnitSet
  <2>5. AsMeant(Lift(Datetime(unit, zone)), Datetime(unit, zone))
    BY <1>1, <2>1, <2>2, <2>3, <2>4 DEF AsMeant, Datetime
  <2>6. DatetimeTz(unit, zone) = Refused \/
          (unit \in UnitSet /\ zone \in DOMAIN Canonical /\ DatetimeTz(unit, zone) = Datetime(unit, Canonical[zone]))
    BY DEF DatetimeTz, UnitSet
  <2>7. unit \in UnitSet /\ zone \in DOMAIN Canonical => Datetime(unit, Canonical[zone]) \in PolarsDTypes
    BY ZonesAssumption DEF PolarsDTypes, UnitSet
  <2>8. AsMeant(DatetimeTz(unit, zone), Datetime(unit, zone))
    BY <1>1, <2>2, <2>6, <2>7 DEF AsMeant, Datetime
  <2> QED BY <2>5, <2>8
<1> QED BY <1>3, <1>4

LEMMA EnumAsMeant ==
  ASSUME NEW categories \in Categories \cup {<<"x", "x">>}
  PROVE  AsMeant(EnumOf(categories), Enum(categories))
<1>1. ~IsInjective(<<"x", "x">>)
  BY DEF IsInjective
<1>2. CASE ~IsInjective(categories)
  BY <1>2 DEF AsMeant, EnumOf
<1>3. CASE IsInjective(categories)
  <2>1. EnumOf(categories) = Enum(categories) /\ categories \in Categories
    BY <1>1, <1>3 DEF EnumOf
  <2>2. Enum(categories) \in PolarsDTypes
    BY <2>1 DEF PolarsDTypes
  <2>3. MeaningOf(Enum(categories)) = Enum(categories)
    BY ZonesAssumption, MeaningIs DEF Enum
  <2> QED BY <2>1, <2>2, <2>3 DEF AsMeant
<1> QED BY <1>2, <1>3

LEMMA OtherAsMeant ==
  ASSUME NEW tag \in {"decimal", "array", "enum", "unknown"}, NEW numbers
  PROVE  Lift(DType(tag, "none", NoZone, numbers)) = Refused
<1>1. tag \notin Lifted
  BY KindsAreTags DEF Lifted, Nested
<1> QED BY <1>1, LiftIs

\* The ways a dtype of the program is used.
WaysAsMeant(d) ==
  /\ AsMeant(Lift(d), d)
  /\ d.kind = "enum" => AsMeant(EnumOf(d.of), d)
  /\ d.zone # NoZone => AsMeant(DatetimeTz(d.unit, d.zone), d)

LEMMA HeldAsMeant ==
  ASSUME NEW d, HeldDType(d)
  PROVE  WaysAsMeant(d)
<1>1. ASSUME NEW tag \in TagSet, d = Plain(tag) PROVE WaysAsMeant(d)
  <2>1. d.kind = tag /\ d.zone = NoZone /\ d.of = <<>>
    BY <1>1, DTypeFields DEF Plain
  <2>2. tag = "enum" => d = Enum(<<>>)
    BY <1>1 DEF Plain, Enum
  <2>3. <<>> \in Categories
    BY DEF Categories
  <2> QED BY <1>1, <2>1, <2>2, <2>3, PlainAsMeant, EnumAsMeant DEF WaysAsMeant
<1>2. ASSUME NEW unit \in UnitSet \cup {"none"}, NEW zone \in Spellings \cup {NoZone}, d = Datetime(unit, zone)
      PROVE  WaysAsMeant(d)
  <2>1. d.kind = "datetime" /\ d.unit = unit /\ d.zone = zone
    BY <1>2, DTypeFields DEF Datetime
  <2> QED BY <1>2, <2>1, TemporalAsMeant DEF WaysAsMeant
<1>3. ASSUME NEW unit \in UnitSet \cup {"none"}, d = Duration(unit) PROVE WaysAsMeant(d)
  <2>1. d.kind = "duration" /\ d.zone = NoZone
    BY <1>3, DTypeFields DEF Duration
  <2> QED BY <1>3, <2>1, TemporalAsMeant DEF WaysAsMeant
<1>4. ASSUME NEW categories \in Categories \cup {<<"x", "x">>}, d = Enum(categories) PROVE WaysAsMeant(d)
  <2>1. d.kind = "enum" /\ d.zone = NoZone /\ d.of = categories
    BY <1>4, DTypeFields DEF Enum
  <2>2. Lift(d) = Refused
    BY <1>4, OtherAsMeant DEF Enum
  <2> QED BY <1>4, <2>1, <2>2, EnumAsMeant DEF WaysAsMeant, AsMeant
<1>5. ASSUME NEW tag \in {"decimal", "array"}, NEW numbers, d = DType(tag, "none", NoZone, numbers)
      PROVE  WaysAsMeant(d)
  <2>1. d.kind = tag /\ d.zone = NoZone
    BY <1>5, DTypeFields
  <2>2. Lift(d) = Refused
    BY <1>5, OtherAsMeant
  <2> QED BY <2>1, <2>2 DEF WaysAsMeant, AsMeant
<1> QED BY <1>1, <1>2, <1>3, <1>4, <1>5 DEF HeldDType

LEMMA UsesAsMeant ==
  ASSUME NEW d, WaysAsMeant(d)
  PROVE  AsMeant(Target(d), d) /\ AsMeant(OverrideTarget(d), d) /\ AsMeant(LiteralTarget(d), d)
<1>1. \/ Target(d) = EnumOf(d.of) /\ d.kind = "enum"
      \/ Target(d) = DatetimeTz(d.unit, d.zone) /\ d.zone # NoZone
      \/ Target(d) = Lift(d)
  BY DEF Target, IsZoned
<1>2. LiteralTarget(d) = Refused \/ LiteralTarget(d) = Lift(d)
      \/ (LiteralTarget(d) = DatetimeTz(d.unit, d.zone) /\ d.zone # NoZone)
  BY DEF LiteralTarget
<1>3. AsMeant(Refused, d)
  BY DEF AsMeant
<1> QED BY <1>1, <1>2, <1>3 DEF WaysAsMeant, OverrideTarget

\* What a program is shown of a series is the series' dtype, or nothing it can use.
LEMMA ShownIsHeld ==
  ASSUME NEW d \in PolarsDTypes
  PROVE  LET s == Shown(FromPolars(d), d) IN
         \/ s = d /\ HeldDType(d) /\ MeaningOf(d) = d
         \/ s = Plain("unknown")
<1>0. NoZone \notin DOMAIN Canonical
  BY ZonesAssumption
<1>1. ASSUME NEW tag \in (TagSet \ (Parameterized \cup {"object"})) \cup {"wide"}, d = Plain(tag)
      PROVE  Shown(FromPolars(d), d) = IF tag = "wide" THEN Plain("unknown") ELSE d
  <2>1. d.kind = tag
    BY <1>1, DTypeFields DEF Plain
  <2>2. tag \notin {"datetime", "duration", "decimal", "array", "enum"}
    BY <1>1 DEF Parameterized
  <2> DEFINE c == Compat(Code(Tags, tag), 0, FALSE, 0)
  <2>3. FromPolars(d) = c /\ c.tag = Code(Tags, tag)
    BY <2>1, <2>2 DEF FromPolars, Compat
  <2> HIDE DEF c
  <2>4. Name(Tags, c.tag, "unknown") = IF tag = "wide" THEN "unknown" ELSE tag
    BY <1>1, <2>3, NameOfCode, TagsAreNames, KindsAreTags DEF TagSet
  <2> QED BY <1>1, <2>2, <2>3, <2>4 DEF Shown
<1>2. ASSUME NEW tag \in TagSet, d = Plain(tag), tag \notin {"datetime", "duration"}
      PROVE  HeldDType(d) /\ MeaningOf(d) = d
  BY <1>0, <1>2, MeaningIs DEF HeldDType, Plain
<1>3. ASSUME NEW unit \in UnitSet, NEW zone \in Zones \cup {NoZone}, d = Datetime(unit, zone)
      PROVE  Shown(FromPolars(d), d) = d /\ HeldDType(d) /\ MeaningOf(d) = d
  <2>1. d.kind = "datetime" /\ d.unit = unit /\ d.zone = zone
    BY <1>3, DTypeFields DEF Datetime
  <2> DEFINE c == Compat(Code(Tags, "datetime"), Code(Units, unit), zone # NoZone, 0)
  <2>2. FromPolars(d) = c /\ c.tag = Code(Tags, "datetime") /\ c.unit = Code(Units, unit) /\ (c.zoned <=> zone # NoZone)
    BY <2>1 DEF FromPolars, CompatTemporal, Compat
  <2> HIDE DEF c
  <2>3. Name(Tags, c.tag, "unknown") = "datetime"
    BY <2>2, NameOfCode, TagsAreNames, KindsAreTags
  <2>4. Name(Units, c.unit, "none") = unit
    BY <1>3, <2>2, NameOfCode, TagsAreNames DEF UnitSet
  <2>5. Shown(FromPolars(d), d) = d
    BY <1>3, <2>1, <2>2, <2>3, <2>4 DEF Shown
  <2>6. HeldDType(d)
    BY <1>3, ZonesAssumption DEF HeldDType
  <2>7. MeaningOf(d) = d
    BY <1>0, <1>3, NoneIsNoUnit, MeaningIs, ZonesAssumption DEF Datetime, UnitSet
  <2> QED BY <2>5, <2>6, <2>7
<1>4. ASSUME NEW unit \in UnitSet, d = Duration(unit)
      PROVE  Shown(FromPolars(d), d) = d /\ HeldDType(d) /\ MeaningOf(d) = d
  <2>1. d.kind = "duration" /\ d.unit = unit /\ d.zone = NoZone
    BY <1>4, DTypeFields DEF Duration
  <2> DEFINE c == Compat(Code(Tags, "duration"), Code(Units, unit), FALSE, 0)
  <2>2. FromPolars(d) = c /\ c.tag = Code(Tags, "duration") /\ c.unit = Code(Units, unit)
    BY <2>1 DEF FromPolars, CompatTemporal, Compat
  <2> HIDE DEF c
  <2>3. Name(Tags, c.tag, "unknown") = "duration"
    BY <2>2, NameOfCode, TagsAreNames, KindsAreTags
  <2>4. Name(Units, c.unit, "none") = unit
    BY <1>4, <2>2, NameOfCode, TagsAreNames DEF UnitSet
  <2>5. Shown(FromPolars(d), d) = d
    BY <1>4, <2>1, <2>2, <2>3, <2>4 DEF Shown
  <2>6. HeldDType(d)
    BY <1>4 DEF HeldDType
  <2>7. MeaningOf(d) = d
    BY <1>0, <1>4, NoneIsNoUnit, MeaningIs DEF Duration, UnitSet
  <2> QED BY <2>5, <2>6, <2>7
<1>5. ASSUME NEW categories \in Categories, d = Enum(categories)
      PROVE  Shown(FromPolars(d), d) = d /\ HeldDType(d) /\ MeaningOf(d) = d
  <2>1. d.kind = "enum" /\ d.of = categories
    BY <1>5, DTypeFields DEF Enum
  <2> DEFINE c == Compat(Code(Tags, "enum"), 0, FALSE, 0)
  <2>2. FromPolars(d) = c /\ c.tag = Code(Tags, "enum")
    BY <2>1 DEF FromPolars, Compat
  <2> HIDE DEF c
  <2>3. Name(Tags, c.tag, "unknown") = "enum"
    BY <2>2, NameOfCode, TagsAreNames, KindsAreTags
  <2>4. Shown(FromPolars(d), d) = d
    BY <1>5, <2>1, <2>2, <2>3 DEF Shown
  <2>5. HeldDType(d) /\ MeaningOf(d) = d
    BY <1>0, <1>5, MeaningIs DEF HeldDType, Enum
  <2> QED BY <2>4, <2>5
<1>6. ASSUME NEW precision, NEW scale, d = Decimal(precision, scale)
      PROVE  Shown(FromPolars(d), d) = d /\ HeldDType(d) /\ MeaningOf(d) = d
  <2>1. d.kind = "decimal" /\ d.of = <<precision, scale>>
    BY <1>6, DTypeFields DEF Decimal
  <2> DEFINE c == Compat(Code(Tags, "decimal"), scale, FALSE, precision)
  <2>2. FromPolars(d) = c /\ c.tag = Code(Tags, "decimal") /\ c.unit = scale /\ c.width = precision
    BY <2>1 DEF FromPolars, Compat
  <2> HIDE DEF c
  <2>3. Name(Tags, c.tag, "unknown") = "decimal"
    BY <2>2, NameOfCode, TagsAreNames, KindsAreTags
  <2>4. Shown(FromPolars(d), d) = d
    BY <1>6, <2>1, <2>2, <2>3 DEF Shown
  <2>5. HeldDType(d) /\ MeaningOf(d) = d
    BY <1>0, <1>6, MeaningIs DEF HeldDType, Decimal
  <2> QED BY <2>4, <2>5
<1>7. ASSUME NEW width, d = Array(width)
      PROVE  Shown(FromPolars(d), d) = d /\ HeldDType(d) /\ MeaningOf(d) = d
  <2>1. d.kind = "array" /\ d.of = <<width>>
    BY <1>7, DTypeFields DEF Array
  <2> DEFINE c == Compat(Code(Tags, "array"), 0, FALSE, width)
  <2>2. FromPolars(d) = c /\ c.tag = Code(Tags, "array") /\ c.width = width
    BY <2>1 DEF FromPolars, Compat
  <2> HIDE DEF c
  <2>3. Name(Tags, c.tag, "unknown") = "array"
    BY <2>2, NameOfCode, TagsAreNames, KindsAreTags
  <2>4. Shown(FromPolars(d), d) = d
    BY <1>7, <2>1, <2>2, <2>3 DEF Shown
  <2>5. HeldDType(d) /\ MeaningOf(d) = d
    BY <1>0, <1>7, MeaningIs DEF HeldDType, Array
  <2> QED BY <2>4, <2>5
<1>8. \/ \E tag \in (TagSet \ (Parameterized \cup {"object"})) \cup {"wide"} : d = Plain(tag)
      \/ \E unit \in UnitSet, zone \in Zones \cup {NoZone} : d = Datetime(unit, zone)
      \/ \E unit \in UnitSet : d = Duration(unit)
      \/ \E categories \in Categories : d = Enum(categories)
      \/ \E precision, scale : d = Decimal(precision, scale)
      \/ \E width : d = Array(width)
  BY DEF PolarsDTypes, TagSet, UnitSet
<1>9. \A tag \in TagSet \ (Parameterized \cup {"object"}) : tag \notin {"datetime", "duration"}
  BY DEF Parameterized
<1> QED BY <1>1, <1>2, <1>3, <1>4, <1>5, <1>6, <1>7, <1>8, <1>9

\* The program's dtype is one it holds, of the meaning recorded, or the one no
\* function takes.
DTypesIInv ==
  /\ dtype \in PolarsDTypes
  /\ \/ HeldDType(datum) /\ meant = MeaningOf(datum)
     \/ datum = Plain("unknown")
  /\ done \in {"nothing", "cast", "read", "literal", "refused", "selected", "passed over"}
  /\ DTypesSurvive

LEMMA UnknownIsRefused ==
  LET d == Plain("unknown") IN
  Target(d) = Refused /\ OverrideTarget(d) = Refused /\ LiteralTarget(d) = Refused
<1>1. Lift(Plain("unknown")) = Refused
  BY OtherAsMeant DEF Plain
<1>2. Plain("unknown").kind = "unknown" /\ Plain("unknown").zone = NoZone
  BY DTypeFields DEF Plain
<1> QED BY <1>1, <1>2 DEF Target, IsZoned, OverrideTarget, LiteralTarget

LEMMA WrittenIsHeld == ASSUME NEW d \in Written PROVE HeldDType(d)
BY DEF Written, HeldDType, TagSet, UnitSet

LEMMA TargetsAreMeant ==
  ASSUME DTypesIInv,
         NEW target \in {Target(datum), OverrideTarget(datum), LiteralTarget(datum)},
         target # Refused
  PROVE  target = meant /\ target \in PolarsDTypes
<1>1. HeldDType(datum) /\ meant = MeaningOf(datum)
  BY UnknownIsRefused DEF DTypesIInv
<1>2. AsMeant(target, datum)
  BY <1>1, HeldAsMeant, UsesAsMeant
<1> QED BY <1>1, <1>2 DEF AsMeant

LEMMA InitDTypesIInv == DTypesInit => DTypesIInv
<1> SUFFICES ASSUME DTypesInit PROVE DTypesIInv
  OBVIOUS
<1>1. PICK d \in PolarsDTypes : d = dtype
  BY DEF DTypesInit
<1>2. datum = Shown(FromPolars(d), d) /\ meant = d /\ done = "nothing"
  BY <1>1 DEF DTypesInit
<1>3. PICK s : s = Shown(FromPolars(d), d)
  OBVIOUS
<1>4. (s = d /\ HeldDType(d) /\ MeaningOf(d) = d) \/ s = Plain("unknown")
  BY <1>3, ShownIsHeld
<1> QED BY <1>1, <1>2, <1>3, <1>4 DEF DTypesIInv, DTypesSurvive

LEMMA BecomeKeeps ==
  ASSUME DTypesIInv,
         NEW target \in {Target(datum), OverrideTarget(datum), LiteralTarget(datum)},
         NEW how \in {"cast", "read", "literal"}, Become(target, how)
  PROVE  DTypesIInv'
<1>1. CASE target = Refused
  BY <1>1 DEF Become, DTypesIInv, DTypesSurvive, HeldDType, MeaningOf
<1>2. CASE target # Refused
  <2>1. target = meant /\ target \in PolarsDTypes
    BY <1>2, TargetsAreMeant
  <2>2. dtype' = target /\ done' = how /\ datum' = datum /\ meant' = meant
    BY <1>2 DEF Become
  <2> QED BY <2>1, <2>2 DEF DTypesIInv, DTypesSurvive, HeldDType, MeaningOf
<1> QED BY <1>1, <1>2

LEMMA ShowKeeps == ASSUME DTypesIInv, Show PROVE DTypesIInv'
<1>1. PICK d \in PolarsDTypes : d = dtype
  BY DEF DTypesIInv
<1>2. datum' = Shown(FromPolars(d), d) /\ meant' = d /\ done' = "nothing" /\ dtype' = d
  BY <1>1 DEF Show
<1>3. PICK s : s = Shown(FromPolars(d), d)
  OBVIOUS
<1>4. (s = d /\ HeldDType(d) /\ MeaningOf(d) = d) \/ s = Plain("unknown")
  BY <1>3, ShownIsHeld
<1> QED BY <1>2, <1>3, <1>4 DEF DTypesIInv, DTypesSurvive

LEMMA WriteKeeps == ASSUME DTypesIInv, WriteDType PROVE DTypesIInv'
<1>1. PICK d \in Written : datum' = d /\ meant' = MeaningOf(d)
  BY DEF WriteDType, MeaningOf
<1> QED BY <1>1, WrittenIsHeld DEF WriteDType, DTypesIInv, DTypesSurvive

LEMMA SelectKeeps == ASSUME DTypesIInv, SelectDType PROVE DTypesIInv'
<1>1. Target(datum) = meant
  BY TargetsAreMeant DEF SelectDType
<1> QED BY <1>1 DEF SelectDType, DTypesIInv, DTypesSurvive, HeldDType, MeaningOf

LEMMA SetZoneKeeps == ASSUME DTypesIInv, SetZone PROVE DTypesIInv'
<1>1. PICK d \in PolarsDTypes : d = dtype
  BY DEF DTypesIInv
<1>2. PICK zone \in Zones \cup {NoZone} : dtype' = [d EXCEPT !.zone = zone]
  BY <1>1, ZonesAssumption DEF SetZone
<1>3. d.kind = "datetime"
  BY <1>1 DEF SetZone
<1>4. PICK unit \in UnitSet, old \in Zones \cup {NoZone} : d = Datetime(unit, old)
  <2>1. ASSUME NEW tag, NEW unit, NEW z, NEW of, d = DType(tag, unit, z, of)
        PROVE  tag = "datetime"
    BY <1>3, <2>1, DTypeFields
  <2>2. "datetime" \in Parameterized /\ "wide" # "datetime"
    BY DEF Parameterized
  <2> QED BY <2>1, <2>2 DEF PolarsDTypes, Plain, Datetime, Duration, Enum, Decimal, Array, UnitSet
<1>5. [d EXCEPT !.zone = zone] = Datetime(unit, zone)
  <2>1. d = [kind |-> "datetime", unit |-> unit, zone |-> old, of |-> <<>>]
    BY <1>4 DEF Datetime, DType
  <2>2. [d EXCEPT !.zone = zone] = [kind |-> "datetime", unit |-> unit, zone |-> zone, of |-> <<>>]
    BY <2>1
  <2> QED BY <2>2 DEF Datetime, DType
<1>6. dtype' \in PolarsDTypes
  BY <1>2, <1>5 DEF PolarsDTypes, UnitSet
<1> QED BY <1>6 DEF SetZone, DTypesIInv, DTypesSurvive, HeldDType, MeaningOf

LEMMA NextDTypesIInv == DTypesIInv /\ [DTypesNext]_dtypeVars => DTypesIInv'
<1> SUFFICES ASSUME DTypesIInv, [DTypesNext]_dtypeVars PROVE DTypesIInv'
  OBVIOUS
<1>1. CASE UNCHANGED dtypeVars
  BY <1>1 DEF dtypeVars, DTypesIInv, DTypesSurvive, HeldDType, MeaningOf
<1>2. CASE CastSeries \/ ReadOverriding \/ MakeTemporalLiteral
  BY <1>2, BecomeKeeps DEF CastSeries, ReadOverriding, MakeTemporalLiteral
<1> QED
  BY <1>1, <1>2, ShowKeeps, WriteKeeps, SelectKeeps, SetZoneKeeps DEF DTypesNext

LEMMA DTypesSpecKeepsDTypesIInv == DTypesSpec => []DTypesIInv
<1> QED BY InitDTypesIInv, NextDTypesIInv, PTL DEF DTypesSpec

\* The type invariant of the module's state.
THEOREM DTypesAreTyped == DTypesSpec => []DTypesTypeOK
<1>1. DTypesIInv => DTypesTypeOK
  <2> SUFFICES ASSUME DTypesIInv PROVE datum.kind \in ToSet(Tags) \cup {"unknown"}
    BY DEF DTypesIInv, DTypesTypeOK
  <2>1. CASE HeldDType(datum)
    <3>1. \A tag, unit, zone, of : datum = DType(tag, unit, zone, of) => datum.kind = tag
      BY DTypeFields
    <3>2. {"datetime", "duration", "enum", "decimal", "array"} \subseteq ToSet(Tags)
      BY KindsAreTags
    <3> QED BY <2>1, <3>1, <3>2 DEF HeldDType, Plain, Datetime, Duration, Enum, TagSet
  <2>2. CASE datum = Plain("unknown")
    BY <2>2, DTypeFields DEF Plain
  <2> QED BY <2>1, <2>2 DEF DTypesIInv
<1> QED BY <1>1, DTypesSpecKeepsDTypesIInv, PTL

\* Whatever the database of zones and the spellings a program writes: a cast, an
\* override, a literal and a selection use the dtype the program was shown or
\* wrote, or are refused.
THEOREM DTypesAreKept == DTypesSpec => []DTypesSurvive
<1>1. DTypesIInv => DTypesSurvive
  BY DEF DTypesIInv
<1> QED BY <1>1, DTypesSpecKeepsDTypesIInv, PTL

-----------------------------------------------------------------------------
(* IntegerOperands.                                                        *)

\* A set of natural numbers, or of integers with a bound, has a least element.
LEMMA LeastNat ==
  ASSUME NEW T, T \subseteq Nat, T # {}
  PROVE  \E n \in T : \A m \in T : n <= m
<1> DEFINE R == OpToRel(<, Nat)
<1>1. IsWellFoundedOn(R, Nat)
  BY NatLessThanWellFounded
<1>2. \A x, y \in Nat : x < y => <<x, y>> \in R
  BY SMT DEF OpToRel
<1> HIDE DEF R
<1>3. \E x \in T : \A y \in T : ~ (<<y, x>> \in R)
  BY <1>1, WFMin
<1>4. \A x, y \in Nat : ~(x < y) => y <= x
  OBVIOUS
<1> QED BY <1>2, <1>3, <1>4, Zenon
\* Products, quotients and remainders with a variable divisor.
LEMMA TimesGrows ==
  ASSUME NEW k \in Nat, NEW x \in Int, NEW y \in Int, x <= y
  PROVE  k * x <= k * y
<1>1. k * (y - x) >= 0
  OBVIOUS
<1>2. k * (y - x) = k * y - k * x
  OBVIOUS
<1> QED BY <1>1, <1>2

LEMMA Quotient ==
  ASSUME NEW a \in Int, NEW b \in Nat \ {0}
  PROVE  /\ a \div b \in Int
         /\ b * (a \div b) <= a
         /\ a - b * (a \div b) \in 0 .. b - 1
         /\ a % b = a - b * (a \div b)
OBVIOUS

LEMMA QuotientBounds ==
  ASSUME NEW a \in Int, NEW b \in Nat \ {0}
  PROVE  /\ a >= 0 => a \div b \in 0 .. a
         /\ a < 0 => a \div b \in a .. -1
         /\ a > 0 /\ b > 1 => a \div b < a
<1> DEFINE q == a \div b
<1>1. q \in Int /\ b * q <= a /\ a < b * q + b
  BY Quotient
<1> HIDE DEF q
<1>2. b * (q + 1) = b * q + b
  BY <1>1
<1>3. CASE a >= 0
  <2>1. q >= 0
    <3>1. SUFFICES ASSUME q + 1 <= 0 PROVE FALSE
      BY <1>1
    <3>2. b * (q + 1) <= b * 0
      BY <1>1, <3>1, TimesGrows
    <3> QED BY <1>1, <1>2, <1>3, <3>2
  <2>2. 1 * q <= b * q
    <3>1. q * 1 <= q * b
      BY <1>1, <2>1, TimesGrows
    <3> QED BY <1>1, <3>1
  <2>3. q = a /\ a > 0 /\ b > 1 => FALSE
    <3>1. ASSUME q = a, a > 0, b > 1 PROVE FALSE
      <4>1. a * 2 <= a * b
        BY <3>1, TimesGrows
      <4> QED BY <1>1, <3>1, <4>1
    <3> QED BY <3>1
  <2> QED BY <1>1, <1>3, <2>1, <2>2, <2>3 DEF q
<1>4. CASE a < 0
  <2>1. q <= -1
    <3>1. SUFFICES ASSUME q >= 0 PROVE FALSE
      BY <1>1
    <3>2. b * 0 <= b * q
      BY <1>1, <3>1, TimesGrows
    <3> QED BY <1>1, <1>4, <3>2
  <2>2. q >= a
    <3>1. SUFFICES ASSUME q + 1 <= a PROVE FALSE
      BY <1>1
    <3>2. b * (q + 1) <= b * a
      BY <1>1, <3>1, TimesGrows
    <3>3. (-a) * 1 <= (-a) * b
      BY <1>4, TimesGrows
    <3> QED BY <1>1, <1>2, <3>2, <3>3
  <2> QED BY <1>1, <1>4, <2>1, <2>2 DEF q
<1> QED BY <1>3, <1>4

LEMMA Remainder ==
  ASSUME NEW m \in Nat \ {0}, NEW a \in 0 .. m - 1
  PROVE  a % m = a
<1> DEFINE q == a \div m
<1>1. q \in 0 .. a /\ a % m = a - m * q /\ m * q <= a
  <2>1. a \in Int /\ m \in Nat \ {0}
    OBVIOUS
  <2>2. a % m = a - m * (a \div m) /\ m * (a \div m) <= a
    BY <2>1, Quotient
  <2>3. a \div m \in 0 .. a
    BY <2>1, QuotientBounds
  <2> QED BY <2>2, <2>3
<1> HIDE DEF q
<1>2. q = 0
  <2>1. SUFFICES ASSUME q >= 1 PROVE FALSE
    BY <1>1
  <2>2. m * 1 <= m * q
    BY <1>1, <2>1, TimesGrows
  <2> QED BY <1>1, <2>2
<1> QED BY <1>1, <1>2

LEMMA LeastInt ==
  ASSUME NEW T, T \subseteq Int, T # {}, NEW low \in Int, \A n \in T : low <= n
  PROVE  \E n \in T : \A m \in T : n <= m
<1> DEFINE U == {n - low : n \in T}
<1>1. U \subseteq Nat
  OBVIOUS
<1>0. U # {}
  <2>1. PICK n \in T : TRUE
    OBVIOUS
  <2>2. n - low \in U
    BY <2>1
  <2> QED BY <2>2
<1>2. PICK u \in U : \A w \in U : u <= w
  <2> HIDE DEF U
  <2> QED BY <1>0, <1>1, LeastNat
<1>3. PICK n \in T : u = n - low
  OBVIOUS
<1>4. \A m \in T : n - low <= m - low
  BY <1>2, <1>3
<1> QED BY <1>3, <1>4

LEMMA GreatestInt ==
  ASSUME NEW T, T \subseteq Int, T # {}, NEW high \in Int, \A n \in T : n <= high
  PROVE  \E n \in T : \A m \in T : m <= n
<1> DEFINE U == {-n : n \in T}
<1>1. U \subseteq Int /\ \A u \in U : -high <= u
  OBVIOUS
<1>0. U # {}
  <2>1. PICK n \in T : TRUE
    OBVIOUS
  <2>2. -n \in U
    BY <2>1
  <2> QED BY <2>2
<1>2. PICK u \in U : \A w \in U : u <= w
  <2>1. -high \in Int
    OBVIOUS
  <2> HIDE DEF U
  <2> QED BY <1>0, <1>1, <2>1, LeastInt
<1>3. PICK n \in T : u = -n
  OBVIOUS
<1>4. \A m \in T : -n <= -m
  BY <1>2, <1>3
<1> QED BY <1>3, <1>4

LEMMA BitsAreWidths ==
  /\ \A b \in IntBits : b \in Nat /\ Half[b] \in Nat \ {0} /\ b <= LitBits
  /\ \A b, c \in IntBits : b < c => Half[b] <= Half[c]
  /\ LitBits \in IntBits
<1>1. \A b \in IntBits : b \in Nat /\ Half[b] \in Nat \ {0} /\ b <= LitBits
  BY IntsAssumption
<1>2. \A b, c \in IntBits : b < c => 2 * Half[b] <= Half[c]
  BY IntsAssumption
<1>3. \A m, n \in Nat : 2 * m <= n => m <= n
  OBVIOUS
<1> QED BY <1>1, <1>2, <1>3, IntsAssumption

\* A dtype's values: an interval with 0 in it, and -1 when it is signed.
LEMMA RangeIs ==
  ASSUME NEW t \in IntTypes
  PROVE  /\ t.signed \in BOOLEAN /\ t.bits \in IntBits /\ Half[t.bits] \in Nat \ {0}
         /\ t.signed => IntRange(t) = -Half[t.bits] .. Half[t.bits] - 1
         /\ ~t.signed => IntRange(t) = 0 .. 2 * Half[t.bits] - 1
         /\ IntRange(t) \subseteq Int
         /\ IntRange(t) = Lowest(t) .. Lowest(t) + 2 * Half[t.bits] - 1
         /\ Lowest(t) \in Int
<1>1. PICK signed \in BOOLEAN, bits \in IntBits : t = IntType(signed, bits)
  BY DEF IntTypes
<1>2. t.signed = signed /\ t.bits = bits
  BY <1>1 DEF IntType
<1>3. Half[bits] \in Nat \ {0}
  BY IntsAssumption
<1>4. CASE signed
  BY <1>2, <1>3, <1>4 DEF IntRange, Lowest
<1>5. CASE ~signed
  BY <1>2, <1>3, <1>5 DEF IntRange, Lowest
<1> QED BY <1>2, <1>3, <1>4, <1>5

\* Wrapping leaves the values of a dtype alone, and gives no others.
LEMMA WrapKeeps ==
  ASSUME NEW t \in IntTypes
  PROVE  /\ \A n \in IntRange(t) \cup {Missing} : WrapInto(t, n) = n
         /\ \A n \in Int \cup {Missing} : WrapInto(t, n) \in IntRange(t) \cup {Missing}
<1> DEFINE lo == Lowest(t)
           m == 2 * Half[t.bits]
<1>1. lo \in Int /\ m \in Nat \ {0} /\ IntRange(t) = lo .. lo + m - 1
  BY RangeIs
<1>2. Missing \notin Int
  BY IntsAssumption
<1>3. \A n \in Int : WrapInto(t, n) = lo + ((n - lo) % m)
  BY <1>2 DEF WrapInto
<1>4. WrapInto(t, Missing) = Missing
  BY DEF WrapInto
<1> HIDE DEF lo, m
<1>5. ASSUME NEW n \in IntRange(t) PROVE WrapInto(t, n) = n
  <2>1. n - lo \in 0 .. m - 1 /\ n \in Int
    BY <1>1
  <2>2. (n - lo) % m = n - lo
    BY <1>1, <2>1, Remainder
  <2>3. WrapInto(t, n) = lo + (n - lo)
    BY <1>3, <2>1, <2>2
  <2> QED BY <1>1, <2>1, <2>3
<1>6. ASSUME NEW n \in Int PROVE WrapInto(t, n) \in IntRange(t)
  <2>1. n - lo \in Int
    BY <1>1
  <2>2. (n - lo) % m \in 0 .. m - 1
    BY <1>1, <2>1, Quotient
  <2>3. \A k \in 0 .. m - 1 : lo + k \in IntRange(t)
    BY <1>1
  <2> QED BY <1>3, <2>2, <2>3
<1> QED BY <1>4, <1>5, <1>6

\* A 64-bit dtype holds the values of the others of its sign.
LEMMA WidestHolds ==
  ASSUME NEW t \in IntTypes
  PROVE  /\ Int64 \in IntTypes /\ UInt64 \in IntTypes
         /\ Int64.signed /\ ~UInt64.signed /\ Int64.bits = LitBits /\ UInt64.bits = LitBits
         /\ t.signed => IntRange(t) \subseteq IntRange(Int64)
         /\ ~t.signed => IntRange(t) \subseteq IntRange(UInt64)
<1>1. Int64 \in IntTypes /\ UInt64 \in IntTypes
  <2>1. \A signed \in BOOLEAN, bits \in IntBits : IntType(signed, bits) \in IntTypes
    BY DEF IntTypes
  <2>2. TRUE \in BOOLEAN /\ FALSE \in BOOLEAN /\ LitBits \in IntBits
    BY BitsAreWidths
  <2> QED BY <2>1, <2>2 DEF Int64, UInt64
<1>2. Int64.signed /\ ~UInt64.signed /\ Int64.bits = LitBits /\ UInt64.bits = LitBits
  BY DEF Int64, UInt64, IntType
<1>3. Half[t.bits] <= Half[LitBits]
  <2>1. t.bits \in IntBits
    BY RangeIs
  <2>2. t.bits \in Nat /\ LitBits \in Nat /\ t.bits <= LitBits
    BY <2>1, BitsAreWidths
  <2>3. t.bits = LitBits \/ t.bits < LitBits
    BY <2>2
  <2> QED BY <2>1, <2>3, BitsAreWidths
<1>4. Half[t.bits] \in Nat /\ Half[LitBits] \in Nat
  BY IntsAssumption, RangeIs
<1>5. IntRange(Int64) = -Half[LitBits] .. Half[LitBits] - 1 /\ IntRange(UInt64) = 0 .. 2 * Half[LitBits] - 1
  BY <1>1, <1>2, RangeIs
<1>6. CASE t.signed
  <2>1. IntRange(t) = -Half[t.bits] .. Half[t.bits] - 1
    BY <1>6, RangeIs
  <2> QED BY <1>1, <1>2, <1>3, <1>4, <1>5, <1>6, <2>1
<1>7. CASE ~t.signed
  <2>1. IntRange(t) = 0 .. 2 * Half[t.bits] - 1
    BY <1>7, RangeIs
  <2> QED BY <1>1, <1>2, <1>3, <1>4, <1>5, <1>7, <2>1
<1> QED BY <1>6, <1>7, RangeIs

\* The class that an expression form answers.
IsWide(t, v) == v \in IntRange(Int64) \ IntRange(t) /\ (t.signed \/ v >= 0)

\* The dtype of the expression form, when there is one.
LEMMA WidenedIsWide ==
  ASSUME NEW t \in IntTypes, NEW v, Wide(t, v) # {}
  PROVE  Widened(t, v) \in Wide(t, v)
<1> DEFINE widths == {w.bits : w \in Wide(t, v)}
<1>1. Wide(t, v) \subseteq IntTypes
  BY DEF Wide
<1>2. widths \subseteq Nat /\ widths # {}
  <2>1. \A w \in IntTypes : w.bits \in Nat
    BY RangeIs, BitsAreWidths
  <2>2. PICK w \in Wide(t, v) : TRUE
    OBVIOUS
  <2>3. w.bits \in widths
    BY <2>2
  <2> QED BY <1>1, <2>1, <2>3
<1>3. PICK b \in widths : \A c \in widths : b <= c
  BY <1>2, LeastNat
<1>4. \E w \in Wide(t, v) : \A u \in Wide(t, v) : w.bits <= u.bits
  BY <1>3
<1> QED BY <1>4 DEF Widened

LEMMA WideIntegers ==
  ASSUME NEW t \in IntTypes, NEW v, IsWide(t, v)
  PROVE  LET w == Widened(t, v) IN
         /\ Wide(t, v) # {} /\ v \in Int
         /\ w \in IntTypes /\ w.signed = t.signed
         /\ IntRange(t) \subseteq IntRange(w) /\ v \in IntRange(w)
<1>1. Int64 \in IntTypes /\ v \in Int /\ Int64.signed /\ Int64.bits = LitBits
  BY WidestHolds, RangeIs DEF IsWide
<1>2. UInt64 \in IntTypes /\ ~UInt64.signed /\ UInt64.bits = LitBits
  BY WidestHolds
<1>3. (t.signed \/ v < 0) = t.signed
  BY <1>1, RangeIs DEF IsWide
<1>4. CASE t.signed
  <2>1. Int64 \in Wide(t, v)
    BY <1>1, <1>3, <1>4, WidestHolds DEF Wide, IsWide
  <2>2. Widened(t, v) \in Wide(t, v)
    BY <2>1, WidenedIsWide
  <2> QED BY <1>1, <1>3, <2>1, <2>2 DEF Wide
<1>5. CASE ~t.signed
  <2>1. v \in IntRange(UInt64)
    <3>1. v \in -Half[LitBits] .. Half[LitBits] - 1 /\ v >= 0
      BY <1>1, <1>5, RangeIs DEF IsWide
    <3>2. IntRange(UInt64) = 0 .. 2 * Half[LitBits] - 1
      BY <1>2, RangeIs
    <3> QED BY <3>1, <3>2, IntsAssumption
  <2>2. UInt64 \in Wide(t, v)
    <3>1. UInt64.signed = (t.signed \/ v < 0)
      BY <1>2, <1>3, <1>5, WidestHolds, RangeIs
    <3> QED BY <1>2, <1>5, <2>1, <3>1, WidestHolds DEF Wide
  <2>3. Widened(t, v) \in Wide(t, v)
    BY <2>2, WidenedIsWide
  <2> QED BY <1>1, <1>3, <2>2, <2>3 DEF Wide
<1> QED BY <1>4, <1>5, RangeIs

\* The series of the program.
IntsTyped ==
  /\ ints.dtype \in IntTypes
  /\ ints.cells \in SeqOf(IntRange(ints.dtype) \cup {Missing}, MaxInts)

LEMMA CellsAre ==
  ASSUME IntsTyped
  PROVE  /\ \A i \in DOMAIN ints.cells : ints.cells[i] \in IntRange(ints.dtype) \cup {Missing}
         /\ ToSet(ints.cells) = {ints.cells[i] : i \in DOMAIN ints.cells}
<1>1. PICK m \in 0 .. MaxInts : ints.cells \in [1 .. m -> IntRange(ints.dtype) \cup {Missing}]
  BY DEF IntsTyped, SeqOf
<1> QED BY <1>1 DEF ToSet

PresentInts == ToSet(ints.cells) \ {Missing}

\* The least and the greatest of the elements that are not null.
LEMMA ExtremesAre ==
  ASSUME IntsTyped
  PROVE  /\ PresentInts \subseteq IntRange(ints.dtype)
         /\ PresentInts = {} => SeriesExtremes = {}
         /\ PresentInts # {} =>
              \E a, b \in PresentInts : SeriesExtremes = {a, b} /\ \A x \in PresentInts : a <= x /\ x <= b
<1>1. PresentInts \subseteq IntRange(ints.dtype)
  BY CellsAre DEF PresentInts
<1>2. CASE PresentInts = {}
  BY <1>1, <1>2 DEF SeriesExtremes, PresentInts
<1>3. CASE PresentInts # {}
  <2> DEFINE lo == Lowest(ints.dtype)
             m == 2 * Half[ints.dtype.bits]
  <2>1. lo \in Int /\ m \in Int /\ IntRange(ints.dtype) = lo .. lo + m - 1
    BY RangeIs DEF IntsTyped
  <2> HIDE DEF lo, m
  <2>2. PresentInts \subseteq Int /\ \A x \in PresentInts : lo <= x /\ x <= lo + m - 1
    BY <1>1, <2>1
  <2>3. \E a \in PresentInts : \A x \in PresentInts : a <= x
    BY <1>3, <2>1, <2>2, LeastInt
  <2>4. \E b \in PresentInts : \A x \in PresentInts : b >= x
    <3>1. lo + m - 1 \in Int
      BY <2>1
    <3>2. PICK b \in PresentInts : \A x \in PresentInts : x <= b
      BY <1>3, <2>2, <3>1, GreatestInt
    <3> QED BY <2>2, <3>2
  <2>5. Min(PresentInts) \in PresentInts /\ \A x \in PresentInts : Min(PresentInts) <= x
    BY <2>3 DEF Min
  <2>6. Max(PresentInts) \in PresentInts /\ \A x \in PresentInts : Max(PresentInts) >= x
    BY <2>4 DEF Max
  <2>7. SeriesExtremes = {Min(PresentInts), Max(PresentInts)}
    BY <1>3 DEF SeriesExtremes, PresentInts
  <2> QED BY <1>1, <1>3, <2>2, <2>5, <2>6, <2>7
<1> QED BY <1>2, <1>3

\* A sum, a difference and a product by v lie between those of the extremes.
LEMMA OnSideBetween ==
  ASSUME NEW side, NEW op \in {"add", "sub", "mul"},
         NEW v \in Int, NEW a \in Int, NEW b \in Int, NEW x \in Int, a <= x, x <= b
  PROVE  LET f(n) == OnSide(side, op, n, v) IN
         /\ f(a) \in Int /\ f(b) \in Int /\ f(x) \in Int
         /\ \/ f(a) <= f(x) /\ f(x) <= f(b)
            \/ f(b) <= f(x) /\ f(x) <= f(a)
<1>1. Missing \notin Int
  BY IntsAssumption
<1>2. CASE op \in {"add", "sub"}
  BY <1>1, <1>2 DEF OnSide, Exact
<1>3. CASE op = "mul"
  <2>1. \A n \in Int : OnSide(side, op, n, v) = v * n
    BY <1>1, <1>3 DEF OnSide, Exact
  <2>2. v * a \in Int /\ v * b \in Int /\ v * x \in Int
    OBVIOUS
  <2>3. CASE v >= 0
    <3>1. v * a <= v * x /\ v * x <= v * b
      BY <2>3, TimesGrows
    <3> QED BY <2>1, <2>2, <3>1
  <2>4. CASE v < 0
    <3>1. (-v) * a <= (-v) * x /\ (-v) * x <= (-v) * b
      BY <2>4, TimesGrows
    <3>2. v * x <= v * a /\ v * b <= v * x
      BY <3>1
    <3> QED BY <2>1, <2>2, <3>2
  <2> QED BY <2>3, <2>4
<1> QED BY <1>2, <1>3

LEMMA FloorBounds ==
  ASSUME NEW x \in Int, NEW y \in Int \ {0}
  PROVE  /\ FloorDiv(x, y) \in Int
         /\ y > 0 /\ x >= 0 => FloorDiv(x, y) \in 0 .. x
         /\ y > 0 /\ x < 0 => FloorDiv(x, y) \in x .. -1
         /\ y < 0 /\ x > 0 => FloorDiv(x, y) \in -x .. -1
         /\ y < 0 /\ x <= 0 => FloorDiv(x, y) \in 0 .. -x
         /\ y < -1 /\ x < 0 => FloorDiv(x, y) < -x
         /\ y > 0 => x - y * FloorDiv(x, y) \in 0 .. y - 1
         /\ y < 0 => x - y * FloorDiv(x, y) \in y + 1 .. 0
<1>1. CASE y > 0
  <2>1. y \in Nat \ {0}
    BY <1>1
  <2>2. FloorDiv(x, y) = x \div y
    BY <1>1 DEF FloorDiv
  <2>3. x \div y \in Int /\ x - y * (x \div y) \in 0 .. y - 1
    BY <2>1, Quotient
  <2>4. (x >= 0 => x \div y \in 0 .. x) /\ (x < 0 => x \div y \in x .. -1)
    BY <2>1, QuotientBounds
  <2> QED BY <1>1, <2>2, <2>3, <2>4
<1>2. CASE y < 0
  <2>1. -y \in Nat \ {0} /\ -x \in Int
    BY <1>2
  <2> DEFINE q == (-x) \div (-y)
  <2>2. FloorDiv(x, y) = q
    BY <1>2 DEF FloorDiv
  <2>3. q \in Int /\ (-x) - (-y) * q \in 0 .. (-y) - 1
    BY <2>1, Quotient
  <2>4. /\ -x >= 0 => q \in 0 .. -x
        /\ -x < 0 => q \in -x .. -1
        /\ -x > 0 /\ -y > 1 => q < -x
    BY <2>1, QuotientBounds
  <2> HIDE DEF q
  <2>5. (-x) - (-y) * q = -(x - y * q) /\ x - y * q \in Int
    BY <2>3
  <2> QED BY <1>2, <2>2, <2>3, <2>4, <2>5
<1> QED BY <1>1, <1>2

\* In a dtype a quotient is outside it only when the least value is divided by
\* -1, and a remainder never is.
LEMMA QuotientFits ==
  ASSUME NEW t \in IntTypes, NEW x \in IntRange(t), NEW y \in IntRange(t) \ {0}
  PROVE  /\ FloorDiv(x, y) \in Int
         /\ FloorDiv(x, y) \notin IntRange(t) <=> (x = Lowest(t) /\ y = -1)
         /\ x - y * FloorDiv(x, y) \in IntRange(t)
<1> DEFINE h == Half[t.bits]
           q == FloorDiv(x, y)
           r == x - y * FloorDiv(x, y)
<1>1. h \in Nat \ {0} /\ x \in Int /\ y \in Int \ {0}
  BY RangeIs
<1>2. /\ q \in Int
      /\ y > 0 /\ x >= 0 => q \in 0 .. x
      /\ y > 0 /\ x < 0 => q \in x .. -1
      /\ y < 0 /\ x > 0 => q \in -x .. -1
      /\ y < 0 /\ x <= 0 => q \in 0 .. -x
      /\ y < -1 /\ x < 0 => q < -x
      /\ y > 0 => r \in 0 .. y - 1
      /\ y < 0 => r \in y + 1 .. 0
  BY <1>1, FloorBounds
<1>3. CASE t.signed
  <2>1. IntRange(t) = -h .. h - 1 /\ Lowest(t) = -h
    BY <1>3, RangeIs DEF Lowest
  <2>2. x = -h /\ y = -1 => q = h
    <3>1. SUFFICES ASSUME x = -h, y = -1 PROVE q = h
      OBVIOUS
    <3>2. FloorDiv(x, y) = h \div 1
      BY <1>1, <3>1 DEF FloorDiv
    <3>3. 1 \in Nat \ {0} /\ h \in Int
      BY <1>1
    <3>4. h \div 1 \in Int /\ h - 1 * (h \div 1) \in 0 .. 1 - 1
      BY <3>3, Quotient
    <3> HIDE DEF h
    <3> QED BY <1>1, <3>2, <3>4
  <2> HIDE DEF h, q, r
  <2>3. q \notin IntRange(t) <=> (x = Lowest(t) /\ y = -1)
    BY <1>1, <1>2, <2>1, <2>2
  <2>4. r \in IntRange(t)
    BY <1>1, <1>2, <2>1
  <2> QED BY <1>2, <2>3, <2>4 DEF q, r
<1>4. CASE ~t.signed
  <2>1. IntRange(t) = 0 .. 2 * h - 1
    BY <1>4, RangeIs
  <2> HIDE DEF h, q, r
  <2>2. x >= 0 /\ y > 0
    BY <1>1, <2>1
  <2>3. q \in IntRange(t) /\ r \in IntRange(t)
    BY <1>1, <1>2, <2>1, <2>2
  <2> QED BY <1>2, <2>2, <2>3 DEF q, r
<1> QED BY <1>3, <1>4, RangeIs

LEMMA ExactIs ==
  ASSUME NEW op \in IntOps, NEW x \in Int, NEW y \in Int
  PROVE  /\ Exact(op, x, y) \in Int \cup {Missing}
         /\ op \in {"div", "mod"} /\ y = 0 => Exact(op, x, y) = Missing
         /\ op = "div" /\ y # 0 => Exact(op, x, y) = FloorDiv(x, y)
         /\ op = "mod" /\ y # 0 => Exact(op, x, y) = x - y * FloorDiv(x, y)
<1>1. y # 0 => FloorDiv(x, y) \in Int
  BY FloorBounds
<1>2. \A q \in Int : x - y * q \in Int
  OBVIOUS
<1>3. op \in {"add", "sub", "mul"} => Exact(op, x, y) \in Int
  BY DEF Exact
<1>4. op \in {"div", "mod"} /\ y = 0 => Exact(op, x, y) = Missing
  <2>1. SUFFICES ASSUME op \in {"div", "mod"} /\ y = 0 PROVE Exact(op, x, y) = Missing
    OBVIOUS
  <2>2. op \notin {"add", "sub", "mul"}
    BY <2>1
  <2> QED BY <2>1, <2>2, Zenon DEF Exact
<1>5. op = "div" /\ y # 0 => Exact(op, x, y) = FloorDiv(x, y)
  BY DEF Exact
<1>6. op = "mod" /\ y # 0 => Exact(op, x, y) = x - y * FloorDiv(x, y)
  BY DEF Exact
<1>7. op = "mod" /\ y # 0 => Exact(op, x, y) \in Int
  BY <1>1, <1>2, <1>6
<1>8. Exact(op, x, y) \in Int \cup {Missing}
  BY <1>1, <1>3, <1>4, <1>5, <1>7 DEF IntOps
<1> QED BY <1>4, <1>5, <1>6, <1>8

LEMMA OnSideIs ==
  ASSUME NEW op \in IntOps, NEW side, NEW v \in Int, NEW x \in Int \cup {Missing}
  PROVE  OnSide(side, op, x, v) \in Int \cup {Missing}
<1>1. CASE x = Missing
  BY <1>1 DEF OnSide
<1>2. CASE x \in Int
  BY <1>2, ExactIs DEF OnSide
<1> QED BY <1>1, <1>2

\* Some row is outside the dtype of the expression form.
LeavesDType(w, side, op, v) ==
  \E i \in DOMAIN ints.cells : OnSide(side, op, ints.cells[i], v) \notin IntRange(w) \cup {Missing}

\* What is looked at tells whether a row is outside, by tag of action.
LEMMA SumsOverflow ==
  ASSUME IntsTyped, NEW w \in IntTypes, NEW v \in Int, NEW side, NEW op \in {"add", "sub", "mul"}
  PROVE  Overflows("checked-expression", op, v, side, w) <=> LeavesDType(w, side, op, v)
<1>1. Overflows("checked-expression", op, v, side, w) <=>
        \E x \in SeriesExtremes : OnSide(side, op, x, v) \notin IntRange(w)
  BY DEF Overflows
<1>2. /\ PresentInts \subseteq Int
      /\ \A x \in PresentInts : \E i \in DOMAIN ints.cells : ints.cells[i] = x
      /\ \A i \in DOMAIN ints.cells : ints.cells[i] # Missing => ints.cells[i] \in PresentInts
  BY ExtremesAre, RangeIs, CellsAre DEF IntsTyped, PresentInts
<1>3. Missing \notin Int
  BY IntsAssumption
<1>4. ASSUME NEW x \in SeriesExtremes, OnSide(side, op, x, v) \notin IntRange(w)
      PROVE  LeavesDType(w, side, op, v)
  <2>1. x \in PresentInts
    BY ExtremesAre
  <2>2. OnSide(side, op, x, v) \in Int
    <3>1. x \in Int /\ x <= x
      BY <1>2, <2>1
    <3> QED BY <3>1, OnSideBetween
  <2> QED BY <1>2, <1>3, <1>4, <2>1, <2>2 DEF LeavesDType
<1>5. ASSUME NEW i \in DOMAIN ints.cells, OnSide(side, op, ints.cells[i], v) \notin IntRange(w) \cup {Missing}
      PROVE  \E x \in SeriesExtremes : OnSide(side, op, x, v) \notin IntRange(w)
  <2>1. ints.cells[i] \in PresentInts
    BY <1>2, <1>5 DEF OnSide
  <2>2. PICK a \in PresentInts, b \in PresentInts :
          SeriesExtremes = {a, b} /\ a <= ints.cells[i] /\ ints.cells[i] <= b
    BY <2>1, ExtremesAre
  <2>3. PICK x \in Int : x = ints.cells[i]
    BY <1>2, <2>1
  <2> DEFINE f(n) == OnSide(side, op, n, v)
  <2>4. /\ f(a) \in Int /\ f(b) \in Int /\ f(x) \in Int
        /\ \/ f(a) <= f(x) /\ f(x) <= f(b)
           \/ f(b) <= f(x) /\ f(x) <= f(a)
    BY <1>2, <2>2, <2>3, OnSideBetween
  <2>5. f(x) \notin IntRange(w)
    BY <1>5, <2>3
  <2> HIDE DEF f
  <2>6. f(a) \notin IntRange(w) \/ f(b) \notin IntRange(w)
    <3>1. PICK lo \in Int, hi \in Int : IntRange(w) = lo .. hi
      BY RangeIs
    <3> QED BY <2>4, <2>5, <3>1
  <2> QED BY <2>2, <2>6 DEF f
<1> QED BY <1>1, <1>4, <1>5 DEF LeavesDType

LEMMA QuotientsOverflow ==
  ASSUME IntsTyped, NEW w \in IntTypes, IntRange(ints.dtype) \subseteq IntRange(w), NEW v \in IntRange(w)
  PROVE  Overflows("checked-quotient", "div", v, "left", w) <=> LeavesDType(w, "left", "div", v)
<1>1. Overflows("checked-quotient", "div", v, "left", w) <=> v = Lowest(w) /\ HoldsMinusOne
  BY DEF Overflows
<1>2. HoldsMinusOne <=> \E i \in DOMAIN ints.cells : ints.cells[i] = -1
  BY CellsAre, IntsAssumption DEF HoldsMinusOne
<1>3. ASSUME NEW i \in DOMAIN ints.cells
      PROVE  OnSide("left", "div", ints.cells[i], v) \notin IntRange(w) \cup {Missing}
               <=> v = Lowest(w) /\ ints.cells[i] = -1
  <2>1. PICK x \in IntRange(w) \cup {Missing} : x = ints.cells[i]
    BY CellsAre
  <2>2. CASE x = Missing
    BY <2>1, <2>2, IntsAssumption DEF OnSide
  <2>3. CASE x \in IntRange(w)
    <3>1. x \in Int /\ v \in Int /\ Missing \notin Int /\ IntRange(w) \subseteq Int /\ x # Missing
      BY <2>3, RangeIs, IntsAssumption
    <3>2. OnSide("left", "div", x, v) = Exact("div", v, x)
      BY <3>1 DEF OnSide
    <3>3. CASE x = 0
      BY <2>1, <3>1, <3>2, <3>3, ExactIs DEF IntOps
    <3>4. CASE x # 0
      <4>1. Exact("div", v, x) = FloorDiv(v, x)
        BY <3>1, <3>4, ExactIs DEF IntOps
      <4>2. FloorDiv(v, x) \in Int /\ (FloorDiv(v, x) \notin IntRange(w) <=> v = Lowest(w) /\ x = -1)
        BY <2>3, <3>4, QuotientFits
      <4> QED BY <2>1, <3>1, <3>2, <4>1, <4>2
    <3> QED BY <3>3, <3>4
  <2> QED BY <2>2, <2>3
<1> QED BY <1>1, <1>2, <1>3 DEF LeavesDType

LEMMA OthersFit ==
  ASSUME IntsTyped, NEW w \in IntTypes, IntRange(ints.dtype) \subseteq IntRange(w), NEW v \in IntRange(w),
         v # 0, v # -1, NEW op, NEW side, op = "mod" \/ (op = "div" /\ side = "right")
  PROVE  ~LeavesDType(w, side, op, v)
<1>1. ASSUME NEW i \in DOMAIN ints.cells
      PROVE  OnSide(side, op, ints.cells[i], v) \in IntRange(w) \cup {Missing}
  <2>1. PICK x \in IntRange(w) \cup {Missing} : x = ints.cells[i]
    BY CellsAre
  <2>2. CASE x = Missing
    BY <2>1, <2>2 DEF OnSide
  <2>3. CASE x \in IntRange(w)
    <3>1. x \in Int /\ v \in Int /\ x # Missing
      BY <2>3, RangeIs, IntsAssumption
    <3>2. OnSide(side, op, x, v) = IF side = "right" THEN Exact(op, x, v) ELSE Exact(op, v, x)
      BY <3>1 DEF OnSide
    <3>3. Exact(op, x, v) \in IntRange(w)
      <4>1. FloorDiv(x, v) \in IntRange(w) /\ x - v * FloorDiv(x, v) \in IntRange(w)
        BY <2>3, QuotientFits
      <4> QED BY <3>1, <4>1, ExactIs DEF IntOps
    <3>4. op = "mod" => Exact(op, v, x) \in IntRange(w) \cup {Missing}
      <4>1. x # 0 => v - x * FloorDiv(v, x) \in IntRange(w)
        BY <2>3, QuotientFits
      <4>2. x = 0 /\ op = "mod" => Exact(op, v, x) = Missing
        BY <3>1, ExactIs DEF IntOps
      <4>3. x # 0 /\ op = "mod" => Exact(op, v, x) = v - x * FloorDiv(v, x)
        BY <3>1, ExactIs DEF IntOps
      <4> QED BY <4>1, <4>2, <4>3
    <3> QED BY <2>1, <3>2, <3>3, <3>4
  <2> QED BY <2>2, <2>3
<1> QED BY <1>1 DEF LeavesDType

\* Whether an answer is too big is told from what is looked at.
LEMMA OverflowIsTold ==
  ASSUME IntsTyped, NEW v, IsWide(ints.dtype, v), NEW op \in IntOps, NEW side \in {"left", "right"}
  PROVE  LET w == Widened(ints.dtype, v)
             action == IntegerAction(op, "wide-integer", side) IN
         /\ action \notin {"refuse", "same"}
         /\ Overflows(action, op, v, side, w) <=> LeavesDType(w, side, op, v)
<1> DEFINE w == Widened(ints.dtype, v)
           action == IntegerAction(op, "wide-integer", side)
<1>1. /\ v \in Int /\ w \in IntTypes
      /\ IntRange(ints.dtype) \subseteq IntRange(w) /\ v \in IntRange(w)
  BY WideIntegers DEF IntsTyped
<1> HIDE DEF w
<1>2. CASE op \in {"add", "sub", "mul"}
  <2>1. action = "checked-expression"
    BY <1>2 DEF IntegerAction
  <2> QED BY <1>1, <1>2, <2>1, SumsOverflow DEF w
<1>3. CASE op = "div" /\ side = "left"
  <2>1. action = "checked-quotient"
    BY <1>3 DEF IntegerAction
  <2> QED BY <1>1, <1>3, <2>1, QuotientsOverflow DEF w
<1>4. CASE op = "mod" \/ (op = "div" /\ side = "right")
  <2>1. action = "expression"
    BY <1>4 DEF IntegerAction
  <2>2. v # 0 /\ v # -1
    <3>1. PICK t \in IntTypes : t = ints.dtype
      BY DEF IntsTyped
    <3>2. v \notin IntRange(t) /\ (t.signed \/ v >= 0)
      BY <3>1 DEF IsWide
    <3>3. 0 \in IntRange(t) /\ (t.signed => -1 \in IntRange(t))
      BY RangeIs
    <3> QED BY <3>2, <3>3
  <2>3. ~LeavesDType(w, side, op, v)
    BY <1>1, <1>4, <2>2, OthersFit
  <2>4. ~Overflows(action, op, v, side, w)
    BY <2>1 DEF Overflows
  <2> HIDE DEF action
  <2> QED BY <2>1, <2>3, <2>4 DEF w, action
<1> QED BY <1>2, <1>3, <1>4 DEF IntOps

LEMMA ClassIs ==
  ASSUME NEW t \in IntTypes, NEW v \in Int
  PROVE  IntegerClass(t, v) = "wide-integer" <=> IsWide(t, v)
<1>1. v < 0 /\ ~t.signed => v \notin IntRange(t)
  BY RangeIs
<1>2. CASE IsWide(t, v)
  BY <1>2 DEF IntegerClass, IsWide
<1>3. CASE ~IsWide(t, v)
  BY <1>1, <1>3 DEF IntegerClass, IsWide
<1> QED BY <1>2, <1>3

LEMMA GivenFields ==
  ASSUME NEW is, NEW t, NEW cells
  PROVE  Given(is, t, cells).is = is /\ Given(is, t, cells).dtype = t /\ Given(is, t, cells).cells = cells
BY DEF Given

\* Beside a wide integer the answer is what was asked for.
LEMMA WideAnswer ==
  ASSUME IntsTyped, NEW v, IsWide(ints.dtype, v), NEW op \in IntOps, NEW side \in {"left", "right"},
         ApplyInteger(op, v, side)
  PROVE  LET w == Widened(ints.dtype, v)
             exact == [i \in DOMAIN ints.cells |-> OnSide(side, op, ints.cells[i], v)] IN
         answer' = IF \E i \in DOMAIN exact : exact[i] \notin IntRange(w) \cup {Missing}
                   THEN TooBig(w) ELSE Given("series", w, exact)
<1> DEFINE w == Widened(ints.dtype, v)
           exact == [i \in DOMAIN ints.cells |-> OnSide(side, op, ints.cells[i], v)]
           action == IntegerAction(op, "wide-integer", side)
<1>1. v \in Int /\ w \in IntTypes /\ Wide(ints.dtype, v) # {}
  BY WideIntegers DEF IntsTyped
<1>2. IntegerClass(ints.dtype, v) = "wide-integer"
  BY <1>1, ClassIs DEF IntsTyped
<1>3. action \notin {"refuse", "same"} /\ (Overflows(action, op, v, side, w) <=> LeavesDType(w, side, op, v))
  BY OverflowIsTold
<1>4. answer' = ExpressionForm(action, op, v, side)
  BY <1>2, <1>3 DEF ApplyInteger
<1>5. LeavesDType(w, side, op, v) <=> \E i \in DOMAIN exact : exact[i] \notin IntRange(w) \cup {Missing}
  BY DEF LeavesDType
<1> HIDE DEF w, action
<1>6. ~LeavesDType(w, side, op, v) => Rows(op, v, side, w) = exact
  <2>1. ~LeavesDType(w, side, op, v) =>
          \A i \in DOMAIN ints.cells :
            WrapInto(w, OnSide(side, op, ints.cells[i], v)) = OnSide(side, op, ints.cells[i], v)
    BY <1>1, WrapKeeps DEF LeavesDType
  <2> QED BY <2>1 DEF Rows
<1> HIDE DEF exact
<1>7. ExpressionForm(action, op, v, side) =
        IF Overflows(action, op, v, side, w) THEN TooBig(w) ELSE Given("series", w, Rows(op, v, side, w))
  BY <1>1 DEF ExpressionForm, w
<1> QED BY <1>3, <1>4, <1>5, <1>6, <1>7 DEF w, exact

\* The series and the answer are typed, and the answer is the one asked for.
IntsIInv ==
  /\ IntsTyped
  /\ applied.op \in IntOps \cup {"none"} /\ applied.side \in {"left", "right"}
  /\ applied.value \in Int
  /\ answer.is \in {"none", "operand", "series", "too big", "refused", "unsaid"}
  /\ answer.is \in {"operand", "series"} =>
       \A i \in DOMAIN answer.cells : answer.cells[i] \in IntRange(answer.dtype) \cup {Missing}
  /\ IntegersFit

LEMMA InitIntsIInv == IntsInit => IntsIInv
<1> SUFFICES ASSUME IntsInit PROVE IntsIInv
  OBVIOUS
<1>0. PICK t \in IntTypes : \E cells \in SeqOf(IntRange(t) \cup {Missing}, MaxInts) :
        ints = [dtype |-> t, cells |-> cells]
  BY DEF IntsInit
<1>1. PICK cells \in SeqOf(IntRange(t) \cup {Missing}, MaxInts) : ints = [dtype |-> t, cells |-> cells]
  BY <1>0
<1>2. IntsTyped
  BY <1>1 DEF IntsTyped
<1>3. applied.op = "none" /\ applied.side = "right" /\ applied.value = 0
  BY DEF IntsInit
<1>4. answer.is = "none"
  BY GivenFields DEF IntsInit
<1> QED BY <1>2, <1>3, <1>4 DEF IntsIInv, IntegersFit, IntOps

\* Every row an expression form gives is of its dtype.
LEMMA AnswersAreTyped ==
  ASSUME IntsTyped, NEW v \in Int, NEW op \in IntOps, NEW side \in {"left", "right"}, ApplyInteger(op, v, side)
  PROVE  /\ answer'.is \in {"none", "operand", "series", "too big", "refused", "unsaid"}
         /\ answer'.is \in {"operand", "series"} =>
              \A i \in DOMAIN answer'.cells : answer'.cells[i] \in IntRange(answer'.dtype) \cup {Missing}
<1> DEFINE action == IntegerAction(op, IntegerClass(ints.dtype, v), side)
<1>1. CASE action = "refuse"
  <2>1. answer' = Given("refused", ints.dtype, <<>>)
    BY <1>1 DEF ApplyInteger
  <2>2. answer'.is = "refused"
    BY <2>1, GivenFields
  <2> QED BY <2>2
<1>2. CASE action = "same"
  <2>1. answer' = Given("operand", ints.dtype, ConstSeries(v))
    BY <1>2 DEF ApplyInteger
  <2>2. answer'.is = "operand" /\ answer'.dtype = ints.dtype /\ answer'.cells = ConstSeries(v)
    BY <2>1, GivenFields
  <2>3. v \in IntRange(ints.dtype)
    BY <1>2 DEF IntegerAction, IntegerClass
  <2> QED BY <2>2, <2>3 DEF ConstSeries
<1>3. CASE action \notin {"refuse", "same"}
  <2> DEFINE w == Widened(ints.dtype, v)
  <2>1. answer' = ExpressionForm(action, op, v, side)
    BY <1>3 DEF ApplyInteger
  <2>2. CASE Wide(ints.dtype, v) = {}
    <3>1. answer' = Given("unsaid", Int64, <<>>)
      BY <2>1, <2>2 DEF ExpressionForm
    <3>2. answer'.is = "unsaid"
      BY <3>1, GivenFields
    <3> QED BY <3>2
  <2>3. CASE Wide(ints.dtype, v) # {} /\ Overflows(action, op, v, side, w)
    <3>1. answer' = TooBig(w)
      BY <2>1, <2>3 DEF ExpressionForm
    <3>2. answer' = Given("too big", w, <<>>)
      BY <3>1 DEF TooBig
    <3> HIDE DEF w
    <3>3. answer'.is = "too big"
      BY <3>2 DEF Given
    <3> QED BY <3>3
  <2>4. CASE Wide(ints.dtype, v) # {} /\ ~Overflows(action, op, v, side, w)
    <3>1. answer' = Given("series", w, Rows(op, v, side, w))
      BY <2>1, <2>4 DEF ExpressionForm
    <3>2. w \in IntTypes
      BY <2>4, WidenedIsWide DEF Wide, IntsTyped
    <3>3. answer'.is = "series" /\ answer'.dtype = w /\ answer'.cells = Rows(op, v, side, w)
      BY <3>1, GivenFields
    <3>4. \A i \in DOMAIN ints.cells : ints.cells[i] \in Int \cup {Missing}
      BY CellsAre, RangeIs DEF IntsTyped
    <3> HIDE DEF w
    <3>5. \A i \in DOMAIN ints.cells :
            WrapInto(w, OnSide(side, op, ints.cells[i], v)) \in IntRange(w) \cup {Missing}
      BY <3>2, <3>4, WrapKeeps, OnSideIs
    <3> QED BY <3>3, <3>5 DEF Rows
  <2> QED BY <2>2, <2>3, <2>4
<1> QED BY <1>1, <1>2, <1>3

LEMMA NextIntsIInv == IntsIInv /\ [IntsNext]_intVars => IntsIInv'
<1> SUFFICES ASSUME IntsIInv, [IntsNext]_intVars PROVE IntsIInv'
  OBVIOUS
<1>1. CASE UNCHANGED intVars
  BY <1>1 DEF intVars, IntsIInv, IntsTyped, IntegersFit, OnSide
<1>2. CASE IntsNext
  <2>1. PICK op \in IntOps, side \in {"left", "right"}, v \in Int : ApplyInteger(op, v, side)
    <3>1. Lowest(Int64) \in Int /\ Half[LitBits] \in Int
      <4>1. Int64 \in IntTypes
        BY WidestHolds DEF IntsIInv, IntsTyped
      <4> QED BY <4>1, RangeIs, BitsAreWidths
    <3>2. Lowest(Int64) - 1 .. 2 * Half[LitBits] \subseteq Int
      BY <3>1
    <3> QED BY <1>2, <3>2, Zenon DEF IntsNext
  <2>2. /\ ints' = ints
        /\ applied'.op = op /\ applied'.value = v /\ applied'.side = side
    BY <2>1 DEF ApplyInteger
  <2>3. IntsTyped /\ IntsTyped'
    BY <2>2 DEF IntsIInv, IntsTyped
  <2>4. IntegersFit'
    <3>1. IntegerClass(ints.dtype, v) = "wide-integer" => IsWide(ints.dtype, v)
      BY <2>3, ClassIs DEF IntsTyped
    <3>2. CASE IntegerClass(ints.dtype, v) # "wide-integer"
      BY <2>2, <3>2 DEF IntegersFit
    <3>3. CASE IntegerClass(ints.dtype, v) = "wide-integer"
      <4> DEFINE w == Widened(ints.dtype, v)
                 exact == [i \in DOMAIN ints.cells |-> OnSide(side, op, ints.cells[i], v)]
      <4>1. answer' = IF \E i \in DOMAIN exact : exact[i] \notin IntRange(w) \cup {Missing}
                      THEN TooBig(w) ELSE Given("series", w, exact)
        BY <2>1, <2>3, <3>1, <3>3, WideAnswer
      <4>2. Widened(ints.dtype, applied.value)' = w
        BY <2>2
      <4>3. [i \in DOMAIN ints.cells |-> OnSide(applied.side, applied.op, ints.cells[i], applied.value)]' = exact
        BY <2>2
      <4> HIDE DEF w, exact
      <4> QED BY <4>1, <4>2, <4>3 DEF IntegersFit
    <3> QED BY <3>2, <3>3
  <2> QED BY <2>1, <2>2, <2>3, <2>4, AnswersAreTyped DEF IntsIInv
<1> QED BY <1>1, <1>2

LEMMA IntsSpecKeepsIntsIInv == IntsSpec => []IntsIInv
<1> QED BY InitIntsIInv, NextIntsIInv, PTL DEF IntsSpec

\* The type invariant of the module's state.
THEOREM IntegersAreTyped == IntsSpec => []IntsTypeOK
<1>1. IntsIInv => IntsTypeOK
  BY DEF IntsIInv, IntsTyped, IntsTypeOK, ToSet
<1> QED BY <1>1, IntsSpecKeepsIntsIInv, PTL

\* Whatever the widths of the integers, each at least twice as wide as the one
\* before, and whatever the series: beside an integer past its dtype it is
\* answered with the exact rows, or refused when one does not fit.
THEOREM IntegersFitTheirDType == IntsSpec => []IntegersFit
<1>1. IntsIInv => IntegersFit
  BY DEF IntsIInv
<1> QED BY <1>1, IntsSpecKeepsIntsIInv, PTL

-----------------------------------------------------------------------------
(* Reductions.                                                             *)

\* A property of 0 that each number hands to the next holds of all.
LEMMA InductionOnSet ==
  ASSUME NEW T, 0 \in T, \A n \in Nat : n \in T => n + 1 \in T
  PROVE  \A n \in Nat : n \in T
<1> DEFINE Out == Nat \ T
<1> SUFFICES ASSUME Out # {} PROVE FALSE
  OBVIOUS
<1>1. PICK n \in Out : \A m \in Out : n <= m
  <2>1. Out \subseteq Nat
    OBVIOUS
  <2> HIDE DEF Out
  <2> QED BY <2>1, LeastNat
<1>2. n # 0 /\ n \in Nat /\ n - 1 \in Nat /\ n - 1 < n
  BY <1>1
<1>3. n - 1 \in T
  BY <1>1, <1>2
<1>4. (n - 1) + 1 \in T
  BY <1>2, <1>3
<1> QED BY <1>1, <1>2, <1>4

\* The sum of a sequence of integers is one.
LEMMA SumsExist ==
  ASSUME NEW n \in Nat, NEW f \in [1 .. n -> Int]
  PROVE  \E g \in [0 .. n -> Int] : g = [i \in 0 .. n |-> IF i = 0 THEN 0 ELSE g[i - 1] + f[i]]
<1> DEFINE SumUpTo(g, k) == g[0] = 0 /\ \A i \in 1 .. k : g[i] = g[i - 1] + f[i]
           T == {k \in Nat : k <= n => \E g \in [0 .. k -> Int] : SumUpTo(g, k)}
<1>1. 0 \in T
  <2>1. [i \in 0 .. 0 |-> 0] \in [0 .. 0 -> Int] /\ SumUpTo([i \in 0 .. 0 |-> 0], 0)
    OBVIOUS
  <2> QED BY <2>1
<1>2. ASSUME NEW k \in Nat, k \in T PROVE k + 1 \in T
  <2>1. SUFFICES ASSUME k + 1 <= n PROVE \E g \in [0 .. k + 1 -> Int] : SumUpTo(g, k + 1)
    OBVIOUS
  <2>2. PICK g \in [0 .. k -> Int] : SumUpTo(g, k)
    BY <1>2, <2>1
  <2> DEFINE h == [i \in 0 .. k + 1 |-> IF i = k + 1 THEN g[k] + f[k + 1] ELSE g[i]]
  <2>3. h \in [0 .. k + 1 -> Int]
    BY <2>1, <2>2
  <2>4. SumUpTo(h, k + 1)
    BY <2>1, <2>2
  <2> QED BY <2>3, <2>4
<1> HIDE DEF T
<1>3. n \in T
  BY <1>1, <1>2, InductionOnSet
<1>4. PICK g \in [0 .. n -> Int] : SumUpTo(g, n)
  BY <1>3 DEF T
<1>5. g = [i \in 0 .. n |-> IF i = 0 THEN 0 ELSE g[i - 1] + f[i]]
  BY <1>4
<1> QED BY <1>5

LEMMA SumIsInt ==
  ASSUME NEW n \in Nat, NEW f \in [1 .. n -> Int]
  PROVE  SumOf(f) \in Int
<1> DEFINE Sums(g) == g = [i \in 0 .. n |-> IF i = 0 THEN 0 ELSE g[i - 1] + f[i]]
           T(g) == {k \in Nat : k <= n => g[k] \in Int}
<1>1. Len(f) = n
  <2>1. f \in Seq(Int)
    OBVIOUS
  <2> QED OBVIOUS
<1>2. \E g : Sums(g)
  BY SumsExist
<1>3. ASSUME NEW g, Sums(g) PROVE g[n] \in Int
  <2> DEFINE S == T(g)
  <2>1. 0 \in S
    BY <1>3
  <2>2. \A k \in Nat : k \in S => k + 1 \in S
    BY <1>3
  <2> HIDE DEF S
  <2>3. n \in S
    BY <2>1, <2>2, InductionOnSet
  <2> QED BY <2>3 DEF S
<1>4. SumOf(f) = (CHOOSE g : Sums(g))[n]
  BY <1>1 DEF SumOf
<1> HIDE DEF Sums
<1> QED BY <1>2, <1>3, <1>4

\* A series: its cells are numbers and nulls.
CellsOk(cells) == \E n \in Nat : cells \in [1 .. n -> Int \cup {Null}]

LEMMA PresentIs ==
  ASSUME NEW cells, CellsOk(cells)
  PROVE  /\ IsFiniteSet(Present(cells)) /\ Cardinality(Present(cells)) \in Nat
         /\ Cardinality(Present(cells)) = 0 <=> Present(cells) = {}
         /\ PresentCells(cells) \subseteq Int
<1>1. PICK n \in Nat : cells \in [1 .. n -> Int \cup {Null}]
  BY DEF CellsOk
<1>2. IsFiniteSet(1 .. n)
  BY FS_Interval
<1>3. Present(cells) \in SUBSET (1 .. n)
  BY <1>1 DEF Present
<1>4. IsFiniteSet(Present(cells))
  BY <1>2, <1>3, FS_Subset
<1>5. PresentCells(cells) \subseteq Int
  BY <1>1 DEF Present, PresentCells
<1> QED BY <1>4, <1>5, FS_CardinalityType, FS_EmptySet

\* Of finitely many numbers one is the least and one the greatest.
LEMMA FiniteHaveExtremes ==
  ASSUME NEW n \in Nat, NEW f \in [1 .. n -> Int], NEW P \in SUBSET (1 .. n), P # {}
  PROVE  /\ \E i \in P : \A j \in P : f[i] <= f[j]
         /\ \E i \in P : \A j \in P : f[j] <= f[i]
<1> DEFINE Low(k) == \E low \in Int : \A j \in 1 .. k : low <= f[j] /\ f[j] <= -low
           T == {k \in Nat : k <= n => Low(k)}
<1>1. 0 \in T
  BY 0 \in Int
<1>2. ASSUME NEW k \in Nat, k \in T PROVE k + 1 \in T
  <2>1. SUFFICES ASSUME k + 1 <= n PROVE Low(k + 1)
    OBVIOUS
  <2>2. PICK low \in Int : \A j \in 1 .. k : low <= f[j] /\ f[j] <= -low
    BY <1>2, <2>1
  <2>3. PICK x \in Int : x = f[k + 1]
    BY <2>1
  <2>4. PICK l \in Int : l <= low /\ l <= x /\ l <= -x
    <3>1. CASE low <= x /\ low <= -x
      BY <3>1
    <3>2. CASE x <= low /\ x <= -x
      BY <3>2
    <3>3. CASE -x <= low /\ -x <= x
      BY <3>3
    <3> QED BY <3>1, <3>2, <3>3
  <2>5. \A j \in 1 .. k + 1 : l <= f[j] /\ f[j] <= -l
    <3>1. ASSUME NEW j \in 1 .. k PROVE l <= f[j] /\ f[j] <= -l
      <4>1. f[j] \in Int /\ low <= f[j] /\ f[j] <= -low
        BY <2>1, <2>2
      <4> QED BY <2>4, <4>1
    <3>2. l <= f[k + 1] /\ f[k + 1] <= -l
      BY <2>3, <2>4
    <3> QED BY <3>1, <3>2
  <2> QED BY <2>5
<1> HIDE DEF T
<1>3. n \in T
  BY <1>1, <1>2, InductionOnSet
<1>4. PICK low \in Int : \A j \in 1 .. n : low <= f[j] /\ f[j] <= -low
  BY <1>3 DEF T
<1> DEFINE V == {f[i] : i \in P}
<1>5. V \subseteq Int /\ V # {} /\ \A x \in V : low <= x /\ x <= -low
  <2>1. PICK i \in P : TRUE
    OBVIOUS
  <2>2. f[i] \in V
    OBVIOUS
  <2> QED BY <1>4, <2>2
<1>6. -low \in Int
  OBVIOUS
<1> HIDE DEF V
<1>7. (\E x \in V : \A y \in V : x <= y) /\ (\E x \in V : \A y \in V : y <= x)
  BY <1>4, <1>5, <1>6, LeastInt, GreatestInt
<1> QED BY <1>7 DEF V

LEMMA ExtremesAreInts ==
  ASSUME NEW cells, CellsOk(cells), Present(cells) # {}
  PROVE  Min(PresentCells(cells)) \in Int /\ Max(PresentCells(cells)) \in Int
<1>1. PICK n \in Nat : cells \in [1 .. n -> Int \cup {Null}]
  BY DEF CellsOk
<1> DEFINE f == [i \in 1 .. n |-> IF cells[i] = Null THEN 0 ELSE cells[i]]
           P == Present(cells)
<1>2. f \in [1 .. n -> Int] /\ P \in SUBSET (1 .. n) /\ P # {} /\ \A i \in P : f[i] = cells[i]
  BY <1>1 DEF Present
<1> HIDE DEF f, P
<1>3. /\ \E i \in P : \A j \in P : f[i] <= f[j]
      /\ \E i \in P : \A j \in P : f[j] <= f[i]
  BY <1>2, FiniteHaveExtremes
<1>4. PresentCells(cells) = {f[i] : i \in P} /\ PresentCells(cells) \subseteq Int
  <2>1. PresentCells(cells) = {cells[i] : i \in P}
    BY DEF PresentCells, P
  <2> QED BY <1>2, <2>1, PresentIs
<1>5. \E x \in PresentCells(cells) : \A y \in PresentCells(cells) : x <= y
  BY <1>3, <1>4
<1>6. \E x \in PresentCells(cells) : \A y \in PresentCells(cells) : x >= y
  BY <1>3, <1>4
<1>7. Min(PresentCells(cells)) \in PresentCells(cells)
  BY <1>5 DEF Min
<1>8. Max(PresentCells(cells)) \in PresentCells(cells)
  BY <1>6 DEF Max
<1> QED BY <1>4, <1>7, <1>8

\* The totals of a series are numbers, so the cell a frame answers with is no null.
LEMMA TotalsAreInts ==
  ASSUME NEW cells, CellsOk(cells)
  PROVE  Total(cells) \in Int /\ Squares(cells) \in Int
<1>1. PICK n \in Nat : cells \in [1 .. n -> Int \cup {Null}]
  BY DEF CellsOk
<1>2. [i \in DOMAIN cells |-> IF cells[i] = Null THEN 0 ELSE cells[i]] \in [1 .. n -> Int]
  BY <1>1
<1>3. [i \in DOMAIN cells |-> IF cells[i] = Null THEN 0 ELSE cells[i] * cells[i]] \in [1 .. n -> Int]
  <2>1. \A x \in Int : x * x \in Int
    OBVIOUS
  <2> QED BY <1>1, <2>1
<1> QED BY <1>2, <1>3, SumIsInt DEF Total, Squares

LEMMA WrapIsInt ==
  ASSUME NEW n \in Int, NEW half \in Nat \ {0}
  PROVE  Wrap(n, half) \in Int
<1>1. n + half \in Int /\ 2 * half \in Nat \ {0}
  OBVIOUS
<1>2. (n + half) % (2 * half) \in Int
  BY <1>1, Quotient
<1> QED BY <1>2 DEF Wrap

LEMMA InWidthIsInt ==
  ASSUME NEW n \in Int, NEW tag
  PROVE  InWidth(n, tag) \in Int
<1>1. Wrap(n, SmallHalf) \in Int /\ Wrap(n, WideHalf) \in Int
  BY WrapIsInt, NumbersAssumption
<1> QED BY <1>1 DEF InWidth

LEMMA ValueFields ==
  ASSUME NEW n, NEW of, NEW tag
  PROVE  /\ Value(n, of, tag).is = "value" /\ Value(n, of, tag).n = n
         /\ Value(n, of, tag).of = of /\ Value(n, of, tag).dtype = tag
         /\ PolarsNull.is = "null" /\ Error.is = "error"
         /\ PolarsNull.dtype = "null" /\ Error.dtype = "null"
         /\ Value(n, of, tag) # PolarsNull /\ Value(n, of, tag) # Error /\ PolarsNull # Error
<1>1. /\ Value(n, of, tag).is = "value" /\ Value(n, of, tag).n = n
      /\ Value(n, of, tag).of = of /\ Value(n, of, tag).dtype = tag
  BY DEF Value
<1>2. /\ PolarsNull.is = "null" /\ Error.is = "error"
      /\ PolarsNull.dtype = "null" /\ Error.dtype = "null"
  BY DEF PolarsNull, Error
<1> QED BY <1>1, <1>2

\* A reduction gives a number in its dtype, or polars' null.
LEMMA ReducedIs ==
  ASSUME NEW cells, CellsOk(cells), NEW op \in Ops, NEW ddof, NEW tag
  PROVE  \/ Reduced(op, ddof, cells, tag) = PolarsNull
         \/ \E n \in Int : \E of : Reduced(op, ddof, cells, tag) = Value(n, of, tag)
<1> DEFINE n == Cardinality(Present(cells))
           r == Reduced(op, ddof, cells, tag)
<1>1. CASE NoAnswer(op, ddof, n)
  BY <1>1 DEF Reduced
<1>2. CASE ~NoAnswer(op, ddof, n)
  <2>1. n \in Nat /\ Total(cells) \in Int /\ Squares(cells) \in Int
    BY PresentIs, TotalsAreInts
  <2>2. CASE op = "sum"
    <3>1. r = Value(InWidth(Total(cells), tag), 1, tag)
      BY <1>2, <2>2 DEF Reduced
    <3> QED BY <2>1, <3>1, InWidthIsInt
  <2>3. CASE op = "mean"
    <3>1. r = Value(Total(cells), n, tag)
      BY <1>2, <2>3 DEF Reduced
    <3> QED BY <2>1, <3>1
  <2>4. CASE op \in {"min", "max"}
    <3>1. Present(cells) # {}
      BY <1>2, <2>4, PresentIs DEF NoAnswer
    <3>2. \/ r = Value(Min(PresentCells(cells)), 1, tag)
          \/ r = Value(Max(PresentCells(cells)), 1, tag)
      BY <1>2, <2>4 DEF Reduced
    <3> QED BY <3>1, <3>2, ExtremesAreInts
  <2>5. CASE op \in {"std", "var"}
    <3>1. r = Value(Spread(cells), n * (n - ddof), tag)
      BY <1>2, <2>5 DEF Reduced
    <3>2. Spread(cells) \in Int
      <4>1. \A a, b, c \in Int : a * b - c * c \in Int
        OBVIOUS
      <4> QED BY <2>1, <4>1 DEF Spread
    <3> QED BY <3>1, <3>2
  <2> QED BY <2>2, <2>3, <2>4, <2>5 DEF Ops
<1> QED BY <1>1, <1>2

\* An answer goes through an optional unchanged, and a failure is heard as one.
LEMMA HeardIs ==
  ASSUME NEW tag, NEW a, a = PolarsNull \/ \E n \in Int : \E of : a = Value(n, of, tag),
         NEW fails \in BOOLEAN
  PROVE  Heard(ScalarResult(fails, FromOption(a))) = IF fails THEN Error ELSE a
<1>1. OptFailed.valid = -1 /\ OptNone.valid = 0
  BY DEF OptFailed, OptNone, Opt
<1>2. Heard(OptFailed) = Error /\ Heard(OptNone) = PolarsNull
  BY <1>1 DEF Heard
<1>3. CASE a = PolarsNull
  BY <1>2, <1>3, ValueFields DEF ScalarResult, FromOption
<1>4. CASE \E n \in Int : \E of : a = Value(n, of, tag)
  <2>1. a.is = "value"
    BY <1>4, ValueFields
  <2>2. Opt(1, a).valid = 1 /\ Opt(1, a).value = a
    BY DEF Opt
  <2>3. Heard(Opt(1, a)) = a
    BY <2>2 DEF Heard
  <2> QED BY <1>2, <2>1, <2>3 DEF ScalarResult, FromOption
<1> QED BY <1>3, <1>4

\* One cell, read back.
LEMMA CellIs ==
  ASSUME NEW tag, NEW n \in Int
  PROVE  /\ SeriesValue([kind |-> tag, cells |-> <<Null>>], 0) = PolarsNull
         /\ SeriesValue([kind |-> tag, cells |-> <<n>>], 0) = Value(n, 1, tag)
<1>1. n # Null
  BY NumbersAssumption
<1>2. \A c : Len(<<c>>) = 1 /\ <<c>>[0 + 1] = c /\ DOMAIN <<c>> = {1}
  OBVIOUS
<1>3. RefIsNull([kind |-> tag, cells |-> <<Null>>], 0) = 1
  BY <1>2 DEF RefIsNull
<1>4. RefIsNull([kind |-> tag, cells |-> <<n>>], 0) = 0
  BY <1>1, <1>2 DEF RefIsNull
<1>5. RefTyped([kind |-> tag, cells |-> <<n>>], tag, 0) = Opt(1, Value(n, 1, tag))
  BY <1>1, <1>2, ValueFields DEF RefTyped, FromOption
<1>6. Opt(1, Value(n, 1, tag)).valid = 1 /\ Opt(1, Value(n, 1, tag)).value = Value(n, 1, tag)
  BY DEF Opt
<1>7. SeriesValue([kind |-> tag, cells |-> <<Null>>], 0) = PolarsNull
  BY <1>3 DEF SeriesValue
<1>8. SeriesValue([kind |-> tag, cells |-> <<n>>], 0) = Value(n, 1, tag)
  BY <1>4, <1>5, <1>6 DEF SeriesValue
<1> QED BY <1>7, <1>8

LEMMA ViaExprIs ==
  ASSUME NEW op \in Ops, NEW ddof, NEW s, NEW fails \in BOOLEAN, CellsOk(s.cells)
  PROVE  ViaExpr(op, ddof, s, fails) = IF fails THEN Error ELSE ColumnAggregate(op, ddof, s.kind, s.cells)
<1> DEFINE a == ColumnAggregate(op, ddof, s.kind, s.cells)
           tag == AggregateDType(op, s.kind)
<1>1. \/ a = Error \/ a = PolarsNull
      \/ \E n \in Int : \E of : a = Value(n, of, tag)
  <2>1. a = Error \/ a = PolarsNull \/ a = Reduced(op, ddof, s.cells, tag)
    BY DEF ColumnAggregate, AnswerIn
  <2> HIDE DEF tag
  <2> QED BY <2>1, ReducedIs
<1>2. CASE fails
  BY <1>2 DEF ViaExpr
<1>3. CASE ~fails /\ a = Error
  BY <1>3, ValueFields DEF ViaExpr
<1>4. CASE ~fails /\ a = PolarsNull
  <2>1. a.is = "null"
    BY <1>4, ValueFields
  <2>2. ViaExpr(op, ddof, s, fails) = SeriesValue([kind |-> tag, cells |-> <<Null>>], 0)
    BY <1>4, <2>1 DEF ViaExpr
  <2> QED BY <1>4, <2>2, CellIs, 0 \in Int
<1>5. ASSUME ~fails, NEW n \in Int, NEW of, a = Value(n, of, tag)
      PROVE  ViaExpr(op, ddof, s, fails) = a
  <2>1. a.is = "value" /\ a.n = n /\ a.of = of
    BY <1>5, ValueFields
  <2>2. ViaExpr(op, ddof, s, fails) = [SeriesValue([kind |-> tag, cells |-> <<a.n>>], 0) EXCEPT !.of = a.of]
    BY <1>5, <2>1 DEF ViaExpr
  <2> HIDE DEF tag, a
  <2>3. SeriesValue([kind |-> tag, cells |-> <<a.n>>], 0) = Value(n, 1, tag)
    BY <2>1, CellIs
  <2>4. [Value(n, 1, tag) EXCEPT !.of = of] = Value(n, of, tag)
    BY DEF Value
  <2> QED BY <1>5, <2>1, <2>2, <2>3, <2>4
<1> HIDE DEF tag
<1> QED BY <1>1, <1>2, <1>3, <1>4, <1>5

\* A typed entry point reduces as the column does, in the dtypes it is used for.
LEMMA DDofIsOfSpreads ==
  ASSUME NEW op \in {"sum", "mean", "min", "max"}, NEW ddof, NEW cells, NEW tag
  PROVE  Reduced(op, 0, cells, tag) = Reduced(op, ddof, cells, tag)
BY DEF Reduced, NoAnswer

\* Each route gives what Python tells.
LEMMA ReduceAgrees ==
  ASSUME NEW s, s.kind \in Kinds, CellsOk(s.cells), NEW op \in Ops, NEW ddof, NEW fails \in BOOLEAN
  PROVE  ReduceSeries(op, ddof, s, fails) =
           IF fails /\ Route(op, s.kind) # "null" THEN Error
           ELSE PythonTells(op, ddof, s.kind, s.cells)
<1> DEFINE route == Route(op, s.kind)
           whole == PythonTells(op, ddof, s.kind, s.cells)
<1>1. CASE route = "native"
  <2> DEFINE tag == IF op = "mean" THEN "float64" ELSE s.kind
  <2>1. op \in {"sum", "mean", "min", "max"} /\ s.kind \in Numeric /\ ~(op = "sum" /\ s.kind = "small")
    BY <1>1 DEF Route, Numeric
  <2>2. PythonDType(op, s.kind) = tag
    BY <2>1 DEF PythonDType, AggregateDType, Numeric, Floats
  <2>3. whole = Reduced(op, ddof, s.cells, PythonDType(op, s.kind))
    BY <2>1 DEF PythonTells, AnswerIn, Numeric, Floats
  <2>4. ReduceSeries(op, ddof, s, fails) = Heard(ScalarResult(fails, FromOption(Reduced(op, 0, s.cells, tag))))
    BY <1>1 DEF ReduceSeries, TypedReduction
  <2> HIDE DEF tag, whole
  <2>5. whole = Reduced(op, 0, s.cells, tag)
    BY <2>1, <2>2, <2>3, DDofIsOfSpreads
  <2>6. whole = PolarsNull \/ \E n \in Int : \E of : whole = Value(n, of, tag)
    BY <2>5, ReducedIs
  <2> QED BY <1>1, <2>4, <2>5, <2>6, HeardIs DEF whole
<1>2. CASE route \in {"dispersion", "float64"}
  <2>1. op \in {"std", "var"} /\ s.kind \in {"small", "integer", "float64", "boolean"}
    BY <1>2 DEF Route, Numeric, Floats
  <2>2. PythonDType(op, s.kind) = "float64"
    BY <2>1 DEF PythonDType, AggregateDType
  <2>3. whole = Reduced(op, ddof, s.cells, "float64")
    BY <2>1, <2>2 DEF PythonTells, AnswerIn
  <2>4. ReduceSeries(op, ddof, s, fails)
          = Heard(ScalarResult(fails, FromOption(Reduced(op, ddof, s.cells, "float64"))))
    <3>1. CASE route = "dispersion"
      BY <3>1 DEF ReduceSeries, Dispersion
    <3>2. CASE route = "float64"
      <4>1. [s EXCEPT !.kind = "float64"].cells = s.cells
        OBVIOUS
      <4> QED BY <3>2, <4>1 DEF ReduceSeries, Dispersion
    <3> QED BY <1>2, <3>1, <3>2
  <2> HIDE DEF whole
  <2>5. whole = PolarsNull \/ \E n \in Int : \E of : whole = Value(n, of, "float64")
    BY <2>3, ReducedIs
  <2> QED BY <1>2, <2>3, <2>4, <2>5, HeardIs DEF whole
<1>3. CASE route = "expr"
  <2>1. ~(op = "mean" /\ s.kind = "float32")
    BY <1>3 DEF Route, Numeric, Floats
  <2>2. whole = ColumnAggregate(op, ddof, s.kind, s.cells)
    BY <2>1 DEF PythonTells, ColumnAggregate, PythonDType
  <2> QED BY <1>3, <2>2, ViaExprIs DEF ReduceSeries
<1>4. CASE route = "null"
  <2>1. op = "mean" /\ s.kind = "string"
    BY <1>4 DEF Route
  <2>2. whole = PolarsNull
    BY <2>1 DEF PythonTells, AnswerIn
  <2> QED BY <1>4, <2>2 DEF ReduceSeries
<1>5. CASE route \notin {"native", "dispersion", "float64", "expr", "null"}
  <2>1. \/ op \in {"sum", "std", "var"} /\ s.kind \in {"string", "date", "datetime"}
        \/ op = "var" /\ s.kind = "duration"
    BY <1>5 DEF Route, Ops, Kinds, Numeric, Floats
  <2>2. whole = Error
    BY <2>1 DEF PythonTells, AnswerIn
  <2> QED BY <1>5, <2>2 DEF ReduceSeries
<1> QED BY <1>1, <1>2, <1>3, <1>4, <1>5

\* An answer has a dtype of a series.
LEMMA DTypesAreKinds ==
  ASSUME NEW op \in Ops, NEW tag \in Kinds
  PROVE  PythonDType(op, tag) \in Kinds
BY DEF PythonDType, AggregateDType, Kinds, Numeric, Floats

\* The state is typed, and what was told last is what Python tells.
ReductionsIInv ==
  /\ series.kind \in Kinds /\ series.cells \in SeqOf(Cells(series.kind), MaxRows)
  /\ reduction.op \in Ops \cup {"none", "n-unique"} /\ reduction.ddof \in 0 .. 2
  /\ told.is \in {"value", "null", "error"} /\ told.dtype \in Kinds
  /\ failed \in BOOLEAN
  /\ ReductionsAgree

LEMMA SeriesIsOk ==
  ASSUME NEW tag, NEW cells \in SeqOf(Cells(tag), MaxRows)
  PROVE  CellsOk(cells)
<1>1. Cells(tag) \subseteq Int \cup {Null}
  BY NumbersAssumption DEF Cells
<1>2. PICK n \in 0 .. MaxRows : cells \in [1 .. n -> Cells(tag)]
  BY DEF SeqOf
<1> QED BY <1>1, <1>2, NumbersAssumption DEF CellsOk

LEMMA InitReductionsIInv == ReductionsInit => ReductionsIInv
<1> SUFFICES ASSUME ReductionsInit PROVE ReductionsIInv
  OBVIOUS
<1>1. PICK tag \in Kinds : \E cells \in SeqOf(Cells(tag), MaxRows) : series = [kind |-> tag, cells |-> cells]
  BY DEF ReductionsInit
<1>2. PICK cells \in SeqOf(Cells(tag), MaxRows) : series = [kind |-> tag, cells |-> cells]
  BY <1>1
<1>3. told.is = "null" /\ told.dtype = "null" /\ failed = FALSE
  BY ValueFields DEF ReductionsInit
<1>4. reduction.op = "none" /\ reduction.ddof = 0
  BY DEF ReductionsInit
<1>5. series.kind = tag /\ series.cells = cells
  BY <1>2
<1>6. reduction.op \notin Ops
  BY <1>4 DEF Ops
<1>7. series.kind \in Kinds /\ series.cells \in SeqOf(Cells(series.kind), MaxRows)
  BY <1>2, <1>5
<1>8. reduction.op \in Ops \cup {"none", "n-unique"} /\ reduction.ddof \in 0 .. 2
  BY <1>4
<1>9. told.is \in {"value", "null", "error"} /\ told.dtype \in Kinds /\ failed \in BOOLEAN
  BY <1>3 DEF Kinds
<1> QED BY <1>6, <1>7, <1>8, <1>9 DEF ReductionsIInv, ReductionsAgree

LEMMA NextReductionsIInv == ReductionsIInv /\ [ReductionsNext]_redVars => ReductionsIInv'
<1> SUFFICES ASSUME ReductionsIInv, [ReductionsNext]_redVars PROVE ReductionsIInv'
  OBVIOUS
<1>1. CASE UNCHANGED redVars
  BY <1>1 DEF redVars, ReductionsIInv, ReductionsAgree
<1>2. CASE NUnique
  <2>1. reduction'.op = "n-unique" /\ reduction'.ddof = 0 /\ failed' \in BOOLEAN /\ series' = series
    BY <1>2 DEF NUnique
  <2>2. told'.is \in {"value", "error"} /\ told'.dtype \in {"integer", "null"}
    BY <1>2, ValueFields DEF NUnique
  <2>3. told'.dtype \in Kinds
    BY <2>2 DEF Kinds, Numeric
  <2> QED BY <2>1, <2>2, <2>3 DEF ReductionsIInv, ReductionsAgree, Ops
<1>3. ASSUME NEW op \in Ops, NEW ddof \in 0 .. 2, Reduce(op, ddof)
      PROVE  ReductionsIInv'
  <2>1. /\ reduction'.op = op /\ reduction'.ddof = ddof /\ failed' \in BOOLEAN /\ series' = series
        /\ told' = ReduceSeries(op, ddof, series, failed')
    BY <1>3 DEF Reduce
  <2>2. CellsOk(series.cells)
    BY SeriesIsOk DEF ReductionsIInv
  <2>3. told' = IF failed' /\ Route(op, series.kind) # "null" THEN Error
                ELSE PythonTells(op, ddof, series.kind, series.cells)
    BY <2>1, <2>2, ReduceAgrees DEF ReductionsIInv
  <2>4. told'.is \in {"value", "null", "error"} /\ told'.dtype \in Kinds
    <3>1. PICK a : a = PythonTells(op, ddof, series.kind, series.cells)
      OBVIOUS
    <3>2. PICK tag : tag = PythonDType(op, series.kind)
      OBVIOUS
    <3>3. a = Reduced(op, ddof, series.cells, tag) \/ a = Error \/ a = PolarsNull
      BY <3>1, <3>2 DEF PythonTells, AnswerIn
    <3>4. \/ Reduced(op, ddof, series.cells, tag) = PolarsNull
          \/ \E n \in Int : \E of : Reduced(op, ddof, series.cells, tag) = Value(n, of, tag)
      BY <2>2, ReducedIs
    <3>5. tag \in Kinds /\ "null" \in Kinds
      BY <3>2, DTypesAreKinds DEF ReductionsIInv, Kinds
    <3>6. a.is \in {"value", "null", "error"} /\ a.dtype \in Kinds
      BY <3>3, <3>4, <3>5, ValueFields
    <3> QED BY <2>3, <3>1, <3>5, <3>6, ValueFields
  <2> QED BY <2>1, <2>3, <2>4 DEF ReductionsIInv, ReductionsAgree
<1> QED BY <1>1, <1>2, <1>3 DEF ReductionsNext

LEMMA ReductionsSpecKeepsReductionsIInv == ReductionsSpec => []ReductionsIInv
<1> QED BY InitReductionsIInv, NextReductionsIInv, PTL DEF ReductionsSpec

\* The type invariant of the module's state.
THEOREM ReductionsAreTyped == ReductionsSpec => []ReductionsTypeOK
<1>1. ReductionsIInv => ReductionsTypeOK
  BY DEF ReductionsIInv, ReductionsTypeOK
<1> QED BY <1>1, ReductionsSpecKeepsReductionsIInv, PTL

\* Whatever a series holds, however wide its dtype: each route tells what Python
\* polars does and in its dtype, and a call that fails is an error.
THEOREM RoutesAgree == ReductionsSpec => []ReductionsAgree
<1>1. ReductionsIInv => ReductionsAgree
  BY DEF ReductionsIInv
<1> QED BY <1>1, ReductionsSpecKeepsReductionsIInv, PTL

-----------------------------------------------------------------------------
(* StrBlocks: numbers.                                                     *)

LEMMA PairIsUnique ==
  ASSUME NEW k \in Nat, NEW a \in Int, NEW b \in 0 .. k - 1, NEW c \in Int, NEW d \in 0 .. k - 1,
         k * a + b = k * c + d
  PROVE  a = c /\ b = d
<1>1. ASSUME NEW x \in Int, NEW p \in 0 .. k - 1, NEW y \in Int, NEW q \in 0 .. k - 1,
             k * x + p = k * y + q, x < y
      PROVE  FALSE
  <2>1. k * (x + 1) <= k * y
    BY <1>1, TimesGrows
  <2>2. k * (x + 1) = k * x + k
    OBVIOUS
  <2>3. k * x \in Int /\ k * y \in Int
    OBVIOUS
  <2> QED BY <1>1, <2>1, <2>2, <2>3
<1>2. ~(a < c) /\ ~(c < a)
  BY <1>1
<1>3. a = c
  BY <1>2
<1>4. k * a \in Int
  OBVIOUS
<1> QED BY <1>3, <1>4

LEMMA LenIs ==
  ASSUME NEW k \in Nat, NEW s, s = [i \in 1 .. k |-> s[i]]
  PROVE  Len(s) = k /\ DOMAIN s = 1 .. k
<1> DEFINE S == {s[i] : i \in 1 .. k}
<1>1. s \in [1 .. k -> S]
  OBVIOUS
<1> HIDE DEF S
<1>2. s \in Seq(S)
  BY <1>1
<1> QED BY <1>1, <1>2

-----------------------------------------------------------------------------
(* StrBlocks: words.                                                       *)

\* The place of the x-th byte of a word, and back.
LEMMA PlaceIs ==
  ASSUME NEW k \in Nat \ {0}, NEW a \in Int, NEW q \in Int, NEW x \in 0 .. k - 1, a = q * k + x
  PROVE  a \div k = q /\ a % k = x
<1>1. PICK d, e : d = a \div k /\ e = a - k * d
  OBVIOUS
<1>2. d \in Int /\ e \in 0 .. k - 1 /\ a % k = e
  BY <1>1, Quotient
<1>3. k * d + e = k * q + x
  <2>1. k * d \in Int /\ q * k \in Int /\ q * k = k * q
    BY <1>2
  <2> QED BY <1>1, <1>2, <2>1
<1>4. d = q /\ e = x
  BY <1>2, <1>3, PairIsUnique
<1> QED BY <1>1, <1>2, <1>4

LEMMA DivMod ==
  ASSUME NEW a \in Nat, NEW k \in Nat \ {0}
  PROVE  a \div k \in Nat /\ a % k \in 0 .. k - 1 /\ a = k * (a \div k) + (a % k)
<1>1. PICK q, r : q = a \div k /\ r = a % k
  OBVIOUS
<1>2. q \in Int /\ a - k * q \in 0 .. k - 1 /\ r = a - k * q
  <2>1. a \in Int
    OBVIOUS
  <2>2. a \div k \in Int /\ a - k * (a \div k) \in 0 .. k - 1 /\ a % k = a - k * (a \div k)
    BY <2>1, Quotient, Zenon
  <2> QED BY <1>1, <2>2, Zenon
<1>3. q \in 0 .. a
  <2>1. a \div k \in 0 .. a
    BY QuotientBounds
  <2> QED BY <1>1, <2>1, Zenon
<1>4. k * q \in Int
  BY <1>2
<1>5. q \in Nat /\ r \in 0 .. k - 1 /\ a = k * q + r
  BY <1>2, <1>3, <1>4
<1> QED BY <1>1, <1>5, Zenon

\* The digits of a number below a place and the digit at it.
LEMMA DigitIs ==
  ASSUME NEW n \in Nat, NEW p \in Nat \ {0}, NEW b \in Nat \ {0}
  PROVE  n % (b * p) = (n % p) + p * ((n \div p) % b)
<1>1. PICK q, r : q = n \div p /\ r = n % p
  OBVIOUS
<1>2. q \in Nat /\ r \in 0 .. p - 1 /\ n = p * q + r
  <2>1. n \div p \in Nat /\ n % p \in 0 .. p - 1 /\ n = p * (n \div p) + (n % p)
    BY <1>1, DivMod, Zenon
  <2> QED BY <1>1, <2>1, Zenon
<1>3. PICK s, t : s = q \div b /\ t = q % b
  OBVIOUS
<1>4. s \in Nat /\ t \in 0 .. b - 1 /\ q = b * s + t
  <2>1. q \div b \in Nat /\ q % b \in 0 .. b - 1 /\ q = b * (q \div b) + (q % b)
    BY <1>2, <1>3, DivMod, Zenon
  <2> QED BY <1>2, <1>3, <2>1, Zenon
<1>5. PICK x : x = r + p * t
  OBVIOUS
<1>6. b * p \in Nat \ {0} /\ x \in 0 .. b * p - 1
  <2>1. p * t <= p * (b - 1) /\ p * 0 <= p * t
    BY <1>4, TimesGrows
  <2>2. p * (b - 1) = p * b - p /\ p * b = b * p /\ p * b \in Int /\ p * t \in Int
    BY <1>4
  <2>3. p * 1 <= p * b
    BY TimesGrows
  <2> QED BY <1>2, <1>5, <2>1, <2>2, <2>3
<1>7. n = s * (b * p) + x
  <2>1. p * (b * s + t) = s * (b * p) + p * t
    BY <1>4
  <2>2. p * t \in Int /\ s * (b * p) \in Int /\ p * q \in Int
    BY <1>2, <1>4
  <2> QED BY <1>2, <1>4, <1>5, <2>1, <2>2
<1>8. n % (b * p) = x
  <2>1. PICK k : k = b * p
    OBVIOUS
  <2>2. k \in Nat \ {0} /\ x \in 0 .. k - 1 /\ n = s * k + x /\ s \in Int /\ n \in Int
    BY <1>4, <1>6, <1>7, <2>1
  <2>3. n % k = x
    BY <2>2, PlaceIs
  <2> QED BY <2>1, <2>3
<1> QED BY <1>1, <1>3, <1>5, <1>8

IsPower(p, k) ==
  /\ DOMAIN p = 0 .. k /\ p[0] = 1
  /\ \A b \in 0 .. k : p[b] \in Nat \ {0}
  /\ \A b \in 1 .. k : p[b] = Base * p[b - 1]

LEMMA PowersExist ==
  ASSUME NEW k \in Nat
  PROVE  \E p : p = [b \in 0 .. k |-> IF b = 0 THEN 1 ELSE Base * p[b - 1]]
<1> DEFINE T == {l \in Nat : \E p \in [0 .. l -> Nat \ {0}] : IsPower(p, l)}
<1>1. 0 \in T
  <2>1. [b \in 0 .. 0 |-> 1] \in [0 .. 0 -> Nat \ {0}] /\ IsPower([b \in 0 .. 0 |-> 1], 0)
    BY DEF IsPower
  <2> QED BY <2>1
<1>2. ASSUME NEW l \in Nat, l \in T PROVE l + 1 \in T
  <2>1. PICK p \in [0 .. l -> Nat \ {0}] : IsPower(p, l)
    BY <1>2
  <2>2. PICK e : e = Base * p[l]
    OBVIOUS
  <2>3. e \in Nat \ {0}
    BY <2>1, <2>2 DEF Base
  <2> DEFINE h == [b \in 0 .. l + 1 |-> IF b = l + 1 THEN e ELSE p[b]]
  <2>4. h \in [0 .. l + 1 -> Nat \ {0}]
    BY <2>1, <2>3
  <2>5. h[l + 1] = e /\ DOMAIN h = 0 .. l + 1 /\ \A b \in 0 .. l : h[b] = p[b]
    OBVIOUS
  <2> HIDE DEF h
  <2>6. ASSUME NEW b \in 1 .. l + 1 PROVE h[b] = Base * h[b - 1]
    <3>1. h[b - 1] = p[b - 1]
      BY <2>5
    <3>2. CASE b = l + 1
      BY <2>2, <2>5, <3>1, <3>2
    <3>3. CASE b \in 1 .. l
      BY <2>1, <2>5, <3>1, <3>3 DEF IsPower
    <3> QED BY <3>2, <3>3
  <2>7. IsPower(h, l + 1)
    <3>1. h[0] = 1
      BY <2>1, <2>5 DEF IsPower
    <3>2. \A b \in 0 .. l + 1 : h[b] \in Nat \ {0}
      BY <2>4
    <3> QED BY <2>5, <2>6, <3>1, <3>2 DEF IsPower
  <2> QED BY <2>4, <2>7
<1> HIDE DEF T
<1>3. k \in T
  BY <1>1, <1>2, InductionOnSet
<1>4. PICK p \in [0 .. k -> Nat \ {0}] : IsPower(p, k)
  BY <1>3 DEF T
<1>5. p = [b \in 0 .. k |-> IF b = 0 THEN 1 ELSE Base * p[b - 1]]
  BY <1>4 DEF IsPower
<1> QED BY <1>5

LEMMA PowerIs == IsPower(Power, WordBytes)
<1> DEFINE Powers(p) == p = [b \in 0 .. WordBytes |-> IF b = 0 THEN 1 ELSE Base * p[b - 1]]
<1>1. WordBytes \in Nat
  BY TextsAssumption
<1>2. \E p : Powers(p)
  BY <1>1, PowersExist
<1>3. Power = CHOOSE p : Powers(p)
  BY DEF Power
<1> HIDE DEF Powers
<1>4. PICK p : p = Power
  OBVIOUS
<1>5. Powers(p)
  BY <1>2, <1>3, <1>4
<1>6. DOMAIN p = 0 .. WordBytes /\ p[0] = 1 /\ \A b \in 1 .. WordBytes : p[b] = Base * p[b - 1]
  BY <1>1, <1>5 DEF Powers
<1> DEFINE T == {b \in Nat : b <= WordBytes => p[b] \in Nat \ {0}}
<1>7. 0 \in T
  BY <1>6
<1>8. \A b \in Nat : b \in T => b + 1 \in T
  <2> SUFFICES ASSUME NEW b \in Nat, b \in T, b + 1 <= WordBytes PROVE p[b + 1] \in Nat \ {0}
    OBVIOUS
  <2>1. b + 1 \in 1 .. WordBytes /\ (b + 1) - 1 = b /\ p[b] \in Nat \ {0}
    BY <1>1
  <2>2. p[b + 1] = Base * p[b]
    BY <1>6, <2>1
  <2> QED BY <2>1, <2>2 DEF Base
<1> HIDE DEF T
<1>9. \A b \in Nat : b \in T
  BY <1>7, <1>8, InductionOnSet
<1>10. \A b \in 0 .. WordBytes : p[b] \in Nat \ {0}
  BY <1>1, <1>9 DEF T
<1> QED BY <1>4, <1>6, <1>10 DEF IsPower

\* What the bytes of a word up to each count.
IsValue(value, bytes, k) ==
  /\ value \in [0 .. k -> Nat] /\ value[0] = 0
  /\ \A b \in 1 .. k : value[b] = value[b - 1] + Power[b - 1] * bytes[b]

LEMMA ValuesExist ==
  ASSUME NEW bytes \in [1 .. WordBytes -> Nat]
  PROVE  \E v : v = [b \in 0 .. WordBytes |-> IF b = 0 THEN 0 ELSE v[b - 1] + Power[b - 1] * bytes[b]]
<1>0. WordBytes \in Nat
  BY TextsAssumption
<1> DEFINE T == {l \in Nat : l <= WordBytes => \E v : IsValue(v, bytes, l)}
<1>1. 0 \in T
  <2>1. IsValue([b \in 0 .. 0 |-> 0], bytes, 0)
    BY DEF IsValue
  <2> QED BY <2>1
<1>2. ASSUME NEW l \in Nat, l \in T PROVE l + 1 \in T
  <2>1. SUFFICES ASSUME l + 1 <= WordBytes PROVE \E v : IsValue(v, bytes, l + 1)
    OBVIOUS
  <2>2. PICK v : IsValue(v, bytes, l)
    <3>1. l <= WordBytes
      BY <1>0, <2>1
    <3> QED BY <1>2, <3>1
  <2>3. PICK p, y, e : p = Power[l] /\ y = bytes[l + 1] /\ e = v[l] + p * y
    OBVIOUS
  <2>4. p \in Nat /\ y \in Nat /\ v[l] \in Nat
    <3>1. l \in 0 .. WordBytes /\ l + 1 \in 1 .. WordBytes
      BY <1>0, <2>1
    <3>2. Power[l] \in Nat \ {0}
      BY <3>1, PowerIs DEF IsPower
    <3>3. v[l] \in Nat
      BY <2>2 DEF IsValue
    <3> QED BY <2>3, <3>1, <3>2, <3>3
  <2>5. e \in Nat
    BY <2>3, <2>4
  <2> DEFINE h == [b \in 0 .. l + 1 |-> IF b = l + 1 THEN e ELSE v[b]]
  <2>6. h[l + 1] = e /\ DOMAIN h = 0 .. l + 1 /\ \A b \in 0 .. l : h[b] = v[b]
    OBVIOUS
  <2>7. h \in [0 .. l + 1 -> Nat]
    BY <2>2, <2>5 DEF IsValue
  <2> HIDE DEF h
  <2>8. ASSUME NEW b \in 1 .. l + 1 PROVE h[b] = h[b - 1] + Power[b - 1] * bytes[b]
    <3>1. h[b - 1] = v[b - 1]
      BY <2>6
    <3>2. CASE b = l + 1
      BY <2>3, <2>6, <3>1, <3>2
    <3>3. CASE b \in 1 .. l
      BY <2>2, <2>6, <3>1, <3>3 DEF IsValue
    <3> QED BY <3>2, <3>3
  <2>9. h[0] = 0
    BY <2>2, <2>6 DEF IsValue
  <2> QED BY <2>7, <2>8, <2>9 DEF IsValue
<1> HIDE DEF T
<1>3. WordBytes \in T
  BY <1>0, <1>1, <1>2, InductionOnSet
<1>4. PICK v : IsValue(v, bytes, WordBytes)
  BY <1>0, <1>3 DEF T
<1>5. v = [b \in 0 .. WordBytes |-> IF b = 0 THEN 0 ELSE v[b - 1] + Power[b - 1] * bytes[b]]
  BY <1>4 DEF IsValue
<1> QED BY <1>5

LEMMA ValueOfIs ==
  ASSUME NEW bytes \in [1 .. WordBytes -> Nat]
  PROVE  \E v : IsValue(v, bytes, WordBytes) /\ ValueOf(bytes) = v[WordBytes]
<1> DEFINE Values(v) ==
      v = [b \in 0 .. WordBytes |-> IF b = 0 THEN 0 ELSE v[b - 1] + Power[b - 1] * bytes[b]]
<1>0. WordBytes \in Nat
  BY TextsAssumption
<1>1. \E v : Values(v)
  BY ValuesExist
<1>2. ValueOf(bytes) = (CHOOSE v : Values(v))[WordBytes]
  BY DEF ValueOf
<1> HIDE DEF Values
<1>3. PICK v : Values(v) /\ ValueOf(bytes) = v[WordBytes]
  BY <1>1, <1>2
<1>4. /\ v = [b \in 0 .. WordBytes |-> v[b]] /\ v[0] = 0
      /\ \A b \in 1 .. WordBytes : v[b] = v[b - 1] + Power[b - 1] * bytes[b]
  BY <1>0, <1>3 DEF Values
<1> DEFINE T == {b \in Nat : b <= WordBytes => v[b] \in Nat}
<1>5. 0 \in T
  BY <1>4
<1>6. \A b \in Nat : b \in T => b + 1 \in T
  <2> SUFFICES ASSUME NEW b \in Nat, b \in T, b + 1 <= WordBytes PROVE v[b + 1] \in Nat
    OBVIOUS
  <2>1. b + 1 \in 1 .. WordBytes /\ (b + 1) - 1 = b /\ v[b] \in Nat /\ b \in 0 .. WordBytes
    BY <1>0
  <2>2. PICK p, y : p = Power[b] /\ y = bytes[b + 1]
    OBVIOUS
  <2>3. p \in Nat /\ y \in Nat
    BY <2>1, <2>2, PowerIs DEF IsPower
  <2>4. v[b + 1] = v[b] + p * y
    BY <1>4, <2>1, <2>2
  <2> QED BY <2>1, <2>3, <2>4
<1> HIDE DEF T
<1>7. \A b \in Nat : b \in T
  BY <1>5, <1>6, InductionOnSet
<1>8. \A b \in 0 .. WordBytes : v[b] \in Nat
  BY <1>0, <1>7 DEF T
<1> QED BY <1>3, <1>4, <1>8 DEF IsValue

Byte == 0 .. Base - 1

\* A word of bytes is at most the largest.
LEMMA WordsAreSmall ==
  ASSUME NEW bytes \in [1 .. WordBytes -> Byte]
  PROVE  ValueOf(bytes) \in 0 .. Largest
<1>0. WordBytes \in Nat /\ bytes \in [1 .. WordBytes -> Nat]
  BY TextsAssumption DEF Byte, Base
<1>1. PICK v : IsValue(v, bytes, WordBytes) /\ ValueOf(bytes) = v[WordBytes]
  BY <1>0, ValueOfIs
<1> DEFINE T == {b \in Nat : b <= WordBytes => v[b] <= Power[b] - 1}
<1>2. 0 \in T
  BY <1>1, PowerIs DEF IsPower, IsValue
<1>3. \A b \in Nat : b \in T => b + 1 \in T
  <2> SUFFICES ASSUME NEW b \in Nat, b \in T, b + 1 <= WordBytes PROVE v[b + 1] <= Power[b + 1] - 1
    OBVIOUS
  <2>1. b + 1 \in 1 .. WordBytes /\ (b + 1) - 1 = b /\ v[b] <= Power[b] - 1 /\ b \in 0 .. WordBytes
    BY <1>0
  <2>2. PICK p, y, x : p = Power[b] /\ y = bytes[b + 1] /\ x = v[b]
    OBVIOUS
  <2>3. p \in Nat /\ y \in Byte /\ Power[b + 1] = Base * p
    BY <1>0, <2>1, <2>2, PowerIs DEF IsPower
  <2>4. v[b + 1] = x + p * y /\ x \in Nat /\ x <= p - 1
    BY <1>1, <2>1, <2>2 DEF IsValue
  <2>5. p * y <= p * 3
    BY <2>3, TimesGrows DEF Byte, Base
  <2>6. p * y \in Int
    BY <2>3 DEF Byte, Base
  <2> QED BY <2>3, <2>4, <2>5, <2>6 DEF Base
<1> HIDE DEF T
<1>4. WordBytes \in T
  BY <1>0, <1>2, <1>3, InductionOnSet
<1>5. v[WordBytes] <= Power[WordBytes] - 1
  BY <1>0, <1>4 DEF T
<1> QED BY <1>0, <1>1, <1>5, PowerIs DEF IsPower, IsValue, Largest

\* A number's bytes give it back.
LEMMA WordOfIs ==
  ASSUME NEW n \in 0 .. Largest
  PROVE  WordOf(n) \in [1 .. WordBytes -> Byte] /\ ValueOf(WordOf(n)) = n
<1>0. WordBytes \in Nat /\ n \in Nat
  BY TextsAssumption
<1> DEFINE w == WordOf(n)
<1>1. ASSUME NEW b \in 1 .. WordBytes PROVE w[b] = (n \div Power[b - 1]) % Base /\ w[b] \in Byte
  <2>1. PICK p : p = Power[b - 1]
    OBVIOUS
  <2>2. p \in Nat \ {0}
    <3>1. b - 1 \in 0 .. WordBytes
      BY <1>0
    <3> QED BY <2>1, <3>1, PowerIs DEF IsPower
  <2>3. n \div p \in Int
    BY <1>0, <2>2, Quotient
  <2>4. (n \div p) % Base \in Byte
    BY <2>3 DEF Base, Byte
  <2> QED BY <2>1, <2>4 DEF WordOf
<1>2. w \in [1 .. WordBytes -> Byte]
  BY <1>1 DEF WordOf
<1> HIDE DEF w
<1>3. w \in [1 .. WordBytes -> Nat]
  BY <1>2 DEF Byte, Base
<1>4. PICK v : IsValue(v, w, WordBytes) /\ ValueOf(w) = v[WordBytes]
  BY <1>3, ValueOfIs
<1> DEFINE T == {b \in Nat : b <= WordBytes => v[b] = n % Power[b]}
<1>5. 0 \in T
  <2>1. n % 1 = 0
    BY <1>0
  <2> QED BY <1>4, <2>1, PowerIs DEF IsPower, IsValue
<1>6. \A b \in Nat : b \in T => b + 1 \in T
  <2> SUFFICES ASSUME NEW b \in Nat, b \in T, b + 1 <= WordBytes PROVE v[b + 1] = n % Power[b + 1]
    OBVIOUS
  <2>1. b + 1 \in 1 .. WordBytes /\ (b + 1) - 1 = b /\ v[b] = n % Power[b] /\ b \in 0 .. WordBytes
    BY <1>0
  <2>2. PICK p : p = Power[b]
    OBVIOUS
  <2>3. p \in Nat \ {0} /\ Power[b + 1] = Base * p
    BY <2>1, <2>2, PowerIs DEF IsPower
  <2>4. v[b + 1] = (n % p) + p * w[b + 1]
    BY <1>4, <2>1, <2>2 DEF IsValue
  <2>5. w[b + 1] = (n \div p) % Base
    BY <1>1, <2>1, <2>2
  <2>6. n % (Base * p) = (n % p) + p * ((n \div p) % Base)
    <3>1. Base \in Nat \ {0}
      BY DEF Base
    <3> QED BY <1>0, <2>3, <3>1, DigitIs
  <2> QED BY <2>3, <2>4, <2>5, <2>6
<1> HIDE DEF T
<1>7. WordBytes \in T
  BY <1>0, <1>5, <1>6, InductionOnSet
<1>8. v[WordBytes] = n % Power[WordBytes]
  BY <1>0, <1>7 DEF T
<1>9. Power[WordBytes] \in Nat \ {0} /\ n \in 0 .. Power[WordBytes] - 1
  BY <1>0, PowerIs DEF IsPower, Largest
<1>10. n % Power[WordBytes] = n
  BY <1>9, Remainder
<1> QED BY <1>2, <1>4, <1>8, <1>10 DEF w

-----------------------------------------------------------------------------
(* StrBlocks: memory.                                                      *)

Mem(mem, l) == l \in Nat /\ mem \in [1 .. l -> Byte]
HoldsWord(mem, i, n) ==
  \A x \in 1 .. WordBytes : i * WordBytes + x \in DOMAIN mem /\ mem[i * WordBytes + x] = WordOf(n)[x]
HoldsBytes(mem, i, bytes, l) ==
  \A x \in 1 .. l : i * WordBytes + x \in DOMAIN mem /\ mem[i * WordBytes + x] = bytes[x]

\* A word that lies in memory is a word; past the memory it is some number.
LEMMA WordIsNat ==
  ASSUME NEW mem, NEW l, Mem(mem, l), NEW i \in Nat
  PROVE  /\ Word(mem, i) \in Nat
         /\ (i + 1) * WordBytes <= l => Word(mem, i) \in 0 .. Largest
<1>0. WordBytes \in Nat /\ WordBytes - 0 = WordBytes /\ l \in Nat /\ mem \in [1 .. l -> Byte]
  BY TextsAssumption DEF Mem
<1> DEFINE f == Bytes(mem, i, 0, WordBytes)
<1>1. PICK at : at = i * WordBytes
  OBVIOUS
<1>2. at \in Nat /\ (i + 1) * WordBytes = at + WordBytes
  BY <1>0, <1>1
<1>3. f = [x \in 1 .. WordBytes |-> IF at + 0 + x \in DOMAIN mem THEN mem[at + 0 + x] ELSE Outside]
  BY <1>0, <1>1 DEF Bytes
<1> HIDE DEF f
<1>4. f \in [1 .. WordBytes -> Nat]
  <2>1. ASSUME NEW x \in 1 .. WordBytes PROVE f[x] \in Nat
    BY <1>0, <1>3 DEF Outside, Base, Byte
  <2> QED BY <1>3, <2>1
<1>5. ASSUME at + WordBytes <= l PROVE f \in [1 .. WordBytes -> Byte]
  <2>1. ASSUME NEW x \in 1 .. WordBytes PROVE f[x] \in Byte
    <3>1. at + 0 + x \in 1 .. l
      BY <1>0, <1>2, <1>5
    <3> QED BY <1>0, <1>3, <3>1
  <2> QED BY <1>3, <2>1
<1>6. ValueOf(f) \in Nat
  <2>1. PICK v : IsValue(v, f, WordBytes) /\ ValueOf(f) = v[WordBytes]
    BY <1>4, ValueOfIs
  <2>2. v \in [0 .. WordBytes -> Nat]
    BY <2>1 DEF IsValue
  <2> QED BY <1>0, <2>1, <2>2
<1>7. Word(mem, i) = ValueOf(f)
  BY DEF Word, f
<1> QED BY <1>2, <1>5, <1>6, <1>7, WordsAreSmall

LEMMA HeldWord ==
  ASSUME NEW mem, NEW i \in Nat, NEW n \in 0 .. Largest, HoldsWord(mem, i, n)
  PROVE  Word(mem, i) = n
<1>0. WordBytes \in Nat /\ WordBytes - 0 = WordBytes
  BY TextsAssumption
<1>1. PICK at : at = i * WordBytes
  OBVIOUS
<1>2. at \in Nat
  BY <1>0, <1>1
<1>3. ASSUME NEW x \in 1 .. WordBytes PROVE at + 0 + x \in DOMAIN mem /\ mem[at + 0 + x] = WordOf(n)[x]
  <2>1. at + 0 + x = at + x
    BY <1>0, <1>2
  <2> QED BY <1>1, <2>1 DEF HoldsWord
<1> DEFINE f == Bytes(mem, i, 0, WordBytes)
<1>4. f = [x \in 1 .. WordBytes |-> WordOf(n)[x]]
  BY <1>0, <1>1, <1>3 DEF Bytes
<1> HIDE DEF f
<1>5. f = WordOf(n)
  BY <1>4 DEF WordOf
<1>6. ValueOf(f) = n
  BY <1>5, WordOfIs
<1> QED BY <1>6 DEF Word, f

\* A slice of the bytes that memory holds.
CutOf(bytes, a, b) == [x \in 1 .. b - a |-> bytes[a + x]]

LEMMA HeldSlice ==
  ASSUME NEW mem, NEW i \in Nat, NEW bytes, NEW l \in Nat, HoldsBytes(mem, i, bytes, l),
         NEW from \in 0 .. l, NEW to \in from .. l
  PROVE  Bytes(mem, i, from, to) = CutOf(bytes, from, to)
<1>0. WordBytes \in Nat
  BY TextsAssumption
<1>1. PICK at : at = i * WordBytes
  OBVIOUS
<1>2. at \in Nat
  BY <1>0, <1>1
<1>3. ASSUME NEW x \in 1 .. to - from
      PROVE  at + from + x \in DOMAIN mem /\ mem[at + from + x] = bytes[from + x]
  <2>1. from + x \in 1 .. l /\ at + from + x = at + (from + x)
    BY <1>2
  <2> QED BY <1>1, <2>1 DEF HoldsBytes
<1> QED BY <1>1, <1>3 DEF Bytes, CutOf

\* Two sequences one after another.
Joins(u, S, s, k, t, l) ==
  /\ u \in [1 .. k + l -> S]
  /\ \A i \in 1 .. k : u[i] = s[i]
  /\ \A i \in 1 .. l : u[k + i] = t[i]

LEMMA ConcatIs ==
  ASSUME NEW S, NEW k \in Nat, NEW l \in Nat, NEW s \in [1 .. k -> S], NEW t \in [1 .. l -> S]
  PROVE  Joins(s \o t, S, s, k, t, l)
<1>1. s \in Seq(S) /\ t \in Seq(S) /\ Len(s) = k /\ Len(t) = l
  OBVIOUS
<1>2. PICK u : u = s \o t
  OBVIOUS
<1>3. /\ u \in Seq(S) /\ Len(u) = k + l
      /\ \A i \in 1 .. k + l : u[i] = IF i <= k THEN s[i] ELSE t[i - k]
  BY <1>1, <1>2, ConcatProperties
<1>4. ASSUME NEW i \in 1 .. l PROVE u[k + i] = t[i]
  <2>1. k + i \in 1 .. k + l /\ ~(k + i <= k) /\ k + i - k = i
    OBVIOUS
  <2> QED BY <1>3, <2>1
<1>5. ASSUME NEW i \in 1 .. k PROVE u[i] = s[i]
  <2>1. i \in 1 .. k + l /\ i <= k
    OBVIOUS
  <2> QED BY <1>3, <2>1
<1>6. u \in [1 .. Len(u) -> S]
  BY <1>3, LenProperties
<1> QED BY <1>2, <1>3, <1>4, <1>5, <1>6 DEF Joins

LEMMA PaddedWordsIs ==
  ASSUME NEW l \in Nat
  PROVE  /\ PaddedWords(l) \in Nat
         /\ l <= PaddedWords(l) * WordBytes
         /\ \A m \in Nat : l <= m * WordBytes => PaddedWords(l) <= m
<1>0. WordBytes \in Nat \ {0} /\ l + WordBytes - 1 \in Nat
  BY TextsAssumption
<1>1. PICK a, p, r : a = l + WordBytes - 1 /\ p = PaddedWords(l) /\ r = a % WordBytes
  OBVIOUS
<1>2. p \in Nat /\ r \in 0 .. WordBytes - 1 /\ a = WordBytes * p + r
  <2>1. a \in Nat
    BY <1>0, <1>1
  <2>2. /\ a \div WordBytes \in Nat /\ a % WordBytes \in 0 .. WordBytes - 1
        /\ a = WordBytes * (a \div WordBytes) + (a % WordBytes)
    BY <1>0, <2>1, DivMod, Zenon
  <2>3. p = a \div WordBytes
    BY <1>1 DEF PaddedWords
  <2> QED BY <1>1, <2>2, <2>3, Zenon
<1>3. WordBytes * p = p * WordBytes /\ p * WordBytes \in Nat
  BY <1>0, <1>2
<1>4. l <= p * WordBytes
  BY <1>0, <1>1, <1>2, <1>3
<1>5. ASSUME NEW m \in Nat, l <= m * WordBytes PROVE p <= m
  <2>1. SUFFICES ASSUME m + 1 <= p PROVE FALSE
    BY <1>2
  <2>2. WordBytes * (m + 1) <= WordBytes * p
    BY <1>0, <1>2, <2>1, TimesGrows
  <2>3. WordBytes * (m + 1) = m * WordBytes + WordBytes /\ m * WordBytes \in Nat
    BY <1>0
  <2> QED BY <1>0, <1>1, <1>2, <1>3, <1>5, <2>2, <2>3
<1> QED BY <1>1, <1>2, <1>4, <1>5

LEMMA PaddedIs ==
  ASSUME NEW bytes, NEW l, Mem(bytes, l), NEW fill \in Byte
  PROVE  /\ Mem(Padded(bytes, fill), PaddedWords(l) * WordBytes)
         /\ l <= PaddedWords(l) * WordBytes
         /\ \A x \in 1 .. l : Padded(bytes, fill)[x] = bytes[x]
<1>0. WordBytes \in Nat /\ l \in Nat /\ bytes \in [1 .. l -> Byte] /\ Len(bytes) = l
  BY TextsAssumption DEF Mem
<1>1. PICK p, m : p = PaddedWords(l) * WordBytes /\ m = p - l
  OBVIOUS
<1>2. p \in Nat /\ l <= p /\ m \in Nat /\ l + m = p
  <2>1. PaddedWords(l) \in Nat /\ l <= p
    BY <1>0, <1>1, PaddedWordsIs
  <2>2. p \in Nat
    BY <1>0, <1>1, <2>1
  <2> QED BY <1>0, <1>1, <2>1, <2>2
<1> DEFINE pad == [i \in 1 .. m |-> fill]
<1>3. pad \in [1 .. m -> Byte]
  OBVIOUS
<1>4. Padded(bytes, fill) = bytes \o pad
  BY <1>0, <1>1 DEF Padded
<1> HIDE DEF pad
<1>5. bytes \o pad \in [1 .. p -> Byte] /\ \A x \in 1 .. l : (bytes \o pad)[x] = bytes[x]
  <2>1. Joins(bytes \o pad, Byte, bytes, l, pad, m)
    BY <1>0, <1>2, <1>3, ConcatIs, Zenon
  <2> QED BY <1>2, <2>1 DEF Joins
<1> QED BY <1>1, <1>2, <1>4, <1>5 DEF Mem

LEMMA NumbersAre ==
  ASSUME NEW k \in Nat, NEW ns \in [1 .. k -> 0 .. Largest]
  PROVE  /\ Mem(Numbers(ns), k * WordBytes)
         /\ \A i \in 1 .. k : HoldsWord(Numbers(ns), i - 1, ns[i])
<1>0. WordBytes \in Nat \ {0} /\ Len(ns) = k /\ k * WordBytes \in Nat
  BY TextsAssumption
<1> DEFINE m == Numbers(ns)
<1>1. PICK l : l = k * WordBytes
  OBVIOUS
<1>2. m = [at \in 1 .. l |-> WordOf(ns[((at - 1) \div WordBytes) + 1])[((at - 1) % WordBytes) + 1]]
  BY <1>0, <1>1 DEF Numbers
<1> HIDE DEF m
<1>3. ASSUME NEW q \in 0 .. k - 1, NEW x \in 1 .. WordBytes, NEW at, at = q * WordBytes + x
      PROVE  at \in 1 .. l /\ m[at] = WordOf(ns[q + 1])[x]
  <2>1. PICK y : y = q * WordBytes
    OBVIOUS
  <2>2. y \in Nat /\ y + WordBytes <= l
    <3>1. WordBytes * (q + 1) <= WordBytes * k
      BY <1>0, TimesGrows
    <3>2. WordBytes * (q + 1) = y + WordBytes /\ WordBytes * k = l
      BY <1>0, <1>1, <2>1
    <3> QED BY <1>0, <2>1, <3>1, <3>2
  <2>3. at \in 1 .. l /\ at - 1 \in Int /\ x - 1 \in 0 .. WordBytes - 1
    BY <1>0, <1>1, <1>3, <2>1, <2>2
  <2>4. at - 1 = q * WordBytes + (x - 1)
    BY <1>0, <1>3, <2>1, <2>2
  <2>5. (at - 1) \div WordBytes = q /\ (at - 1) % WordBytes = x - 1
    <3>1. q \in Int
      OBVIOUS
    <3> QED BY <1>0, <2>3, <2>4, <3>1, PlaceIs, Zenon
  <2>6. (x - 1) + 1 = x
    BY <1>0
  <2> QED BY <1>2, <2>3, <2>5, <2>6
<1>4. ASSUME NEW at \in 1 .. l PROVE m[at] \in Byte
  <2>1. PICK q, r : q = (at - 1) \div WordBytes /\ r = (at - 1) % WordBytes
    OBVIOUS
  <2>2. q \in Nat /\ r \in 0 .. WordBytes - 1 /\ at - 1 = WordBytes * q + r
    <3>1. at - 1 \in Nat
      BY <1>0, <1>1
    <3>2. /\ (at - 1) \div WordBytes \in Nat /\ (at - 1) % WordBytes \in 0 .. WordBytes - 1
          /\ at - 1 = WordBytes * ((at - 1) \div WordBytes) + ((at - 1) % WordBytes)
      BY <1>0, <3>1, DivMod, Zenon
    <3> QED BY <2>1, <3>2, Zenon
  <2>3. q \in 0 .. k - 1
    <3>1. SUFFICES ASSUME k <= q PROVE FALSE
      BY <2>2
    <3>2. WordBytes * k <= WordBytes * q
      BY <1>0, <2>2, <3>1, TimesGrows
    <3>3. WordBytes * k = l /\ l \in Nat /\ WordBytes * q \in Int
      BY <1>0, <1>1, <2>2
    <3> QED BY <2>2, <3>2, <3>3
  <2>4. r + 1 \in 1 .. WordBytes /\ q + 1 \in 1 .. k
    BY <1>0, <2>2, <2>3
  <2>5. WordOf(ns[q + 1]) \in [1 .. WordBytes -> Byte]
    BY <2>4, WordOfIs
  <2> QED BY <1>2, <2>1, <2>4, <2>5
<1>5. m \in [1 .. l -> Byte]
  BY <1>2, <1>4
<1>6. ASSUME NEW i \in 1 .. k PROVE HoldsWord(m, i - 1, ns[i])
  <2>1. PICK q : q = i - 1
    OBVIOUS
  <2>2. q \in 0 .. k - 1 /\ q + 1 = i
    BY <2>1
  <2>3. \A x \in 1 .. WordBytes : q * WordBytes + x \in DOMAIN m /\ m[q * WordBytes + x] = WordOf(ns[i])[x]
    BY <1>3, <1>5, <2>2
  <2> QED BY <2>1, <2>3 DEF HoldsWord
<1> QED BY <1>0, <1>1, <1>5, <1>6 DEF m, Mem

\* What a block is: its length, its header, and its bytes.
BlockIs(mem, words, header, h, bytes, l) ==
  /\ words = 1 + h + PaddedWords(l)
  /\ Mem(mem, words * WordBytes)
  /\ HoldsWord(mem, 0, words)
  /\ \A i \in 1 .. h : HoldsWord(mem, i, header[i])
  /\ HoldsBytes(mem, 1 + h, bytes, l)

LEMMA BlockLayout ==
  ASSUME NEW h \in Nat, NEW header \in [1 .. h -> 0 .. Largest],
         NEW bytes, NEW l, Mem(bytes, l), NEW fill \in Byte,
         NEW words, words = 1 + h + PaddedWords(l), words <= Largest
  PROVE  BlockIs(Block(header, bytes, fill), words, header, h, bytes, l)
<1>0. WordBytes \in Nat \ {0} /\ l \in Nat /\ bytes \in [1 .. l -> Byte] /\ Len(bytes) = l /\ Len(header) = h
  BY TextsAssumption DEF Mem
<1>1. PaddedWords(l) \in Nat /\ words \in 0 .. Largest
  <2>1. PaddedWords(l) \in Nat
    BY <1>0, PaddedWordsIs
  <2>2. Largest \in Int
    BY <1>0, PowerIs DEF Largest, IsPower
  <2> QED BY <2>1, <2>2
<1> DEFINE ns == <<words>> \o header
           m == Numbers(ns)
           p == Padded(bytes, fill)
<1>2. /\ ns \in [1 .. h + 1 -> 0 .. Largest] /\ ns[1] = words
      /\ \A i \in 1 .. h : ns[i + 1] = header[i]
  <2>1. <<words>> \in [1 .. 1 -> 0 .. Largest] /\ <<words>>[1] = words
    BY <1>1
  <2>2. PICK one : one = <<words>>
    OBVIOUS
  <2>3. /\ one \o header \in [1 .. 1 + h -> 0 .. Largest]
        /\ \A i \in 1 .. 1 : (one \o header)[i] = one[i]
        /\ \A i \in 1 .. h : (one \o header)[1 + i] = header[i]
    <3>1. Joins(one \o header, 0 .. Largest, one, 1, header, h)
      <4>1. 1 \in Nat
        OBVIOUS
      <4> QED BY <2>1, <2>2, <4>1, ConcatIs, Zenon
    <3> QED BY <3>1, Zenon DEF Joins
  <2>4. (one \o header)[1] = words
    BY <2>1, <2>2, <2>3
  <2>5. \A i \in 1 .. h : i + 1 = 1 + i
    OBVIOUS
  <2>6. h + 1 = 1 + h
    OBVIOUS
  <2> QED BY <2>2, <2>3, <2>4, <2>5, <2>6
<1> HIDE DEF ns
<1>3. PICK a, b : a = (h + 1) * WordBytes /\ b = PaddedWords(l) * WordBytes
  OBVIOUS
<1>4. a \in Nat /\ b \in Nat /\ words * WordBytes = a + b /\ (1 + h) * WordBytes = a /\ l <= b
  <2>1. a \in Nat /\ b \in Nat
    BY <1>0, <1>1, <1>3
  <2>2. words * WordBytes = (h + 1) * WordBytes + PaddedWords(l) * WordBytes
    BY <1>0, <1>1
  <2> QED BY <1>0, <1>3, <2>1, <2>2, PaddedWordsIs
<1>5. h + 1 \in Nat
  OBVIOUS
<1>6. m \in [1 .. a -> Byte] /\ \A i \in 1 .. h + 1 : HoldsWord(m, i - 1, ns[i])
  BY <1>2, <1>3, <1>5, NumbersAre DEF Mem
<1>7. p \in [1 .. b -> Byte] /\ \A x \in 1 .. l : p[x] = bytes[x]
  BY <1>3, PaddedIs DEF Mem
<1>8. Block(header, bytes, fill) = m \o p
  BY <1>0 DEF Block, ns
<1> HIDE DEF m, p
<1>9. PICK mem : mem = m \o p
  OBVIOUS
<1>10. /\ mem \in [1 .. a + b -> Byte]
       /\ \A i \in 1 .. a : mem[i] = m[i]
       /\ \A i \in 1 .. b : mem[a + i] = p[i]
  <2>1. Joins(m \o p, Byte, m, a, p, b)
    BY <1>4, <1>6, <1>7, ConcatIs, Zenon
  <2> QED BY <1>9, <2>1, Zenon DEF Joins
<1>11. ASSUME NEW i \in Int, NEW n, HoldsWord(m, i, n) PROVE HoldsWord(mem, i, n)
  <2>1. ASSUME NEW x \in 1 .. WordBytes
        PROVE  i * WordBytes + x \in DOMAIN mem /\ mem[i * WordBytes + x] = WordOf(n)[x]
    <3>1. PICK at : at = i * WordBytes + x
      OBVIOUS
    <3>2. at \in DOMAIN m /\ m[at] = WordOf(n)[x]
      BY <1>11, <3>1 DEF HoldsWord
    <3>3. at \in 1 .. a /\ at \in 1 .. a + b
      BY <1>4, <1>6, <3>2
    <3> QED BY <1>10, <3>1, <3>2, <3>3
  <2> QED BY <2>1 DEF HoldsWord
<1>12. HoldsWord(mem, 0, words)
  <2>1. 1 \in 1 .. h + 1 /\ 1 - 1 = 0
    OBVIOUS
  <2> QED BY <1>2, <1>6, <1>11, <2>1
<1>13. ASSUME NEW i \in 1 .. h PROVE HoldsWord(mem, i, header[i])
  <2>1. i + 1 \in 1 .. h + 1 /\ (i + 1) - 1 = i
    OBVIOUS
  <2> QED BY <1>2, <1>6, <1>11, <2>1
<1>14. HoldsBytes(mem, 1 + h, bytes, l)
  <2>1. ASSUME NEW x \in 1 .. l PROVE a + x \in DOMAIN mem /\ mem[a + x] = bytes[x]
    <3>1. x \in 1 .. b /\ a + x \in 1 .. a + b
      BY <1>0, <1>4
    <3> QED BY <1>7, <1>10, <3>1
  <2> QED BY <1>4, <2>1 DEF HoldsBytes
<1> QED BY <1>4, <1>8, <1>9, <1>10, <1>12, <1>13, <1>14 DEF BlockIs, Mem

-----------------------------------------------------------------------------
(* StrBlocks: strings one after another.                                   *)

IsText(strings, k) == k \in Nat /\ strings \in [1 .. k -> Seq(Byte)]

AreJoined(upTo, strings, k) ==
  /\ upTo \in [0 .. k -> Seq(Byte)] /\ upTo[0] = <<>>
  /\ \A i \in 1 .. k : upTo[i] = upTo[i - 1] \o strings[i]

LEMMA JoinedExist ==
  ASSUME NEW strings, NEW k, IsText(strings, k)
  PROVE  \E J : J = [i \in 0 .. k |-> IF i = 0 THEN <<>> ELSE J[i - 1] \o strings[i]]
<1>0. k \in Nat /\ strings \in [1 .. k -> Seq(Byte)]
  BY DEF IsText
<1> DEFINE T == {l \in Nat : l <= k => \E J : AreJoined(J, strings, l)}
<1>1. 0 \in T
  <2>1. AreJoined([i \in 0 .. 0 |-> <<>>], strings, 0)
    BY DEF AreJoined
  <2> QED BY <2>1
<1>2. ASSUME NEW l \in Nat, l \in T PROVE l + 1 \in T
  <2>1. SUFFICES ASSUME l + 1 <= k PROVE \E J : AreJoined(J, strings, l + 1)
    OBVIOUS
  <2>2. PICK J : AreJoined(J, strings, l)
    <3>1. l <= k
      BY <1>0, <2>1
    <3> QED BY <1>2, <3>1
  <2>3. PICK e : e = J[l] \o strings[l + 1]
    OBVIOUS
  <2>4. e \in Seq(Byte)
    <3>1. l \in 0 .. l /\ l + 1 \in 1 .. k
      BY <1>0, <2>1
    <3>2. J[l] \in Seq(Byte) /\ strings[l + 1] \in Seq(Byte)
      BY <1>0, <2>2, <3>1 DEF AreJoined
    <3> QED BY <2>3, <3>2, ConcatProperties
  <2> DEFINE h == [i \in 0 .. l + 1 |-> IF i = l + 1 THEN e ELSE J[i]]
  <2>5. h[l + 1] = e /\ DOMAIN h = 0 .. l + 1 /\ \A i \in 0 .. l : h[i] = J[i]
    OBVIOUS
  <2>6. h \in [0 .. l + 1 -> Seq(Byte)]
    <3>1. \A i \in 0 .. l + 1 : i \in 0 .. l \/ i = l + 1
      OBVIOUS
    <3>2. \A i \in 0 .. l : J[i] \in Seq(Byte)
      BY <2>2 DEF AreJoined
    <3>3. ASSUME NEW i \in 0 .. l + 1 PROVE h[i] \in Seq(Byte)
      BY <2>4, <3>1, <3>2
    <3> QED BY <3>3
  <2> HIDE DEF h
  <2>7. ASSUME NEW i \in 1 .. l + 1 PROVE h[i] = h[i - 1] \o strings[i]
    <3>1. (i = l + 1 \/ i \in 1 .. l) /\ i - 1 \in 0 .. l
      OBVIOUS
    <3>2. h[i - 1] = J[i - 1]
      BY <2>5, <3>1
    <3>3. CASE i = l + 1
      <4>1. i - 1 = l
        BY <3>3
      <4> QED BY <2>3, <2>5, <3>2, <3>3, <4>1, Zenon
    <3>4. CASE i \in 1 .. l
      <4>1. i \in 0 .. l
        BY <3>4
      <4>2. J[i] = J[i - 1] \o strings[i]
        BY <2>2, <3>4, Zenon DEF AreJoined
      <4> QED BY <2>5, <3>2, <4>1, <4>2, Zenon
    <3> QED BY <3>1, <3>3, <3>4
  <2>8. h[0] = <<>>
    BY <2>2, <2>5 DEF AreJoined
  <2> QED BY <2>6, <2>7, <2>8 DEF AreJoined
<1> HIDE DEF T
<1>3. k \in T
  BY <1>0, <1>1, <1>2, InductionOnSet
<1>4. PICK J : AreJoined(J, strings, k)
  BY <1>0, <1>3 DEF T
<1> DEFINE h == [i \in 0 .. k |-> IF i = 0 THEN <<>> ELSE J[i - 1] \o strings[i]]
<1>5. ASSUME NEW i \in 0 .. k PROVE J[i] = h[i]
  <2>1. i = 0 \/ (i \in 1 .. k /\ i # 0)
    OBVIOUS
  <2> QED BY <1>4, <2>1, Zenon DEF AreJoined
<1>6. h = [i \in 0 .. k |-> h[i]] /\ J = [i \in 0 .. k |-> J[i]]
  BY <1>4 DEF AreJoined
<1> HIDE DEF h
<1>7. J = h
  BY <1>5, <1>6
<1> QED BY <1>7 DEF h

LEMMA JoinedIs ==
  ASSUME NEW strings, NEW k, IsText(strings, k)
  PROVE  AreJoined(Joined(strings), strings, k)
<1> DEFINE Joins0(J) == J = [i \in 0 .. k |-> IF i = 0 THEN <<>> ELSE J[i - 1] \o strings[i]]
<1>0. k \in Nat /\ strings \in [1 .. k -> Seq(Byte)] /\ Len(strings) = k
  BY DEF IsText
<1>1. \E J : Joins0(J)
  BY JoinedExist
<1>2. Joined(strings) = CHOOSE J : Joins0(J)
  BY <1>0 DEF Joined
<1> HIDE DEF Joins0
<1>3. PICK J : Joins0(J) /\ Joined(strings) = J
  BY <1>1, <1>2
<1>4. /\ DOMAIN J = 0 .. k /\ J = [i \in 0 .. k |-> J[i]] /\ J[0] = <<>>
      /\ \A i \in 1 .. k : J[i] = J[i - 1] \o strings[i]
  <2>1. ASSUME NEW i \in 1 .. k PROVE J[i] = J[i - 1] \o strings[i]
    <3>1. i \in 0 .. k /\ i # 0
      OBVIOUS
    <3> QED BY <1>3, <3>1, Zenon DEF Joins0
  <2>2. DOMAIN J = 0 .. k /\ J = [i \in 0 .. k |-> J[i]]
    BY <1>3 DEF Joins0
  <2>3. J[0] = <<>>
    <3>1. 0 \in 0 .. k
      BY <1>0
    <3> QED BY <1>3, <3>1, Zenon DEF Joins0
  <2> QED BY <2>1, <2>2, <2>3
<1> DEFINE T == {i \in Nat : i <= k => J[i] \in Seq(Byte)}
<1>5. 0 \in T
  <2>1. <<>> \in Seq(Byte)
    OBVIOUS
  <2> QED BY <1>4, <2>1
<1>6. \A i \in Nat : i \in T => i + 1 \in T
  <2> SUFFICES ASSUME NEW i \in Nat, i \in T, i + 1 <= k PROVE J[i + 1] \in Seq(Byte)
    OBVIOUS
  <2>1. i + 1 \in 1 .. k /\ (i + 1) - 1 = i /\ J[i] \in Seq(Byte)
    BY <1>0
  <2>2. J[i + 1] = J[i] \o strings[i + 1] /\ strings[i + 1] \in Seq(Byte)
    BY <1>0, <1>4, <2>1
  <2> QED BY <2>1, <2>2, ConcatProperties
<1> HIDE DEF T
<1>7. \A i \in Nat : i \in T
  BY <1>5, <1>6, InductionOnSet
<1>8. \A i \in 0 .. k : J[i] \in Seq(Byte)
  BY <1>0, <1>7 DEF T
<1> QED BY <1>3, <1>4, <1>8 DEF AreJoined

\* The i-th string is a slice of what is joined.
SliceOf(all, a, b, s) == a \in Nat /\ b \in a .. Len(all) /\ s = CutOf(all, a, b)

LEMMA JoinedKeeps ==
  ASSUME NEW strings, NEW k, IsText(strings, k), NEW J, AreJoined(J, strings, k),
         NEW i \in 0 .. k, NEW j \in i .. k
  PROVE  /\ Len(J[i]) \in Nat /\ Len(J[i]) <= Len(J[j])
         /\ \A y \in 1 .. Len(J[i]) : J[j][y] = J[i][y]
<1>0. /\ k \in Nat /\ strings \in [1 .. k -> Seq(Byte)] /\ J \in [0 .. k -> Seq(Byte)]
      /\ \A l \in 1 .. k : J[l] = J[l - 1] \o strings[l]
  BY DEF IsText, AreJoined
<1> DEFINE Keeps(l) == Len(J[i]) <= Len(J[l]) /\ \A y \in 1 .. Len(J[i]) : J[l][y] = J[i][y]
           T == {d \in Nat : i + d <= k => Keeps(i + d)}
<1>1. Len(J[i]) \in Nat
  BY <1>0
<1>2. 0 \in T
  BY <1>0, <1>1
<1>3. \A d \in Nat : d \in T => d + 1 \in T
  <2> SUFFICES ASSUME NEW d \in Nat, d \in T, i + (d + 1) <= k PROVE Keeps(i + (d + 1))
    OBVIOUS
  <2>1. PICK c : c = i + (d + 1)
    OBVIOUS
  <2>2. c \in 1 .. k /\ c - 1 = i + d /\ c - 1 \in 0 .. k /\ i + d <= k
    BY <1>0, <2>1
  <2>3. Keeps(c - 1)
    BY <2>2
  <2>4. PICK s, t : s = J[c - 1] /\ t = strings[c]
    OBVIOUS
  <2>5. s \in Seq(Byte) /\ t \in Seq(Byte) /\ J[c] = s \o t
    BY <1>0, <2>2, <2>4
  <2>6. Len(s \o t) = Len(s) + Len(t) /\ \A y \in 1 .. Len(s) + Len(t) : (s \o t)[y] = IF y <= Len(s) THEN s[y] ELSE t[y - Len(s)]
    BY <2>5, ConcatProperties
  <2>7. Len(s) \in Nat /\ Len(t) \in Nat
    BY <2>5
  <2>8. Len(J[i]) <= Len(s) /\ \A y \in 1 .. Len(J[i]) : s[y] = J[i][y]
    BY <2>3, <2>4
  <2>9. Keeps(c)
    <3>1. Len(J[i]) <= Len(J[c])
      BY <1>1, <2>5, <2>6, <2>7, <2>8
    <3>2. ASSUME NEW y \in 1 .. Len(J[i]) PROVE J[c][y] = J[i][y]
      <4>1. y \in 1 .. Len(s) + Len(t) /\ y <= Len(s)
        BY <1>1, <2>7, <2>8
      <4> QED BY <2>5, <2>6, <2>8, <4>1
    <3> QED BY <3>1, <3>2
  <2> QED BY <2>1, <2>9
<1> HIDE DEF T
<1>4. \A d \in Nat : d \in T
  BY <1>2, <1>3, InductionOnSet
<1>5. j - i \in Nat /\ i + (j - i) = j /\ j <= k
  BY <1>0
<1>6. Keeps(j)
  <2>1. PICK d : d = j - i
    OBVIOUS
  <2>2. d \in Nat /\ i + d = j
    BY <1>5, <2>1
  <2>3. d \in T
    BY <1>4, <2>2
  <2> QED BY <1>5, <2>2, <2>3 DEF T
<1> QED BY <1>1, <1>6

LEMMA JoinedAt ==
  ASSUME NEW strings, NEW k, IsText(strings, k), NEW J, AreJoined(J, strings, k), NEW i \in 1 .. k
  PROVE  SliceOf(J[k], Len(J[i - 1]), Len(J[i]), strings[i])
<1>0. /\ k \in Nat /\ strings \in [1 .. k -> Seq(Byte)] /\ J \in [0 .. k -> Seq(Byte)]
      /\ \A l \in 1 .. k : J[l] = J[l - 1] \o strings[l]
  BY DEF IsText, AreJoined
<1>1. PICK s, t, a, b : s = J[i - 1] /\ t = strings[i] /\ a = Len(s) /\ b = Len(J[i])
  OBVIOUS
<1>2. i - 1 \in 0 .. k /\ i \in 0 .. k /\ k \in i .. k
  BY <1>0
<1>3. s \in Seq(Byte) /\ t \in Seq(Byte) /\ J[i] = s \o t
  BY <1>0, <1>1, <1>2
<1> DEFINE u == J[i]
<1>4. b = a + Len(t) /\ \A y \in 1 .. a + Len(t) : u[y] = IF y <= a THEN s[y] ELSE t[y - a]
  <2>1. PICK v : v = s \o t
    OBVIOUS
  <2>2. Len(v) = Len(s) + Len(t) /\ \A y \in 1 .. Len(s) + Len(t) : v[y] = IF y <= Len(s) THEN s[y] ELSE t[y - Len(s)]
    BY <1>3, <2>1, ConcatProperties
  <2>3. v = u /\ b = Len(u)
    BY <1>1, <1>3, <2>1
  <2> HIDE DEF u
  <2> QED BY <1>1, <2>2, <2>3
<1>5. a \in Nat /\ Len(t) \in Nat /\ t = [x \in 1 .. Len(t) |-> t[x]]
  <2>1. t \in [1 .. Len(t) -> Byte]
    BY <1>3, LenProperties
  <2> QED BY <1>1, <1>3, <2>1
<1>6. b <= Len(J[k]) /\ \A y \in 1 .. b : J[k][y] = J[i][y]
  BY <1>1, <1>2, JoinedKeeps
<1>7. ASSUME NEW x \in 1 .. Len(t) PROVE J[k][a + x] = t[x]
  <2>1. PICK y : y = a + x
    OBVIOUS
  <2>2. y \in 1 .. b /\ y \in 1 .. a + Len(t) /\ ~(y <= a) /\ y - a = x
    BY <1>4, <1>5, <2>1
  <2>3. J[k][y] = J[i][y]
    BY <1>6, <2>2
  <2>4. J[i][y] = t[y - a]
    BY <1>4, <2>2, Zenon
  <2> QED BY <2>1, <2>2, <2>3, <2>4
<1>8. b - a = Len(t) /\ Len(J[k]) \in Nat
  <2>1. k \in 0 .. k
    BY <1>0
  <2> QED BY <1>0, <1>4, <1>5, <2>1
<1>9. t = [x \in 1 .. b - a |-> J[k][a + x]]
  BY <1>5, <1>7, <1>8
<1>10. a \in Nat /\ b \in a .. Len(J[k])
  BY <1>4, <1>5, <1>6, <1>8
<1> QED BY <1>1, <1>9, <1>10 DEF SliceOf, CutOf

\* What is joined is a sequence of bytes.
LEMMA AllIs ==
  ASSUME NEW strings, NEW k, IsText(strings, k)
  PROVE  /\ Len(strings) = k /\ All(strings) = Joined(strings)[k]
         /\ Mem(All(strings), Len(All(strings)))
<1>1. k \in Nat /\ Len(strings) = k /\ k \in 0 .. k
  BY DEF IsText
<1>2. Joined(strings) \in [0 .. k -> Seq(Byte)]
  BY JoinedIs DEF AreJoined
<1>3. All(strings) = Joined(strings)[k] /\ All(strings) \in Seq(Byte)
  BY <1>1, <1>2 DEF All
<1> QED BY <1>1, <1>3, LenProperties DEF Mem

-----------------------------------------------------------------------------
(* StrBlocks: what is packed is read.                                      *)

PackedOne(mem, s, words) ==
  /\ mem # NullBlock /\ Mem(mem, words * WordBytes)
  /\ words \in 0 .. Largest /\ words = 2 + PaddedWords(Len(s))
  /\ Word(mem, 0) = words /\ Word(mem, 1) = Len(s)
  /\ HoldsBytes(mem, 2, s, Len(s))
PackedList(mem, strings, k, words) ==
  /\ mem # NullBlock /\ Mem(mem, words * WordBytes)
  /\ words \in 0 .. Largest /\ words = 3 + k + PaddedWords(Len(All(strings)))
  /\ Word(mem, 0) = words /\ Word(mem, 1) = k
  /\ \A i \in 1 .. k + 1 : Word(mem, 1 + i) = Len(Joined(strings)[i - 1])
  /\ HoldsBytes(mem, k + 3, All(strings), Len(All(strings)))

LEMMA LargestIs == Largest \in Nat /\ Largest >= 3
<1>1. WordBytes \in 1 .. WordBytes /\ WordBytes - 1 \in 0 .. WordBytes /\ WordBytes \in 0 .. WordBytes
  BY TextsAssumption
<1>2. Power[WordBytes] = Base * Power[WordBytes - 1] /\ Power[WordBytes - 1] \in Nat \ {0}
  BY <1>1, PowerIs DEF IsPower
<1> QED BY <1>2 DEF Largest, Base

\* A block of words is not the block of nothing.
LEMMA BlockIsSome ==
  ASSUME NEW mem, NEW words \in Nat, words >= 1, Mem(mem, words * WordBytes)
  PROVE  mem # NullBlock
<1>1. WordBytes * 1 <= WordBytes * words /\ WordBytes * words = words * WordBytes
  BY TextsAssumption, TimesGrows
<1>2. words * WordBytes >= 1
  BY <1>1, TextsAssumption
<1>3. 1 \in DOMAIN mem
  BY <1>2 DEF Mem
<1> QED BY <1>3 DEF NullBlock

LEMMA HeaderWord ==
  ASSUME NEW mem, NEW words, NEW header, NEW h, NEW bytes, NEW l,
         BlockIs(mem, words, header, h, bytes, l), NEW i \in 1 .. h, header[i] \in 0 .. Largest, h \in Nat
  PROVE  Word(mem, i) = header[i]
<1>1. HoldsWord(mem, i, header[i]) /\ i \in Nat
  BY DEF BlockIs
<1>2. PICK n : n = header[i]
  OBVIOUS
<1> QED BY <1>1, <1>2, HeldWord

LEMMA PackOneIs ==
  ASSUME NEW s, Mem(s, Len(s)), Len(s) <= Largest, 2 + PaddedWords(Len(s)) <= Largest, NEW fill \in Byte
  PROVE  PackedOne(PackOne(s, fill), s, 2 + PaddedWords(Len(s)))
<1>1. PICK l, words, mem : l = Len(s) /\ words = 2 + PaddedWords(l) /\ mem = PackOne(s, fill)
  OBVIOUS
<1>2. l \in 0 .. Largest /\ PaddedWords(l) \in Nat /\ words \in 0 .. Largest
  <2>1. l \in Nat
    BY <1>1 DEF Mem
  <2>2. PaddedWords(l) \in Nat
    BY <2>1, PaddedWordsIs
  <2>3. l <= Largest /\ 2 + PaddedWords(l) <= Largest
    BY <1>1
  <2> QED BY <1>1, <2>1, <2>2, <2>3, LargestIs
<1>3. PICK header : header = <<l>>
  OBVIOUS
<1>4. header \in [1 .. 1 -> 0 .. Largest] /\ header[1] = l /\ 1 \in Nat
  BY <1>2, <1>3
<1>5. words = 1 + 1 + PaddedWords(l) /\ words <= Largest /\ Mem(s, l)
  BY <1>1, <1>2
<1>6. BlockIs(Block(header, s, fill), words, header, 1, s, l)
  BY <1>4, <1>5, BlockLayout, Zenon
<1>7. BlockIs(mem, words, header, 1, s, l)
  BY <1>1, <1>3, <1>6 DEF PackOne
<1>8. HoldsWord(mem, 0, words) /\ Mem(mem, words * WordBytes) /\ HoldsBytes(mem, 2, s, l)
  <2>1. 1 + 1 = 2
    OBVIOUS
  <2> QED BY <1>7, <2>1 DEF BlockIs
<1>9. Word(mem, 0) = words
  <2>1. 0 \in Nat
    OBVIOUS
  <2> QED BY <1>2, <1>8, <2>1, HeldWord
<1>10. Word(mem, 1) = l
  <2>1. 1 \in 1 .. 1
    OBVIOUS
  <2> QED BY <1>2, <1>4, <1>7, <2>1, HeaderWord
<1>11. mem # NullBlock
  BY <1>1, <1>2, <1>8, BlockIsSome
<1> QED BY <1>1, <1>2, <1>8, <1>9, <1>10, <1>11 DEF PackedOne

LEMMA OffsetsAre ==
  ASSUME NEW strings, NEW k, IsText(strings, k), Len(All(strings)) <= Largest
  PROVE  /\ Offsets(strings) \in [1 .. k + 1 -> 0 .. Largest]
         /\ \A i \in 1 .. k + 1 : Offsets(strings)[i] = Len(Joined(strings)[i - 1])
<1>1. PICK J : J = Joined(strings)
  OBVIOUS
<1>2. AreJoined(J, strings, k) /\ k \in Nat /\ Len(strings) = k /\ All(strings) = J[k]
  BY <1>1, JoinedIs, AllIs DEF IsText
<1>3. ASSUME NEW i \in 1 .. k + 1 PROVE Len(J[i - 1]) \in 0 .. Largest
  <2>1. i - 1 \in 0 .. k /\ k \in i - 1 .. k
    BY <1>2
  <2>2. Len(J[i - 1]) \in Nat /\ Len(J[i - 1]) <= Len(J[k])
    BY <1>2, <2>1, JoinedKeeps
  <2>3. Len(J[k]) \in Int
    BY <1>2, AllIs DEF Mem
  <2> QED BY <1>2, <2>2, <2>3, LargestIs
<1>4. Offsets(strings) = [i \in 1 .. k + 1 |-> Len(J[i - 1])]
  BY <1>1, <1>2 DEF Offsets
<1> QED BY <1>1, <1>3, <1>4

LEMMA PackListIs ==
  ASSUME NEW strings, NEW k, IsText(strings, k), Fits(strings), NEW fill \in Byte
  PROVE  PackedList(PackList(strings, fill), strings, k, 3 + k + PaddedWords(Len(All(strings))))
<1>1. PICK all, l, words, mem : /\ all = All(strings) /\ l = Len(all)
                                /\ words = 3 + k + PaddedWords(l) /\ mem = PackList(strings, fill)
  OBVIOUS
<1>2. k \in Nat /\ Len(strings) = k /\ Mem(all, l) /\ l \in Nat
  BY <1>1, AllIs DEF IsText, Mem
<1>3. l <= Largest /\ words \in 0 .. Largest /\ k \in 0 .. Largest /\ PaddedWords(l) \in Nat
  <2>1. PaddedWords(l) \in Nat
    BY <1>2, PaddedWordsIs
  <2> QED BY <1>1, <1>2, <2>1, LargestIs DEF Fits
<1>4. PICK offsets, one, header : offsets = Offsets(strings) /\ one = <<k>> /\ header = one \o offsets
  OBVIOUS
<1>5. /\ offsets \in [1 .. k + 1 -> 0 .. Largest]
      /\ \A i \in 1 .. k + 1 : offsets[i] = Len(Joined(strings)[i - 1])
  BY <1>1, <1>3, <1>4, OffsetsAre
<1>6. /\ header \in [1 .. k + 2 -> 0 .. Largest] /\ header[1] = k
      /\ \A i \in 1 .. k + 1 : header[1 + i] = Len(Joined(strings)[i - 1])
  <2>1. one \in [1 .. 1 -> 0 .. Largest] /\ one[1] = k /\ 1 \in Nat /\ k + 1 \in Nat
    BY <1>2, <1>3, <1>4
  <2>2. Joins(one \o offsets, 0 .. Largest, one, 1, offsets, k + 1)
    BY <1>5, <2>1, ConcatIs, Zenon
  <2>3. Joins(header, 0 .. Largest, one, 1, offsets, k + 1)
    BY <1>4, <2>2
  <2>4. 1 + (k + 1) = k + 2 /\ 1 \in 1 .. 1
    BY <1>2
  <2>5. header \in [1 .. k + 2 -> 0 .. Largest]
    BY <2>3, <2>4 DEF Joins
  <2>6. header[1] = k
    BY <2>1, <2>3, <2>4 DEF Joins
  <2>7. \A i \in 1 .. k + 1 : header[1 + i] = offsets[i]
    BY <2>3, Zenon DEF Joins
  <2> QED BY <1>5, <2>5, <2>6, <2>7
<1>7. k + 2 \in Nat /\ words = 1 + (k + 2) + PaddedWords(l) /\ words <= Largest
  BY <1>1, <1>2, <1>3
<1>8. BlockIs(Block(header, all, fill), words, header, k + 2, all, l)
  BY <1>2, <1>6, <1>7, BlockLayout, Zenon
<1>9. BlockIs(mem, words, header, k + 2, all, l)
  BY <1>1, <1>2, <1>4, <1>8 DEF PackList
<1>10. HoldsWord(mem, 0, words) /\ Mem(mem, words * WordBytes) /\ HoldsBytes(mem, k + 3, all, l)
  <2>1. 1 + (k + 2) = k + 3
    BY <1>2
  <2> QED BY <1>9, <2>1 DEF BlockIs
<1>11. Word(mem, 0) = words
  <2>1. 0 \in Nat
    OBVIOUS
  <2> QED BY <1>3, <1>10, <2>1, HeldWord
<1>12. ASSUME NEW i \in 1 .. k + 2 PROVE Word(mem, i) = header[i]
  <2>1. header[i] \in 0 .. Largest
    BY <1>6
  <2> QED BY <1>7, <1>9, <2>1, HeaderWord
<1>13. Word(mem, 1) = k
  <2>1. 1 \in 1 .. k + 2
    BY <1>2
  <2> QED BY <1>6, <1>12, <2>1
<1>14. ASSUME NEW i \in 1 .. k + 1 PROVE Word(mem, 1 + i) = Len(Joined(strings)[i - 1])
  <2>1. 1 + i \in 1 .. k + 2
    BY <1>2
  <2> QED BY <1>6, <1>12, <2>1
<1>15. mem # NullBlock
  BY <1>1, <1>2, <1>3, <1>10, BlockIsSome
<1> QED BY <1>1, <1>3, <1>10, <1>11, <1>13, <1>14, <1>15 DEF PackedList

LEMMA WholeSlice ==
  ASSUME NEW s, NEW l, Mem(s, l), NEW t, t = CutOf(s, 0, l)
  PROVE  t = s
<1>1. l \in Nat /\ l - 0 = l /\ s = [x \in 1 .. l |-> s[x]]
  BY DEF Mem
<1>2. \A x \in 1 .. l : 0 + x = x
  OBVIOUS
<1> QED BY <1>1, <1>2 DEF CutOf

\* One string.
LEMMA PackedOneReads ==
  ASSUME NEW mem, NEW s, NEW words, PackedOne(mem, s, words), Mem(s, Len(s))
  PROVE  /\ HearOne(mem) = <<s>>
         /\ Utf8(s) => StrArg(mem) = Read(<<s>>)
         /\ Word(mem, 0) * WordBytes = Len(mem)
<1>1. PICK l : l = Len(s)
  OBVIOUS
<1>2. /\ mem # NullBlock /\ words \in Nat /\ words = 2 + PaddedWords(l) /\ PaddedWords(l) \in Nat
      /\ Word(mem, 0) = words /\ Word(mem, 1) = l /\ HoldsBytes(mem, 2, s, l) /\ l \in Nat
      /\ l <= PaddedWords(l) * WordBytes
  <2>1. l \in Nat
    BY <1>1 DEF Mem
  <2> QED BY <1>1, <2>1, PaddedWordsIs DEF PackedOne
<1>3. Bytes(mem, 2, 0, l) = s
  <2>1. 2 \in Nat /\ 0 \in 0 .. l /\ l \in 0 .. l
    BY <1>2
  <2>2. Bytes(mem, 2, 0, l) = CutOf(s, 0, l)
    BY <1>2, <2>1, HeldSlice
  <2> QED BY <1>1, <2>2, WholeSlice
<1>4. HearOne(mem) = <<s>>
  BY <1>2, <1>3 DEF HearOne
<1>5. ASSUME Utf8(s) PROVE StrArg(mem) = Read(<<s>>)
  <2>1. ~(words < 2) /\ words - 2 = PaddedWords(l)
    BY <1>2
  <2>2. ~(l > (words - 2) * WordBytes)
    <3>1. PICK room : room = PaddedWords(l) * WordBytes
      OBVIOUS
    <3>2. room \in Int /\ l <= room
      BY <1>2, <3>1, TextsAssumption
    <3>3. ~(l > room)
      BY <1>2, <3>2
    <3> QED BY <2>1, <3>1, <3>3
  <2> QED BY <1>2, <1>3, <1>5, <2>1, <2>2 DEF StrArg
<1>6. Word(mem, 0) * WordBytes = Len(mem)
  <2>1. PICK n : n = words * WordBytes
    OBVIOUS
  <2>2. n \in Nat /\ mem \in [1 .. n -> Byte]
    BY <2>1 DEF PackedOne, Mem
  <2> QED BY <1>2, <2>1, <2>2
<1> QED BY <1>4, <1>5, <1>6

\* The words of a packed list, and the slices they cut.
LEMMA PackedListCuts ==
  ASSUME NEW mem, NEW strings, NEW k, NEW words, IsText(strings, k), PackedList(mem, strings, k, words),
         NEW i \in 1 .. k
  PROVE  /\ Word(mem, 1 + i) \in Nat /\ Word(mem, 1 + (i + 1)) \in Nat
         /\ Word(mem, 1 + i) <= Word(mem, 1 + (i + 1))
         /\ Bytes(mem, k + 3, Word(mem, 1 + i), Word(mem, 1 + (i + 1))) = strings[i]
<1>1. PICK J, all, l : J = Joined(strings) /\ all = All(strings) /\ l = Len(all)
  OBVIOUS
<1>2. AreJoined(J, strings, k) /\ k \in Nat /\ all = J[k] /\ l \in Nat
  BY <1>1, JoinedIs, AllIs DEF IsText, Mem
<1>3. /\ HoldsBytes(mem, k + 3, all, l)
      /\ \A q \in 1 .. k + 1 : Word(mem, 1 + q) = Len(J[q - 1])
  BY <1>1 DEF PackedList
<1>4. PICK a, b : a = Len(J[i - 1]) /\ b = Len(J[i])
  OBVIOUS
<1>5. Word(mem, 1 + i) = a /\ Word(mem, 1 + (i + 1)) = b
  <2>1. i \in 1 .. k + 1 /\ i + 1 \in 1 .. k + 1 /\ (i + 1) - 1 = i
    BY <1>2
  <2> QED BY <1>3, <1>4, <2>1
<1>6. SliceOf(all, a, b, strings[i])
  BY <1>2, <1>4, JoinedAt
<1>7. a \in 0 .. l /\ b \in a .. l
  BY <1>1, <1>2, <1>6 DEF SliceOf
<1>8. PICK d : d = k + 3
  OBVIOUS
<1>9. Bytes(mem, k + 3, a, b) = CutOf(all, a, b)
  <2>1. d \in Nat /\ HoldsBytes(mem, d, all, l)
    BY <1>2, <1>3, <1>8
  <2>2. Bytes(mem, d, a, b) = CutOf(all, a, b)
    BY <1>2, <1>7, <2>1, HeldSlice, SMT
  <2> QED BY <1>8, <2>2
<1>10. Bytes(mem, k + 3, a, b) = strings[i]
  BY <1>6, <1>9 DEF SliceOf
<1> QED BY <1>2, <1>5, <1>7, <1>10

LEMMA PackedListReads ==
  ASSUME NEW mem, NEW strings, NEW k, NEW words, IsText(strings, k), PackedList(mem, strings, k, words)
  PROVE  /\ HearList(mem) = strings
         /\ (\A i \in 1 .. k : Utf8(strings[i])) => StrListArg(mem) = Read(strings)
         /\ Word(mem, 0) * WordBytes = Len(mem)
<1>1. PICK l : l = Len(All(strings))
  OBVIOUS
<1>2. /\ k \in Nat /\ l \in Nat /\ strings = [i \in 1 .. k |-> strings[i]]
      /\ PaddedWords(l) \in Nat /\ l <= PaddedWords(l) * WordBytes
  <2>1. l \in Nat
    BY <1>1, AllIs DEF Mem
  <2> QED BY <2>1, PaddedWordsIs DEF IsText
<1>3. /\ mem # NullBlock /\ words = 3 + k + PaddedWords(l)
      /\ Word(mem, 0) = words /\ Word(mem, 1) = k
      /\ \A i \in 1 .. k + 1 : Word(mem, 1 + i) = Len(Joined(strings)[i - 1])
  BY <1>1 DEF PackedList
<1>4. ASSUME NEW i \in 1 .. k
      PROVE  /\ Word(mem, 1 + i) \in Nat /\ Word(mem, 1 + (i + 1)) \in Nat
             /\ Word(mem, 1 + i) <= Word(mem, 1 + (i + 1))
             /\ Bytes(mem, k + 3, Word(mem, 1 + i), Word(mem, 1 + (i + 1))) = strings[i]
  BY PackedListCuts
<1>5. HearList(mem) = strings
  <2>1. HearList(mem) = [i \in 1 .. k |-> Bytes(mem, k + 3, Word(mem, 1 + i), Word(mem, 2 + i))]
    BY <1>3 DEF HearList
  <2>2. ASSUME NEW i \in 1 .. k PROVE Bytes(mem, k + 3, Word(mem, 1 + i), Word(mem, 2 + i)) = strings[i]
    <3>1. 2 + i = 1 + (i + 1)
      OBVIOUS
    <3> QED BY <1>4, <3>1
  <2> QED BY <1>2, <2>1, <2>2
<1>6. ASSUME \A i \in 1 .. k : Utf8(strings[i]) PROVE StrListArg(mem) = Read(strings)
  <2> DEFINE W == Word(mem, 0)
             K == Word(mem, 1)
             data == K + 3
             offsets == [i \in 1 .. (K + 1) |-> Word(mem, 1 + i)]
             cut == [i \in 1 .. K |-> Bytes(mem, data, offsets[i], offsets[i + 1])]
             room == (W - data) * WordBytes
  <2>1. StrListArg(mem) =
          IF mem = NullBlock THEN Read(<<>>)
          ELSE IF W < 2 \/ data > W THEN BlockRefused("Truncated")
          ELSE IF offsets[1] # 0 THEN BlockRefused("FirstOffset")
          ELSE IF \E i \in 1 .. K : offsets[i + 1] < offsets[i] THEN BlockRefused("OutOfOrder")
          ELSE IF offsets[K + 1] > room THEN BlockRefused("PastEnd")
          ELSE IF \E i \in 1 .. K : ~Utf8(cut[i]) THEN BlockRefused("NotUtf8")
          ELSE Read(cut)
    BY DEF StrListArg
  <2>0. W = words /\ K = k /\ data = k + 3
    BY <1>3
  <2> HIDE DEF W, K
  <2>2. \A i \in 1 .. k + 1 : offsets[i] = Word(mem, 1 + i)
    BY <2>0
  <2>3. \A i \in 1 .. k : i \in 1 .. k + 1 /\ i + 1 \in 1 .. k + 1
    BY <1>2
  <2> HIDE DEF offsets, data
  <2>4. \A i \in 1 .. k : cut[i] = Bytes(mem, k + 3, offsets[i], offsets[i + 1])
    BY <2>0
  <2>5. cut = [i \in 1 .. k |-> cut[i]]
    BY <2>0
  <2>6. words - (k + 3) = PaddedWords(l)
    BY <1>2, <1>3
  <2>7. l <= room /\ room \in Int
    BY <1>2, <2>0, <2>6, TextsAssumption
  <2> HIDE DEF cut, room
  <2>8. ASSUME NEW i \in 1 .. k
        PROVE  offsets[i] \in Nat /\ offsets[i + 1] \in Nat /\ offsets[i] <= offsets[i + 1] /\ cut[i] = strings[i]
    BY <1>4, <2>2, <2>3, <2>4
  <2>9. cut = strings
    BY <1>2, <2>5, <2>8
  <2>10. ~(words < 2) /\ ~(k + 3 > words)
    BY <1>2, <1>3
  <2>11. offsets[1] = 0
    <3>1. 1 \in 1 .. k + 1 /\ 1 - 1 = 0
      BY <1>2
    <3>2. offsets[1] = Len(Joined(strings)[0])
      BY <1>3, <2>2, <3>1
    <3>3. Joined(strings)[0] = <<>>
      BY JoinedIs DEF AreJoined
    <3> QED BY <3>2, <3>3
  <2>12. offsets[k + 1] = l
    <3>1. k + 1 \in 1 .. k + 1 /\ (k + 1) - 1 = k
      BY <1>2
    <3>2. offsets[k + 1] = Len(Joined(strings)[k])
      BY <1>3, <2>2, <3>1
    <3> QED BY <1>1, <3>2, AllIs
  <2>13. ~(offsets[k + 1] > room)
    BY <1>2, <2>7, <2>12
  <2>14. ~(\E i \in 1 .. k : offsets[i + 1] < offsets[i])
    BY <2>8
  <2>15. ~(\E i \in 1 .. k : ~Utf8(cut[i]))
    BY <1>6, <2>8
  <2> QED BY <1>3, <2>0, <2>1, <2>9, <2>10, <2>11, <2>13, <2>14, <2>15
<1>7. Word(mem, 0) * WordBytes = Len(mem)
  <2>1. PICK n : n = words * WordBytes
    OBVIOUS
  <2>2. n \in Nat /\ mem \in [1 .. n -> Byte]
    BY <2>1 DEF PackedList, Mem
  <2> QED BY <1>3, <2>1, <2>2
<1> QED BY <1>5, <1>6, <1>7

-----------------------------------------------------------------------------
(* StrBlocks: what a damaged block is read as.                             *)

\* The byte at a place, or what lies past the memory.
ByteAt(mem, at) == IF at \in DOMAIN mem THEN mem[at] ELSE Outside

LEMMA MemIsSeq ==
  ASSUME NEW s, NEW l, Mem(s, l)
  PROVE  s \in Seq(Byte) /\ Len(s) = l
<1>1. l \in Nat /\ s \in [1 .. l -> Byte]
  BY DEF Mem
<1> QED BY <1>1

LEMMA BytesAre ==
  ASSUME NEW mem, NEW l, Mem(mem, l), NEW i \in Nat, NEW a \in Nat, NEW b \in Nat, a <= b,
         NEW s, s = Bytes(mem, i, a, b)
  PROVE  /\ Len(s) = b - a /\ DOMAIN s = 1 .. b - a
         /\ \A x \in 1 .. b - a : s[x] = ByteAt(mem, i * WordBytes + a + x)
         /\ Utf8(s) => Mem(s, b - a)
<1>0. b - a \in Nat /\ l \in Nat /\ mem \in [1 .. l -> Byte]
  BY DEF Mem
<1>1. PICK n, at : n = b - a /\ at = i * WordBytes + a
  OBVIOUS
<1>2. s = [x \in 1 .. n |-> ByteAt(mem, at + x)]
  BY <1>1 DEF Bytes, ByteAt
<1>3. ASSUME NEW x \in 1 .. n, s[x] # Outside PROVE s[x] \in Byte
  BY <1>0, <1>2, <1>3 DEF ByteAt
<1>4. Len(s) = n /\ DOMAIN s = 1 .. n
  <2>1. s = [x \in 1 .. n |-> s[x]]
    BY <1>2
  <2> QED BY <1>0, <1>1, <2>1, LenIs
<1>5. ASSUME Utf8(s) PROVE Mem(s, n)
  <2>1. \A x \in 1 .. n : s[x] # Outside
    BY <1>4, <1>5 DEF Utf8
  <2>2. s \in [1 .. n -> Byte]
    BY <1>2, <1>3, <2>1
  <2> QED BY <1>0, <1>1, <2>2 DEF Mem
<1> QED BY <1>1, <1>2, <1>4, <1>5

\* Bytes that follow each other.
Follows(mem, l, i, a, b, s, t, u) ==
  /\ Mem(mem, l) /\ a <= b /\ u = s \o t
  /\ s = Bytes(mem, i, 0, a) /\ Mem(s, a) /\ t = Bytes(mem, i, a, b) /\ Mem(t, b - a)

LEMMA BytesJoin ==
  ASSUME NEW mem, NEW l, NEW i \in Nat, NEW a \in Nat, NEW b \in Nat, NEW s, NEW t, NEW u,
         Follows(mem, l, i, a, b, s, t, u)
  PROVE  u = Bytes(mem, i, 0, b) /\ Mem(u, b)
<1> USE DEF Follows
<1>0. PICK at, n : at = i * WordBytes /\ n = b - a
  OBVIOUS
<1>1. /\ at \in Nat /\ n \in Nat /\ a + n = b /\ s \in [1 .. a -> Byte] /\ t \in [1 .. n -> Byte]
  BY <1>0, TextsAssumption DEF Mem
<1>3. u \in [1 .. b -> Byte] /\ (\A x \in 1 .. a : u[x] = s[x]) /\ (\A x \in 1 .. n : u[a + x] = t[x])
  <2>1. Joins(s \o t, Byte, s, a, t, n)
    BY <1>1, ConcatIs, Zenon
  <2> QED BY <1>1, <2>1 DEF Joins
<1>4. \A x \in 1 .. a : s[x] = ByteAt(mem, at + 0 + x)
  <2>1. s = [x \in 1 .. a - 0 |-> ByteAt(mem, at + 0 + x)] /\ a - 0 = a
    BY <1>0 DEF Bytes, ByteAt
  <2> QED BY <2>1
<1>5. \A x \in 1 .. n : t[x] = ByteAt(mem, at + a + x)
  <2>1. t = [x \in 1 .. n |-> ByteAt(mem, at + a + x)]
    BY <1>0 DEF Bytes, ByteAt
  <2> QED BY <2>1
<1>6. ASSUME NEW x \in 1 .. b PROVE u[x] = ByteAt(mem, at + 0 + x)
  <2>1. CASE x \in 1 .. a
    BY <1>3, <1>4, <2>1
  <2>2. CASE x \notin 1 .. a
    <3>1. PICK y : y = x - a
      OBVIOUS
    <3>2. y \in 1 .. n /\ a + y = x /\ at + a + y = at + 0 + x
      BY <1>1, <2>2, <3>1
    <3>3. u[a + y] = t[y] /\ t[y] = ByteAt(mem, at + a + y)
      BY <1>3, <1>5, <3>2
    <3> QED BY <3>2, <3>3
  <2> QED BY <2>1, <2>2
<1>7. Bytes(mem, i, 0, b) = [x \in 1 .. b |-> ByteAt(mem, at + 0 + x)]
  <2>1. b - 0 = b
    OBVIOUS
  <2> QED BY <1>0, <2>1 DEF Bytes, ByteAt
<1>8. u = Bytes(mem, i, 0, b)
  BY <1>3, <1>6, <1>7
<1> QED BY <1>3, <1>8 DEF Mem

\* The offsets of slices that follow each other, from 0.
AreCuts(mem, d, off, k) ==
  /\ d \in Nat /\ k \in Nat /\ off \in [1 .. k + 1 -> Nat] /\ off[1] = 0
  /\ \A i \in 1 .. k : off[i] <= off[i + 1]

\* The first strings are the bytes up to an offset.
UpTo(mem, d, off, J, i) == J[i] = Bytes(mem, d, 0, off[i + 1]) /\ Mem(J[i], off[i + 1])

LEMMA NoBytes ==
  ASSUME NEW mem, NEW l, Mem(mem, l), NEW d \in Nat, NEW s, s = Bytes(mem, d, 0, 0)
  PROVE  s = <<>> /\ Mem(s, 0)
<1>1. s = [x \in 1 .. 0 |-> ByteAt(mem, d * WordBytes + 0 + x)]
  <2>1. 0 - 0 = 0
    OBVIOUS
  <2> QED BY <2>1 DEF Bytes, ByteAt
<1>2. s \in [1 .. 0 -> Byte]
  <2>1. s = [x \in 1 .. 0 |-> s[x]]
    BY <1>1
  <2>2. \A x \in 1 .. 0 : s[x] \in Byte
    OBVIOUS
  <2> QED BY <2>1, <2>2
<1>3. s \in Seq(Byte) /\ Len(s) = 0
  BY <1>2
<1> QED BY <1>2, <1>3, EmptySeq DEF Mem

\* Strings that are cut out of memory, one after another, and what they are.
CutBy(mem, l, d, k, off, strings) ==
  /\ Mem(mem, l) /\ AreCuts(mem, d, off, k)
  /\ strings = [i \in 1 .. k |-> Bytes(mem, d, off[i], off[i + 1])]
  /\ \A i \in 1 .. k : Utf8(strings[i])
CutTo(mem, d, k, off, strings) ==
  /\ IsText(strings, k)
  /\ Len(All(strings)) = off[k + 1]
  /\ All(strings) = Bytes(mem, d, 0, off[k + 1])

LEMMA CutsJoin ==
  ASSUME NEW mem, NEW l, NEW d, NEW k, NEW off, NEW strings, CutBy(mem, l, d, k, off, strings)
  PROVE  CutTo(mem, d, k, off, strings)
<1>a. Mem(mem, l) /\ AreCuts(mem, d, off, k)
  BY DEF CutBy
<1>b. /\ strings = [i \in 1 .. k |-> Bytes(mem, d, off[i], off[i + 1])]
      /\ \A i \in 1 .. k : Utf8(strings[i])
  BY DEF CutBy
<1>0. /\ d \in Nat /\ k \in Nat /\ off \in [1 .. k + 1 -> Nat] /\ off[1] = 0
      /\ \A i \in 1 .. k : off[i] <= off[i + 1]
  BY <1>a DEF AreCuts
<1>1. ASSUME NEW i \in 1 .. k
      PROVE  /\ strings[i] = Bytes(mem, d, off[i], off[i + 1])
             /\ off[i] \in Nat /\ off[i + 1] \in Nat /\ off[i] <= off[i + 1]
             /\ Mem(strings[i], off[i + 1] - off[i])
  <2>1. PICK a, b, s : a = off[i] /\ b = off[i + 1] /\ s = strings[i]
    OBVIOUS
  <2>2. i \in 1 .. k + 1 /\ i + 1 \in 1 .. k + 1
    BY <1>0
  <2>3. a \in Nat /\ b \in Nat /\ a <= b /\ s = Bytes(mem, d, a, b) /\ Utf8(s)
    BY <1>0, <1>b, <2>1, <2>2
  <2>4. Mem(s, b - a)
    BY <1>0, <1>a, <2>3, BytesAre
  <2> QED BY <2>1, <2>3, <2>4
<1>2. IsText(strings, k)
  <2>1. ASSUME NEW i \in 1 .. k PROVE strings[i] \in Seq(Byte)
    BY <1>1, MemIsSeq
  <2> QED BY <1>0, <1>b, <2>1 DEF IsText
<1>3. PICK J : J = Joined(strings)
  OBVIOUS
<1>4. AreJoined(J, strings, k)
  BY <1>2, <1>3, JoinedIs
<1> DEFINE T == {i \in Nat : i <= k => UpTo(mem, d, off, J, i)}
<1>5. 0 \in T
  <2>1. PICK s : s = Bytes(mem, d, 0, 0)
    OBVIOUS
  <2>2. s = <<>> /\ Mem(s, 0)
    BY <1>0, <1>a, <2>1, NoBytes
  <2>3. J[0] = <<>> /\ off[0 + 1] = 0
    BY <1>0, <1>4 DEF AreJoined
  <2>4. UpTo(mem, d, off, J, 0)
    BY <2>1, <2>2, <2>3 DEF UpTo
  <2> QED BY <2>4
<1>6. \A i \in Nat : i \in T => i + 1 \in T
  <2> SUFFICES ASSUME NEW i \in Nat, i <= k => UpTo(mem, d, off, J, i), i + 1 <= k
               PROVE  UpTo(mem, d, off, J, i + 1)
    OBVIOUS
  <2> HIDE DEF T
  <2>1. PICK c, a, b, s, t : c = i + 1 /\ a = off[c] /\ b = off[c + 1] /\ s = J[i] /\ t = strings[c]
    OBVIOUS
  <2>2. c \in 1 .. k /\ c - 1 = i /\ i <= k
    BY <1>0, <2>1
  <2>3. s = Bytes(mem, d, 0, a) /\ Mem(s, a)
    BY <2>1, <2>2 DEF UpTo
  <2>4. a \in Nat /\ b \in Nat /\ a <= b /\ t = Bytes(mem, d, a, b) /\ Mem(t, b - a)
    BY <1>1, <2>1, <2>2
  <2>5. PICK u : u = s \o t
    OBVIOUS
  <2>6. u = Bytes(mem, d, 0, b) /\ Mem(u, b)
    <3>1. d \in Nat /\ a \in Nat /\ b \in Nat /\ a <= b
      BY <1>0, <2>4
    <3>2. s = Bytes(mem, d, 0, a) /\ Mem(s, a)
      BY <2>3
    <3>3. t = Bytes(mem, d, a, b) /\ Mem(t, b - a)
      BY <2>4
    <3>4. Mem(mem, l)
      BY <1>a
    <3>5. Follows(mem, l, d, a, b, s, t, u)
      BY <2>5, <3>1, <3>2, <3>3, <3>4, Zenon DEF Follows
    <3> QED BY <3>1, <3>5, BytesJoin, Zenon
  <2>7. J[c] = u
    BY <1>4, <2>1, <2>2, <2>5 DEF AreJoined
  <2> QED BY <2>1, <2>6, <2>7 DEF UpTo
<1> HIDE DEF T
<1>7. k \in T
  BY <1>0, <1>5, <1>6, InductionOnSet
<1>8. J[k] = Bytes(mem, d, 0, off[k + 1]) /\ Mem(J[k], off[k + 1])
  BY <1>0, <1>7 DEF T, UpTo
<1>9. All(strings) = J[k]
  BY <1>2, <1>3, AllIs
<1>10. Len(J[k]) = off[k + 1]
  BY <1>8 DEF Mem
<1> QED BY <1>2, <1>8, <1>9, <1>10 DEF CutTo

\* Memory that is at least as long as its first word says.
Honest(mem) ==
  \E l : /\ Mem(mem, l)
         /\ mem # NullBlock => Word(mem, 0) \in 0 .. Largest /\ Word(mem, 0) * WordBytes <= l

LEMMA AnswerFields ==
  /\ \A strings : Read(strings).error = "none" /\ Read(strings).strings = strings
  /\ \A why \in Refusals : BlockRefused(why).error = why /\ why # "none"
BY DEF Read, BlockRefused, Refusals

\* What is left of a block after its header and its bytes.
LEMMA RoomIs ==
  ASSUME NEW words \in 0 .. Largest, NEW data \in 0 .. words, NEW len \in Nat,
         ~(len > (words - data) * WordBytes)
  PROVE  /\ data * WordBytes + len <= words * WordBytes
         /\ data + PaddedWords(len) <= Largest
<1>1. PICK room, a, b : room = (words - data) * WordBytes /\ a = data * WordBytes /\ b = words * WordBytes
  OBVIOUS
<1>2. words \in Nat /\ data \in Nat /\ words - data \in Nat /\ WordBytes \in Nat /\ Largest \in Nat
  BY LargestIs, TextsAssumption
<1>3. room \in Nat /\ a \in Nat /\ b \in Nat /\ a + room = b
  BY <1>1, <1>2
<1>4. len <= room
  BY <1>1, <1>3
<1>5. PaddedWords(len) <= words - data /\ PaddedWords(len) \in Nat
  <2>1. PICK m : m = words - data
    OBVIOUS
  <2>2. m \in Nat /\ len <= m * WordBytes
    BY <1>1, <1>2, <1>4, <2>1
  <2> QED BY <2>1, <2>2, PaddedWordsIs
<1> QED BY <1>1, <1>2, <1>3, <1>4, <1>5

\* A reader answers with strings, or says why it does not.
LEMMA ReadersAnswer ==
  ASSUME NEW mem
  PROVE  StrArg(mem).error \in Refusals \cup {"none"} /\ StrListArg(mem).error \in Refusals \cup {"none"}
<1>1. {"Truncated", "FirstOffset", "OutOfOrder", "PastEnd", "NotUtf8"} = Refusals
  BY DEF Refusals
<1>2. \A strings : Read(strings).error \in Refusals \cup {"none"}
  BY AnswerFields
<1>3. \A why \in Refusals : BlockRefused(why).error \in Refusals \cup {"none"}
  BY AnswerFields
<1>4. (\E strings : StrArg(mem) = Read(strings)) \/ (\E why \in Refusals : StrArg(mem) = BlockRefused(why))
  BY <1>1 DEF StrArg
<1>5. (\E strings : StrListArg(mem) = Read(strings)) \/ (\E why \in Refusals : StrListArg(mem) = BlockRefused(why))
  <2> DEFINE W == Word(mem, 0)
             K == Word(mem, 1)
             data == K + 3
             offsets == [i \in 1 .. (K + 1) |-> Word(mem, 1 + i)]
             cut == [i \in 1 .. K |-> Bytes(mem, data, offsets[i], offsets[i + 1])]
             room == (W - data) * WordBytes
  <2>1. StrListArg(mem) =
          IF mem = NullBlock THEN Read(<<>>)
          ELSE IF W < 2 \/ data > W THEN BlockRefused("Truncated")
          ELSE IF offsets[1] # 0 THEN BlockRefused("FirstOffset")
          ELSE IF \E i \in 1 .. K : offsets[i + 1] < offsets[i] THEN BlockRefused("OutOfOrder")
          ELSE IF offsets[K + 1] > room THEN BlockRefused("PastEnd")
          ELSE IF \E i \in 1 .. K : ~Utf8(cut[i]) THEN BlockRefused("NotUtf8")
          ELSE Read(cut)
    BY DEF StrListArg
  <2> HIDE DEF W, K, data, offsets, cut, room
  <2> QED BY <1>1, <2>1
<1> QED BY <1>2, <1>3, <1>4, <1>5

\* A string that is read of a block lies in what the block says it holds.
OneWithin(mem, s, len) ==
  /\ Mem(s, len) /\ Utf8(s) /\ s = Bytes(mem, 2, 0, len)
  /\ len <= Largest /\ 2 + PaddedWords(len) <= Largest
  /\ 2 * WordBytes + len <= Word(mem, 0) * WordBytes

LEMMA InsideIsWord ==
  ASSUME NEW mem, NEW l, Mem(mem, l), NEW words \in Nat, words * WordBytes <= l, NEW i \in 0 .. words - 1
  PROVE  Word(mem, i) \in 0 .. Largest
<1>1. i + 1 <= words /\ i + 1 \in Int /\ i \in Nat
  OBVIOUS
<1>2. WordBytes * (i + 1) <= WordBytes * words
  BY <1>1, TextsAssumption, TimesGrows
<1>3. PICK a, b : a = (i + 1) * WordBytes /\ b = words * WordBytes
  OBVIOUS
<1>4. a <= b /\ a \in Int /\ b \in Int /\ b <= l /\ l \in Int
  <2>1. WordBytes * (i + 1) = a /\ WordBytes * words = b
    BY <1>1, <1>3, TextsAssumption
  <2>2. a \in Int /\ b \in Int /\ l \in Int /\ b <= l
    BY <1>1, <1>3, TextsAssumption DEF Mem
  <2> QED BY <1>2, <2>1, <2>2
<1>5. a <= l
  BY <1>4
<1>6. (i + 1) * WordBytes <= l
  BY <1>3, <1>5
<1> QED BY <1>1, <1>6, WordIsNat

LEMMA StrArgContains ==
  ASSUME NEW mem, Honest(mem), mem # NullBlock, StrArg(mem).error = "none"
  PROVE  \E s, len : StrArg(mem) = Read(<<s>>) /\ OneWithin(mem, s, len)
<1>1. PICK l : Mem(mem, l) /\ Word(mem, 0) \in 0 .. Largest /\ Word(mem, 0) * WordBytes <= l
  BY DEF Honest
<1>2. PICK words, len, s : words = Word(mem, 0) /\ len = Word(mem, 1) /\ s = Bytes(mem, 2, 0, len)
  OBVIOUS
<1>3. /\ ~(words < 2) /\ ~(len > (words - 2) * WordBytes) /\ Utf8(s)
      /\ StrArg(mem) = Read(<<s>>)
  BY <1>2, AnswerFields DEF StrArg, Refusals
<1>4. words \in Nat /\ words \in 0 .. Largest /\ 2 \in 0 .. words
  BY <1>1, <1>2, <1>3, LargestIs
<1>5. len \in 0 .. Largest
  <2>1. 1 \in 0 .. words - 1
    BY <1>4
  <2> QED BY <1>1, <1>2, <1>4, <2>1, InsideIsWord
<1>6. len \in Nat /\ len <= Largest
  BY <1>5, LargestIs
<1>7. 2 * WordBytes + len <= words * WordBytes /\ 2 + PaddedWords(len) <= Largest
  <2>1. PICK data : data = 2
    OBVIOUS
  <2>2. data \in 0 .. words /\ ~(len > (words - data) * WordBytes)
    BY <1>3, <1>4, <2>1
  <2>3. data * WordBytes + len <= words * WordBytes /\ data + PaddedWords(len) <= Largest
    BY <1>4, <1>6, <2>2, RoomIs
  <2> QED BY <2>1, <2>3
<1>8. Mem(s, len)
  <2>1. PICK a, b : a = 0 /\ b = len
    OBVIOUS
  <2>2. 2 \in Nat /\ a \in Nat /\ b \in Nat /\ a <= b /\ s = Bytes(mem, 2, a, b) /\ b - a = len
    BY <1>2, <1>6, <2>1
  <2>3. Mem(s, b - a)
    BY <1>1, <1>3, <2>2, BytesAre
  <2> QED BY <2>2, <2>3
<1>9. OneWithin(mem, s, len)
  BY <1>2, <1>3, <1>6, <1>7, <1>8 DEF OneWithin
<1> QED BY <1>3, <1>9

ListWithin(mem, strings, k) ==
  /\ IsText(strings, k) /\ Fits(strings) /\ \A i \in 1 .. k : Utf8(strings[i])
  /\ k = Word(mem, 1)
  /\ All(strings) = Bytes(mem, k + 3, 0, Len(All(strings)))
  /\ (k + 3) * WordBytes + Len(All(strings)) <= Word(mem, 0) * WordBytes

LEMMA StrListArgContains ==
  ASSUME NEW mem, Honest(mem), mem # NullBlock, StrListArg(mem).error = "none"
  PROVE  \E strings, k : StrListArg(mem) = Read(strings) /\ ListWithin(mem, strings, k)
<1>1. PICK l : Mem(mem, l) /\ Word(mem, 0) \in 0 .. Largest /\ Word(mem, 0) * WordBytes <= l
  BY DEF Honest
<1> DEFINE W == Word(mem, 0)
           K == Word(mem, 1)
           data == K + 3
           offsets == [i \in 1 .. (K + 1) |-> Word(mem, 1 + i)]
           cut == [i \in 1 .. K |-> Bytes(mem, data, offsets[i], offsets[i + 1])]
           room == (W - data) * WordBytes
<1>2. StrListArg(mem) =
        IF mem = NullBlock THEN Read(<<>>)
        ELSE IF W < 2 \/ data > W THEN BlockRefused("Truncated")
        ELSE IF offsets[1] # 0 THEN BlockRefused("FirstOffset")
        ELSE IF \E i \in 1 .. K : offsets[i + 1] < offsets[i] THEN BlockRefused("OutOfOrder")
        ELSE IF offsets[K + 1] > room THEN BlockRefused("PastEnd")
        ELSE IF \E i \in 1 .. K : ~Utf8(cut[i]) THEN BlockRefused("NotUtf8")
        ELSE Read(cut)
  BY DEF StrListArg
<1>3. W \in 0 .. Largest /\ W \in Nat /\ W * WordBytes <= l
  BY <1>1, LargestIs
<1>4. offsets = [i \in 1 .. (K + 1) |-> Word(mem, 1 + i)] /\ K = Word(mem, 1) /\ W = Word(mem, 0)
  OBVIOUS
<1>5. cut = [i \in 1 .. K |-> Bytes(mem, data, offsets[i], offsets[i + 1])] /\ data = K + 3 /\ room = (W - data) * WordBytes
  OBVIOUS
<1> HIDE DEF W, K, data, offsets, cut, room
<1>6. /\ ~(W < 2) /\ ~(data > W) /\ ~(offsets[1] # 0)
      /\ ~(\E i \in 1 .. K : offsets[i + 1] < offsets[i])
      /\ ~(offsets[K + 1] > room)
      /\ ~(\E i \in 1 .. K : ~Utf8(cut[i]))
      /\ StrListArg(mem) = Read(cut)
  BY <1>2, AnswerFields DEF Refusals
<1>7. K \in Nat /\ data \in Nat /\ data \in 0 .. W
  <2>1. 1 \in 0 .. W - 1
    BY <1>3, <1>6
  <2>2. Word(mem, 1) \in 0 .. Largest
    BY <1>1, <1>3, <2>1, InsideIsWord
  <2> QED BY <1>3, <1>4, <1>5, <1>6, <2>2, LargestIs
<1>8. ASSUME NEW i \in 1 .. K + 1 PROVE offsets[i] \in 0 .. Largest
  <2>1. 1 + i \in 0 .. W - 1
    BY <1>3, <1>5, <1>7
  <2>2. PICK j : j = 1 + i
    OBVIOUS
  <2>3. Word(mem, j) \in 0 .. Largest
    BY <1>1, <1>3, <2>1, <2>2, InsideIsWord
  <2> QED BY <1>4, <2>2, <2>3
<1>9. offsets \in [1 .. K + 1 -> Nat]
  BY <1>4, <1>8, LargestIs
<1>10. AreCuts(mem, data, offsets, K)
  <2>1. ASSUME NEW i \in 1 .. K PROVE offsets[i] <= offsets[i + 1]
    <3>1. i \in 1 .. K + 1 /\ i + 1 \in 1 .. K + 1
      BY <1>7
    <3>2. offsets[i] \in Nat /\ offsets[i + 1] \in Nat
      BY <1>9, <3>1
    <3> QED BY <1>6, <3>2
  <2> QED BY <1>6, <1>7, <1>9, <2>1 DEF AreCuts
<1>11. /\ IsText(cut, K) /\ Len(All(cut)) = offsets[K + 1]
       /\ All(cut) = Bytes(mem, data, 0, offsets[K + 1])
  <2>1. CutBy(mem, l, data, K, offsets, cut)
    BY <1>1, <1>5, <1>6, <1>10 DEF CutBy
  <2>2. CutTo(mem, data, K, offsets, cut)
    BY <2>1, CutsJoin, Zenon
  <2> QED BY <2>2 DEF CutTo
<1>12. PICK len : len = offsets[K + 1]
  OBVIOUS
<1>13. len \in Nat /\ len <= Largest /\ ~(len > (W - data) * WordBytes)
  <2>1. K + 1 \in 1 .. K + 1
    BY <1>7
  <2> QED BY <1>5, <1>6, <1>8, <1>12, <2>1, LargestIs
<1>14. data * WordBytes + len <= W * WordBytes /\ data + PaddedWords(len) <= Largest
  BY <1>3, <1>7, <1>13, RoomIs
<1>15. Fits(cut)
  <2>1. Len(cut) = K
    BY <1>11, AllIs
  <2>2. 3 + K = data
    BY <1>5, <1>7
  <2> QED BY <1>11, <1>12, <1>13, <1>14, <2>1, <2>2 DEF Fits
<1>16. ListWithin(mem, cut, K)
  BY <1>4, <1>5, <1>6, <1>11, <1>12, <1>14, <1>15 DEF ListWithin
<1> QED BY <1>6, <1>16

-----------------------------------------------------------------------------
(* StrBlocks: blocks that are sent, damaged and answered.                  *)

ReaderOf(k, mem) == IF k = "one" THEN StrArg(mem) ELSE StrListArg(mem)
HearerOf(k, mem) == IF k = "one" THEN HearOne(mem) ELSE HearList(mem)

\* A block carries strings: both sides read them, and it is as long as it says.
Carries(k, mem, strings) ==
  /\ Honest(mem) /\ HearerOf(k, mem) = strings
  /\ mem # NullBlock => Word(mem, 0) * WordBytes = Len(mem)
  /\ (\A i \in DOMAIN strings : Utf8(strings[i])) => ReaderOf(k, mem) = Read(strings)

LEMMA NullIsHonest == Honest(NullBlock) /\ Carries("one", NullBlock, <<>>) /\ ReaderOf("list", NullBlock) = Read(<<>>)
<1>1. Mem(NullBlock, 0)
  <2>1. <<>> \in [1 .. 0 -> Byte]
    BY EmptySeq
  <2> QED BY <2>1 DEF Mem, NullBlock
<1>2. Honest(NullBlock)
  BY <1>1 DEF Honest
<1>3. StrArg(NullBlock) = Read(<<>>) /\ StrListArg(NullBlock) = Read(<<>>) /\ HearOne(NullBlock) = <<>>
  BY DEF StrArg, StrListArg, HearOne
<1> QED BY <1>2, <1>3 DEF Carries, ReaderOf, HearerOf

LEMMA OneCarries ==
  ASSUME NEW s, Mem(s, Len(s)), Len(s) <= Largest, 2 + PaddedWords(Len(s)) <= Largest, NEW fill \in Byte
  PROVE  Carries("one", PackOne(s, fill), <<s>>)
<1>1. PICK mem, words : mem = PackOne(s, fill) /\ words = 2 + PaddedWords(Len(s))
  OBVIOUS
<1>2. PackedOne(mem, s, words)
  BY <1>1, PackOneIs
<1>3. HearOne(mem) = <<s>> /\ (Utf8(s) => StrArg(mem) = Read(<<s>>)) /\ Word(mem, 0) * WordBytes = Len(mem)
  BY <1>2, PackedOneReads
<1>4. PICK l : l = words * WordBytes
  OBVIOUS
<1>5. Mem(mem, l) /\ Word(mem, 0) \in 0 .. Largest /\ Word(mem, 0) * WordBytes = l /\ l \in Nat
  BY <1>2, <1>4 DEF PackedOne, Mem
<1>6. Honest(mem)
  BY <1>5 DEF Honest
<1>7. <<s>>[1] = s /\ 1 \in DOMAIN <<s>>
  OBVIOUS
<1>8. Carries("one", mem, <<s>>)
  BY <1>3, <1>6, <1>7 DEF Carries, ReaderOf, HearerOf
<1> QED BY <1>1, <1>8

LEMMA ListCarries ==
  ASSUME NEW strings, NEW k, IsText(strings, k), Fits(strings), NEW fill \in Byte
  PROVE  Carries("list", PackList(strings, fill), strings)
<1>1. PICK mem, words : mem = PackList(strings, fill) /\ words = 3 + k + PaddedWords(Len(All(strings)))
  OBVIOUS
<1>2. PackedList(mem, strings, k, words)
  BY <1>1, PackListIs
<1>3. /\ HearList(mem) = strings
      /\ (\A i \in 1 .. k : Utf8(strings[i])) => StrListArg(mem) = Read(strings)
      /\ Word(mem, 0) * WordBytes = Len(mem)
  BY <1>2, PackedListReads
<1>4. PICK l : l = words * WordBytes
  OBVIOUS
<1>5. Mem(mem, l) /\ Word(mem, 0) \in 0 .. Largest /\ Word(mem, 0) * WordBytes = l /\ l \in Nat
  BY <1>2, <1>4 DEF PackedList, Mem
<1>6. Honest(mem)
  BY <1>5 DEF Honest
<1>7. DOMAIN strings = 1 .. k
  BY DEF IsText
<1>8. Carries("list", mem, strings)
  BY <1>3, <1>6, <1>7 DEF Carries, ReaderOf, HearerOf
<1> QED BY <1>1, <1>8

\* One string is all of itself.
LEMMA AllOne ==
  ASSUME NEW strings, IsText(strings, 1)
  PROVE  All(strings) = strings[1]
<1>1. PICK J : J = Joined(strings)
  OBVIOUS
<1>2. AreJoined(J, strings, 1) /\ All(strings) = J[1]
  BY <1>1, JoinedIs, AllIs
<1>3. 1 \in 1 .. 1 /\ 1 - 1 = 0 /\ strings[1] \in Seq(Byte)
  BY DEF IsText
<1>4. J[1] = J[0] \o strings[1] /\ J[0] = <<>>
  BY <1>2, <1>3 DEF AreJoined
<1>5. PICK s : s = strings[1]
  OBVIOUS
<1>6. <<>> \o s = s
  BY <1>3, <1>5, ConcatEmptySeq
<1> QED BY <1>2, <1>4, <1>5, <1>6

LEMMA NoTextFits == IsText(<<>>, 0) /\ Fits(<<>>)
<1>1. IsText(<<>>, 0)
  <2>1. <<>> \in [1 .. 0 -> Seq(Byte)]
    BY EmptySeq
  <2> QED BY <2>1 DEF IsText
<1>2. PICK strings : strings = <<>>
  OBVIOUS
<1>3. All(strings) = Joined(strings)[0] /\ AreJoined(Joined(strings), strings, 0) /\ Len(strings) = 0
  BY <1>1, <1>2, AllIs, JoinedIs
<1>4. Len(All(strings)) = 0
  BY <1>3 DEF AreJoined
<1>5. PaddedWords(0) = 0
  <2>1. PICK w : w = WordBytes
    OBVIOUS
  <2>2. w \in Nat \ {0} /\ w - 1 \in 0 .. w - 1 /\ w - 1 = 0 * w + (w - 1) /\ w - 1 \in Int /\ 0 \in Int
    BY <2>1, TextsAssumption
  <2>3. (w - 1) \div w = 0
    BY <2>2, PlaceIs
  <2>4. 0 + w - 1 = w - 1
    BY <2>2
  <2> QED BY <2>1, <2>3, <2>4 DEF PaddedWords
<1>6. Fits(strings)
  BY <1>3, <1>4, <1>5, LargestIs DEF Fits
<1> QED BY <1>1, <1>2, <1>6

LEMMA TextIs ==
  ASSUME NEW text \in Texts
  PROVE  IsText(text, Len(text)) /\ Fits(text) /\ \A i \in DOMAIN text : Utf8(text[i])
<1>1. text \in Seq(Seq(Byte)) /\ Fits(text) /\ \A i \in DOMAIN text : Utf8(text[i])
  BY TextsAssumption DEF Byte
<1>2. Len(text) \in Nat /\ text \in [1 .. Len(text) -> Seq(Byte)]
  BY <1>1, LenProperties
<1> QED BY <1>1, <1>2 DEF IsText

\* What Racket packs is given, and is read as it was meant.
LEMMA ArgumentIsHonest ==
  ASSUME NEW k \in {"one", "list"}, NEW text \in Texts, k = "one" => Len(text) <= 1, NEW fill \in Byte
  PROVE  Honest(StrArgument(k, text, fill)) /\ ReaderOf(k, StrArgument(k, text, fill)) = Read(text)
<1>1. IsText(text, Len(text)) /\ Fits(text) /\ \A i \in DOMAIN text : Utf8(text[i])
  BY TextIs
<1>2. CASE text = <<>>
  <2>1. StrArgument(k, text, fill) = NullBlock
    BY <1>2 DEF StrArgument
  <2> QED BY <1>2, <2>1, NullIsHonest DEF Carries
<1>3. CASE text # <<>> /\ k = "one"
  <2>1. Len(text) = 1
    BY <1>1, <1>3, EmptySeq DEF IsText
  <2>2. PICK s : s = text[1]
    OBVIOUS
  <2>3. text = <<s>> /\ s \in Seq(Byte) /\ IsText(text, 1)
    BY <1>1, <2>1, <2>2 DEF IsText
  <2>4. All(text) = s
    BY <2>2, <2>3, AllOne
  <2>5. Mem(s, Len(s))
    BY <2>3, LenProperties DEF Mem
  <2>6. PaddedWords(Len(s)) \in Nat /\ Len(s) <= Largest /\ 3 + 1 + PaddedWords(Len(s)) <= Largest
    BY <1>1, <2>1, <2>4, <2>5, PaddedWordsIs DEF Fits, Mem
  <2>7. 2 + PaddedWords(Len(s)) <= Largest
    BY <2>6, LargestIs
  <2>8. Carries("one", PackOne(s, fill), <<s>>)
    BY <2>5, <2>6, <2>7, OneCarries
  <2>9. StrArgument(k, text, fill) = PackOne(s, fill)
    BY <1>3, <2>2 DEF StrArgument
  <2> QED BY <1>1, <1>3, <2>3, <2>8, <2>9 DEF Carries
<1>4. CASE text # <<>> /\ k = "list"
  <2>1. Carries("list", PackList(text, fill), text)
    BY <1>1, ListCarries
  <2>2. StrArgument(k, text, fill) = PackList(text, fill)
    BY <1>4 DEF StrArgument
  <2> QED BY <1>1, <1>4, <2>1, <2>2 DEF Carries
<1> QED BY <1>2, <1>3, <1>4

\* What Rust answers carries the strings it read.
LEMMA AnswerCarries ==
  ASSUME NEW k \in {"one", "list"}, NEW mem, Honest(mem), NEW read, read = ReaderOf(k, mem), read.error = "none"
  PROVE  Carries(k, IF k = "one" THEN StrOut(read.strings) ELSE StrListOut(read.strings), read.strings)
<1>0. 0 \in Byte
  BY DEF Byte, Base
<1>1. CASE k = "one"
  <2>1. read = StrArg(mem)
    BY <1>1 DEF ReaderOf
  <2>2. CASE mem = NullBlock
    <3>1. read.strings = <<>>
      BY <2>1, <2>2, AnswerFields DEF StrArg
    <3>2. StrOut(read.strings) = NullBlock
      BY <3>1 DEF StrOut
    <3> QED BY <1>1, <3>1, <3>2, NullIsHonest
  <2>3. CASE mem # NullBlock
    <3>1. PICK s, len : read = Read(<<s>>) /\ OneWithin(mem, s, len)
      BY <2>1, <2>3, StrArgContains
    <3>2. Mem(s, len) /\ len <= Largest /\ 2 + PaddedWords(len) <= Largest /\ Len(s) = len
      BY <3>1, MemIsSeq DEF OneWithin
    <3>3. Carries("one", PackOne(s, 0), <<s>>)
      BY <1>0, <3>2, OneCarries
    <3>4. read.strings = <<s>> /\ <<s>> # <<>> /\ <<s>>[1] = s
      BY <3>1, AnswerFields
    <3>5. StrOut(read.strings) = PackOne(s, 0)
      BY <3>4 DEF StrOut
    <3> QED BY <1>1, <3>3, <3>4, <3>5
  <2> QED BY <2>2, <2>3
<1>2. CASE k = "list"
  <2>1. read = StrListArg(mem)
    BY <1>2 DEF ReaderOf
  <2>2. PICK strings, n : read.strings = strings /\ IsText(strings, n) /\ Fits(strings)
    <3>1. CASE mem = NullBlock
      <4>1. read.strings = <<>>
        BY <2>1, <3>1, AnswerFields DEF StrListArg
      <4> QED BY <4>1, NoTextFits
    <3>2. CASE mem # NullBlock
      <4>1. PICK strings, n : read = Read(strings) /\ ListWithin(mem, strings, n)
        BY <2>1, <3>2, StrListArgContains
      <4> QED BY <4>1, AnswerFields DEF ListWithin
    <3> QED BY <3>1, <3>2
  <2>3. Carries("list", PackList(strings, 0), strings)
    BY <1>0, <2>2, ListCarries
  <2> QED BY <1>2, <2>2, <2>3 DEF StrListOut
<1> QED BY <1>1, <1>2

\* A word is overwritten: the block is as long as it was, and says no more.
LEMMA DamagedIsHonest ==
  ASSUME NEW mem, Honest(mem), NEW i \in 0 .. (Len(mem) \div WordBytes - 1), NEW n \in 0 .. Largest,
         i = 0 => n < Word(mem, 0),
         NEW new, new = [at \in DOMAIN mem |->
                           IF (at - 1) \div WordBytes = i THEN WordOf(n)[((at - 1) % WordBytes) + 1]
                           ELSE mem[at]]
  PROVE  Honest(new)
<1>1. PICK l : /\ Mem(mem, l)
               /\ mem # NullBlock => Word(mem, 0) \in 0 .. Largest /\ Word(mem, 0) * WordBytes <= l
  BY DEF Honest
<1>2. /\ WordBytes \in Nat \ {0} /\ l \in Nat /\ mem \in [1 .. l -> Byte] /\ Len(mem) = l
  BY <1>1, TextsAssumption, MemIsSeq DEF Mem
<1>3. i \in Nat /\ WordBytes <= l
  <2>1. PICK d : d = l \div WordBytes
    OBVIOUS
  <2>2. d \in Int /\ WordBytes * d <= l
    BY <1>2, <2>1, Quotient
  <2>3. i \in Nat /\ 1 <= d
    BY <1>2, <2>1, <2>2
  <2>4. WordBytes * 1 <= WordBytes * d
    BY <1>2, <2>2, <2>3, TimesGrows
  <2> QED BY <1>2, <2>2, <2>3, <2>4
<1>4. mem # NullBlock
  <2>1. 1 \in DOMAIN mem
    BY <1>2, <1>3
  <2> QED BY <2>1 DEF NullBlock
<1>5. PICK w : w = Word(mem, 0)
  OBVIOUS
<1>6. w \in 0 .. Largest /\ w \in Nat /\ w * WordBytes <= l /\ n \in Nat
  BY <1>1, <1>4, <1>5, LargestIs
<1>7. WordOf(n) \in [1 .. WordBytes -> Byte]
  BY WordOfIs
<1>8. ASSUME NEW at \in 1 .. l PROVE new[at] \in Byte
  <2>1. (at - 1) % WordBytes \in 0 .. WordBytes - 1
    <3>1. PICK a : a = at - 1
      OBVIOUS
    <3>2. a % WordBytes \in 0 .. WordBytes - 1
      BY <1>2, <3>1, DivMod
    <3> QED BY <1>2, <3>1, <3>2
  <2>2. ((at - 1) % WordBytes) + 1 \in 1 .. WordBytes
    BY <1>2, <2>1
  <2>3. WordOf(n)[((at - 1) % WordBytes) + 1] \in Byte /\ mem[at] \in Byte
    BY <1>2, <1>7, <2>2
  <2> QED BY <1>2, <2>3
<1>9. Mem(new, l)
  BY <1>2, <1>8 DEF Mem
<1>10. ASSUME NEW x \in 1 .. WordBytes
       PROVE  /\ x \in 1 .. l /\ 0 * WordBytes + x = x /\ 0 * WordBytes + 0 + x = x
              /\ new[x] = IF i = 0 THEN WordOf(n)[x] ELSE mem[x]
  <2>1. PICK y : y = x - 1
    OBVIOUS
  <2>2. y \in 0 .. WordBytes - 1 /\ y = 0 * WordBytes + y /\ y \in Int /\ 0 \in Int /\ y + 1 = x
    BY <1>2, <2>1
  <2>3. y \div WordBytes = 0 /\ y % WordBytes = y
    BY <1>2, <2>2, PlaceIs
  <2>4. x \in 1 .. l /\ 0 * WordBytes + x = x /\ 0 * WordBytes + 0 + x = x
    BY <1>2, <1>3
  <2>5. new[x] = IF y \div WordBytes = i THEN WordOf(n)[(y % WordBytes) + 1] ELSE mem[x]
    BY <1>2, <2>1, <2>4
  <2> QED BY <2>2, <2>3, <2>4, <2>5
<1>11. Word(new, 0) \in 0 .. Largest /\ Word(new, 0) * WordBytes <= l
  <2>1. CASE i = 0
    <3>1. HoldsWord(new, 0, n)
      <4>1. DOMAIN new = 1 .. l
        BY <1>2
      <4> QED BY <1>10, <2>1, <4>1 DEF HoldsWord
    <3>2. Word(new, 0) = n
      BY <3>1, HeldWord
    <3>3. WordBytes * n <= WordBytes * w
      BY <1>2, <1>5, <1>6, <2>1, TimesGrows
    <3>4. PICK a, b : a = n * WordBytes /\ b = w * WordBytes
      OBVIOUS
    <3>5. a <= b /\ b <= l /\ a \in Int /\ b \in Int
      BY <1>2, <1>6, <3>3, <3>4
    <3>6. a <= l
      BY <1>2, <3>5
    <3> QED BY <3>2, <3>4, <3>6
  <2>2. CASE i # 0
    <3>1. Bytes(new, 0, 0, WordBytes) = Bytes(mem, 0, 0, WordBytes)
      <4>1. DOMAIN new = 1 .. l /\ DOMAIN mem = 1 .. l /\ WordBytes - 0 = WordBytes
        BY <1>2
      <4>2. ASSUME NEW x \in 1 .. WordBytes
            PROVE  ByteAt(new, 0 * WordBytes + 0 + x) = ByteAt(mem, 0 * WordBytes + 0 + x)
        BY <1>10, <2>2, <4>1 DEF ByteAt
      <4>3. /\ Bytes(new, 0, 0, WordBytes) = [x \in 1 .. WordBytes |-> ByteAt(new, 0 * WordBytes + 0 + x)]
            /\ Bytes(mem, 0, 0, WordBytes) = [x \in 1 .. WordBytes |-> ByteAt(mem, 0 * WordBytes + 0 + x)]
        BY <4>1 DEF Bytes, ByteAt
      <4> QED BY <4>2, <4>3
    <3>2. Word(new, 0) = w
      BY <1>5, <3>1 DEF Word
    <3> QED BY <1>6, <3>2
  <2> QED BY <2>1, <2>2
<1> QED BY <1>9, <1>11 DEF Honest

-----------------------------------------------------------------------------
(* StrBlocks: the invariant.                                               *)

\* Why both properties hold: until it is answered the block is as long as it
\* says, or longer, and undamaged is read as what was said; the answer carries
\* what was read.
BlocksIInv ==
  /\ pc \in {"start", "packed", "read", "answered", "heard", "dropped"}
  /\ kind \in {"one", "list"} /\ damaged \in BOOLEAN /\ said \in Texts
  /\ kind = "one" => Len(said) <= 1
  /\ outcome.error \in Refusals \cup {"none"}
  /\ pc = "start" => block = NullBlock /\ ~damaged
  /\ Honest(block)
  /\ pc = "packed" /\ ~damaged => ReaderOf(kind, block) = Read(said)
  /\ pc = "read" => outcome = ReaderOf(kind, block) /\ (~damaged => outcome = Read(said))
  /\ pc \in {"answered", "heard", "dropped"} => Carries(kind, block, outcome.strings)
  /\ pc \in {"heard", "dropped"} => heard = outcome.strings
  /\ pc = "dropped" => freed * WordBytes = Len(block)

LEMMA BlocksIInvInit == BlocksInit => BlocksIInv
<1> SUFFICES ASSUME BlocksInit PROVE BlocksIInv
  OBVIOUS
<1>1. block = NullBlock /\ Honest(block)
  BY NullIsHonest DEF BlocksInit, NullBlock
<1>2. outcome.error = "none"
  BY AnswerFields DEF BlocksInit
<1> QED BY <1>1, <1>2 DEF BlocksInit, BlocksIInv

LEMMA BlocksIInvNext == BlocksIInv /\ [BlocksNext]_blockVars => BlocksIInv'
<1> SUFFICES ASSUME BlocksIInv, [BlocksNext]_blockVars PROVE BlocksIInv'
  OBVIOUS
<1>1. CASE Write
  <2>1. PICK fill \in Byte : block' = StrArgument(kind, said, fill)
    BY <1>1 DEF Write, Byte
  <2>2. /\ pc = "start" /\ pc' = "packed"
        /\ UNCHANGED <<kind, said, damaged, outcome, heard, freed>>
    BY <1>1 DEF Write
  <2>3. Honest(block') /\ ReaderOf(kind', block') = Read(said')
    BY <2>1, <2>2, ArgumentIsHonest DEF BlocksIInv
  <2> QED BY <2>2, <2>3 DEF BlocksIInv
<1>2. CASE Damage
  <2>1. PICK i \in 0 .. (Len(block) \div WordBytes - 1), n \in 0 .. Largest :
          /\ n # Word(block, i) /\ (i = 0 => n < Word(block, 0))
          /\ block' = [at \in DOMAIN block |->
                         IF (at - 1) \div WordBytes = i THEN WordOf(n)[((at - 1) % WordBytes) + 1]
                         ELSE block[at]]
    BY <1>2 DEF Damage
  <2>2. /\ pc = "packed" /\ damaged' = TRUE
        /\ UNCHANGED <<pc, kind, said, outcome, heard, freed>>
    BY <1>2 DEF Damage
  <2>3. Honest(block')
    BY <2>1, DamagedIsHonest DEF BlocksIInv
  <2> QED BY <2>2, <2>3 DEF BlocksIInv
<1>3. CASE Decode
  <2>1. /\ pc = "packed" /\ pc' = "read" /\ outcome' = ReaderOf(kind, block)
        /\ UNCHANGED <<kind, said, block, damaged, heard, freed>>
    BY <1>3 DEF Decode, ReaderOf
  <2>2. outcome'.error \in Refusals \cup {"none"}
    BY <2>1, ReadersAnswer DEF ReaderOf
  <2>3. ~damaged' => outcome' = Read(said')
    BY <2>1 DEF BlocksIInv
  <2> QED BY <2>1, <2>2, <2>3 DEF BlocksIInv
<1>4. CASE Answer
  <2>1. /\ pc = "read" /\ outcome.error = "none" /\ pc' = "answered"
        /\ block' = IF kind = "one" THEN StrOut(outcome.strings) ELSE StrListOut(outcome.strings)
        /\ UNCHANGED <<kind, said, damaged, outcome, heard, freed>>
    BY <1>4 DEF Answer
  <2>2. outcome = ReaderOf(kind, block) /\ Honest(block) /\ kind \in {"one", "list"}
    BY <2>1 DEF BlocksIInv
  <2>3. Carries(kind, block', outcome.strings)
    BY <2>1, <2>2, AnswerCarries
  <2>4. Honest(block')
    BY <2>3 DEF Carries
  <2> QED BY <2>1, <2>3, <2>4 DEF BlocksIInv
<1>5. CASE Hear
  <2>1. /\ pc = "answered" /\ pc' = "heard" /\ heard' = HearerOf(kind, block)
        /\ UNCHANGED <<kind, said, block, damaged, outcome, freed>>
    BY <1>5 DEF Hear, HearerOf
  <2>2. Carries(kind, block, outcome.strings)
    BY <2>1 DEF BlocksIInv
  <2>3. heard' = outcome'.strings
    BY <2>1, <2>2 DEF Carries
  <2> QED BY <2>1, <2>2, <2>3 DEF BlocksIInv
<1>6. CASE Drop
  <2>1. /\ pc = "heard" /\ block # NullBlock /\ pc' = "dropped" /\ freed' = Word(block, 0)
        /\ UNCHANGED <<kind, said, block, damaged, outcome, heard>>
    BY <1>6 DEF Drop
  <2>2. Carries(kind, block, outcome.strings) /\ heard = outcome.strings
    BY <2>1 DEF BlocksIInv
  <2>3. freed' * WordBytes = Len(block')
    BY <2>1, <2>2 DEF Carries
  <2> QED BY <2>1, <2>2, <2>3 DEF BlocksIInv
<1>7. CASE UNCHANGED blockVars
  BY <1>7 DEF BlocksIInv, blockVars
<1> QED BY <1>1, <1>2, <1>3, <1>4, <1>5, <1>6, <1>7 DEF BlocksNext

THEOREM BlocksInvariant == BlocksSpec => []BlocksIInv
BY BlocksIInvInit, BlocksIInvNext, PTL DEF BlocksSpec

LEMMA BlocksIInvTypes == BlocksIInv => BlocksTypeOK
<1> SUFFICES ASSUME BlocksIInv PROVE BlocksTypeOK
  OBVIOUS
<1>1. PICK l : Mem(block, l)
  BY DEF BlocksIInv, Honest
<1>2. \A i \in DOMAIN block : block[i] \in 0 .. Base - 1
  BY <1>1 DEF Mem, Byte
<1> QED BY <1>2 DEF BlocksIInv, BlocksTypeOK

\* The module's state has its types, whatever the texts and the width of a word.
THEOREM BlocksAreTyped == BlocksSpec => []BlocksTypeOK
BY BlocksInvariant, BlocksIInvTypes, PTL

LEMMA BlocksIInvSurvive == BlocksIInv => StringsSurvive
<1> SUFFICES ASSUME BlocksIInv PROVE StringsSurvive
  OBVIOUS
<1>1. pc = "read" /\ ~damaged => outcome.error = "none" /\ outcome.strings = said
  BY AnswerFields DEF BlocksIInv
<1> QED BY <1>1 DEF BlocksIInv, StringsSurvive

\* Every text that fits a word's count is read as it was packed and heard as it
\* was answered, and the answer is freed at its size (ffi/strings.rs:105-204).
THEOREM StringsAlwaysSurvive == BlocksSpec => []StringsSurvive
BY BlocksInvariant, BlocksIInvSurvive, PTL

LEMMA BlocksIInvContain == BlocksIInv => DamageContained
<1> SUFFICES ASSUME BlocksIInv, pc = "read", outcome.error = "none", block # NullBlock
             PROVE  LET read == All(outcome.strings)
                        data == IF kind = "one" THEN 2 ELSE Word(block, 1) + 3 IN
                    /\ \A i \in DOMAIN outcome.strings : Utf8(outcome.strings[i])
                    /\ data * WordBytes + Len(read) <= Word(block, 0) * WordBytes
                    /\ read = Bytes(block, data, 0, Len(read))
  BY DEF DamageContained
<1>1. outcome = ReaderOf(kind, block) /\ Honest(block) /\ kind \in {"one", "list"}
  BY DEF BlocksIInv
<1>2. CASE kind = "one"
  <2>1. PICK s, len : outcome = Read(<<s>>) /\ OneWithin(block, s, len)
    BY <1>1, <1>2, StrArgContains DEF ReaderOf
  <2>2. PICK strings : strings = <<s>>
    OBVIOUS
  <2>3. outcome.strings = strings
    BY <2>1, <2>2, AnswerFields
  <2>4. s \in Seq(Byte) /\ Len(s) = len
    BY <2>1, MemIsSeq DEF OneWithin
  <2>5. IsText(strings, 1) /\ strings[1] = s /\ DOMAIN strings = {1}
    BY <2>2, <2>4 DEF IsText
  <2>6. All(strings) = s
    BY <2>5, AllOne
  <2> QED BY <1>2, <2>1, <2>3, <2>4, <2>5, <2>6 DEF OneWithin
<1>3. CASE kind = "list"
  <2>1. PICK strings, k : outcome = Read(strings) /\ ListWithin(block, strings, k)
    BY <1>1, <1>3, StrListArgContains DEF ReaderOf
  <2>2. outcome.strings = strings
    BY <2>1, AnswerFields
  <2>3. DOMAIN strings = 1 .. k /\ k \in Nat
    BY <2>1 DEF ListWithin, IsText
  <2> QED BY <1>3, <2>1, <2>2, <2>3 DEF ListWithin
<1> QED BY <1>1, <1>2, <1>3

\* However one word of a block is overwritten, it is refused or read within what
\* it says it holds, as valid strings one after another (ffi/strings.rs:93-146).
THEOREM DamageIsContained == BlocksSpec => []DamageContained
BY BlocksInvariant, BlocksIInvContain, PTL
=============================================================================
