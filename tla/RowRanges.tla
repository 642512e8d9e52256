----------------------------- MODULE RowRanges -----------------------------
(***************************************************************************)
(* The head, the tail and a slice of a frame, a series or an expression.   *)
(* Racket passes an offset of 64 signed bits and a length of 64 unsigned   *)
(* ones; polars' lazy plans count rows in IdxSize and negate an offset to  *)
(* count from the end, so the library narrows both before it passes them   *)
(* on (rust/src/lazyframe/rows.rs, expr/selection.rs, dataframe/core.rs).  *)
(* A frame is its rows 0..height - 1, and what a plan keeps of them is the *)
(* range lo .. hi - 1.  What polars does with a range is external.         *)
(***************************************************************************)
EXTENDS Integers

CONSTANTS
  IdxMax,   \* IdxSize::MAX
  I64Max    \* i64::MAX

ASSUME WidthsAssumption == IdxMax \in Nat /\ I64Max \in Nat /\ IdxMax <= I64Max

UsizeMax == 2 * I64Max + 1
SliceOffsets == (-I64Max - 1) .. I64Max
SliceLengths == 0 .. UsizeMax

VARIABLES
  height,  \* rows of the frame
  kept,    \* the rows the plan keeps
  asked    \* the rows asked for, without any width

rangeVars == <<height, kept, asked>>

RowRange(lo, hi) == [lo |-> lo, hi |-> hi]
Smaller(x, y) == IF x <= y THEN x ELSE y
Larger(x, y) == IF x >= y THEN x ELSE y
Minus(x, y) == Larger(x - y, 0)            \* saturating_sub
RowsOf(range) == range.lo .. range.hi - 1

\* The type invariant of the module's state.
RangesTypeOK ==
  /\ height \in 0 .. IdxMax
  /\ kept \in [lo : 0 .. height, hi : 0 .. height] /\ kept.lo <= kept.hi
  /\ asked \in [lo : 0 .. height, hi : 0 .. height] /\ asked.lo <= asked.hi

-----------------------------------------------------------------------------
(* polars: `rows` of a range from `start`, counted from the end when it is *)
(* negative, as far as there are any.                                      *)

Cut(range, start, rows) ==
  LET n == range.hi - range.lo
      from == IF start < 0 THEN start + n ELSE start
      Within(x) == range.lo + Smaller(Larger(x, 0), n) IN
  RowRange(Within(from), Within(from + rows))

\* polars negates an offset from the end, as a plan does in IdxSize: an offset
\* whose negation does not fit is taken for another.
AsIdx(start) == IF start < -IdxMax THEN start + IdxMax + 1 ELSE start
AsI64(n) == IF n > I64Max THEN n - 2 * I64Max - 2 ELSE n
AsNegated(start) == IF start < -I64Max THEN 0 ELSE start

CutPlan(range, start, rows) == Cut(range, AsIdx(start), rows)
CutExpr(range, start, rows) == Cut(range, AsNegated(start), rows)

-----------------------------------------------------------------------------
(* The library.                                                            *)

SaturatingRows(n) == Smaller(n, IdxMax)
RowCount(n) == Smaller(n, I64Max)

\* Fault: the offset is moved and the length is not.
LazySliceLong(range, offset, length) ==
  CutPlan(range, Larger(offset, -IdxMax), SaturatingRows(length))
LazySlice(range, offset, length) ==
  LET start == Larger(offset, -IdxMax)
      skipped == start - offset IN
  CutPlan(range, start, SaturatingRows(Minus(length, skipped)))
LazyHead(range, n) == CutPlan(range, 0, SaturatingRows(n))
LazyTail(range, n) == CutPlan(range, -SaturatingRows(n), SaturatingRows(n))

ExprSlice(range, offset, length) ==
  LET start == Larger(offset, -I64Max)
      skipped == start - offset IN
  CutExpr(range, start, Minus(length, skipped))
ExprHead(range, n) == CutExpr(range, 0, RowCount(n))
ExprTail(range, n) == CutExpr(range, -AsI64(RowCount(n)), RowCount(n))

\* The eager entry points pass their arguments to polars, which stops a head
\* and a tail at the rows there are.
FrameHead(range, n) == Cut(range, 0, Smaller(n, range.hi - range.lo))
FrameTail(range, n) ==
  LET rows == Smaller(n, range.hi - range.lo) IN Cut(range, -rows, rows)
FrameSlice(range, offset, length) == Cut(range, offset, length)

(* What was asked for.                                                     *)

RowHead(range, n) == RowRange(range.lo, Smaller(range.lo + n, range.hi))
RowTail(range, n) == RowRange(Larger(range.hi - n, range.lo), range.hi)
RowSlice(range, offset, length) ==
  LET first == (IF offset < 0 THEN range.hi ELSE range.lo) + offset
      past == first + length IN
  RowRange(Smaller(Larger(first, range.lo), range.hi), Smaller(Larger(past, range.lo), range.hi))

-----------------------------------------------------------------------------
RangesInit ==
  /\ height \in 0 .. IdxMax
  /\ kept = RowRange(0, height)
  /\ asked = RowRange(0, height)

TakeHead(n) ==
  /\ asked' = RowHead(asked, n)
  /\ kept' \in {LazyHead(kept, n), ExprHead(kept, n), FrameHead(kept, n)}
  /\ UNCHANGED height

TakeTail(n) ==
  /\ asked' = RowTail(asked, n)
  /\ kept' \in {LazyTail(kept, n), ExprTail(kept, n), FrameTail(kept, n)}
  /\ UNCHANGED height

TakeSlice(offset, length) ==
  /\ asked' = RowSlice(asked, offset, length)
  /\ kept' \in {LazySlice(kept, offset, length), ExprSlice(kept, offset, length),
                FrameSlice(kept, offset, length)}
  /\ UNCHANGED height

RangesNext ==
  \/ \E n \in SliceLengths : TakeHead(n) \/ TakeTail(n)
  \/ \E offset \in SliceOffsets, length \in SliceLengths : TakeSlice(offset, length)

RangesSpec == RangesInit /\ [][RangesNext]_rangeVars

-----------------------------------------------------------------------------
\* However a program chains heads, tails and slices, lazy or eager, and
\* whatever the widths, the rows it gets are the rows it asked for
\* (lazyframe/rows.rs:28-67, expr/selection.rs:65-117).
KeptIsAsked == RowsOf(kept) = RowsOf(asked)
=============================================================================
