----------------------------- MODULE ReadFrames -----------------------------
(***************************************************************************)
(* What the readers of a file have in common: the frame they give, its     *)
(* first rows, and the row index, which polars numbers from zero and the   *)
(* library shifts afterwards (rust/src/lazyframe/scan.rs).                 *)
(*                                                                         *)
(* A frame is its columns, and for each of its rows the row of the file it *)
(* is and its index.                                                       *)
(***************************************************************************)
EXTENDS Integers, SequencesExt

CONSTANTS
  IdxMax,     \* IdxSize::MAX
  Names,      \* what a program may call a column
  Offsets,    \* what it may number a row index from
  MaxChosen,  \* how many columns it may choose or override
  None        \* an option that is not given

\* No name is the one that marks a failure, and no extension is None.
ASSUME NamesAssumption ==
  /\ IdxMax \in Nat /\ Offsets \subseteq Nat /\ MaxChosen \in Nat
  /\ "failed" \notin Names
  /\ None \notin {"gz", "zst", "zstd"}

Frame(columns, rows, index) == [columns |-> columns, rows |-> rows, index |-> index]
Failed == Frame(<<[name |-> "failed", of |-> 0]>>, <<>>, <<>>)
ColumnNames(columns) == [i \in DOMAIN columns |-> columns[i].name]

Count(n) == [i \in 1..n |-> i]
UpTo(n, rows) == IF n = None \/ n >= Len(rows) THEN rows ELSE SubSeq(rows, 1, n)

RowIndexes == {None} \cup [name : Names, offset : Offsets]
\* `zero_based`: what polars numbers.
ZeroBased(o, rows) == IF o.index = None THEN <<>> ELSE [i \in DOMAIN rows |-> i - 1]

\* Fault: the offset is the reader's own, which wraps.
OffsetRowsWrapping(o, frame) ==
  IF o.index = None THEN frame
  ELSE [frame EXCEPT !.index = [i \in DOMAIN @ |-> (@[i] + o.index.offset) % (IdxMax + 1)]]
\* Fault: the sum is not held against what IdxSize holds.
OffsetRowsUnchecked(o, frame) ==
  IF o.index = None THEN frame
  ELSE [frame EXCEPT !.index = [i \in DOMAIN @ |-> @[i] + o.index.offset]]
\* `offset_column`, `offset_rows` and `offset_frame_rows`.  polars adds an
\* offset of its own unchecked; the library's only shifts what IdxSize holds.
OffsetRows(o, frame) ==
  IF o.index = None THEN frame
  ELSE IF \E i \in DOMAIN frame.index : frame.index[i] + o.index.offset > IdxMax THEN Failed
  ELSE [frame EXCEPT !.index = [i \in DOMAIN @ |-> @[i] + o.index.offset]]
=============================================================================
