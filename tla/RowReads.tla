-------------------------------- MODULE RowReads --------------------------------
(***************************************************************************)
(* Reading rows in bulk (polars/private/bulk.rkt over                      *)
(* rust/src/series/copy.rs): whole columns (`series->list`,                *)
(* `dataframe->columns`), a window of rows at a time (`in-series`,         *)
(* `in-dataframe-rows`) and matrices of doubles (`dataframe->f64vector`).  *)
(*                                                                         *)
(* Each native copy checks the sizes that it is told; whether those are    *)
(* the sizes of the memory behind them is the caller's business, and a     *)
(* window of a frame puts every column through one scratch buffer.  So     *)
(* memory is modelled byte by byte (for matrices: double by double), as    *)
(* what was written where.  A series is immutable: its rows are constant.  *)
(* Native calls keep no state between them.                                *)
(***************************************************************************)
EXTENDS Integers, Sequences, SequencesExt

CONSTANTS
  Null,       \* a null entry, and the value that stands for one
  Junk,       \* what unwritten or half overwritten memory holds
  None,       \* no buffer, no block, nothing read
  MaxRows,    \* bound: rows of a frame
  MaxCells,   \* bound: entries of a frame
  MaxCols,    \* bound: columns of a frame
  UsizeMax,   \* the largest usize
  Resumes     \* whether a consumer goes on after a later window's conversion raised

ASSUME ConstantsAssumption ==
  /\ MaxRows \in Nat /\ MaxCells \in Nat /\ MaxCols \in Nat /\ UsizeMax \in Nat
  /\ MaxRows <= UsizeMax /\ MaxCells <= UsizeMax
  /\ Null \notin Int /\ Junk \notin Int
  /\ None \notin Seq({0, 1}) /\ None \notin Seq(Seq(Int \cup BOOLEAN \cup (Int \X Int) \cup {Null}))
  /\ Resumes \in BOOLEAN

VARIABLES
  form,    \* which function reads
  n,       \* rows
  cols,    \* the columns: a dtype and its rows
  size,    \* rows in a window: chunk-rows, buffer-size
  order,   \* of a matrix: column after column, or row after row
  policy,  \* of a matrix: whether a null is filled or an error
  pos,     \* the furthest position reached by an iteration
  first,   \* chunk-start, start: the first row of the window
  block,   \* chunk, block: the converted rows of the window, by column
  pc,      \* what is executed next
  j,       \* the column under conversion
  built,   \* columns of the window under construction
  mem,     \* what was written to scratch, destination and offsets
  room,    \* the addresses that are allocated there
  valid,   \* the validity buffer
  buf,     \* the bytes of strings
  table,   \* names of a categorical's codes, in the order of local codes
  got      \* the last row read

vars == <<form, n, cols, size, order, policy, pos, first, block, pc, j, built, mem, room, valid, buf,
          table, got>>

------------------------------------------------------------------------------

\* Entries: a number stands for itself, a string or name for its length.
\* Decimals have words of two bits.
Data == [int8 |-> {1, 2}, int16 |-> {1, 2}, int32 |-> {1, 2}, int64 |-> {1, 2},
         boolean |-> {0, 1}, zoned |-> {1, 2}, string |-> {0, 2},
         categorical |-> {0, 2}, decimal |-> {-5, 6}, null |-> {}]

Dtypes == DOMAIN Data

\* Fixed-width elements as they are copied (a date is an int32; datetimes,
\* durations and times are int64; unsigned and float types have these widths).
Width == [int8 |-> 1, int16 |-> 2, int32 |-> 4, int64 |-> 8, boolean |-> 1]
Physical == DOMAIN Width

F64Convertible == {"int8", "int16", "int32", "int64", "boolean", "null"}

Columns == UNION {[dtype : {d}, rows : [1..n -> Data[d] \cup {Null}]] : d \in Dtypes}

\* A wall clock beside its instant.
Wall(v) == v + 10

\* What a row reads as.
Expected(dtype, v) ==
  IF v = Null THEN Null
  ELSE CASE dtype = "boolean" -> v = 1
         [] dtype = "zoned"   -> <<v, Wall(v)>>
         [] OTHER             -> v

\* One column is a series; any number of them a frame.
Init ==
  /\ form \in {"list", "series", "frame", "matrix", "native"}
  /\ n \in 0..MaxRows
  /\ cols \in UNION {[1..k -> Columns] :
       k \in {w \in 0..MaxCols : /\ w * n <= MaxCells
                                 /\ form \in {"series", "native"} => w = 1}}
  /\ form \in {"matrix", "native"} => \A c \in DOMAIN cols : cols[c].dtype \in F64Convertible
  /\ size \in IF form \in {"series", "frame"} THEN 1..MaxRows ELSE {0}
  /\ order \in IF form = "matrix" THEN {"fortran", "c"} ELSE {"fortran"}
  /\ policy \in IF form = "matrix" THEN {"fill", "error"} ELSE {"fill"}
  /\ pos = 0 /\ first = 0
  /\ block = None /\ got = None
  /\ pc = CASE form \in {"series", "frame"} -> "idle"
            [] form = "native"             -> "native"
            [] OTHER                       -> "column"
  /\ j = 1 /\ built = <<>>
  /\ mem = <<>> /\ room = {} /\ valid = None /\ buf = None /\ table = <<>>

------------------------------------------------------------------------------
\* Memory.

Bytes(at, length) == at..(at + length - 1)

\* Puts elements of `width` bytes one after another from `at`.
Put(m, at, width, elements) ==
  LET written == Bytes(at, width * Len(elements)) IN
  [b \in DOMAIN m \cup written |->
     IF b \in written THEN <<elements[((b - at) \div width) + 1], (b - at) % width>> ELSE m[b]]

\* The element of `width` bytes at `at`.
Get(m, at, width) ==
  IF /\ Bytes(at, width) \subseteq DOMAIN m
     /\ \A k \in 0..width - 1 : m[at + k] = <<m[at][1], k>>
  THEN m[at][1] ELSE Junk

column == cols[j]
count  == IF form \in {"series", "frame"} THEN (IF size < n - first THEN size ELSE n - first) ELSE n
window == [r \in 1..count |-> column.rows[first + r]]

\* `row_range` and `room_for`, in usize arithmetic.
RowRange(start, rows) == start + rows <= UsizeMax /\ start + rows <= n
RoomFor(rows, length) == rows <= length /\ (valid = None \/ rows <= Len(valid))

HasNulls(c) == \E r \in DOMAIN cols[c].rows : cols[c].rows[r] = Null

\* `write_bits` of the validity, or ones.
WriteValid == valid' = IF valid = None THEN None
                       ELSE [r \in 1..count |-> IF window[r] = Null THEN 0 ELSE 1]

\* scratch-bytes and codes-bytes.
ScratchBytesPerRow == 16
\* Fault: the extra row, which ends a table's offsets, is forgotten.
ScratchBytesBare(rows) == 8 * rows
ScratchBytes(rows) == ScratchBytesPerRow * (rows + 1)
\* Fault: an odd number of codes is rounded down.
CodesBytesFloor(rows) == 8 * (rows \div 2)
CodesBytes(rows) == 8 * ((rows + 1) \div 2)

\* Buffers of a column's own lie apart; `Names` is where a table's offsets go.
Apart == ScratchBytes(MaxRows)
Names == IF column.dtype = "string" THEN 0 ELSE IF form = "frame" THEN CodesBytes(count) ELSE Apart

\* What with-scratch allocates when it is not given a scratch.
OwnBytes ==
  CASE column.dtype \in Physical                   -> Bytes(0, Width[column.dtype] * count)
    [] column.dtype \in {"zoned", "decimal"}       -> Bytes(0, 16 * count)
    [] column.dtype = "string"                     -> Bytes(0, 8 * (count + 1))
    [] column.dtype = "categorical"                -> Bytes(0, 4 * count)
    [] column.dtype = "null"                       -> {}

Fixed == UNCHANGED <<form, n, cols, size, order, policy>>
Calm  == UNCHANGED <<pos, block, got>> /\ Fixed

\* The status a caller checks: a refused copy has written nothing.
Refused == pc' = "refused" /\ UNCHANGED <<first, j, built, mem, room, valid, buf, table>> /\ Calm

------------------------------------------------------------------------------
\* Windows.

\* Fault: the row after the block is looked up in it.
HeldOneMore == IF block = None THEN 0 ELSE IF block = <<>> THEN size ELSE Len(block[1]) + 1

\* How many rows from its first the block is taken to hold.
Held == IF block = None THEN 0
        ELSE IF form = "frame" THEN size ELSE Len(block[1])

RowOf(b, i) == [c \in DOMAIN b |-> b[c][i - first + 1]]

\* `element`, when the row lies in the block, or before it: then vector-ref is
\* given a negative index.  A consumer asks for the next position, or (through
\* sequence-generate*) again for one it has had.
Hit(i) ==
  /\ pc = "idle" /\ i < n
  /\ i - first < Held
  /\ IF \A c \in DOMAIN block : i - first \in 0..Len(block[c]) - 1
     THEN /\ got' = <<i, RowOf(block, i)>>
          /\ pos' = IF i = pos THEN i + 1 ELSE pos
          /\ UNCHANGED pc
     ELSE pc' = "too early" /\ UNCHANGED <<pos, got>>
  /\ UNCHANGED <<first, block, j, built, mem, room, valid, buf, table>> /\ Fixed

\* `element`, otherwise: the window moves, and then its rows are converted.
Miss(i) ==
  /\ pc = "idle" /\ i < n
  /\ i - first >= Held
  /\ first' = i
  /\ pc' = "column" /\ j' = 1 /\ built' = <<>>
  /\ mem' = <<>> /\ buf' = None /\ valid' = None /\ table' = <<>>
  /\ room' = IF form = "frame"
             THEN LET rows == IF size < n - i THEN size ELSE n - i IN Bytes(0, ScratchBytes(rows))
             ELSE {}
  /\ Calm

\* `rows`: a fresh validity buffer if the column has nulls anywhere, and the
\* scratch as the previous column left it, or a buffer of its own.
Column ==
  /\ pc = "column" /\ j <= Len(cols)
  /\ valid' = IF form # "matrix" /\ HasNulls(j) THEN [r \in 1..count |-> 0] ELSE None
  /\ CASE form = "frame"  -> UNCHANGED <<mem, room>>
       [] form = "matrix" -> room' = 1..n * Len(cols) /\ UNCHANGED mem
       [] OTHER           -> mem' = <<>> /\ room' = OwnBytes
  /\ buf' = None /\ table' = <<>>
  /\ pc' = CASE form = "matrix"                                 -> "double"
             [] form # "matrix" /\ column.dtype = "null"        -> "collect"
             [] form # "matrix" /\ column.dtype = "string"      -> "size"
             [] OTHER                                           -> "copy"
  /\ UNCHANGED <<first, j, built>> /\ Calm

\* The block is set, and the row that was asked for is read from it.
Deliver ==
  /\ pc = "column" /\ j > Len(cols) /\ form # "matrix"
  /\ block' = built
  /\ IF form = "list" THEN pc' = "done" /\ UNCHANGED <<pos, got>>
     ELSE pc' = "idle" /\ got' = <<first, RowOf(built, first)>>
          /\ pos' = IF first = pos THEN first + 1 ELSE pos
  /\ UNCHANGED <<first, j, built, mem, room, valid, buf, table>> /\ Fixed

\* A native call, a conversion or a break raises.
Fails ==
  /\ pc \in {"column", "copy", "size", "names", "collect", "double"}
  /\ pc' = "raised"
  /\ UNCHANGED <<first, j, built, mem, room, valid, buf, table>> /\ Calm

\* The consumer catches that, and asks its sequence again: after it asked for a
\* row before the window, after the first window failed to convert and, if
\* Resumes, after a later one did.
Resume ==
  /\ form \in {"series", "frame"}
  /\ pc = "too early" \/ (pc = "raised" /\ (Resumes \/ block = None))
  /\ pc' = "idle"
  /\ UNCHANGED <<first, j, built, mem, room, valid, buf, table>> /\ Calm

------------------------------------------------------------------------------
\* Copies.

\* `series_copy_physical` and `series_copy_bool`: chunk after chunk, whose
\* values under a null are anything.
CopyPhysical ==
  /\ pc = "copy" /\ column.dtype \in Physical
  /\ IF RowRange(first, count) /\ RoomFor(count, count)
     THEN /\ mem' = Put(mem, 0, Width[column.dtype],
                        [r \in 1..count |-> IF window[r] = Null THEN Junk ELSE window[r]])
          /\ WriteValid
          /\ pc' = "collect"
          /\ UNCHANGED <<first, j, built, room, buf, table>> /\ Calm
     ELSE Refused

\* `copy-zoned-datetimes`: the instants of a slice, then its wall clocks.
CopyZoned ==
  /\ pc = "copy" /\ column.dtype = "zoned"
  /\ IF RowRange(0, count) /\ RoomFor(count, count)
     THEN /\ LET instants == [r \in 1..count |-> IF window[r] = Null THEN Junk ELSE window[r]]
                 walls    == [r \in 1..count |-> IF window[r] = Null THEN Junk ELSE Wall(window[r])]
             IN mem' = Put(Put(mem, 0, 8, instants), 8 * count, 8, walls)
          /\ WriteValid
          /\ pc' = "collect"
          /\ UNCHANGED <<first, j, built, room, buf, table>> /\ Calm
     ELSE Refused

\* `series_copy_decimal`: each value as two words, of its two's complement.
CopyDecimal ==
  /\ pc = "copy" /\ column.dtype = "decimal"
  /\ LET bits(v)  == (IF v = Null THEN 0 ELSE v) % 16
         words    == IF 2 * count <= UsizeMax THEN 2 * count ELSE UsizeMax
     IN IF RowRange(first, count) /\ words <= 2 * count /\ RoomFor(count, count)
        THEN /\ mem' = Put(mem, 0, 8, [k \in 1..2 * count |->
                   LET b == bits(window[(k + 1) \div 2])
                   IN IF k % 2 = 1 THEN b % 4 ELSE b \div 4])
             /\ WriteValid
             /\ pc' = "collect"
             /\ UNCHANGED <<first, j, built, room, buf, table>> /\ Calm
        ELSE Refused

\* The names of the local codes, in the order in which rows first have them.
NamesIn(rows) ==
  LET names[r \in 0..Len(rows)] ==
        IF r = 0 THEN <<>>
        ELSE IF rows[r] = Null \/ Contains(names[r - 1], rows[r]) THEN names[r - 1]
        ELSE Append(names[r - 1], rows[r])
  IN names[Len(rows)]
CodeIn(names, v) == IF v = Null THEN 0 ELSE (CHOOSE k \in DOMAIN names : names[k] = v) - 1

\* `series_copy_cat`: a local code per row, and the names of these codes.
CopyCat ==
  /\ pc = "copy" /\ column.dtype = "categorical"
  /\ IF RowRange(first, count) /\ RoomFor(count, count)
     THEN /\ table' = NamesIn(window)
          /\ mem' = Put(mem, 0, 4, [r \in 1..count |-> CodeIn(table', window[r])])
          /\ WriteValid
          /\ pc' = "size"
          /\ room' = IF form = "frame" THEN room ELSE room \cup Bytes(Apart, 8 * (Len(table') + 1))
          /\ UNCHANGED <<first, j, built, buf>> /\ Calm
     ELSE Refused

\* The strings that `string-rows` reads: the window's, or a table's names.
Strings == IF column.dtype = "string" THEN window ELSE table
Lengths == [r \in DOMAIN Strings |-> IF Strings[r] = Null THEN 0 ELSE Strings[r]]
\* Where each string ends.
EndsOf(lengths) ==
  LET ends[r \in 0..Len(lengths)] == IF r = 0 THEN 0 ELSE ends[r - 1] + lengths[r] IN ends
Ends(r) == EndsOf(Lengths)[r]

\* The offsets that `string-rows` says it has room for.
OffsetsLen == Len(Strings) + 1

\* `series_str_byte_len`, and a buffer of that many bytes.
SizeStrings ==
  /\ pc = "size"
  /\ buf' = [k \in 1..Ends(Len(Strings)) |-> Junk]
  /\ pc' = "names"
  /\ UNCHANGED <<first, j, built, mem, room, valid, table>> /\ Calm

\* `series_copy_str`: bytes, and an offset before each value and at the end.
\* The names of a table are all valid.
CopyStrings ==
  /\ pc = "names"
  /\ IF Ends(Len(Strings)) <= Len(buf) /\ Len(Strings) < OffsetsLen
     THEN /\ buf' = [b \in 1..Ends(Len(Strings)) |->
                        LET r == CHOOSE k \in DOMAIN Strings : Ends(k - 1) < b /\ b <= Ends(k)
                        IN <<Strings[r], b - Ends(r - 1)>>]
          /\ mem' = Put(mem, Names, 8, [k \in 1..Len(Strings) + 1 |-> Ends(k - 1)])
          /\ IF column.dtype = "string" THEN WriteValid ELSE UNCHANGED valid
          /\ pc' = "collect"
          /\ UNCHANGED <<first, j, built, room, table>> /\ Calm
     ELSE Refused

\* `bytes->string/utf-8` of what lies between two offsets.
StringAt(k) ==
  LET from == Get(mem, Names + 8 * k, 8)
      to   == Get(mem, Names + 8 * (k + 1), 8)
      length == to - from
  IN IF Junk \in {from, to} THEN Junk
     ELSE IF \A b \in 1..length : buf[from + b] = <<length, b>> THEN length ELSE Junk

\* What `collect` makes of row i of the window.
Element(i) ==
  CASE column.dtype \in Physical \ {"boolean"} -> Get(mem, Width[column.dtype] * i, Width[column.dtype])
    [] column.dtype = "boolean" -> IF Get(mem, i, 1) = Junk THEN Junk ELSE Get(mem, i, 1) # 0
    [] column.dtype = "zoned"   -> <<Get(mem, 8 * i, 8), Get(mem, 8 * count + 8 * i, 8)>>
    [] column.dtype = "string"  -> StringAt(i)
    [] column.dtype = "categorical" -> IF Get(mem, 4 * i, 4) = Junk THEN Junk ELSE StringAt(Get(mem, 4 * i, 4))
    [] column.dtype = "decimal" ->
         LET low == Get(mem, 16 * i, 8)  high == Get(mem, 16 * i + 8, 8)
         IN IF Junk \in {low, high} THEN Junk
            ELSE low + 4 * (IF high >= 2 THEN high - 4 ELSE high)
    [] column.dtype = "null" -> Null

Collect ==
  /\ pc = "collect"
  /\ built' = Append(built, [r \in 1..count |->
                IF valid # None /\ valid[r] = 0 THEN Null ELSE Element(r - 1)])
  /\ j' = j + 1
  /\ pc' = "column"
  /\ UNCHANGED <<first, mem, room, valid, buf, table>> /\ Calm

------------------------------------------------------------------------------
\* Doubles.

\* Fault: the last index wraps around.
LastIndexWraps(offset, stride) == ((n - 1) * stride + offset) % (UsizeMax + 1)

\* The index of the last row, if usize has it.
LastIndex(offset, stride) ==
  IF (n - 1) * stride <= UsizeMax /\ (n - 1) * stride + offset <= UsizeMax
  THEN (n - 1) * stride + offset ELSE UsizeMax + 1

StridedFits(length, offset, stride) ==
  stride # 0 /\ (n = 0 \/ LastIndex(offset, stride) < length)

\* `Strided::put` for every row (addresses count doubles, from 1; a Null there
\* is the null value).
PutStrided(offset, stride) ==
  mem' = [r \in DOMAIN mem \cup {offset + (k - 1) * stride + 1 : k \in 1..n} |->
            IF \E k \in 1..n : r = offset + (k - 1) * stride + 1
            THEN column.rows[CHOOSE k \in 1..n : r = offset + (k - 1) * stride + 1]
            ELSE mem[r]]

\* Fault: strides and offsets of the two orders are swapped.
PlaceSwapped == IF order = "c" THEN <<(j - 1) * n, 1>> ELSE <<j - 1, Len(cols)>>

\* Where `dataframe->f64vector` puts column j: offset and stride.
Place == IF order = "fortran" THEN <<(j - 1) * n, 1>> ELSE <<j - 1, Len(cols)>>

\* `first_null`
FirstNull(c) ==
  IF HasNulls(c) THEN CHOOSE r \in 0..n - 1 : /\ cols[c].rows[r + 1] = Null
                                            /\ \A q \in 1..r : cols[c].rows[q] # Null
                 ELSE n

\* `copy-as-f64!`: a column is copied before its nulls are refused.
Double ==
  /\ pc = "double"
  /\ IF StridedFits(n * Len(cols), Place[1], Place[2])
     THEN /\ PutStrided(Place[1], Place[2])
          /\ IF policy = "error" /\ FirstNull(j) < n THEN pc' = "raised" /\ UNCHANGED j
                                                    ELSE pc' = "column" /\ j' = j + 1
          /\ UNCHANGED <<first, built, room, valid, buf, table>> /\ Calm
     ELSE Refused

Finish ==
  /\ pc = "column" /\ j > Len(cols) /\ form = "matrix"
  /\ pc' = "done"
  /\ UNCHANGED <<first, j, built, mem, room, valid, buf, table>> /\ Calm

\* `series_copy_as_f64` as its own tests call it: any arguments, and a
\* destination of the length they say.
Native(length, offset, stride) ==
  /\ pc = "native"
  /\ IF StridedFits(length, offset, stride)
     THEN /\ PutStrided(offset, stride)
          /\ room' = 1..length
          /\ pc' = "done"
          /\ UNCHANGED <<first, j, built, valid, buf, table>> /\ Calm
     ELSE Refused

Next ==
  \/ \E i \in 0..pos : Hit(i)
  \/ \E i \in 0..pos : Miss(i)
  \/ Column \/ Deliver \/ Fails \/ Resume
  \/ CopyPhysical \/ CopyZoned \/ CopyDecimal \/ CopyCat
  \/ SizeStrings \/ CopyStrings \/ Collect
  \/ Double \/ Finish
  \/ \E length, offset, stride \in 0..UsizeMax : Native(length, offset, stride)

Spec == Init /\ [][Next]_vars

------------------------------------------------------------------------------

\* The type invariant of the module's state.
TypeOK ==
  /\ form \in {"list", "series", "frame", "matrix", "native"}
  /\ n \in 0..MaxRows /\ size \in 0..MaxRows
  /\ \A c \in DOMAIN cols : cols[c] \in Columns
  /\ order \in {"fortran", "c"} /\ policy \in {"fill", "error"}
  /\ pos \in 0..n /\ first \in 0..n
  /\ pc \in {"idle", "column", "copy", "size", "names", "collect", "double", "native",
             "raised", "too early", "refused", "done"}
  /\ j \in 1..Len(cols) + 1
  /\ block = None \/ DOMAIN block = DOMAIN cols
  /\ Len(built) <= Len(cols)
  /\ valid = None \/ valid \in Seq({0, 1})
  /\ got = None \/ got[1] \in 0..n - 1

\* Whatever the window, the dtypes and the nulls, row i reads as row i: the
\* elements that `collect` finds in memory are the ones that were copied for
\* that row, and the block in use is the block of the window.
RightRow ==
  /\ got # None =>
       got[2] = [c \in DOMAIN cols |-> Expected(cols[c].dtype, cols[c].rows[got[1] + 1])]
  /\ form = "list" /\ pc = "done" =>
       block = [c \in DOMAIN cols |-> [r \in 1..n |-> Expected(cols[c].dtype, cols[c].rows[r])]]

\* A loop never trips over the end of a block: while the next position is taken
\* to lie in the block, it does.
NextReadable ==
  pc = "idle" /\ pos < n /\ pos - first < Held =>
    \A c \in DOMAIN block : pos - first \in 0..Len(block[c]) - 1

\* Every write lies in memory that is allocated, also where columns share one
\* scratch buffer and where arguments are as large as usize; and what the
\* Racket side allocates and says is never refused.
BuffersFit ==
  /\ DOMAIN mem \subseteq room
  /\ form # "native" => pc # "refused"

\* A finished matrix holds each entry at its place in the order asked for,
\* nulls filled, and nothing is left unwritten; with the policy "error" it is
\* finished only if there is no null.
MatrixWhole ==
  form = "matrix" /\ pc = "done" =>
    /\ DOMAIN mem = 1..n * Len(cols)
    /\ \A c \in DOMAIN cols, r \in 1..n :
         /\ mem[IF order = "fortran" THEN (c - 1) * n + r ELSE (r - 1) * Len(cols) + c] = cols[c].rows[r]
         /\ policy = "error" => cols[c].rows[r] # Null
==============================================================================
