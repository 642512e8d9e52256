------------------------------ MODULE CsvReads ------------------------------
(***************************************************************************)
(* Reading and scanning CSV with options (rust/src/lazyframe/csv.rs).      *)
(* polars' two readers know a file's columns by the names in its header; a *)
(* program that renames them addresses everything else by the new names.   *)
(* The library reads the header first, translates the overrides, the null  *)
(* values and the columns, renames what is read, and adds the row index    *)
(* last.  A read of a pattern, or of the first rows only, is a scan that   *)
(* is collected; any other is eager, through another reader of polars.     *)
(*                                                                         *)
(* A column that is read is its name, its place in the file, and the names *)
(* under which a program gave it a dtype and null values.  polars' readers *)
(* are external.                                                           *)
(***************************************************************************)
EXTENDS ReadFrames

CONSTANTS
  CsvHeaders,  \* the names in a file's header
  CsvHeight,   \* the file's rows
  \* What a program may ask for: rows to read, columns by index, new names.
  CsvFirsts, CsvIndices, MaxNames

\* polars gives no two columns of a file one name; None is no choice of columns.
ASSUME CsvAssumption ==
  /\ CsvHeaders \subseteq {header \in Seq(Names) : IsInjective(header)}
  /\ CsvHeight \in Nat /\ CsvFirsts \subseteq Nat /\ CsvIndices \subseteq Nat
  /\ MaxNames \in Nat /\ None \notin [kind : {"names"}, by : Seq(Names)]

VARIABLES
  csv,    \* the file's header
  how,    \* "unread", "eager", "scanned" or "collected"
  wish,   \* the options
  plan,   \* of a scan: the frame it gives but for the offset of its row index
  frame   \* what was read

csvVars == <<csv, how, wish, plan, frame>>

Column(name, of, dtype, nulls) == [name |-> name, of |-> of, dtype |-> dtype, nulls |-> nulls]
CsvIndex(w) == IF w.index = None THEN <<>> ELSE <<Column(w.index.name, 0, None, None)>>

\* A dtype or null value given to a column.
For(names) == {[name |-> name, given |-> name] : name \in names}
GivenNames(given) == {g.name : g \in given}
GivenTo(given, name) ==
  IF name \in GivenNames(given) THEN (CHOOSE g \in given : g.name = name).given ELSE None

\* Null values of every column, and of the columns they are given to.
EveryColumn == For({"every column"})
NullsOf(w, name) == IF w.nulls = EveryColumn THEN "every column" ELSE GivenTo(w.nulls, name)
NullsNamed(w) == IF w.nulls = EveryColumn THEN {} ELSE GivenNames(w.nulls)

\* What a program may ask for; lists of names and of places have no repetitions.
Lists(S, n) == {l \in SeqOf(S, n) : IsInjective(l)}
Selects == {None} \cup [kind : {"names"}, by : Lists(Names, MaxChosen) \ {<<>>}]
                  \cup [kind : {"places"}, by : Lists(CsvIndices, MaxChosen) \ {<<>>}]
Wishes ==
  [columns : Selects, names : Lists(Names, MaxNames), overrides : {For(S) : S \in SUBSET Names},
   nulls : {{}, EveryColumn} \cup {For({name}) : name \in Names},
   index : RowIndexes, n : {None} \cup CsvFirsts]

\* The type invariant of the module's state: an index is an IdxSize.
CsvTypeOK ==
  /\ csv \in CsvHeaders
  /\ how \in {"unread", "eager", "scanned", "collected"}
  /\ how # "unread" => wish.index \in RowIndexes /\ wish.n \in {None} \cup CsvFirsts
  /\ ToSet(frame.index) \subseteq 0..IdxMax

-----------------------------------------------------------------------------
(* polars' readers, of names in the header.                                *)

InFile(header, w) ==
  [i \in DOMAIN header |->
     Column(header[i], i, GivenTo(w.overrides, header[i]), NullsOf(w, header[i]))]

PlaceOf(names, name) ==
  IF Contains(names, name) THEN CHOOSE p \in DOMAIN names : names[p] = name ELSE 0
Picked(names, columns) ==
  [i \in DOMAIN columns.by |->
     IF columns.kind = "names" THEN PlaceOf(names, columns.by[i]) ELSE columns.by[i] + 1]
\* `sort_unstable`, of places that differ.
InOrder(places) ==
  CHOOSE order \in [DOMAIN places -> ToSet(places)] :
    ToSet(order) = ToSet(places) /\ \A i, j \in DOMAIN places : i < j => order[i] <= order[j]

CsvRows(w) == UpTo(w.n, Count(CsvHeight))

\* Eager: the selected columns in the file's order, after the row index, whose
\* name it does not look at; an override of no column is passed over.
EagerReader(header, w) ==
  LET places == IF w.columns = None THEN Count(Len(header)) ELSE InOrder(Picked(header, w.columns)) IN
  IF \/ w.columns # None /\ ~(ToSet(Picked(header, w.columns)) \subseteq DOMAIN header)
     \/ ~(NullsNamed(w) \subseteq ToSet(header))
  THEN Failed
  ELSE Frame(CsvIndex(w) \o [i \in DOMAIN places |-> InFile(header, w)[places[i]]],
             CsvRows(w), ZeroBased(w, CsvRows(w)))

\* Lazy: every column, and no name twice.
LazyReader(header, w) ==
  IF \/ ~(NullsNamed(w) \subseteq ToSet(header))
     \/ w.index # None /\ Contains(header, w.index.name)
  THEN Failed
  ELSE Frame(CsvIndex(w) \o InFile(header, w), CsvRows(w), ZeroBased(w, CsvRows(w)))

-----------------------------------------------------------------------------
(* The library.                                                            *)

OverridesInFile(names, w) == GivenNames(w.overrides) \subseteq ToSet(names)
FreeRowIndex(names, w) == w.index = None \/ ~Contains(names, w.index.name)

\* `Renaming::new`: the header under its new names, refused if there are more
\* of them than columns or two are the same.
Renamed(header, w) ==
  [i \in DOMAIN header |-> IF i \in DOMAIN w.names THEN w.names[i] ELSE header[i]]
Renames(header, w) == Len(w.names) <= Len(header) /\ IsInjective(Renamed(header, w))

\* Fault: a dtype is looked for under the name the file has.
InFileNamesLoose(header, w) ==
  LET named == Renamed(header, w)
      Old(name) == header[PlaceOf(named, name)]
      OldColumns == IF w.columns = None \/ w.columns.kind = "places" THEN w.columns
                    ELSE [w.columns EXCEPT !.by = [i \in DOMAIN @ |-> Old(@[i])]]
      OldNulls == IF w.nulls = EveryColumn THEN w.nulls
                  ELSE {[g EXCEPT !.name = Old(@)] : g \in w.nulls} IN
  [w EXCEPT !.index = None, !.names = <<>>, !.columns = OldColumns, !.nulls = OldNulls]
\* `in_file_names`: the request in the names of the header, without the index;
\* refused as a whole if a name is not one of the new ones.
InFileNames(header, w) ==
  LET named == Renamed(header, w)
      Old(name) == header[PlaceOf(named, name)] IN
  [InFileNamesLoose(header, w) EXCEPT
     !.overrides = {[g EXCEPT !.name = Old(@)] : g \in w.overrides}]
Translates(header, w) ==
  LET named == Renamed(header, w) IN
  /\ Renames(header, w)
  /\ OverridesInFile(named, w) /\ FreeRowIndex(named, w)
  /\ NullsNamed(w) \subseteq ToSet(named)
  /\ w.columns # None /\ w.columns.kind = "names" => ToSet(w.columns.by) \subseteq ToSet(named)

NewNames(header, w, read) ==
  LET columns == read.columns IN
  [read EXCEPT !.columns =
     [i \in DOMAIN columns |-> [columns[i] EXCEPT !.name = Renamed(header, w)[PlaceOf(header, @)]]]]
WithRowIndex(w, read) ==
  [read EXCEPT !.columns = CsvIndex(w) \o @, !.index = ZeroBased(w, read.rows)]

\* `shift_remove`.
Without(name, columns) ==
  LET place == PlaceOf(ColumnNames(columns), name) IN
  IF place = 0 THEN columns ELSE RemoveAt(columns, place)
\* `select`: by name or by place among the columns that are not the row index,
\* in the file's order, the row index first.
CsvSelect(w, read) ==
  IF read = Failed \/ w.columns = None THEN read
  ELSE LET columns == IF w.index = None THEN read.columns ELSE Without(w.index.name, read.columns)
           picked == Picked(ColumnNames(columns), w.columns)
           places == InOrder(picked) IN
       IF ~(ToSet(picked) \subseteq DOMAIN columns) THEN Failed
       ELSE [read EXCEPT !.columns = CsvIndex(w) \o [i \in DOMAIN places |-> columns[places[i]]]]

\* `renamed_scan`; the offset is added when the scan is collected.
RenamedScan(header, w) ==
  IF ~Translates(header, w) THEN Failed
  ELSE LET read == LazyReader(header, [InFileNames(header, w) EXCEPT !.columns = None]) IN
       IF read = Failed THEN Failed ELSE WithRowIndex(w, NewNames(header, w, read))

\* `csv_scan`.
CsvScan(header, w) ==
  CsvSelect(w, IF w.names # <<>> THEN RenamedScan(header, w)
               ELSE IF ~OverridesInFile(header, w) THEN Failed
               ELSE LazyReader(header, w))

\* `eager_plain`, `eager_renamed` and `eager_read`.
EagerPlain(header, w) ==
  LET read == EagerReader(header, w) IN IF read = Failed THEN Failed ELSE OffsetRows(w, read)
EagerRenamed(header, w) ==
  IF ~Translates(header, w) THEN Failed
  ELSE LET read == EagerPlain(header, InFileNames(header, w)) IN
       IF read = Failed THEN Failed ELSE OffsetRows(w, WithRowIndex(w, NewNames(header, w, read)))
EagerRead(header, w) ==
  IF w.names # <<>> THEN EagerRenamed(header, w)
  ELSE IF /\ w.overrides # {} \/ w.index # None
          /\ ~(OverridesInFile(header, w) /\ FreeRowIndex(header, w))
  THEN Failed
  ELSE EagerPlain(header, w)

Collected(w, scanned) == IF scanned = Failed THEN Failed ELSE OffsetRows(w, scanned)

\* `csv_read`.
CsvRead(header, w, pattern) ==
  IF pattern \/ w.n # None THEN Collected(w, CsvScan(header, w)) ELSE EagerRead(header, w)

-----------------------------------------------------------------------------
CsvInit ==
  /\ csv \in CsvHeaders /\ how = "unread"
  /\ wish = None /\ plan = Failed /\ frame = Failed

\* `dataframe_read_csv_v3`.
ReadCsv ==
  /\ how = "unread" /\ how' = "eager"
  /\ \E w \in Wishes, pattern \in BOOLEAN : wish' = w /\ frame' = CsvRead(csv, w, pattern)
  /\ UNCHANGED <<csv, plan>>

\* `lazyframe_scan_csv_v3`, which takes no columns from Racket.
ScanCsv ==
  /\ how = "unread" /\ how' = "scanned"
  /\ \E w \in {w \in Wishes : w.columns = None} : wish' = w /\ plan' = CsvScan(csv, w)
  /\ UNCHANGED <<csv, frame>>

CollectCsv ==
  /\ how = "scanned" /\ how' = "collected"
  /\ frame' = Collected(wish, plan)
  /\ UNCHANGED <<csv, wish, plan>>

CsvNext == ReadCsv \/ ScanCsv \/ CollectCsv
CsvSpec == CsvInit /\ [][CsvNext]_csvVars

-----------------------------------------------------------------------------
(* What a request means: the file's columns are renamed, and everything    *)
(* else is said of the columns under their new names.  What is read is in  *)
(* the file's order, the row index before it.                              *)

MeansSomething ==
  LET names == Renamed(csv, wish) IN
  /\ Renames(csv, wish)
  /\ GivenNames(wish.overrides) \cup NullsNamed(wish) \subseteq ToSet(names)
  /\ wish.columns # None => ToSet(Picked(names, wish.columns)) \subseteq DOMAIN names
  /\ wish.index # None =>
       /\ ~Contains(names, wish.index.name)
       /\ Len(CsvRows(wish)) = 0 \/ wish.index.offset + Len(CsvRows(wish)) - 1 <= IdxMax

IsMeant(read) ==
  LET columns == InFile(Renamed(csv, wish), wish)
      places == IF wish.columns = None THEN DOMAIN csv
                ELSE ToSet(Picked(Renamed(csv, wish), wish.columns)) IN
  /\ ToSet(read.columns) = ToSet(CsvIndex(wish)) \cup {columns[p] : p \in places}
  /\ \A i, j \in DOMAIN read.columns : i < j => read.columns[i].of < read.columns[j].of
  /\ read.rows = CsvRows(wish)
  /\ read.index = IF wish.index = None THEN <<>>
                  ELSE [i \in DOMAIN CsvRows(wish) |-> wish.index.offset + i - 1]

\* Whatever options are combined, an eager read and a collected scan give the
\* columns, dtypes, null values, rows and row index that the request means of
\* the renamed file, in the file's order; and they fail exactly when it means
\* nothing: a name that is not there, a name twice, a place past the last
\* column, a row index that does not fit (lazyframe/csv.rs:380-704).
ReadMeansRequest ==
  how \in {"eager", "collected"} =>
    IF MeansSomething THEN frame # Failed /\ IsMeant(frame) ELSE frame = Failed
=============================================================================
