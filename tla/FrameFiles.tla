----------------------------- MODULE FrameFiles -----------------------------
(***************************************************************************)
(* A frame is written as Parquet, JSON or NDJSON, and the file is read     *)
(* with options (rust/src/dataframe/parquet.rs, dataframe/json.rs,         *)
(* lazyframe/scan.rs, lazyframe/ndjson.rs).  Parquet's row index is added  *)
(* from zero and shifted afterwards, NDJSON's is polars' own, numbered     *)
(* morsel by morsel from the offset itself; columns are selected by name   *)
(* or by index from either end; and the dtypes a program gives are put     *)
(* over the schema.  What polars' readers and writers do otherwise is      *)
(* external.                                                               *)
(***************************************************************************)
EXTENDS ReadFrames

CONSTANTS
  Headers,     \* the column names of the frames that are written
  Heights,
  \* What a program may ask for: rows to a group, levels of a compression, a
  \* number of rows to read, and columns by index.
  GroupSizes, Levels, Firsts, Indices

ASSUME FilesAssumption ==
  /\ Headers \subseteq Seq(Names) /\ Heights \subseteq Nat
  /\ GroupSizes \subseteq Nat /\ Firsts \subseteq Nat
  /\ Levels \subseteq Int /\ Indices \subseteq Int

VARIABLES
  stage,    \* "frame", then "parquet" or "json", then which reader read it
  file,     \* the columns and the height of the frame, and the file's groups of rows
  request,  \* what it was asked to be written or read with
  got       \* the frame or the fields read, or whether the options were refused

fileVars == <<stage, file, request, got>>

\* The type invariant of the module's state: an index is an IdxSize.
FilesTypeOK ==
  /\ stage \in {"frame", "parquet", "json", "parquet read", "json read", "ndjson read"}
  /\ file.header \in Headers /\ file.height \in Heights
  /\ stage = "frame" => got \in {None, "refused"}
  /\ stage = "parquet read" => ToSet(got.index) \subseteq 0..IdxMax
  /\ stage = "ndjson read" =>
       got.next \in 0..IdxMax /\ ToSet(got.frame.index) \subseteq 0..IdxMax

\* Where a column of a frame that is read comes from: the file's column of that
\* place, or the reader.
FromFile(header) == [i \in DOMAIN header |-> [name |-> header[i], of |-> i]]
IndexColumn(o) == IF o.index = None THEN <<>> ELSE <<[name |-> o.index.name, of |-> 0]>>
PathColumn(o) == IF o.path = None THEN <<>> ELSE <<[name |-> o.path, of |-> -1]>>

-----------------------------------------------------------------------------
(* Parquet.                                                                *)

\* Fault: a group takes a row of the next one too.
RowGroupsLong(height, rows) ==
  IF rows = None \/ rows = 0 THEN <<Count(height)>>
  ELSE [g \in 1 .. (height + rows - 1) \div rows |->
          SubSeq(Count(height), (g - 1) * rows + 1,
                 IF g * rows + 1 < height THEN g * rows + 1 ELSE height)]
\* `write_parquet`: groups of `rows` rows; none given, or 0, is polars' one.
RowGroups(height, rows) ==
  IF rows = None \/ rows = 0 THEN <<Count(height)>>
  ELSE [g \in 1 .. (height + rows - 1) \div rows |->
          SubSeq(Count(height), (g - 1) * rows + 1,
                 IF g * rows < height THEN g * rows ELSE height)]

\* `level`: an i32 narrowed by saturation to the codec's u8 or u32 (16 bits do
\* for the 32), and refused outside the codec's range.
CodecLevels(codec) ==
  CASE codec = "gzip" -> 0..9 [] codec = "brotli" -> 0..11 [] codec = "zstd" -> 1..22
    [] OTHER -> {}
Narrowed(level, most) == IF level \in 0..most THEN level ELSE most
Level(codec, level) ==
  IF codec = "zstd" THEN level
  ELSE Narrowed(level, IF codec = "gzip" THEN 2 ^ 8 - 1 ELSE 2 ^ 16 - 1)
CompressionTaken(codec, level) ==
  IF level = None \/ codec \notin {"gzip", "brotli", "zstd"} THEN TRUE
  ELSE Level(codec, level) \in CodecLevels(codec)

\* polars: the scan, the row index first and the path last, of the first rows.
Scan(f, o) ==
  LET columns == IndexColumn(o) \o FromFile(f.header) \o PathColumn(o)
      rows == UpTo(o.n, FlattenSeq(f.groups)) IN
  IF ~IsInjective(ColumnNames(columns)) THEN Failed
  ELSE Frame(columns, rows, ZeroBased(o, rows))

\* Fault: an index from the end is a place too far.
ResolveIndexOff(index, width) == IF index < 0 THEN index + width + 1 ELSE index + 1
\* `decode_columns`, `resolve_index` and `selected_names`: by name, or by index
\* from either end; a name or an index that is not there and a column that is
\* selected twice are refused.
ResolveIndex(index, width) == (IF index < 0 THEN index + width ELSE index) + 1
SelectedPlaces(columns, selection) ==
  [i \in DOMAIN selection.by |->
     IF selection.kind = "names" THEN
       LET places == {p \in DOMAIN columns : columns[p].name = selection.by[i]} IN
       IF places = {} THEN 0 ELSE CHOOSE p \in places : TRUE
     ELSE ResolveIndex(selection.by[i], Len(columns))]

\* `select_columns`.  A row index that is not selected is not shifted either.
Select(o, frame) ==
  IF frame = Failed \/ o.selection = None THEN OffsetRows(o, frame)
  ELSE LET places == SelectedPlaces(frame.columns, o.selection)
           chosen == [i \in DOMAIN places |-> frame.columns[places[i]]] IN
       IF \E i \in DOMAIN places : places[i] \notin DOMAIN frame.columns THEN Failed
       ELSE IF ~IsInjective(places) THEN Failed
       ELSE LET kept == [frame EXCEPT !.columns = chosen,
                                      !.rows = IF chosen = <<>> THEN <<>> ELSE @,
                                      !.index = IF chosen = <<>> THEN <<>> ELSE @] IN
            IF \E i \in DOMAIN chosen : chosen[i].of = 0 THEN OffsetRows(o, kept)
            ELSE [kept EXCEPT !.index = <<>>]

-----------------------------------------------------------------------------
(* JSON and NDJSON: a schema is names and dtypes; "" is the dtype inferred. *)

Field(name, dtype) == [name |-> name, dtype |-> dtype]
FailedFields == <<Field("failed", "failed")>>
FieldNames(schema) == [i \in DOMAIN schema |-> schema[i].name]
\* A file of no rows names no columns.
Inferred(f) ==
  IF f.height = 0 THEN <<>> ELSE [i \in DOMAIN f.header |-> Field(f.header[i], "")]
Given(f, o) == IF o.schema = None THEN Inferred(f) ELSE o.schema
OverrideOf(overrides, name) == {i \in DOMAIN overrides : overrides[i].name = name}

\* Fault: an override of a column that is not there is passed over.
OverriddenLoose(schema, overrides) ==
  [i \in DOMAIN schema |->
     IF OverrideOf(overrides, schema[i].name) = {} THEN schema[i]
     ELSE overrides[CHOOSE k \in OverrideOf(overrides, schema[i].name) : TRUE]]
\* `overridden`, and polars' own overwriting of a schema.
Overridden(schema, overrides) ==
  IF ToSet(FieldNames(overrides)) \subseteq ToSet(FieldNames(schema))
  THEN OverriddenLoose(schema, overrides) ELSE FailedFields

\* `json_read` always has polars do both.
JsonRead(f, o) ==
  IF o.infer = 0 THEN FailedFields
  ELSE IF o.overrides = <<>> THEN Given(f, o)
  ELSE Overridden(Given(f, o), o.overrides)

IndexField(o) == IF o.index = None THEN <<>> ELSE <<Field(o.index.name, "index")>>
PathField(o) == IF o.path = None THEN <<>> ELSE <<Field(o.path, "path")>>
\* `ndjson_scan` overrides a schema itself, and has polars override the inferred
\* one, which it resolves at once to refuse an override of nothing.  `row_index`
\* only sees that the offset is an IdxSize: polars numbers from it.
NdjsonScan(f, o) ==
  LET fields == IF o.schema = None /\ o.overrides = <<>> THEN Given(f, o)
                ELSE Overridden(Given(f, o), o.overrides)
      columns == IndexField(o) \o fields \o PathField(o)
      taken == /\ fields # FailedFields /\ o.infer # 0
               /\ o.index # None => o.index.offset <= IdxMax
               /\ IsInjective(FieldNames(columns)) IN
  IF ~taken THEN [frame |-> Failed, next |-> 0]
  ELSE [frame |-> Frame(columns, <<>>, <<>>),
        next |-> IF o.index = None THEN 0 ELSE o.index.offset]

Numbers(from, rows) == [i \in DOMAIN rows |-> from + i - 1]
\* Fault: each morsel is numbered from the offset that was given.
NumberMorselRestarting(o, read, rows) ==
  IF o.index = None THEN [read EXCEPT !.frame.rows = @ \o rows]
  ELSE IF read.next + Len(rows) > IdxMax THEN [frame |-> Failed, next |-> 0]
  ELSE [frame |-> [read.frame EXCEPT !.rows = @ \o rows,
                                     !.index = @ \o Numbers(o.index.offset, rows)],
        next |-> read.next + Len(rows)]
\* `WithRowIndexNode`: a morsel's rows are numbered from the node's own offset,
\* and an offset for the next morsel that is no IdxSize is a panic, which
\* `guard_panic` makes a refusal.
NumberMorsel(o, read, rows) ==
  IF o.index = None THEN [read EXCEPT !.frame.rows = @ \o rows]
  ELSE IF read.next + Len(rows) > IdxMax THEN [frame |-> Failed, next |-> 0]
  ELSE [frame |-> [read.frame EXCEPT !.rows = @ \o rows,
                                     !.index = @ \o Numbers(read.next, rows)],
        next |-> read.next + Len(rows)]

\* `ndjson_extension`.
ExtensionTaken(compression, extension) ==
  CASE compression = "uncompressed" -> extension \notin {"gz", "zst", "zstd"}
    [] compression = "gzip"         -> extension \in {None, "gz"}
    [] compression = "zstd"         -> extension \in {None, "zst"}
-----------------------------------------------------------------------------
(* What a program asks for.                                                *)

Selections ==
  {None} \cup [kind : {"names"}, by : SeqOf(Names, MaxChosen)]
         \cup [kind : {"places"}, by : SeqOf(Indices, MaxChosen)]
ParquetOptions ==
  [n : {None} \cup Firsts, index : RowIndexes,
   path : {None} \cup Names, selection : Selections]

\* Which dtype is declared is not told apart, only who declares it; and an
\* inference length only when it is 0.
Schemas(dtype) ==
  {fields \in SeqOf([name : Names, dtype : {dtype}], MaxChosen) :
     IsInjective(FieldNames(fields))}
JsonOptions ==
  [schema : {None} \cup Schemas("declared"), overrides : Schemas("override"), infer : {None, 0}]
NdjsonOptions ==
  [schema : {None} \cup Schemas("declared"), overrides : Schemas("override"), infer : {None, 0},
   n : {None} \cup Firsts, path : {None} \cup Names,
   index : RowIndexes \cup [name : Names, offset : {IdxMax + 1}]]

FilesInit ==
  /\ stage = "frame"
  /\ \E header \in Headers, height \in Heights, binary \in BOOLEAN :
       file = [header |-> header, height |-> height,
               groups |-> <<Count(height)>>, binary |-> binary]
  /\ request = None /\ got = None

\* `dataframe_write_parquet_with_options`: the options are checked first.
WriteParquet ==
  /\ stage = "frame"
  /\ \E rows \in {None} \cup GroupSizes, codec \in {"snappy", "gzip", "brotli", "zstd"},
        level \in {None} \cup Levels :
       /\ request' = [rows |-> rows, codec |-> codec, level |-> level]
       /\ \/ /\ CompressionTaken(codec, level)
             /\ stage' = "parquet" /\ got' = "written"
             /\ file' = [file EXCEPT !.groups = RowGroups(Len(FlattenSeq(@)), rows)]
          \/ /\ ~CompressionTaken(codec, level)
             /\ got' = "refused" /\ UNCHANGED <<stage, file>>

\* `dataframe_write_json` and `dataframe_write_ndjson_with_options`: a frame
\* that holds binary is refused, and so is a misleading extension.
WriteJson ==
  /\ stage = "frame"
  /\ \E compression \in {"json", "uncompressed", "gzip", "zstd"},
        extension \in {None, "ndjson", "gz", "zst", "zstd"}, check \in BOOLEAN :
       /\ request' = [compression |-> compression, extension |-> extension, check |-> check]
       /\ LET taken == /\ ~file.binary
                       /\ compression = "json" \/ ~check \/ ExtensionTaken(compression, extension) IN
          /\ stage' = IF taken THEN "json" ELSE stage
          /\ got' = IF taken THEN "written" ELSE "refused"
  /\ UNCHANGED file

\* `dataframe_read_parquet_with_options_v2`, and of no selection
\* `lazyframe_scan_parquet_with_options_v2`, collected.
ReadParquet ==
  /\ stage = "parquet" /\ stage' = "parquet read"
  /\ \E o \in ParquetOptions : request' = o /\ got' = Select(o, Scan(file, o))
  /\ UNCHANGED file

\* `dataframe_read_json_with_options_v2`.
ReadJson ==
  /\ stage = "json" /\ stage' = "json read" /\ request.compression = "json"
  /\ \E o \in JsonOptions : request' = o /\ got' = JsonRead(file, o)
  /\ UNCHANGED file

\* `lazyframe_scan_ndjson_with_options`, and `dataframe_read_ndjson_with_options`,
\* which collects it.  What polars infers from no lines at all is left open.
ScanNdjson ==
  /\ stage = "json" /\ stage' = "ndjson read" /\ request.compression # "json"
  /\ \E o \in NdjsonOptions :
       /\ file.height > 0 \/ o.schema # None
       /\ request' = o /\ got' = NdjsonScan(file, o)
  /\ UNCHANGED file

Taken == UpTo(request.n, FlattenSeq(file.groups))
\* The plan runs: polars reads the rows in morsels of any height.
NextMorsel ==
  /\ stage = "ndjson read" /\ got.frame # Failed
  /\ LET read == Len(got.frame.rows) IN
     \E k \in 1 .. Len(Taken) - read :
       got' = NumberMorsel(request, got, SubSeq(Taken, read + 1, read + k))
  /\ UNCHANGED <<stage, file, request>>

FilesNext == WriteParquet \/ WriteJson \/ ReadParquet \/ ReadJson \/ ScanNdjson \/ NextMorsel
FilesSpec == FilesInit /\ [][FilesNext]_fileVars

-----------------------------------------------------------------------------
\* The row groups are the rows of the frame that was written, each once and in
\* order, and none holds more than was asked for.
GroupsPartition ==
  stage = "parquet" =>
    /\ FlattenSeq(file.groups) = Count(file.height)
    /\ request.rows \notin {None, 0} =>
         \A g \in DOMAIN file.groups : Len(file.groups[g]) \in 1 .. request.rows

\* A file is only written with a level its codec has, never with one that only
\* fits after narrowing, and only under an extension that tells its compression.
WrittenAsAsked ==
  /\ stage = "parquet" =>
       request.level = None \/ request.codec = "snappy" \/ request.level \in CodecLevels(request.codec)
  /\ stage = "json" =>
       /\ ~file.binary
       /\ request.check /\ request.compression # "json" =>
            /\ request.extension = "gz" => request.compression = "gzip"
            /\ request.extension \in {"zst", "zstd"} => request.compression = "zstd"

\* Column `c` of the whole frame is the one the request's k-th choice means.
Means(choice, columns, p) ==
  IF request.selection.kind = "names" THEN columns[p].name = choice
  ELSE p = choice + 1 \/ p = choice + 1 + Len(columns)
Whole == IndexColumn(request) \o FromFile(file.header) \o PathColumn(request)
AskedFor == IF request.selection = None THEN Count(Len(Whole)) ELSE request.selection.by
Chosen(k) == {p \in DOMAIN Whole :
                IF request.selection = None THEN p = k ELSE Means(AskedFor[k], Whole, p)}
Indexed == request.index # None /\ \E k \in DOMAIN AskedFor : 1 \in Chosen(k)

\* A read that succeeds gives the columns asked for, in the order they were,
\* with the file's first rows and each row's place in the file beside it; it
\* fails when two columns would have a name, when a column is not there or is
\* asked for twice, and when an index does not fit, and at no other time.
ColumnsAsAsked ==
  stage = "parquet read" =>
    LET possible == /\ IsInjective(ColumnNames(Whole))
                    /\ \A k \in DOMAIN AskedFor : Chosen(k) # {}
                    /\ \A k, l \in DOMAIN AskedFor : k # l => Chosen(k) \cap Chosen(l) = {}
                    /\ Indexed => Len(Taken) = 0 \/ request.index.offset + Len(Taken) - 1 <= IdxMax IN
    /\ possible <=> got # Failed
    /\ possible =>
         /\ Len(got.columns) = Len(AskedFor)
         /\ \A k \in DOMAIN AskedFor : got.columns[k] \in {Whole[p] : p \in Chosen(k)}
         /\ AskedFor # <<>> => got.rows = Taken
         /\ Indexed => \A i \in DOMAIN got.rows : got.index[i] = request.index.offset + i - 1

\* The fields are the schema's, or the file's, under the overrides; NDJSON's
\* stand between the row index and the path.
GivenFields == Given(file, request)
NdjsonFields == IndexField(request) \o GivenFields \o PathField(request)
FieldsPossible ==
  /\ request.infer # 0
  /\ ToSet(FieldNames(request.overrides)) \subseteq ToSet(FieldNames(GivenFields))
AreOverridden(read) ==
  /\ FieldNames(read) = FieldNames(GivenFields)
  /\ ToSet(request.overrides) \subseteq ToSet(read)
  /\ \A i \in DOMAIN GivenFields :
       OverrideOf(request.overrides, GivenFields[i].name) = {} => read[i] = GivenFields[i]

\* JSON is read with the fields asked for, and an override of a field that is
\* not there fails, as nothing else does but an inference from 0 rows.
OverridesAsAsked ==
  stage = "json read" =>
    /\ FieldsPossible <=> got # FailedFields
    /\ FieldsPossible => AreOverridden(got)

\* Whether the columns of an NDJSON read can be as asked: JSON's conditions,
\* and no two columns of one name.
NdjsonPossible ==
  /\ FieldsPossible
  /\ IsInjective(FieldNames(NdjsonFields))

\* An NDJSON read gives JSON's fields between the row index and the path, the
\* first rows asked for, and their numbers beside them, however polars cuts them
\* into morsels.  It fails when its columns cannot be as asked and when the
\* number after the last row's is no IdxSize, and at no other time.
NdjsonAsAsked ==
  stage = "ndjson read" =>
    LET first == Len(IndexField(request))
        numbered == request.index # None
        possible == /\ NdjsonPossible
                    /\ numbered => request.index.offset + Len(Taken) <= IdxMax
        frame == got.frame IN
    /\ frame = Failed => ~possible
    /\ frame # Failed =>
         /\ frame.rows = Taken => possible
         /\ frame.rows = SubSeq(Taken, 1, Len(frame.rows))
         /\ FieldNames(frame.columns) = FieldNames(NdjsonFields)
         /\ AreOverridden(SubSeq(frame.columns, first + 1, first + Len(GivenFields)))
         /\ numbered => frame.index = Numbers(request.index.offset, frame.rows)

\* A file is written and read as it was asked to be, however the options
\* combine: its groups partition the rows, no level or extension misleads, the
\* columns, the rows and the row index are the ones asked for, and the two
\* readers of JSON take overrides alike (dataframe/parquet.rs:51-246,
\* lazyframe/scan.rs:69-134, lazyframe/ndjson.rs:20-91, dataframe/json.rs:54-224).
\* Parquet's index reaches IdxMax; NDJSON's stops one short of it.
FilesAsAsked ==
  /\ GroupsPartition /\ WrittenAsAsked
  /\ ColumnsAsAsked /\ OverridesAsAsked /\ NdjsonAsAsked

\* A row index of NDJSON is given whenever the numbers of the rows are numbers
\* of its column, as polars/scribblings/reference.scrbl:1313-1314 describes it.
IndexesThatFitAreGiven ==
  /\ stage = "ndjson read" /\ NdjsonPossible
  /\ request.index # None
  /\ request.index.offset <= IdxMax /\ request.index.offset + Len(Taken) - 1 <= IdxMax
  => got.frame # Failed
=============================================================================
