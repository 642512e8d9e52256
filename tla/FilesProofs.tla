----------------------------- MODULE FilesProofs -----------------------------
(***************************************************************************)
(* What reads and installs files.                                          *)
(*                                                                         *)
(* FrameFiles and CsvReads, for every file and request: a read gives what  *)
(* was asked for, or it is refused.  What was read is what the code        *)
(* computes of the request, and the lemmas say what that is; every way to  *)
(* read a CSV file comes to one target.  NDJSON comes in morsels, and the  *)
(* inductive invariant says that what came is numbered one after another.  *)
(*                                                                         *)
(* CsvInference, for every room that is free, every limit of an address    *)
(* space, every size of a line and every bound of a compression: inferring *)
(* from every row instead of a number of them changes no dtype, and polars *)
(* is never told to reserve what the host does not have.                   *)
(*                                                                         *)
(* NativeLibs, for every number of installers, builds and runs: a library  *)
(* a racket has mapped keeps its bytes, and a run nobody stands in the way *)
(* of ends as it should.  The inductive invariant follows a run: its       *)
(* temporary file is its own and holds what it installs once it is copied, *)
(* what is linked is whole, and until another run changes the two names    *)
(* they are what this one started from, or what it has made of them.       *)
(***************************************************************************)
EXTENDS CsvInference, NativeLibs, FrameFiles, CsvReads, SequenceTheorems, FiniteSetTheorems,
        WellFoundedInduction, TLAPS

-----------------------------------------------------------------------------
(* CsvInference.                                                           *)

InferIInv ==
  /\ paths = {} \/ paths = {Unset} \/ \E f, g \in AFile : paths = {f, g}
  /\ memory.total \in Nat /\ memory.override \in Nat \cup {Unset, -1}
  /\ requested \in Nat \cup {Unset}
  /\ requested # Unset => inferred = RowsToInfer(requested)
  /\ requested = Unset => inferred = Unset

LEMMA MemoryIsANumber ==
  ASSUME InferIInv
  PROVE  HostMemory \in Nat /\ \A n \in Nat : Reservation(n) \in Nat
<1>1. HostMemory \in Nat
  BY InferenceAssumption DEF InferIInv, HostMemory
<1>2. \A n \in Nat : Reservation(n) \in Nat
  BY InferenceAssumption DEF Reservation
<1> QED BY <1>1, <1>2

\* No file holds more rows than the bound of it.
LEMMA RowsAreBounded ==
  ASSUME NEW f \in AFile, MostRowsInFile(f) # Unset
  PROVE  MostRowsInFile(f) \in Nat /\ f.rows \in Nat /\ f.rows <= MostRowsInFile(f)
<1>1. /\ f.bytes \in Nat /\ f.rows <= MostLines(f)
      /\ f.rows \in Int /\ f.rows >= 0 /\ f.packed \in DOMAIN Expansions
  BY InferenceAssumption DEF AFile
<1>2. Deflate \in Nat /\ Zstd \in Nat /\ 1 <= Zstd /\ Deflate <= Zstd
  BY InferenceAssumption
<1>3. Expansions[f.packed] \in Nat /\ Expansions[f.packed] <= Zstd
  BY <1>1, <1>2 DEF Expansions
<1> DEFINE e == Expansions[f.packed]
<1>4. \A b, x, y \in Nat : x <= y => b * x <= b * y /\ b * x \in Nat /\ b * y \in Nat
  <2> SUFFICES ASSUME NEW b \in Nat, NEW x \in Nat, NEW y \in Nat, x <= y
               PROVE  b * x <= b * y /\ b * x \in Nat /\ b * y \in Nat
    OBVIOUS
  <2>1. y - x \in Nat /\ b * (y - x) >= 0 /\ b * y = b * x + b * (y - x)
    OBVIOUS
  <2>2. b * x \in Nat /\ b * y \in Nat /\ b * (y - x) \in Nat
    BY <2>1
  <2> QED BY <2>1, <2>2
<1>5. f.bytes * e \in Nat /\ f.bytes * Zstd \in Nat /\ f.bytes * e <= f.bytes * Zstd
  BY <1>1, <1>2, <1>3, <1>4
<1>6. MostRowsInFile(f) = IF f.opens THEN f.bytes * e + 1 ELSE f.bytes * Zstd + 1
  BY DEF MostRowsInFile
<1>7. MostLines(f) = f.bytes * e + 1
  BY DEF MostLines
<1> HIDE DEF e
<1> QED BY <1>1, <1>5, <1>6, <1>7

\* The bound over the files is one no file exceeds.
LEMMA MostRowsBound ==
  ASSUME NEW f \in AFile, NEW g \in AFile, paths = {f, g}, MostRows # Unset
  PROVE  MostRows \in Nat /\ f.rows <= MostRows /\ g.rows <= MostRows
<1> DEFINE x == MostRowsInFile(f)
           y == MostRowsInFile(g)
<1>1. x # Unset /\ y # Unset /\ MostRows = Max({MostRowsInFile(h) : h \in paths})
  BY DEF MostRows
<1>2. x \in Nat /\ y \in Nat /\ f.rows \in Nat /\ f.rows <= x /\ g.rows \in Nat /\ g.rows <= y
  BY <1>1, RowsAreBounded
<1>3. {MostRowsInFile(h) : h \in paths} = {x, y}
  OBVIOUS
<1> HIDE DEF x, y
<1>4. Max({x, y}) \in {x, y} /\ Max({x, y}) >= x /\ Max({x, y}) >= y
  <2>1. \E z \in {x, y} : \A w \in {x, y} : z >= w
    BY <1>2
  <2> QED BY <1>2, <2>1 DEF Max
<1> QED BY <1>1, <1>2, <1>3, <1>4

\* polars is told a number only when it may be reserved.
LEMMA ToldIsReservable ==
  ASSUME InferIInv, NEW n \in Nat, RowsToInfer(n) # Unset
  PROVE  RowsToInfer(n) <= Free
         \/ (RowsToInfer(n) < Never /\ Reservation(RowsToInfer(n)) <= HostMemory)
<1>1. RowsToInfer(n) = n
  BY DEF RowsToInfer
<1>2. CASE n <= Free
  BY <1>1, <1>2
<1>3. CASE ~(n <= Free)
  <2>1. n # Unset
    BY InferenceAssumption
  <2>2. ~(n >= Never) /\ ~(Reservation(n) > HostMemory)
    BY <1>3, <2>1, <1>1 DEF RowsToInfer
  <2>3. Reservation(n) <= HostMemory
    BY <2>2, MemoryIsANumber
  <2> QED BY <1>1, <2>2, <2>3, InferenceAssumption
<1> QED BY <1>2, <1>3

\* And when it is told none, what it reads is what it would have read.
LEMMA UntoldReadsAsMuch ==
  ASSUME InferIInv, NEW n \in Nat, n < Never, Reservation(n) <= HostMemory, paths # {Unset},
         NEW h \in paths
  PROVE  Reach(RowsToInfer(n), h) = Reach(n, h)
<1>0. n # Unset /\ Never \in Nat
  BY InferenceAssumption
<1>1. CASE RowsToInfer(n) = n
  BY <1>1
<1>2. CASE RowsToInfer(n) # n
  <2>1. RowsToInfer(n) = Unset /\ MostRows # Unset /\ n >= MostRows
    <3>1. ~(n >= Never) /\ ~(Reservation(n) > HostMemory)
      BY <1>0, MemoryIsANumber
    <3> QED BY <1>0, <1>2, <3>1 DEF RowsToInfer
  <2>2. PICK f, g \in AFile : paths = {f, g}
    BY DEF InferIInv
  <2>3. MostRows \in Nat /\ h.rows <= MostRows /\ h.rows \in Nat
    <3>1. h \in AFile
      BY <2>2
    <3>2. h.rows \in Nat
      BY <3>1, InferenceAssumption DEF AFile
    <3> QED BY <2>1, <2>2, <3>2, MostRowsBound
  <2>4. Reach(Unset, h) = h.rows
    BY DEF Reach
  <2>5. Reach(n, h) = h.rows
    BY <1>0, <2>1, <2>3 DEF Reach
  <2> QED BY <2>1, <2>4, <2>5
<1> QED BY <1>1, <1>2

LEMMA InferSpecKeepsInferIInv == InferSpec => []InferIInv
<1>1. InferInit => InferIInv
  <2> SUFFICES ASSUME InferInit PROVE InferIInv
    OBVIOUS
  <2>1. Free * RowBytes \in Nat /\ Never * RowBytes - 1 \in Nat /\ (Free + 2) * RowBytes \in Nat
    <3>1. \A x, y \in Nat : x * y \in Nat
      OBVIOUS
    <3>2. \A x, y \in Nat \ {0} : x * y - 1 \in Nat
      <4> SUFFICES ASSUME NEW x \in Nat \ {0}, NEW y \in Nat \ {0} PROVE x * y - 1 \in Nat
        OBVIOUS
      <4>1. x * y = (x - 1) * y + y /\ (x - 1) * y \in Nat
        OBVIOUS
      <4> QED BY <4>1
    <3>3. Never \in Nat \ {0} /\ RowBytes \in Nat \ {0} /\ Free \in Nat /\ Free + 2 \in Nat
      BY InferenceAssumption
    <3> QED BY <3>1, <3>2, <3>3
  <2>2. memory.total \in Nat /\ memory.override \in Nat \cup {Unset, -1}
    BY <2>1 DEF InferInit
  <2>3. paths = {} \/ paths = {Unset} \/ \E f, g \in AFile : paths = {f, g}
    <3>1. ASSUME NEW f \in AFile, paths = {f} PROVE \E u, v \in AFile : paths = {u, v}
      BY <3>1
    <3> QED BY <3>1 DEF InferInit
  <2> QED BY <2>2, <2>3 DEF InferInit, InferIInv
<1>2. InferIInv /\ [InferNext]_inferVars => InferIInv'
  <2> SUFFICES ASSUME InferIInv, [InferNext]_inferVars PROVE InferIInv'
    OBVIOUS
  <2>1. CASE UNCHANGED inferVars
    <3>1. RowsToInfer(requested)' = RowsToInfer(requested)
      BY <2>1 DEF inferVars, RowsToInfer, HostMemory, MostRows
    <3> QED BY <2>1, <3>1 DEF inferVars, InferIInv
  <2>2. CASE InferNext
    <3>1. PICK n \in 0 .. Never + 1 : requested' = n /\ inferred' = RowsToInfer(n)
      BY <2>2 DEF InferNext, DecodeInference
    <3>2. n \in Nat /\ n # Unset
      BY InferenceAssumption
    <3>3. UNCHANGED <<paths, memory>>
      BY <2>2 DEF InferNext, DecodeInference
    <3>4. RowsToInfer(requested)' = RowsToInfer(n)
      BY <3>1, <3>3 DEF RowsToInfer, HostMemory, MostRows
    <3> QED BY <3>1, <3>2, <3>3, <3>4 DEF InferIInv
  <2> QED BY <2>1, <2>2
<1> QED BY <1>1, <1>2, PTL DEF InferSpec

\* The paths are at most two files here, the host's memory is a number or is
\* overridden, and a number of rows is a number or is not set.
THEOREM InferenceIsTyped == InferSpec => []InferenceTypeOK
<1>1. InferIInv => InferenceTypeOK
  BY DEF InferIInv, InferenceTypeOK, RowsToInfer
<1> QED BY <1>1, InferSpecKeepsInferIInv, PTL

\* polars is never told to reserve more than the free room unless the host has
\* it, and the dtypes come from as many rows of every file as were asked for.
THEOREM InferenceReachesAsAsked == InferSpec => []InferenceReach
<1>1. InferIInv => InferenceReach
  <2> SUFFICES ASSUME InferIInv PROVE InferenceReach
    OBVIOUS
  <2>1. CASE requested = Unset
    BY <2>1 DEF InferIInv, InferenceReach
  <2>2. CASE requested # Unset
    <3>1. requested \in Nat /\ inferred = RowsToInfer(requested)
      BY <2>2 DEF InferIInv
    <3> QED BY <2>2, <3>1, ToldIsReservable, UntoldReadsAsMuch DEF InferenceReach
  <2> QED BY <2>1, <2>2
<1> QED BY <1>1, InferSpecKeepsInferIInv, PTL

-----------------------------------------------------------------------------
(* NativeLibs: the inductive invariant.                                    *)

LinkNames == {"library", "marker"}
Runs ==
  [role : Roles, source : Contents, reads : BOOLEAN, pc : Steps \cup Ends,
         file : LinkNames, marked : Contents \cup {Absent}, staged : {Absent} \cup Nat,
         from : [LinkNames -> {Absent} \cup Nat] \cup {Absent}, vouched : BOOLEAN, alone : BOOLEAN]

FilesTyped ==
  /\ inodes \in Seq(Contents \cup {Partial})
  /\ names \in [LinkNames -> {Absent} \cup DOMAIN inodes]
  /\ temps \in SUBSET (DOMAIN inodes)

\* What is linked is whole, and a marker is of a build that was not committed.
LinksAreWhole ==
  /\ \A n \in LinkNames : Linked(n) => inodes[names[n]] \in Contents /\ names[n] \notin temps
  /\ Linked("marker") => inodes[names["marker"]] # Candidate

\* A racket's library is still linked somewhere or nowhere, and nobody writes it.
MappedStays ==
  mapped # Absent =>
    /\ Linked("library")
    /\ mapped.inode \in DOMAIN inodes \ temps
    /\ inodes[mapped.inode] = mapped.content /\ mapped.content \in Contents

\* A run has a temporary file from its staging to its renaming.
OwnTemp(run) ==
  /\ run.staged \in {Absent} \cup DOMAIN inodes
  /\ run.pc \in {"copy", "rename"} <=> run.staged \in temps
  /\ run.pc = "rename" => inodes[run.staged] = run.source

\* Where in its course a run is at which file, by its role.
Course(run) ==
  /\ run.role = "script" => run.source # Candidate
  /\ run.role \in {"candidate", "forced"} => run.source = Candidate
  /\ run.pc \in {"check", "hash", "kept"} => run.role = "candidate"
  /\ run.file = "marker" => run.role = "script"
  /\ run.pc = "unmark" => run.role \in {"candidate", "forced"}
  /\ run.role = "script" /\ run.pc = "done" => run.file = "marker"

\* The library is what the run installs once it goes on to something else.
Past(run) == run.file = "marker" \/ run.pc \in {"unmark", "done"}

\* What a run has seen and done stays so while nobody else changes the names.
AloneIsRight(run) ==
  run.alone /\ run.pc # "killed" =>
    /\ ~Past(run) /\ run.pc # "failed" => names = run.from
    /\ Past(run) => Holds("library", run.source)
    /\ run.pc # "done" => names["marker"] = run.from["marker"]
    /\ run.pc = "failed" => names["library"] = run.from["library"] \/ Holds("library", run.source)
    /\ run.pc = "done" /\ run.role = "script" => Holds("marker", run.source)
    /\ run.role = "candidate" /\ run.pc \in Steps /\ ~Past(run) => run.vouched = (Vouched /\ run.reads)
    /\ run.pc = "hash" =>
         /\ run.reads /\ Linked("marker") /\ Linked("library")
         /\ run.marked = inodes[names["marker"]]
    /\ run.role = "candidate" /\ run.vouched => run.pc \in {"check", "hash", "kept", "failed"}
    /\ run.pc = "kept" => run.vouched

RunIsRight(run) == run \in Runs /\ OwnTemp(run) /\ Course(run) /\ AloneIsRight(run)

TempsAreOwn ==
  \A p, q \in Installers :
    installer[p].staged \in temps /\ installer[p].staged = installer[q].staged => p = q

LibsIInv ==
  /\ FilesTyped
  /\ runs \in 0 .. MaxRuns
  /\ LinksAreWhole
  /\ MappedStays
  /\ installer \in [Installers -> Runs]
  /\ \A p \in Installers : RunIsRight(installer[p])
  /\ TempsAreOwn

\* The inodes are numbered from 1, and no number is Absent.
LEMMA InodesHaveLength ==
  ASSUME FilesTyped
  PROVE  Len(inodes) \in Nat /\ DOMAIN inodes = 1 .. Len(inodes) /\ Absent \notin DOMAIN inodes
<1>1. Len(inodes) \in Nat /\ DOMAIN inodes = 1 .. Len(inodes)
  BY LenProperties DEF FilesTyped
<1> QED BY <1>1, LibsAssumption

\* A run's record, field by field.
LEMMA RunIsRecord ==
  ASSUME NEW role, NEW source, NEW reads, NEW pc
  PROVE  Run(role, source, reads, pc) =
           [role |-> role, source |-> source, reads |-> reads, pc |-> pc, file |-> "library",
            marked |-> Absent, staged |-> Absent,
            from |-> names, vouched |-> FALSE, alone |-> TRUE]
BY DEF Run

\* No run is a run about which nothing is left to say.
LEMMA NoRunIsRight ==
  /\ NoRun \in Runs /\ NoRun.staged = Absent /\ NoRun.pc = "killed"
  /\ Course(NoRun) /\ AloneIsRight(NoRun)
<1> DEFINE r == [role |-> "forced", source |-> Candidate, reads |-> TRUE, pc |-> "killed",
                 file |-> "library", marked |-> Absent, staged |-> Absent,
                 from |-> names, vouched |-> FALSE, alone |-> TRUE]
           s == [r EXCEPT !.from = Absent]
           t == [s EXCEPT !.alone = FALSE]
<1>1. NoRun = t
  BY DEF NoRun, Run
<1>2. r \in [role : {"forced"}, source : {Candidate}, reads : {TRUE}, pc : {"killed"},
             file : {"library"}, marked : {Absent}, staged : {Absent},
             from : {names}, vouched : {FALSE}, alone : {TRUE}]
  OBVIOUS
<1> HIDE DEF r
<1>3. s \in [role : {"forced"}, source : {Candidate}, reads : {TRUE}, pc : {"killed"},
             file : {"library"}, marked : {Absent}, staged : {Absent},
             from : {Absent}, vouched : {FALSE}, alone : {TRUE}]
  BY <1>2
<1> HIDE DEF s
<1>4. t \in [role : {"forced"}, source : {Candidate}, reads : {TRUE}, pc : {"killed"},
             file : {"library"}, marked : {Absent}, staged : {Absent},
             from : {Absent}, vouched : {FALSE}, alone : {FALSE}]
  BY <1>3
<1> QED
  BY <1>1, <1>4 DEF Runs, Roles, Contents, Steps, Ends, LinkNames, Course, AloneIsRight

LEMMA InitLibsIInv == LibsInit => LibsIInv
<1> SUFFICES ASSUME LibsInit PROVE LibsIInv
  OBVIOUS
<1>1. PICK n \in 0 .. 2 : inodes \in [1..n -> Contents]
  BY DEF LibsInit
<1>2. inodes \in Seq(Contents \cup {Partial})
  BY <1>1 DEF Contents
<1>3. FilesTyped /\ runs \in 0 .. MaxRuns
  BY <1>2, LibsAssumption DEF LibsInit, FilesTyped, LinkNames
<1>4. LinksAreWhole
  BY <1>1, <1>3 DEF LibsInit, LinksAreWhole, FilesTyped, Linked
<1>5. MappedStays
  BY DEF LibsInit, MappedStays
<1>6. installer = [p \in Installers |-> NoRun] /\ temps = {}
  BY DEF LibsInit
<1>7. TempsAreOwn
  BY <1>6 DEF TempsAreOwn
<1>8. OwnTemp(NoRun)
  BY <1>6, NoRunIsRight DEF OwnTemp
<1> QED BY <1>3, <1>4, <1>5, <1>6, <1>7, <1>8, NoRunIsRight DEF LibsIInv, RunIsRight

\* The fields of a run but where it is and whether it is alone.
RunFields == {"role", "source", "reads", "file", "marked", "staged", "from", "vouched"}

LEMMA PcOnly ==
  ASSUME NEW run \in Runs, NEW pc \in Steps \cup Ends
  PROVE  LET r == [run EXCEPT !.pc = pc] IN
         r \in Runs /\ r.pc = pc /\ r.alone = run.alone /\ \A f \in RunFields : r[f] = run[f]
BY DEF Runs, RunFields

-----------------------------------------------------------------------------
(* Steps that change no file but perhaps the temporary ones' names.           *)

\* A step of p that changes no file and leaves p's run right.
LEMMA RunKeeps ==
  ASSUME LibsIInv, NEW p \in Installers, NEW run,
         KeepsFiles, mapped' = mapped, (runs \in 0 .. MaxRuns)',
         installer' = [installer EXCEPT ![p] = run],
         run.staged = installer[p].staged \/ run.staged = Absent,
         RunIsRight(run)
  PROVE  LibsIInv'
<1>1. /\ installer' \in [Installers -> Runs] /\ installer'[p] = run
      /\ \A q \in Installers : q # p => installer'[q] = installer[q]
  BY DEF LibsIInv, RunIsRight
<1>2. FilesTyped' /\ LinksAreWhole' /\ MappedStays'
  BY DEF KeepsFiles, LibsIInv, FilesTyped, LinksAreWhole, MappedStays, Linked
<1>3. \A q \in Installers : RunIsRight(installer'[q])
  BY <1>1 DEF LibsIInv
<1>4. \A r : RunIsRight(r) => RunIsRight(r)'
  BY DEF KeepsFiles, RunIsRight, OwnTemp, Course, AloneIsRight, Past, Holds, Linked, Vouched
<1>5. \A q \in Installers : RunIsRight(installer[q])'
  BY <1>3, <1>4
<1>6. Absent \notin temps
  BY InodesHaveLength DEF LibsIInv, FilesTyped
<1>7. TempsAreOwn'
  BY <1>1, <1>6 DEF TempsAreOwn, LibsIInv, KeepsFiles
<1> QED BY <1>1, <1>2, <1>5, <1>7 DEF LibsIInv

LEMMA StartRunKeeps ==
  ASSUME LibsIInv, NEW p \in Installers, NEW role \in Roles, NEW source \in Contents,
         NEW reads \in BOOLEAN, StartRun(p, role, source, reads),
         role = "script" => source # Candidate,
         role \in {"candidate", "forced"} => source = Candidate
  PROVE  LibsIInv'
<1> DEFINE pc == IF role = "candidate" THEN "check" ELSE "compare"
           r == Run(role, source, reads, pc)
           run == [r EXCEPT !.vouched = Vouched /\ reads]
<1>1. installer' = [installer EXCEPT ![p] = run]
  BY DEF StartRun
<1>2. r \in [role : {role}, source : {source}, reads : {reads}, pc : {pc},
             file : {"library"}, marked : {Absent}, staged : {Absent},
             from : {names}, vouched : {FALSE}, alone : {TRUE}]
  BY RunIsRecord
<1> HIDE DEF r
<1>3. run \in [role : {role}, source : {source}, reads : {reads}, pc : {pc},
             file : {"library"}, marked : {Absent}, staged : {Absent},
             from : {names}, vouched : {Vouched /\ reads}, alone : {TRUE}]
  BY <1>2
<1> HIDE DEF run
<1>4. names \in [LinkNames -> {Absent} \cup Nat]
  BY InodesHaveLength DEF LibsIInv, FilesTyped
<1>5. run \in Runs
  BY <1>3, <1>4 DEF Runs, Roles, Contents, Steps, Ends, LinkNames, Vouched, Linked, Holds
<1>6. Absent \notin temps
  BY InodesHaveLength DEF LibsIInv, FilesTyped
<1>7. OwnTemp(run) /\ Course(run)
  BY <1>3, <1>6 DEF OwnTemp, Course
<1>8. AloneIsRight(run)
  BY <1>3 DEF AloneIsRight, Past, Steps
<1>9. (runs \in 0 .. MaxRuns)'
  BY LibsAssumption DEF StartRun, LibsIInv
<1> QED
  BY <1>1, <1>3, <1>5, <1>7, <1>8, <1>9, RunKeeps DEF StartRun, RunIsRight

LEMMA CheckMarkerKeeps ==
  ASSUME LibsIInv, NEW p \in Installers, CheckMarker(p)
  PROVE  LibsIInv'
<1> DEFINE old == installer[p]
           h == [old EXCEPT !.pc = "hash"]
           hash == [h EXCEPT !.marked = inodes[names["marker"]]]
           compare == [old EXCEPT !.pc = "compare"]
<1>1. old \in Runs /\ OwnTemp(old) /\ Course(old) /\ AloneIsRight(old) /\ old.pc = "check"
  BY DEF LibsIInv, RunIsRight, CheckMarker, At
<1>2. mapped' = mapped /\ (runs \in 0 .. MaxRuns)' /\ KeepsFiles
  BY DEF CheckMarker, KeepsRest, LibsIInv
<1>3. CASE old.reads /\ Linked("marker") /\ Linked("library")
  <2>1. installer' = [installer EXCEPT ![p] = hash]
    BY <1>3 DEF CheckMarker, LibsIInv
  <2>2. inodes[names["marker"]] \in Contents
    BY <1>3 DEF LibsIInv, LinksAreWhole, LinkNames
  <2> HIDE DEF old
  <2>3. h \in Runs /\ h.pc = "hash" /\ h.alone = old.alone /\ \A f \in RunFields : h[f] = old[f]
    BY <1>1, PcOnly DEF Steps
  <2> HIDE DEF h
  <2>4. /\ hash \in Runs /\ hash.pc = "hash" /\ hash.marked = inodes[names["marker"]]
        /\ hash.alone = old.alone /\ \A f \in RunFields \ {"marked"} : hash[f] = old[f]
    BY <2>2, <2>3 DEF Runs, RunFields
  <2> HIDE DEF hash
  <2>5. RunIsRight(hash)
    BY <1>1, <1>3, <2>4 DEF RunIsRight, OwnTemp, Course, AloneIsRight, Past, Steps, RunFields
  <2> QED BY <1>2, <2>1, <2>4, <2>5, RunKeeps DEF old, RunFields
<1>4. CASE ~(old.reads /\ Linked("marker") /\ Linked("library"))
  <2>1. installer' = [installer EXCEPT ![p] = compare]
    BY <1>4 DEF CheckMarker, Goes
  <2>2. compare \in Runs /\ compare.pc = "compare" /\ compare.alone = old.alone
        /\ \A f \in RunFields : compare[f] = old[f]
    BY <1>1, PcOnly DEF Steps
  <2> HIDE DEF old
  <2> HIDE DEF compare
  <2>3. ~(Vouched /\ old.reads)
    BY <1>4 DEF Vouched, Holds
  <2>4. RunIsRight(compare)
    BY <1>1, <2>2, <2>3 DEF RunIsRight, OwnTemp, Course, AloneIsRight, Past, Steps, RunFields
  <2> QED BY <1>2, <2>1, <2>2, <2>4, RunKeeps DEF old, RunFields
<1> QED BY <1>3, <1>4

LEMMA HashLibraryKeeps ==
  ASSUME LibsIInv, NEW p \in Installers, HashLibrary(p)
  PROVE  LibsIInv'
<1> DEFINE old == installer[p]
           pc == IF Holds("library", old.marked) THEN "kept" ELSE "compare"
           run == [old EXCEPT !.pc = pc]
<1>1. old \in Runs /\ OwnTemp(old) /\ Course(old) /\ AloneIsRight(old) /\ old.pc = "hash"
  BY DEF LibsIInv, RunIsRight, HashLibrary, At
<1>2. mapped' = mapped /\ (runs \in 0 .. MaxRuns)' /\ KeepsFiles
  BY DEF HashLibrary, KeepsRest, LibsIInv
<1>3. installer' = [installer EXCEPT ![p] = run]
  BY DEF HashLibrary, Goes
<1>a. pc \in Steps \cup Ends
  BY DEF Steps, Ends
<1>4. run \in Runs /\ run.pc = pc /\ run.alone = old.alone /\ \A f \in RunFields : run[f] = old[f]
  <2> HIDE DEF pc
  <2> QED BY <1>1, <1>a, PcOnly
<1>5. old.alone => (Vouched <=> Holds("library", old.marked))
  BY <1>1 DEF AloneIsRight, Vouched
<1> HIDE DEF old
<1> HIDE DEF run
<1>6. RunIsRight(run)
  BY <1>1, <1>4, <1>5 DEF RunIsRight, OwnTemp, Course, AloneIsRight, Past, Steps, RunFields
<1> QED BY <1>2, <1>3, <1>4, <1>6, RunKeeps DEF old, RunFields

\* Where a run goes on.
LEMMA OnwardIsRun ==
  ASSUME NEW run \in Runs
  PROVE  LET r == Onward(run) IN
         /\ r \in Runs /\ r.alone = run.alone /\ \A f \in RunFields \ {"file"} : r[f] = run[f]
         /\ CASE run.role = "script" /\ run.file = "library" -> r.pc = "compare" /\ r.file = "marker"
              [] run.role \in {"candidate", "forced"} -> r.pc = "unmark" /\ r.file = run.file
              [] OTHER -> r.pc = "done" /\ r.file = run.file
<1> DEFINE c == [run EXCEPT !.pc = "compare"]
           m == [c EXCEPT !.file = "marker"]
           u == [run EXCEPT !.pc = "unmark"]
           d == [run EXCEPT !.pc = "done"]
<1>1. c \in Runs /\ c.pc = "compare" /\ c.alone = run.alone /\ \A f \in RunFields : c[f] = run[f]
  BY PcOnly DEF Steps
<1>2. u \in Runs /\ u.pc = "unmark" /\ u.alone = run.alone /\ \A f \in RunFields : u[f] = run[f]
  BY PcOnly DEF Steps
<1>3. d \in Runs /\ d.pc = "done" /\ d.alone = run.alone /\ \A f \in RunFields : d[f] = run[f]
  BY PcOnly DEF Ends
<1>4. Onward(run) = CASE run.role = "script" /\ run.file = "library" -> m
                      [] run.role \in {"candidate", "forced"} -> u
                      [] OTHER -> d
  BY DEF Onward
<1> HIDE DEF c
<1>5. /\ m \in Runs /\ m.pc = "compare" /\ m.file = "marker" /\ m.alone = run.alone
      /\ \A f \in RunFields \ {"file"} : m[f] = run[f]
  BY <1>1 DEF Runs, RunFields, LinkNames
<1> HIDE DEF m, u, d
<1> QED BY <1>2, <1>3, <1>4, <1>5 DEF RunFields

LEMMA CompareKeeps ==
  ASSUME LibsIInv, NEW p \in Installers, Compare(p)
  PROVE  LibsIInv'
<1> DEFINE old == installer[p]
           on == Onward(old)
           staging == [old EXCEPT !.pc = "stage"]
<1>1. old \in Runs /\ OwnTemp(old) /\ Course(old) /\ AloneIsRight(old) /\ old.pc = "compare"
  BY DEF LibsIInv, RunIsRight, Compare, At
<1>2. mapped' = mapped /\ (runs \in 0 .. MaxRuns)' /\ KeepsFiles
  BY DEF Compare, KeepsRest, LibsIInv
<1>3. CASE old.reads /\ Holds(old.file, old.source)
  <2>1. installer' = [installer EXCEPT ![p] = on]
    BY <1>3 DEF Compare
  <2>2. /\ on \in Runs /\ on.alone = old.alone /\ \A f \in RunFields \ {"file"} : on[f] = old[f]
        /\ CASE old.role = "script" /\ old.file = "library" -> on.pc = "compare" /\ on.file = "marker"
             [] old.role \in {"candidate", "forced"} -> on.pc = "unmark" /\ on.file = old.file
             [] OTHER -> on.pc = "done" /\ on.file = old.file
    BY <1>1, OnwardIsRun
  <2>3. old.file \in LinkNames /\ old.role \in Roles
    BY <1>1 DEF Runs
  <2>4. Vouched => ~Holds("library", Candidate)
    BY DEF Vouched, Holds, LibsIInv, LinksAreWhole
  <2> HIDE DEF old
  <2> HIDE DEF on
  <2>5. OwnTemp(on) /\ Course(on)
    BY <1>1, <2>2, <2>3 DEF OwnTemp, Course, RunFields, Roles, LinkNames
  <2>6. AloneIsRight(on)
    BY <1>1, <1>3, <2>2, <2>3, <2>4 DEF Course, AloneIsRight, Past, Steps, RunFields, Roles, LinkNames
  <2> QED BY <1>2, <2>1, <2>2, <2>5, <2>6, RunKeeps DEF old, RunFields, RunIsRight
<1>4. CASE ~(old.reads /\ Holds(old.file, old.source))
  <2>1. installer' = [installer EXCEPT ![p] = staging]
    BY <1>4 DEF Compare, Goes
  <2>2. staging \in Runs /\ staging.pc = "stage" /\ staging.alone = old.alone
        /\ \A f \in RunFields : staging[f] = old[f]
    BY <1>1, PcOnly DEF Steps
  <2> HIDE DEF old
  <2> HIDE DEF staging
  <2>4. RunIsRight(staging)
    BY <1>1, <2>2 DEF RunIsRight, OwnTemp, Course, AloneIsRight, Past, Steps, RunFields
  <2> QED BY <1>2, <2>1, <2>2, <2>4, RunKeeps DEF old, RunFields
<1> QED BY <1>3, <1>4

LEMMA KillKeeps ==
  ASSUME LibsIInv, NEW p \in Installers, Kill(p)
  PROVE  LibsIInv'
<1>1. mapped' = mapped /\ (runs \in 0 .. MaxRuns)' /\ KeepsFiles /\ installer' = [installer EXCEPT ![p] = NoRun]
  BY DEF Kill, KeepsRest, LibsIInv
<1>2. Absent \notin temps
  BY InodesHaveLength DEF LibsIInv, FilesTyped
<1>3. RunIsRight(NoRun)
  BY <1>2, NoRunIsRight DEF RunIsRight, OwnTemp
<1> QED BY <1>1, <1>3, NoRunIsRight, RunKeeps

LEMMA MapKeeps == ASSUME LibsIInv, Map PROVE LibsIInv'
<1>1. FilesTyped' /\ (runs \in 0 .. MaxRuns)' /\ LinksAreWhole' /\ TempsAreOwn'
  BY DEF Map, KeepsFiles, LibsIInv, FilesTyped, LinksAreWhole, Linked, TempsAreOwn
<1>2. \A r : RunIsRight(r) => RunIsRight(r)'
  BY DEF Map, KeepsFiles, RunIsRight, OwnTemp, Course, AloneIsRight, Past, Holds, Linked, Vouched
<1>3. names["library"] \in DOMAIN inodes \ temps /\ inodes[names["library"]] \in Contents
  BY DEF Map, LibsIInv, LinksAreWhole, FilesTyped, LinkNames, Linked
<1>4. MappedStays'
  BY <1>3 DEF Map, KeepsFiles, MappedStays, Linked
<1> QED BY <1>1, <1>2, <1>4 DEF LibsIInv, Map

-----------------------------------------------------------------------------
(* Steps that write or rename a file.                                         *)

LEMMA StageKeeps ==
  ASSUME LibsIInv, NEW p \in Installers, Stage(p)
  PROVE  LibsIInv'
<1> DEFINE old == installer[p]
           new == Len(inodes) + 1
           c == [old EXCEPT !.pc = "copy"]
           run == [c EXCEPT !.staged = new]
<1>1. old \in Runs /\ OwnTemp(old) /\ Course(old) /\ AloneIsRight(old) /\ old.pc = "stage"
  BY DEF LibsIInv, RunIsRight, Stage, At
<1>2. /\ FilesTyped /\ Len(inodes) \in Nat /\ DOMAIN inodes = 1 .. Len(inodes)
      /\ Absent \notin DOMAIN inodes
  BY InodesHaveLength DEF LibsIInv
<1>3. inodes' = Append(inodes, Partial) /\ names' = names /\ mapped' = mapped /\ runs' = runs
  BY DEF Stage, KeepsRest
<1>4. /\ inodes' \in Seq(Contents \cup {Partial}) /\ Len(inodes') = new /\ DOMAIN inodes' = 1 .. new
      /\ \A i \in DOMAIN inodes : inodes'[i] = inodes[i]
  BY <1>2, <1>3, AppendProperties, LenProperties DEF FilesTyped
<1>5. temps' = temps \cup {new} /\ new \notin DOMAIN inodes /\ new \in DOMAIN inodes' /\ new \in Nat
  BY <1>2, <1>4 DEF Stage
<1>6. DOMAIN inodes \subseteq DOMAIN inodes'
  BY <1>2, <1>4
<1>7. installer' = [installer EXCEPT ![p] = run]
  <2>1. installer' = [installer EXCEPT ![p].pc = "copy", ![p].staged = new]
    BY <1>4 DEF Stage
  <2> QED BY <2>1 DEF LibsIInv
<1>8. c \in Runs /\ c.pc = "copy" /\ c.alone = old.alone /\ \A f \in RunFields : c[f] = old[f]
  BY <1>1, PcOnly DEF Steps
<1> HIDE DEF c
<1>9. /\ run \in Runs /\ run.pc = "copy" /\ run.staged = new /\ run.alone = old.alone
      /\ \A f \in RunFields \ {"staged"} : run[f] = old[f]
  BY <1>5, <1>8 DEF Runs, RunFields
<1> HIDE DEF old
<1> HIDE DEF run
<1> HIDE DEF new
<1>10. FilesTyped'
  BY <1>2, <1>3, <1>4, <1>5, <1>6 DEF FilesTyped
<1>11. \A n \in LinkNames : Linked(n) => names[n] \in DOMAIN inodes
  BY <1>2 DEF FilesTyped, Linked
<1>12. LinksAreWhole'
  BY <1>3, <1>4, <1>5, <1>11 DEF LibsIInv, LinksAreWhole, Linked, LinkNames
<1>13. MappedStays'
  BY <1>3, <1>4, <1>5, <1>6 DEF LibsIInv, MappedStays, Linked
<1>14. \A n \in LinkNames : \A content : Holds(n, content)' <=> Holds(n, content)
  BY <1>3, <1>4, <1>11 DEF Holds, Linked
<1>15. Vouched' <=> Vouched
  BY <1>3, <1>4, <1>11 DEF Vouched, Holds, Linked, LinkNames
<1>16. Linked("marker") => inodes'[names["marker"]] = inodes[names["marker"]]
  BY <1>4, <1>11 DEF LinkNames
<1>17. \A r \in Runs : AloneIsRight(r)' <=> AloneIsRight(r)
  BY <1>3, <1>14, <1>15, <1>16 DEF AloneIsRight, Past, Linked, LinkNames
<1>18. \A r : OwnTemp(r) => OwnTemp(r)'
  <2> SUFFICES ASSUME NEW r, OwnTemp(r) PROVE OwnTemp(r)'
    OBVIOUS
  <2>1. r.staged \in {Absent} \cup DOMAIN inodes /\ r.staged # new
    BY <1>2, <1>5, LibsAssumption DEF OwnTemp
  <2>2. r.staged \in temps' <=> r.staged \in temps
    BY <1>5, <2>1
  <2>3. r.pc = "rename" => r.staged \in DOMAIN inodes
    BY <1>2 DEF OwnTemp, FilesTyped
  <2> QED BY <1>4, <1>6, <2>1, <2>2, <2>3 DEF OwnTemp
<1>19. \A r : Course(r)' <=> Course(r)
  BY DEF Course
<1>20. PICK r \in Runs : r = run
  BY <1>9
<1>21. /\ installer' \in [Installers -> Runs] /\ installer'[p] = r
       /\ \A q \in Installers : q # p => installer'[q] = installer[q]
  BY <1>7, <1>20 DEF LibsIInv
<1>22. RunIsRight(r)'
  <2>1. OwnTemp(r)'
    BY <1>5, <1>9, <1>20 DEF OwnTemp
  <2>2. Course(r)
    BY <1>1, <1>9, <1>20 DEF Course, RunFields
  <2>3. AloneIsRight(r)
    BY <1>1, <1>9, <1>20 DEF AloneIsRight, Past, Steps, RunFields
  <2> QED BY <1>17, <1>19, <2>1, <2>2, <2>3 DEF RunIsRight
<1>25. \A s : RunIsRight(s) \/ s = r => RunIsRight(s)'
  BY <1>17, <1>18, <1>19, <1>22 DEF RunIsRight
<1>26. \A q \in Installers : RunIsRight(installer'[q]) \/ installer'[q] = r
  BY <1>21 DEF LibsIInv
<1>27. \A q \in Installers : RunIsRight(installer[q])'
  BY <1>25, <1>26
<1>23. \A q \in Installers : installer[q].staged # new
  BY <1>2, <1>5, LibsAssumption DEF LibsIInv, RunIsRight, OwnTemp
<1>24. TempsAreOwn'
  BY <1>5, <1>9, <1>20, <1>21, <1>23 DEF LibsIInv, TempsAreOwn
<1> QED BY <1>3, <1>10, <1>12, <1>13, <1>21, <1>27, <1>24 DEF LibsIInv

LEMMA CopyKeeps ==
  ASSUME LibsIInv, NEW p \in Installers, Copy(p)
  PROVE  LibsIInv'
<1> DEFINE old == installer[p]
           run == [old EXCEPT !.pc = "rename"]
<1>1. old \in Runs /\ OwnTemp(old) /\ Course(old) /\ AloneIsRight(old) /\ old.pc = "copy"
  BY DEF LibsIInv, RunIsRight, Copy, At
<1>2. old.staged \in temps /\ old.staged \in DOMAIN inodes /\ temps \subseteq DOMAIN inodes /\ old.source \in Contents
  BY <1>1 DEF OwnTemp, LibsIInv, FilesTyped, Runs
<1>3. /\ inodes' = [inodes EXCEPT ![old.staged] = old.source]
      /\ names' = names /\ temps' = temps /\ mapped' = mapped /\ runs' = runs
      /\ installer' = [installer EXCEPT ![p] = run]
  BY DEF Copy, Goes, KeepsRest
<1>4. /\ inodes' \in Seq(Contents \cup {Partial}) /\ DOMAIN inodes' = DOMAIN inodes
      /\ inodes'[old.staged] = old.source
      /\ \A i \in DOMAIN inodes : i # old.staged => inodes'[i] = inodes[i]
  BY <1>2, <1>3, ExceptSeq DEF LibsIInv, FilesTyped
<1>5. run \in Runs /\ run.pc = "rename" /\ run.alone = old.alone /\ \A f \in RunFields : run[f] = old[f]
  BY <1>1, PcOnly DEF Steps
<1> HIDE DEF run
<1>6. /\ installer' \in [Installers -> Runs] /\ installer'[p] = run
      /\ \A q \in Installers : q # p => installer'[q] = installer[q]
  BY <1>3, <1>5 DEF LibsIInv
<1>7. \A q \in Installers : q # p => installer[q].staged # old.staged
  BY <1>2 DEF LibsIInv, TempsAreOwn
<1> HIDE DEF old
<1>8. FilesTyped'
  BY <1>3, <1>4 DEF LibsIInv, FilesTyped
<1>9. \A n \in LinkNames : Linked(n) => names[n] \in DOMAIN inodes /\ names[n] # old.staged
  BY <1>2 DEF LibsIInv, LinksAreWhole, FilesTyped, Linked
<1>10. LinksAreWhole'
  BY <1>3, <1>4, <1>9 DEF LibsIInv, LinksAreWhole, Linked, LinkNames
<1>11. MappedStays'
  BY <1>2, <1>3, <1>4 DEF LibsIInv, MappedStays, Linked
<1>12. \A n \in LinkNames : \A content : Holds(n, content)' <=> Holds(n, content)
  BY <1>3, <1>4, <1>9 DEF Holds, Linked
<1>13. Vouched' <=> Vouched
  BY <1>3, <1>4, <1>9 DEF Vouched, Holds, Linked, LinkNames
<1>14. Linked("marker") => inodes'[names["marker"]] = inodes[names["marker"]]
  BY <1>4, <1>9 DEF LinkNames
<1>15. \A r \in Runs : AloneIsRight(r)' <=> AloneIsRight(r)
  BY <1>3, <1>12, <1>13, <1>14 DEF AloneIsRight, Past, Linked, LinkNames
<1>16. \A r : OwnTemp(r) /\ r.staged # old.staged => OwnTemp(r)'
  BY <1>2, <1>3, <1>4 DEF OwnTemp
<1>17. PICK r \in Runs : r = run
  BY <1>5
<1>18. RunIsRight(r)'
  <2>1. OwnTemp(r)'
    BY <1>2, <1>3, <1>4, <1>5, <1>17 DEF OwnTemp, RunFields
  <2>2. Course(r)'
    BY <1>1, <1>5, <1>17 DEF Course, RunFields
  <2>3. AloneIsRight(r)
    BY <1>1, <1>5, <1>17 DEF AloneIsRight, Past, Steps, RunFields
  <2> QED BY <1>15, <2>1, <2>2, <2>3 DEF RunIsRight
<1>19. \A s : (RunIsRight(s) /\ s.staged # old.staged) \/ s = r => RunIsRight(s)'
  BY <1>15, <1>16, <1>18 DEF RunIsRight, Course
<1>20. \A q \in Installers : (RunIsRight(installer'[q]) /\ installer'[q].staged # old.staged) \/ installer'[q] = r
  BY <1>6, <1>7, <1>17 DEF LibsIInv
<1>21. \A q \in Installers : RunIsRight(installer[q])'
  BY <1>19, <1>20
<1>22. \A q \in Installers : installer'[q].staged = installer[q].staged
  BY <1>5, <1>6 DEF old, RunFields
<1>23. TempsAreOwn'
  BY <1>3, <1>22 DEF LibsIInv, TempsAreOwn
<1> QED BY <1>3, <1>6, <1>8, <1>10, <1>11, <1>21, <1>23 DEF LibsIInv

LEMMA FailKeeps ==
  ASSUME LibsIInv, NEW p \in Installers, Fail(p)
  PROVE  LibsIInv'
<1> DEFINE old == installer[p]
           run == [old EXCEPT !.pc = "failed"]
<1>1. old \in Runs /\ OwnTemp(old) /\ Course(old) /\ AloneIsRight(old) /\ old.pc \in Steps
  BY DEF LibsIInv, RunIsRight, Fail
<1>2. /\ inodes' = inodes /\ names' = names /\ temps' = temps \ {old.staged}
      /\ mapped' = mapped /\ runs' = runs /\ installer' = [installer EXCEPT ![p] = run]
  BY DEF Fail, Goes, KeepsRest
<1>3. run \in Runs /\ run.pc = "failed" /\ run.alone = old.alone /\ \A f \in RunFields : run[f] = old[f]
  BY <1>1, PcOnly DEF Ends
<1> HIDE DEF run
<1>4. /\ installer' \in [Installers -> Runs] /\ installer'[p] = run
      /\ \A q \in Installers : q # p => installer'[q] = installer[q]
  BY <1>2, <1>3 DEF LibsIInv
<1>5. \A q \in Installers : q # p /\ installer[q].staged \in temps => installer[q].staged # old.staged
  BY DEF LibsIInv, TempsAreOwn
<1> HIDE DEF old
<1>6. FilesTyped' /\ LinksAreWhole' /\ MappedStays'
  BY <1>2 DEF LibsIInv, FilesTyped, LinksAreWhole, MappedStays, Linked
<1>7. \A r : AloneIsRight(r)' <=> AloneIsRight(r)
  BY <1>2 DEF AloneIsRight, Past, Holds, Vouched, Linked
<1>8. \A r : OwnTemp(r) /\ (r.staged \in temps => r.staged # old.staged) => OwnTemp(r)'
  BY <1>2 DEF OwnTemp
<1>9. PICK r \in Runs : r = run
  BY <1>3
<1>10. RunIsRight(r)'
  <2>1. OwnTemp(r)'
    BY <1>1, <1>2, <1>3, <1>9 DEF OwnTemp, RunFields
  <2>2. Course(r)'
    BY <1>1, <1>3, <1>9 DEF Course, RunFields
  <2>3. AloneIsRight(r)
    BY <1>1, <1>3, <1>9 DEF AloneIsRight, Past, Steps, RunFields
  <2> QED BY <1>7, <2>1, <2>2, <2>3 DEF RunIsRight
<1>11. \A s : (RunIsRight(s) /\ (s.staged \in temps => s.staged # old.staged)) \/ s = r => RunIsRight(s)'
  BY <1>7, <1>8, <1>10 DEF RunIsRight, Course
<1>12. \A q \in Installers : \/ RunIsRight(installer'[q]) /\ (installer'[q].staged \in temps => installer'[q].staged # old.staged)
                             \/ installer'[q] = r
  BY <1>4, <1>5, <1>9 DEF LibsIInv
<1>13. \A q \in Installers : RunIsRight(installer[q])'
  BY <1>11, <1>12
<1>14. \A q \in Installers : installer'[q].staged = installer[q].staged
  BY <1>3, <1>4 DEF old, RunFields
<1>15. TempsAreOwn'
  BY <1>2, <1>14 DEF LibsIInv, TempsAreOwn
<1> QED BY <1>2, <1>4, <1>6, <1>13, <1>15 DEF LibsIInv

-----------------------------------------------------------------------------
(* Steps that change what is linked.                                          *)

\* A run that is no longer alone is otherwise what it was.
LEMMA DisturbedIsRight ==
  ASSUME NEW run \in Runs
  PROVE  LET r == [run EXCEPT !.alone = FALSE] IN
         r \in Runs /\ r.pc = run.pc /\ ~r.alone /\ \A f \in RunFields : r[f] = run[f]
BY DEF Runs, RunFields

\* A step of p that changes what is linked, and leaves p's run right, leaves the
\* others right too: of those nothing is said but of their temporary files.
LEMMA DisturbsKeeps ==
  ASSUME LibsIInv, NEW p \in Installers, NEW run \in Runs, Disturbs(p, run),
         run.staged = installer[p].staged, RunIsRight(run)',
         inodes' = inodes, temps' = temps \ {installer[p].staged}
  PROVE  /\ installer' \in [Installers -> Runs]
         /\ \A q \in Installers : RunIsRight(installer[q])'
         /\ TempsAreOwn'
<1>1. PICK old \in Runs : old = installer[p]
  BY DEF LibsIInv
<1>2. \A q \in Installers : q # p /\ installer[q].staged \in temps => installer[q].staged # old.staged
  BY <1>1 DEF LibsIInv, TempsAreOwn
<1>3. /\ installer' \in [Installers -> Runs] /\ installer'[p] = run
      /\ \A q \in Installers : q # p =>
           /\ installer'[q].pc = installer[q].pc /\ ~installer'[q].alone
           /\ \A f \in RunFields : installer'[q][f] = installer[q][f]
  <2>1. \A q \in Installers : installer[q] \in Runs
    BY DEF LibsIInv
  <2>2. \A q \in Installers : installer'[q] = IF q = p THEN run ELSE [installer[q] EXCEPT !.alone = FALSE]
    BY DEF Disturbs
  <2>3. installer' = [q \in Installers |-> installer'[q]]
    BY DEF Disturbs
  <2>4. \A q \in Installers : q # p =>
           /\ installer'[q] \in Runs
           /\ installer'[q].pc = installer[q].pc /\ ~installer'[q].alone
           /\ \A f \in RunFields : installer'[q][f] = installer[q][f]
    <3> SUFFICES ASSUME NEW q \in Installers, q # p
                 PROVE  /\ installer'[q] \in Runs
                        /\ installer'[q].pc = installer[q].pc /\ ~installer'[q].alone
                        /\ \A f \in RunFields : installer'[q][f] = installer[q][f]
      OBVIOUS
    <3>1. PICK o \in Runs : o = installer[q]
      BY <2>1
    <3>2. installer'[q] = [o EXCEPT !.alone = FALSE]
      BY <2>2, <3>1
    <3> QED BY <3>1, <3>2, DisturbedIsRight
  <2> QED BY <2>2, <2>3, <2>4
<1>4. ASSUME NEW s \in Runs, NEW t \in Runs, RunIsRight(t), t.staged \in temps => t.staged # old.staged,
             s.pc = t.pc, ~s.alone, \A f \in RunFields : s[f] = t[f]
      PROVE  RunIsRight(s)'
  <2>1. OwnTemp(s)'
    BY <1>1, <1>4 DEF RunIsRight, OwnTemp, RunFields
  <2>2. Course(s)'
    BY <1>4 DEF RunIsRight, Course, RunFields
  <2>3. AloneIsRight(s)'
    BY <1>4 DEF AloneIsRight
  <2> QED BY <2>1, <2>2, <2>3 DEF RunIsRight
<1>5. \A q \in Installers :
        \/ installer'[q] = run
        \/ /\ installer[q] \in Runs /\ installer'[q] \in Runs /\ RunIsRight(installer[q])
           /\ installer[q].staged \in temps => installer[q].staged # old.staged
           /\ installer'[q].pc = installer[q].pc /\ ~installer'[q].alone
           /\ \A f \in RunFields : installer'[q][f] = installer[q][f]
  BY <1>2, <1>3 DEF LibsIInv
<1>6. \A s : (s = run \/ \E t \in Runs :
                           /\ s \in Runs /\ RunIsRight(t) /\ (t.staged \in temps => t.staged # old.staged)
                           /\ s.pc = t.pc /\ ~s.alone /\ \A f \in RunFields : s[f] = t[f])
                => RunIsRight(s)'
  BY <1>4
<1>7. \A q \in Installers : RunIsRight(installer[q])'
  BY <1>5, <1>6
<1>8. \A q \in Installers : installer'[q].staged = installer[q].staged
  BY <1>1, <1>3 DEF RunFields
<1>9. TempsAreOwn'
  BY <1>8 DEF LibsIInv, TempsAreOwn
<1> QED BY <1>3, <1>7, <1>9

LEMMA RenameKeeps ==
  ASSUME LibsIInv, NEW p \in Installers, Rename(p)
  PROVE  LibsIInv'
<1>0. PICK old \in Runs : old = installer[p]
  BY DEF LibsIInv
<1> DEFINE run == Onward(old)
<1>1. old \in Runs /\ OwnTemp(old) /\ Course(old) /\ AloneIsRight(old) /\ old.pc = "rename"
  BY <1>0 DEF LibsIInv, RunIsRight, Rename, At
<1>2. /\ old.staged \in temps /\ old.staged \in DOMAIN inodes /\ old.staged # Absent
      /\ old.source \in Contents /\ inodes[old.staged] = old.source
  BY <1>1, InodesHaveLength DEF OwnTemp, LibsIInv, FilesTyped, Runs
<1>3. /\ inodes' = inodes /\ names' = [names EXCEPT ![old.file] = old.staged]
      /\ temps' = temps \ {old.staged} /\ mapped' = mapped /\ runs' = runs
  BY <1>0 DEF Rename, KeepsRest
<1>4. /\ run \in Runs /\ run.alone = old.alone /\ \A f \in RunFields \ {"file"} : run[f] = old[f]
      /\ CASE old.role = "script" /\ old.file = "library" -> run.pc = "compare" /\ run.file = "marker"
           [] old.role \in {"candidate", "forced"} -> run.pc = "unmark" /\ run.file = old.file
           [] OTHER -> run.pc = "done" /\ run.file = old.file
  BY <1>1, OnwardIsRun
<1>5. old.file \in LinkNames /\ old.role \in Roles
  BY <1>1 DEF Runs
<1>6. names \in [LinkNames -> {Absent} \cup DOMAIN inodes] /\ names' \in [LinkNames -> {Absent} \cup DOMAIN inodes]
  BY <1>2, <1>3, <1>5 DEF LibsIInv, FilesTyped
<1>7. names'[old.file] = old.staged /\ \A n \in LinkNames : n # old.file => names'[n] = names[n]
  BY <1>3, <1>6
<1> HIDE DEF run
<1>10. FilesTyped'
  BY <1>3, <1>6 DEF LibsIInv, FilesTyped
<1>11. LinksAreWhole'
  <2>1. old.file = "marker" => old.source # Candidate
    BY <1>1 DEF Course
  <2> QED BY <1>2, <1>3, <1>5, <1>7, <2>1 DEF LibsIInv, LinksAreWhole, Linked, LinkNames
<1>12. MappedStays'
  BY <1>2, <1>3, <1>5, <1>7 DEF LibsIInv, MappedStays, Linked, LinkNames
<1>13. PICK r \in Runs : r = run
  BY <1>4
<1>14. RunIsRight(r)'
  <2>1. OwnTemp(r)'
    BY <1>2, <1>3, <1>4, <1>13 DEF OwnTemp, RunFields
  <2>2. Course(r)'
    BY <1>1, <1>4, <1>5, <1>13 DEF Course, RunFields, Roles, LinkNames
  <2>3. AloneIsRight(r)'
    <3>1. Holds(old.file, old.source)'
      BY <1>2, <1>3, <1>7 DEF Holds, Linked
    <3>2. old.file = "marker" /\ Holds("library", old.source) => Holds("library", old.source)'
      BY <1>3, <1>7 DEF Holds, Linked, LinkNames
    <3>3. old.file = "library" => names'["marker"] = names["marker"]
      BY <1>7 DEF LinkNames
    <3>4. old.file = "marker" => old.role = "script"
      BY <1>1 DEF Course
    <3>5. old.alone => \/ old.file = "library" /\ names = old.from
                       \/ old.file = "marker" /\ Holds("library", old.source)
      BY <1>1, <1>5 DEF AloneIsRight, Past, LinkNames
    <3>6. old.alone /\ old.role = "candidate" => ~old.vouched
      BY <1>1 DEF AloneIsRight
    <3>7. r.role = old.role /\ r.source = old.source /\ r.from = old.from /\ r.vouched = old.vouched /\ r.alone = old.alone
      BY <1>4, <1>13 DEF RunFields
    <3>8. CASE old.role = "script" /\ old.file = "library"
      BY <1>4, <1>13, <3>1, <3>3, <3>5, <3>7, <3>8 DEF AloneIsRight, Past
    <3>9. CASE old.role \in {"candidate", "forced"}
      BY <1>4, <1>5, <1>13, <3>1, <3>3, <3>4, <3>5, <3>6, <3>7, <3>9 DEF AloneIsRight, Past, LinkNames
    <3>10. CASE ~(old.role = "script" /\ old.file = "library") /\ old.role \notin {"candidate", "forced"}
      BY <1>4, <1>5, <1>13, <3>1, <3>2, <3>4, <3>5, <3>7, <3>10 DEF AloneIsRight, Past, LinkNames
    <3> QED BY <3>8, <3>9, <3>10
  <2> QED BY <2>1, <2>2, <2>3 DEF RunIsRight
<1>15. Disturbs(p, r)
  BY <1>0, <1>13 DEF Rename, run
<1>16. /\ installer' \in [Installers -> Runs] /\ TempsAreOwn'
       /\ \A q \in Installers : RunIsRight(installer[q])'
  BY <1>0, <1>3, <1>4, <1>13, <1>14, <1>15, DisturbsKeeps DEF RunFields
<1> QED BY <1>3, <1>10, <1>11, <1>12, <1>16 DEF LibsIInv

LEMMA UnmarkKeeps ==
  ASSUME LibsIInv, NEW p \in Installers, Unmark(p)
  PROVE  LibsIInv'
<1>0. PICK old \in Runs : old = installer[p]
  BY DEF LibsIInv
<1> DEFINE run == [old EXCEPT !.pc = "done"]
<1>1. old \in Runs /\ OwnTemp(old) /\ Course(old) /\ AloneIsRight(old) /\ old.pc = "unmark"
  BY <1>0 DEF LibsIInv, RunIsRight, Unmark, At
<1>2. inodes' = inodes /\ temps' = temps /\ mapped' = mapped /\ runs' = runs
  BY DEF Unmark, KeepsRest
<1>3. run \in Runs /\ run.pc = "done" /\ run.alone = old.alone /\ \A f \in RunFields : run[f] = old[f]
  BY PcOnly DEF Ends
<1>4. PICK r \in Runs : r = run
  BY <1>3
<1>5. Disturbs(p, r)
  BY <1>0, <1>4 DEF Unmark
<1> HIDE DEF run
<1>6. names' = names \/ names' = [names EXCEPT !["marker"] = Absent]
  BY DEF Unmark
<1>7. names \in [LinkNames -> {Absent} \cup DOMAIN inodes]
  BY DEF LibsIInv, FilesTyped
<1>8. /\ names' \in [LinkNames -> {Absent} \cup DOMAIN inodes] /\ names'["library"] = names["library"]
      /\ names'["marker"] = names["marker"] \/ names'["marker"] = Absent
  BY <1>6, <1>7 DEF LinkNames
<1>9. FilesTyped' /\ LinksAreWhole' /\ MappedStays'
  BY <1>2, <1>8 DEF LibsIInv, FilesTyped, LinksAreWhole, MappedStays, Linked, LinkNames
<1>10. RunIsRight(r)'
  <2>1. OwnTemp(r)'
    BY <1>1, <1>2, <1>3, <1>4 DEF OwnTemp, RunFields
  <2>2. Course(r)'
    BY <1>1, <1>3, <1>4 DEF Course, RunFields
  <2>3. AloneIsRight(r)'
    BY <1>1, <1>2, <1>3, <1>4, <1>8 DEF AloneIsRight, Past, Course, Holds, Linked, RunFields
  <2> QED BY <2>1, <2>2, <2>3 DEF RunIsRight
<1>11. temps' = temps \ {installer[p].staged}
  BY <1>0, <1>1, <1>2 DEF OwnTemp
<1>12. /\ installer' \in [Installers -> Runs] /\ TempsAreOwn'
       /\ \A q \in Installers : RunIsRight(installer[q])'
  BY <1>0, <1>2, <1>3, <1>4, <1>5, <1>10, <1>11, DisturbsKeeps DEF RunFields
<1> QED BY <1>2, <1>9, <1>12 DEF LibsIInv

LEMMA NextLibsIInv == LibsIInv /\ [LibsNext]_libVars => LibsIInv'
<1> SUFFICES ASSUME LibsIInv, [LibsNext]_libVars PROVE LibsIInv'
  OBVIOUS
<1>1. CASE UNCHANGED libVars
  <2>1. \A r : RunIsRight(r) => RunIsRight(r)'
    BY <1>1 DEF libVars, RunIsRight, OwnTemp, Course, AloneIsRight, Past, Holds, Linked, Vouched
  <2>2. \A q \in Installers : RunIsRight(installer'[q])
    BY <1>1 DEF libVars, LibsIInv
  <2>3. \A q \in Installers : RunIsRight(installer[q])'
    BY <2>1, <2>2
  <2> QED
    BY <1>1, <2>3 DEF libVars, LibsIInv, FilesTyped, LinksAreWhole, MappedStays, Linked, TempsAreOwn
<1>2. ASSUME NEW p \in Installers, NEW reads \in BOOLEAN, StartRun(p, "candidate", Candidate, reads)
      PROVE  LibsIInv'
  BY <1>2, StartRunKeeps DEF Roles, Contents
<1>3. ASSUME NEW p \in Installers, NEW reads \in BOOLEAN, StartRun(p, "forced", Candidate, reads)
      PROVE  LibsIInv'
  BY <1>3, StartRunKeeps DEF Roles, Contents
<1>4. ASSUME NEW p \in Installers, NEW reads \in BOOLEAN, NEW build \in Builds, StartRun(p, "script", build, reads)
      PROVE  LibsIInv'
  BY <1>4, StartRunKeeps, LibsAssumption DEF Roles, Contents
<1>5. ASSUME NEW p \in Installers, NEW reads \in BOOLEAN, NEW build \in Builds, StartRun(p, "override", build, reads)
      PROVE  LibsIInv'
  BY <1>5, StartRunKeeps DEF Roles, Contents
<1>6. ASSUME NEW p \in Installers, CheckMarker(p) \/ HashLibrary(p) \/ Compare(p) PROVE LibsIInv'
  BY <1>6, CheckMarkerKeeps, HashLibraryKeeps, CompareKeeps
<1>7. ASSUME NEW p \in Installers, Stage(p) \/ Copy(p) \/ Rename(p) \/ Unmark(p) PROVE LibsIInv'
  BY <1>7, StageKeeps, CopyKeeps, RenameKeeps, UnmarkKeeps
<1>8. ASSUME NEW p \in Installers, Fail(p) \/ Kill(p) PROVE LibsIInv'
  BY <1>8, FailKeeps, KillKeeps
<1> QED BY <1>1, <1>2, <1>3, <1>4, <1>5, <1>6, <1>7, <1>8, MapKeeps DEF LibsNext

LEMMA LibsSpecKeepsLibsIInv == LibsSpec => []LibsIInv
<1> QED BY InitLibsIInv, NextLibsIInv, PTL DEF LibsSpec

-----------------------------------------------------------------------------
\* Every name is of a file that was made, every file holds a build or a part of
\* one, and every installer is at a step of a role.
THEOREM LibrariesAreTyped == LibsSpec => []LibsTypeOK
<1>1. LibsIInv => LibsTypeOK
  <2> SUFFICES ASSUME LibsIInv PROVE LibsTypeOK
    OBVIOUS
  <2>1. \A i \in DOMAIN inodes : inodes[i] \in Contents \cup {Partial}
    BY LenProperties, ElementOfSeq DEF LibsIInv, FilesTyped
  <2>2. mapped = Absent \/ mapped.inode \in DOMAIN inodes
    BY DEF LibsIInv, MappedStays
  <2>3. \A p \in Installers :
          /\ installer[p].role \in Roles /\ installer[p].pc \in Steps \cup Ends
          /\ installer[p].staged \in {Absent} \cup DOMAIN inodes
    BY DEF LibsIInv, RunIsRight, Runs, OwnTemp
  <2> QED BY <2>1, <2>2, <2>3 DEF LibsIInv, FilesTyped, LinkNames, LibsTypeOK
<1> QED BY <1>1, LibsSpecKeepsLibsIInv, PTL

LEMMA IInvLibraryUnharmed == LibsIInv => LibraryUnharmed
<1> SUFFICES ASSUME LibsIInv PROVE LibraryUnharmed
  OBVIOUS
<1>1. Partial \notin Contents
  BY LibsAssumption DEF Contents
<1> QED BY <1>1 DEF LibsIInv, MappedStays, LinksAreWhole, LinkNames, LibraryUnharmed

\* A library that a racket has mapped keeps its bytes whoever installs, fails or
\* is killed, and what is linked as the library is whole.
THEOREM LibraryStaysUnharmed == LibsSpec => []LibraryUnharmed
<1> QED BY LibsSpecKeepsLibsIInv, IInvLibraryUnharmed, PTL

LEMMA IInvRunsEndAsAsked == LibsIInv => RunsEndAsAsked
<1> SUFFICES ASSUME LibsIInv, NEW p \in Installers
             PROVE  LET run == installer[p]
                        ended == run.pc \in {"kept", "done"} IN
                    /\ run.pc \in Ends \ {"killed"} => run.staged \notin temps
                    /\ run.alone /\ ended =>
                         IF run.role = "candidate" /\ run.vouched THEN names = run.from
                         ELSE /\ Holds("library", run.source)
                              /\ run.role = "script" => Holds("marker", run.source)
                              /\ run.role \in {"candidate", "forced"} => ~Vouched
                    /\ run.alone /\ run.pc = "failed" =>
                         /\ names["marker"] = run.from["marker"]
                         /\ names["library"] = run.from["library"] \/ Holds("library", run.source)
  BY DEF RunsEndAsAsked
<1>1. PICK run \in Runs : run = installer[p]
  BY DEF LibsIInv
<1>2. OwnTemp(run) /\ Course(run) /\ AloneIsRight(run)
  BY <1>1 DEF LibsIInv, RunIsRight
<1>3. Vouched => ~Holds("library", Candidate)
  BY DEF Vouched, Holds, LibsIInv, LinksAreWhole
<1>4. run.pc \in Ends \ {"killed"} => run.staged \notin temps
  BY <1>2 DEF OwnTemp, Ends
<1>5. run.alone /\ run.pc = "failed" =>
        /\ names["marker"] = run.from["marker"]
        /\ names["library"] = run.from["library"] \/ Holds("library", run.source)
  BY <1>2 DEF AloneIsRight
<1>6. run.alone /\ run.pc = "kept" => run.role = "candidate" /\ run.vouched /\ names = run.from
  BY <1>2 DEF AloneIsRight, Course, Past
<1>7. run.alone /\ run.pc = "done" =>
        /\ ~(run.role = "candidate" /\ run.vouched)
        /\ Holds("library", run.source)
        /\ run.role = "script" => Holds("marker", run.source)
        /\ run.role \in {"candidate", "forced"} => ~Vouched
  BY <1>2, <1>3 DEF AloneIsRight, Course, Past
<1> QED BY <1>1, <1>4, <1>5, <1>6, <1>7

\* A run whose names nobody else changes ends with what it was to install, or
\* keeps what a marker vouches for; one that fails leaves the library or its own.
THEOREM RunsEndRight == LibsSpec => []RunsEndAsAsked
<1> QED BY LibsSpecKeepsLibsIInv, IInvRunsEndAsAsked, PTL

-----------------------------------------------------------------------------
(* FrameFiles: numbers and sequences.                                      *)

LEMMA LeastNat ==
  ASSUME NEW T, T \subseteq Nat, T # {}
  PROVE  \E n \in T : \A m \in T : n <= m
<1> DEFINE R == OpToRel(<, Nat)
<1>1. IsWellFoundedOn(R, Nat)
  BY NatLessThanWellFounded
<1>2. \A x, y \in Nat : x < y => <<x, y>> \in R
  BY SMT DEF OpToRel
<1> HIDE DEF R
<1>3. \E x \in T : \A y \in T : ~ (<<y, x>> \in R)
  BY <1>1, WFMin
<1>4. \A x, y \in Nat : ~(x < y) => y <= x
  OBVIOUS
<1> QED BY <1>2, <1>3, <1>4, Zenon

LEMMA InductionOnSet ==
  ASSUME NEW T, 0 \in T, \A n \in Nat : n \in T => n + 1 \in T
  PROVE  \A n \in Nat : n \in T
<1> DEFINE Out == Nat \ T
<1> SUFFICES ASSUME Out # {} PROVE FALSE
  OBVIOUS
<1>1. PICK n \in Out : \A m \in Out : n <= m
  <2>1. Out \subseteq Nat
    OBVIOUS
  <2> HIDE DEF Out
  <2> QED BY <2>1, LeastNat
<1>2. n # 0 /\ n \in Nat /\ n - 1 \in Nat /\ n - 1 < n
  BY <1>1
<1>3. n - 1 \in T
  BY <1>1, <1>2
<1>4. (n - 1) + 1 \in T
  BY <1>2, <1>3
<1> QED BY <1>1, <1>2, <1>4

LEMMA TimesGrows ==
  ASSUME NEW k \in Nat, NEW x \in Int, NEW y \in Int, x <= y
  PROVE  k * x <= k * y
<1>1. k * (y - x) >= 0
  OBVIOUS
<1>2. k * (y - x) = k * y - k * x
  OBVIOUS
<1> QED BY <1>1, <1>2

LEMMA Quotient ==
  ASSUME NEW a \in Int, NEW b \in Nat \ {0}
  PROVE  /\ a \div b \in Int
         /\ b * (a \div b) <= a
         /\ a - b * (a \div b) \in 0 .. b - 1
         /\ a % b = a - b * (a \div b)
OBVIOUS

LEMMA LenIs ==
  ASSUME NEW k \in Nat, NEW s, s = [i \in 1 .. k |-> s[i]]
  PROVE  Len(s) = k /\ DOMAIN s = 1 .. k
<1> DEFINE S == {s[i] : i \in 1 .. k}
<1>1. s \in [1 .. k -> S]
  OBVIOUS
<1> HIDE DEF S
<1>2. s \in Seq(S)
  BY <1>1
<1> QED BY <1>1, <1>2

-----------------------------------------------------------------------------
(* FrameFiles: rows and their groups.                                      *)

\* What each of some sequences is joined to.
AreFlattened(T, seqs, k) ==
  T = [i \in 1 .. k |-> IF i = 1 THEN seqs[i] ELSE T[i - 1] \o seqs[i]]

LEMMA FlattenOf ==
  ASSUME NEW seqs, NEW k \in Nat \ {0}, Len(seqs) = k, NEW T, AreFlattened(T, seqs, k)
  PROVE  FlattenSeq(seqs) = T[k]
<1> DEFINE P(f) == f = [i \in 1 .. k |-> IF i = 1 THEN seqs[i] ELSE f[i - 1] \o seqs[i]]
<1>1. P(T)
  BY DEF AreFlattened
<1>2. FlattenSeq(seqs) = (CHOOSE f : P(f))[k]
  BY DEF FlattenSeq
<1> HIDE DEF P
<1>3. PICK f : P(f) /\ FlattenSeq(seqs) = f[k]
  BY <1>1, <1>2
<1> DEFINE S == {i \in Nat : i + 1 <= k => f[i + 1] = T[i + 1]}
<1>4. 0 \in S
  <2>1. 0 + 1 = 1 /\ 1 \in 1 .. k
    OBVIOUS
  <2>2. f[1] = seqs[1] /\ T[1] = seqs[1]
    BY <1>1, <1>3, <2>1 DEF P
  <2> QED BY <2>1, <2>2
<1>5. \A i \in Nat : i \in S => i + 1 \in S
  <2> SUFFICES ASSUME NEW i \in Nat, i \in S, (i + 1) + 1 <= k PROVE f[(i + 1) + 1] = T[(i + 1) + 1]
    OBVIOUS
  <2>1. PICK j : j = (i + 1) + 1
    OBVIOUS
  <2>2. j \in 1 .. k /\ j # 1 /\ j - 1 = i + 1 /\ i + 1 <= k
    BY <2>1
  <2>3. f[j - 1] = T[j - 1]
    BY <2>2
  <2>4. f[j] = f[j - 1] \o seqs[j] /\ T[j] = T[j - 1] \o seqs[j]
    BY <1>1, <1>3, <2>2, Zenon DEF P
  <2> QED BY <2>1, <2>3, <2>4
<1> HIDE DEF S
<1>6. \A i \in Nat : i \in S
  BY <1>4, <1>5, InductionOnSet
<1>7. PICK i : i = k - 1
  OBVIOUS
<1>8. f[k] = T[k]
  <2>1. i \in Nat /\ i + 1 = k /\ i + 1 <= k
    BY <1>7
  <2>2. i \in S
    BY <1>6, <2>1
  <2> QED BY <2>1, <2>2 DEF S
<1> QED BY <1>3, <1>8

LEMMA CountIs ==
  ASSUME NEW n \in Nat
  PROVE  /\ Count(n) \in Seq(Nat) /\ Len(Count(n)) = n /\ DOMAIN Count(n) = 1 .. n
         /\ \A i \in 1 .. n : Count(n)[i] = i
<1>1. Count(n) \in [1 .. n -> Nat]
  BY DEF Count
<1> QED BY <1>1 DEF Count

\* One group is all rows.
LEMMA OneGroup ==
  ASSUME NEW rows
  PROVE  FlattenSeq(<<rows>>) = rows
<1>1. PICK T : T = <<rows>>
  OBVIOUS
<1>2. AreFlattened(T, <<rows>>, 1)
  <2>1. T = [i \in 1 .. 1 |-> T[i]] /\ T[1] = rows
    BY <1>1
  <2>2. ASSUME NEW i \in 1 .. 1 PROVE i = 1
    OBVIOUS
  <2> QED BY <2>1, <2>2 DEF AreFlattened
<1>3. PICK seqs, k : seqs = <<rows>> /\ k = 1
  OBVIOUS
<1>4. k \in Nat \ {0} /\ Len(seqs) = k /\ AreFlattened(T, seqs, k)
  BY <1>2, <1>3
<1>5. FlattenSeq(seqs) = T[k]
  BY <1>4, FlattenOf
<1> QED BY <1>1, <1>3, <1>5

\* Rows to some row and the next ones.
LEMMA CountGoesOn ==
  ASSUME NEW a \in Nat, NEW b \in Nat, NEW h \in Nat, a < b, b <= h
  PROVE  /\ Count(a) \o SubSeq(Count(h), a + 1, b) = Count(b)
         /\ Len(SubSeq(Count(h), a + 1, b)) = b - a
<1>1. PICK s, t, u : s = Count(a) /\ t = SubSeq(Count(h), a + 1, b) /\ u = Count(h)
  OBVIOUS
<1>2. /\ s \in Seq(Nat) /\ Len(s) = a /\ u \in Seq(Nat) /\ Len(u) = h
      /\ (\A i \in 1 .. a : s[i] = i) /\ (\A i \in 1 .. h : u[i] = i)
  BY <1>1, CountIs
<1>3. /\ t \in Seq(Nat) /\ Len(t) = b - a
      /\ \A i \in 1 .. b - a : t[i] = a + i
  <2>1. PICK c : c = a + 1
    OBVIOUS
  <2>2. c \in 1 .. Len(u) + 1 /\ b \in c - 1 .. Len(u) /\ c \in 1 .. Len(u) /\ b \in c .. Len(u)
    BY <1>2, <2>1
  <2>3. t = SubSeq(u, c, b)
    BY <1>1, <2>1
  <2>4. /\ t \in Seq(Nat) /\ Len(t) = b - c + 1
        /\ \A i \in 1 .. b - c + 1 : t[i] = u[c + i - 1]
    BY <1>2, <2>2, <2>3, SubSeqProperties
  <2>5. b - c + 1 = b - a
    BY <2>1
  <2>6. ASSUME NEW i \in 1 .. b - a PROVE t[i] = a + i
    <3>1. c + i - 1 = a + i /\ a + i \in 1 .. h
      BY <2>1
    <3> QED BY <1>2, <2>4, <2>5, <3>1
  <2> QED BY <2>4, <2>5, <2>6
<1>4. PICK v : v = s \o t
  OBVIOUS
<1>5. /\ v \in Seq(Nat) /\ Len(v) = a + (b - a)
      /\ \A i \in 1 .. a + (b - a) : v[i] = IF i <= a THEN s[i] ELSE t[i - a]
  BY <1>2, <1>3, <1>4, ConcatProperties
<1>6. a + (b - a) = b
  OBVIOUS
<1>7. ASSUME NEW i \in 1 .. b PROVE v[i] = i
  <2>1. CASE i <= a
    BY <1>2, <1>5, <1>6, <2>1
  <2>2. CASE ~(i <= a)
    <3>1. i - a \in 1 .. b - a /\ a + (i - a) = i
      BY <2>2
    <3> QED BY <1>3, <1>5, <1>6, <2>2, <3>1
  <2> QED BY <2>1, <2>2
<1>8. v = Count(b)
  <2>1. v = [i \in 1 .. b |-> v[i]]
    BY <1>5, <1>6
  <2> QED BY <1>7, <2>1 DEF Count
<1> QED BY <1>1, <1>3, <1>4, <1>8

\* The end of a group of r rows of h.
GroupEnd(g, r, h) == IF g * r < h THEN g * r ELSE h

LEMMA GroupCount ==
  ASSUME NEW h \in Nat, NEW r \in Nat \ {0}, NEW n, n = (h + r - 1) \div r
  PROVE  n \in Nat /\ n * r >= h /\ (\A g \in 1 .. n : (g - 1) * r < h) /\ (h = 0 => n = 0)
<1>1. PICK a : a = h + r - 1
  OBVIOUS
<1>2. a \in Nat /\ n = a \div r
  BY <1>1
<1>3. n \in Int /\ r * n <= a /\ a - r * n \in 0 .. r - 1
  <2>1. a \div r \in Int /\ r * (a \div r) <= a /\ a - r * (a \div r) \in 0 .. r - 1
    <3>1. a \in Int
      BY <1>2
    <3> QED BY <3>1, Quotient, Zenon
  <2> QED BY <1>2, <2>1, Zenon
<1>4. r * n \in Int /\ r * n >= h
  BY <1>1, <1>3
<1>5. n \in Nat
  <2>1. SUFFICES ASSUME n <= -1 PROVE FALSE
    BY <1>3
  <2>2. r * n <= r * (-1)
    BY <1>3, <2>1, TimesGrows
  <2> QED BY <1>4, <2>2
<1>6. ASSUME NEW g \in 1 .. n PROVE (g - 1) * r < h
  <2>1. r * g <= r * n
    BY <1>3, TimesGrows
  <2>2. (g - 1) * r = r * g - r /\ r * g \in Int
    OBVIOUS
  <2> QED BY <1>1, <1>3, <2>1, <2>2
<1>7. ASSUME h = 0 PROVE n = 0
  <2>1. SUFFICES ASSUME n >= 1 PROVE FALSE
    BY <1>5
  <2>2. r * 1 <= r * n
    BY <1>3, <2>1, TimesGrows
  <2> QED BY <1>1, <1>3, <1>7, <2>2
<1>8. n * r >= h
  <2>1. n * r = r * n
    BY <1>3
  <2> QED BY <1>4, <2>1
<1> QED BY <1>5, <1>6, <1>7, <1>8

\* The row groups are the rows, in order, none longer than asked.
LEMMA GroupsAre ==
  ASSUME NEW h \in Nat, NEW rows \in {None} \cup GroupSizes
  PROVE  /\ FlattenSeq(RowGroups(h, rows)) = Count(h)
         /\ rows \notin {None, 0} =>
              \A g \in DOMAIN RowGroups(h, rows) : Len(RowGroups(h, rows)[g]) \in 1 .. rows
<1>1. CASE rows = None \/ rows = 0
  <2>1. RowGroups(h, rows) = <<Count(h)>>
    BY <1>1 DEF RowGroups
  <2> QED BY <1>1, <2>1, OneGroup
<1>2. CASE ~(rows = None \/ rows = 0)
  <2>1. PICK r, n : r = rows /\ n = (h + r - 1) \div r
    OBVIOUS
  <2>2. r \in Nat \ {0}
    BY <1>2, <2>1, FilesAssumption
  <2>3. n \in Nat /\ n * r >= h /\ (\A g \in 1 .. n : (g - 1) * r < h) /\ (h = 0 => n = 0)
    BY <2>1, <2>2, GroupCount
  <2>4. PICK groups : groups = RowGroups(h, rows)
    OBVIOUS
  <2>5. groups = [g \in 1 .. n |-> SubSeq(Count(h), (g - 1) * r + 1, GroupEnd(g, r, h))]
    BY <1>2, <2>1, <2>4 DEF RowGroups, GroupEnd
  <2>6. ASSUME NEW g \in 1 .. n
        PROVE  /\ g # 1 => Count(GroupEnd(g - 1, r, h)) \o groups[g] = Count(GroupEnd(g, r, h))
               /\ g = 1 => groups[g] = Count(GroupEnd(g, r, h))
               /\ Len(groups[g]) \in 1 .. r
    <3>1. PICK a, b, c : a = (g - 1) * r /\ b = GroupEnd(g, r, h) /\ c = g * r
      OBVIOUS
    <3>2. a \in Nat /\ a < h /\ c = a + r /\ c \in Nat
      BY <2>2, <2>3, <3>1
    <3>3. b \in Nat /\ a < b /\ b <= h /\ b <= a + r
      BY <2>2, <3>1, <3>2 DEF GroupEnd
    <3>4. groups[g] = SubSeq(Count(h), a + 1, b)
      BY <2>5, <3>1
    <3>5. Count(a) \o groups[g] = Count(b) /\ Len(groups[g]) = b - a
      <4>1. Count(a) \o SubSeq(Count(h), a + 1, b) = Count(b) /\ Len(SubSeq(Count(h), a + 1, b)) = b - a
        BY <3>2, <3>3, CountGoesOn, Zenon
      <4> QED BY <3>4, <4>1
    <3>6. GroupEnd(g - 1, r, h) = a
      BY <3>1, <3>2 DEF GroupEnd
    <3>7. ASSUME g = 1 PROVE groups[g] = Count(b)
      <4>1. a = 0
        BY <2>2, <3>1, <3>7
      <4>2. groups[g] \in Seq(Nat)
        <5>1. PICK x, u : x = a + 1 /\ u = Count(h)
          OBVIOUS
        <5>2. u \in Seq(Nat) /\ Len(u) = h
          BY <5>1, CountIs
        <5>3. x \in 1 .. Len(u) + 1
          BY <3>2, <5>1, <5>2
        <5>4. SubSeq(u, x, b) \in Seq(Nat)
          BY <3>2, <3>3, <5>1, <5>2, <5>3, SubSeqProperties
        <5> QED BY <3>4, <5>1, <5>4
      <4>3. Count(0) = <<>>
        BY CountIs
      <4>4. <<>> \o groups[g] = groups[g]
        BY <4>2, ConcatEmptySeq
      <4> QED BY <3>5, <4>1, <4>3, <4>4
    <3>8. b - a \in 1 .. r
      BY <2>2, <3>2, <3>3
    <3> QED BY <3>1, <3>5, <3>6, <3>7, <3>8
  <2>7. \A g \in DOMAIN groups : Len(groups[g]) \in 1 .. r
    BY <2>5, <2>6
  <2>8. FlattenSeq(groups) = Count(h)
    <3>1. CASE n = 0
      <4>1. h = 0
        <5>1. n * r = 0
          BY <2>2, <3>1
        <5> QED BY <2>3, <5>1
      <4>2. groups = <<>> /\ Count(0) = <<>> /\ Len(groups) = 0
        BY <2>5, <3>1, CountIs
      <4> QED BY <4>1, <4>2 DEF FlattenSeq
    <3>2. CASE n # 0
      <4>1. PICK T : T = [g \in 1 .. n |-> Count(GroupEnd(g, r, h))]
        OBVIOUS
      <4>2. ASSUME NEW g \in 1 .. n PROVE T[g] = IF g = 1 THEN groups[g] ELSE T[g - 1] \o groups[g]
        <5>1. CASE g = 1
          BY <2>6, <4>1, <5>1
        <5>2. CASE g # 1
          <6>1. g - 1 \in 1 .. n
            BY <2>3, <5>2
          <6> QED BY <2>6, <4>1, <5>2, <6>1
        <5> QED BY <5>1, <5>2
      <4>3. AreFlattened(T, groups, n)
        BY <4>1, <4>2 DEF AreFlattened
      <4>4. Len(groups) = n
        <5>1. groups = [g \in 1 .. n |-> groups[g]]
          BY <2>5
        <5> QED BY <2>3, <5>1, LenIs
      <4>5. FlattenSeq(groups) = T[n]
        BY <2>3, <3>2, <4>3, <4>4, FlattenOf
      <4>6. GroupEnd(n, r, h) = h /\ n \in 1 .. n
        BY <2>2, <2>3, <3>2 DEF GroupEnd
      <4> QED BY <4>1, <4>5, <4>6
    <3> QED BY <3>1, <3>2
  <2> QED BY <2>1, <2>4, <2>7, <2>8
<1> QED BY <1>1, <1>2

-----------------------------------------------------------------------------
(* FrameFiles: what is read of a Parquet file.                             *)

\* A frame that was written, and its rows.
FileIs(f) ==
  \E groups : \E header \in Headers, binary \in BOOLEAN, height \in Heights :
    /\ f = [header |-> header, height |-> height, groups |-> groups, binary |-> binary]
    /\ FlattenSeq(groups) = Count(height)
FileColumn == [name : Names, of : Int]

LEMMA FileFields ==
  ASSUME NEW f, FileIs(f)
  PROVE  /\ f.header \in Headers /\ f.header \in Seq(Names) /\ f.binary \in BOOLEAN
         /\ f.height \in Heights /\ FlattenSeq(f.groups) = Count(f.height)
<1>0. PICK groups : \E header \in Headers, binary \in BOOLEAN, height \in Heights :
        /\ f = [header |-> header, height |-> height, groups |-> groups, binary |-> binary]
        /\ FlattenSeq(groups) = Count(height)
  BY DEF FileIs
<1>1. PICK header \in Headers, binary \in BOOLEAN, height \in Heights :
        /\ f = [header |-> header, height |-> height, groups |-> groups, binary |-> binary]
        /\ FlattenSeq(groups) = Count(height)
  BY <1>0
<1>2. f.header = header /\ f.height = height /\ f.groups = groups /\ f.binary = binary
  BY <1>1
<1> QED BY <1>1, <1>2, FilesAssumption

LEMMA OptionFields ==
  ASSUME NEW o \in ParquetOptions
  PROVE  /\ o.n # None => o.n \in Nat
         /\ o.index # None => o.index.name \in Names /\ o.index.offset \in Nat
         /\ o.path # None => o.path \in Names
         /\ o.selection \in Selections
BY FilesAssumption, NamesAssumption DEF ParquetOptions, RowIndexes

\* The columns there are to choose from: the row index, the file's, the path.
LEMMA WholeIs ==
  ASSUME FileIs(file), request \in ParquetOptions
  PROVE  /\ Whole \in Seq(FileColumn) /\ Len(Whole) \in Nat /\ DOMAIN Whole = 1 .. Len(Whole)
         /\ request.index # None => Len(Whole) >= 1
         /\ \A p \in DOMAIN Whole : Whole[p].of = 0 <=> p = 1 /\ request.index # None
<1>1. PICK index, columns, path, n : /\ index = IndexColumn(request) /\ columns = FromFile(file.header)
                                     /\ path = PathColumn(request) /\ n = Len(file.header)
  OBVIOUS
<1>2. /\ index \in Seq(FileColumn)
      /\ request.index = None => Len(index) = 0
      /\ request.index # None => Len(index) = 1 /\ index[1].of = 0
  <2>1. CASE request.index = None
    BY <1>1, <2>1 DEF IndexColumn
  <2>2. CASE request.index # None
    <3>1. PICK c : c = [name |-> request.index.name, of |-> 0]
      OBVIOUS
    <3>2. c \in FileColumn /\ c.of = 0
      BY <2>2, <3>1, OptionFields DEF FileColumn
    <3>3. index = <<c>>
      BY <1>1, <2>2, <3>1 DEF IndexColumn
    <3> QED BY <2>2, <3>2, <3>3
  <2> QED BY <2>1, <2>2
<1>3. path \in Seq(FileColumn) /\ \A i \in 1 .. Len(path) : path[i].of # 0
  <2>1. CASE request.path = None
    BY <1>1, <2>1 DEF PathColumn
  <2>2. CASE request.path # None
    <3>1. PICK c : c = [name |-> request.path, of |-> -1]
      OBVIOUS
    <3>2. c \in FileColumn /\ c.of # 0
      BY <2>2, <3>1, OptionFields DEF FileColumn
    <3>3. path = <<c>>
      BY <1>1, <2>2, <3>1 DEF PathColumn
    <3> QED BY <2>2, <3>2, <3>3
  <2> QED BY <2>1, <2>2
<1>4. columns \in Seq(FileColumn) /\ Len(columns) = n /\ \A i \in 1 .. Len(columns) : columns[i].of # 0
  <2>1. n \in Nat /\ file.header \in [1 .. n -> Names]
    BY <1>1, FileFields, LenProperties
  <2>2. columns = [i \in 1 .. n |-> [name |-> file.header[i], of |-> i]]
    BY <1>1, <2>1 DEF FromFile
  <2>3. ASSUME NEW i \in 1 .. n PROVE columns[i] \in FileColumn /\ columns[i].of = i
    BY <2>1, <2>2 DEF FileColumn
  <2>4. columns \in [1 .. n -> FileColumn]
    BY <2>2, <2>3
  <2>5. columns \in Seq(FileColumn) /\ Len(columns) = n
    BY <2>1, <2>4
  <2> QED BY <2>3, <2>5
<1>5. PICK most : most = index \o columns
  OBVIOUS
<1>6. /\ most \in Seq(FileColumn) /\ Len(most) = Len(index) + n
      /\ \A i \in 1 .. Len(index) + n : most[i] = IF i <= Len(index) THEN index[i] ELSE columns[i - Len(index)]
  BY <1>2, <1>4, <1>5, ConcatProperties
<1>7. Whole = most \o path
  BY <1>1, <1>5 DEF Whole
<1>8. PICK whole : whole = Whole
  OBVIOUS
<1>9. /\ whole \in Seq(FileColumn) /\ Len(whole) = Len(most) + Len(path)
      /\ \A i \in 1 .. Len(most) + Len(path) : whole[i] = IF i <= Len(most) THEN most[i] ELSE path[i - Len(most)]
  BY <1>3, <1>6, <1>7, <1>8, ConcatProperties
<1>10. Len(index) \in Nat /\ Len(path) \in Nat /\ n \in Nat /\ Len(most) \in Nat /\ Len(whole) \in Nat
  BY <1>2, <1>3, <1>4, <1>6, <1>9
<1>11. ASSUME NEW p \in 1 .. Len(whole) PROVE whole[p].of = 0 <=> p = 1 /\ request.index # None
  <2>1. CASE p <= Len(index)
    <3>1. p \in 1 .. Len(most) + Len(path) /\ p <= Len(most) /\ p \in 1 .. Len(index) + n
      BY <1>6, <1>9, <1>10, <2>1
    <3>2. whole[p] = index[p] /\ Len(index) = 1 /\ p = 1 /\ request.index # None
      BY <1>2, <1>6, <1>9, <2>1, <3>1
    <3> QED BY <1>2, <3>2
  <2>2. CASE ~(p <= Len(index)) /\ p <= Len(most)
    <3>1. p \in 1 .. Len(most) + Len(path) /\ p \in 1 .. Len(index) + n /\ p - Len(index) \in 1 .. n
      BY <1>6, <1>9, <1>10, <2>2
    <3>2. whole[p] = columns[p - Len(index)]
      BY <1>6, <1>9, <2>2, <3>1
    <3>3. request.index # None => p # 1
      BY <1>2, <1>10, <2>2
    <3> QED BY <1>4, <3>1, <3>2, <3>3
  <2>3. CASE ~(p <= Len(most))
    <3>1. p \in 1 .. Len(most) + Len(path) /\ p - Len(most) \in 1 .. Len(path)
      BY <1>9, <1>10, <2>3
    <3>2. whole[p] = path[p - Len(most)]
      BY <1>9, <2>3, <3>1
    <3>3. request.index # None => p # 1
      BY <1>2, <1>6, <1>10, <2>3
    <3> QED BY <1>3, <3>1, <3>2, <3>3
  <2> QED BY <2>1, <2>2, <2>3
<1>12. request.index # None => Len(whole) >= 1
  BY <1>2, <1>6, <1>9, <1>10
<1>13. DOMAIN whole = 1 .. Len(whole)
  BY <1>9
<1> QED BY <1>8, <1>9, <1>10, <1>11, <1>12, <1>13

LEMMA TakenIs ==
  ASSUME FileIs(file), request \in ParquetOptions
  PROVE  Taken \in Seq(Nat) /\ Len(Taken) \in Nat /\ DOMAIN Taken = 1 .. Len(Taken)
<1>1. PICK height \in Heights : FlattenSeq(file.groups) = Count(height)
  BY FileFields
<1>2. PICK rows : rows = Count(height)
  OBVIOUS
<1>3. height \in Nat /\ rows \in Seq(Nat) /\ Len(rows) = height
  BY <1>2, CountIs, FilesAssumption
<1>4. PICK n : n = request.n
  OBVIOUS
<1>5. UpTo(n, rows) \in Seq(Nat)
  <2>1. CASE n = None \/ n >= Len(rows)
    BY <1>3, <2>1 DEF UpTo
  <2>2. CASE ~(n = None \/ n >= Len(rows))
    <3>1. n \in Nat /\ n < Len(rows)
      BY <1>3, <1>4, <2>2, OptionFields
    <3>2. 1 \in 1 .. Len(rows) + 1 /\ n \in 1 - 1 .. Len(rows)
      BY <1>3, <3>1
    <3>3. SubSeq(rows, 1, n) \in Seq(Nat)
      BY <1>3, <3>2, SubSeqProperties
    <3> QED BY <2>2, <3>3 DEF UpTo
  <2> QED BY <2>1, <2>2
<1>6. Taken = UpTo(n, rows)
  BY <1>1, <1>2, <1>4 DEF Taken
<1> QED BY <1>5, <1>6

LEMMA FrameFields ==
  ASSUME NEW columns, NEW rows, NEW index
  PROVE  /\ Frame(columns, rows, index).columns = columns
         /\ Frame(columns, rows, index).rows = rows
         /\ Frame(columns, rows, index).index = index
         /\ (\A i \in DOMAIN columns : columns[i].name \in Names) => Frame(columns, rows, index) # Failed
<1>1. Frame(columns, rows, index).columns = columns
  BY DEF Frame
<1>2. ASSUME \A i \in DOMAIN columns : columns[i].name \in Names PROVE Frame(columns, rows, index) # Failed
  <2>1. PICK c, cs : c = [name |-> "failed", of |-> 0] /\ cs = <<c>>
    OBVIOUS
  <2>2. Failed.columns = cs
    BY <2>1 DEF Failed, Frame
  <2>3. c.name = "failed"
    BY <2>1
  <2>4. cs # columns
    <3>1. 1 \in DOMAIN cs /\ cs[1] = c
      BY <2>1
    <3> QED BY <1>2, <2>3, <3>1, NamesAssumption
  <2> QED BY <1>1, <2>2, <2>4
<1> QED BY <1>1, <1>2 DEF Frame

LEMMA ColumnsNeverFail ==
  ASSUME NEW columns \in Seq(FileColumn), NEW rows, NEW index
  PROVE  Frame(columns, rows, index) # Failed
<1>1. \A i \in DOMAIN columns : columns[i].name \in Names
  <2>1. ASSUME NEW i \in DOMAIN columns PROVE columns[i].name \in Names
    <3>1. columns[i] \in FileColumn
      OBVIOUS
    <3> QED BY <3>1 DEF FileColumn
  <2> QED BY <2>1
<1> QED BY <1>1, FrameFields

\* The row index fits, or the read fails.
IndexFits(o, rows) == Len(rows) = 0 \/ o.index.offset + Len(rows) - 1 <= IdxMax
ShiftedIndex(o, rows) == [i \in 1 .. Len(rows) |-> o.index.offset + i - 1]

LEMMA OffsetIs ==
  ASSUME NEW o, o.index # None, o.index.offset \in Nat, NEW rows \in Seq(Nat), NEW columns
  PROVE  OffsetRows(o, Frame(columns, rows, ZeroBased(o, rows))) =
           IF IndexFits(o, rows) THEN Frame(columns, rows, ShiftedIndex(o, rows)) ELSE Failed
<1>1. PICK given, index, n, offset : /\ given = Frame(columns, rows, ZeroBased(o, rows))
                                     /\ index = ZeroBased(o, rows) /\ n = Len(rows) /\ offset = o.index.offset
  OBVIOUS
<1>2. /\ n \in Nat /\ offset \in Nat /\ DOMAIN rows = 1 .. n /\ given.index = index /\ IdxMax \in Nat
      /\ given = Frame(columns, rows, index)
  BY <1>1, FrameFields, NamesAssumption
<1>3. index = [i \in 1 .. n |-> i - 1]
  BY <1>1, <1>2 DEF ZeroBased
<1>4. (\E i \in DOMAIN index : index[i] + offset > IdxMax) <=> ~(n = 0 \/ offset + n - 1 <= IdxMax)
  <2>1. ASSUME NEW i \in 1 .. n, (i - 1) + offset > IdxMax PROVE ~(n = 0 \/ offset + n - 1 <= IdxMax)
    BY <1>2, <2>1
  <2>2. ASSUME ~(n = 0 \/ offset + n - 1 <= IdxMax) PROVE n \in 1 .. n /\ (n - 1) + offset > IdxMax
    BY <1>2, <2>2
  <2> QED BY <1>3, <2>1, <2>2
<1>5. [i \in DOMAIN index |-> index[i] + offset] = [i \in 1 .. n |-> offset + i - 1]
  <2>1. ASSUME NEW i \in 1 .. n PROVE (i - 1) + offset = offset + i - 1
    BY <1>2
  <2> QED BY <1>3, <2>1
<1>6. [given EXCEPT !.index = [i \in DOMAIN @ |-> @[i] + offset]] =
        Frame(columns, rows, [i \in DOMAIN index |-> index[i] + offset])
  BY <1>2 DEF Frame
<1>7. OffsetRows(o, given) =
        IF \E i \in DOMAIN given.index : given.index[i] + o.index.offset > IdxMax THEN Failed
        ELSE [given EXCEPT !.index = [i \in DOMAIN @ |-> @[i] + o.index.offset]]
  BY DEF OffsetRows
<1>8. OffsetRows(o, given) =
        IF \E i \in DOMAIN index : index[i] + offset > IdxMax THEN Failed
        ELSE Frame(columns, rows, [i \in DOMAIN index |-> index[i] + offset])
  BY <1>1, <1>2, <1>6, <1>7
<1>9. IndexFits(o, rows) <=> (n = 0 \/ offset + n - 1 <= IdxMax)
  BY <1>1 DEF IndexFits
<1>10. ShiftedIndex(o, rows) = [i \in 1 .. n |-> offset + i - 1]
  BY <1>1 DEF ShiftedIndex
<1> QED BY <1>1, <1>4, <1>5, <1>8, <1>9, <1>10

LEMMA FailedStays == \A o : OffsetRows(o, Failed) = Failed
<1> SUFFICES ASSUME NEW o PROVE OffsetRows(o, Failed) = Failed
  OBVIOUS
<1>1. Failed.index = <<>> /\ DOMAIN <<>> = {}
  BY DEF Failed, Frame
<1>2. CASE o.index = None
  BY <1>2 DEF OffsetRows
<1>3. CASE o.index # None
  <2>1. OffsetRows(o, Failed) = [Failed EXCEPT !.index = [i \in DOMAIN @ |-> @[i] + o.index.offset]]
    BY <1>1, <1>3 DEF OffsetRows
  <2>2. [i \in DOMAIN <<>> |-> <<>>[i] + o.index.offset] = <<>>
    OBVIOUS
  <2>3. [Failed EXCEPT !.index = [i \in DOMAIN @ |-> @[i] + o.index.offset]] =
          [Failed EXCEPT !.index = <<>>]
    BY <1>1, <2>2
  <2>4. [Failed EXCEPT !.index = <<>>] = Failed
    BY DEF Failed, Frame
  <2> QED BY <2>1, <2>3, <2>4
<1> QED BY <1>2, <1>3

\* The place of each choice: where it is, or nowhere.
Places == SelectedPlaces(Whole, request.selection)
OneOfAKind == IsInjective(ColumnNames(Whole))

LEMMA SelectionIs ==
  ASSUME request \in ParquetOptions, request.selection # None
  PROVE  \E m \in Nat :
           /\ request.selection.by \in [1 .. m -> Names \cup Int]
           /\ Len(request.selection.by) = m /\ DOMAIN request.selection.by = 1 .. m
           /\ request.selection.kind \in {"names", "places"}
           /\ request.selection.kind = "places" => request.selection.by \in [1 .. m -> Int]
           /\ DOMAIN Places = 1 .. m
<1>1. request.selection \in [kind : {"names"}, by : SeqOf(Names, MaxChosen)] \cup [kind : {"places"}, by : SeqOf(Indices, MaxChosen)]
  BY OptionFields DEF Selections
<1>2. PICK s : s = request.selection
  OBVIOUS
<1>3. \/ s.kind = "names" /\ s.by \in SeqOf(Names, MaxChosen)
      \/ s.kind = "places" /\ s.by \in SeqOf(Indices, MaxChosen)
  BY <1>1, <1>2
<1>4. PICK m \in 0 .. MaxChosen : \/ s.kind = "names" /\ s.by \in [1 .. m -> Names]
                                  \/ s.kind = "places" /\ s.by \in [1 .. m -> Int]
  <2>1. \A S : SeqOf(S, MaxChosen) = UNION {[1 .. m -> S] : m \in 0 .. MaxChosen}
    BY DEF SeqOf
  <2>2. \A m : [1 .. m -> Indices] \subseteq [1 .. m -> Int]
    BY FilesAssumption
  <2>3. MaxChosen \in Nat
    BY NamesAssumption
  <2> QED BY <1>3, <2>1, <2>2, <2>3
<1>5. PICK by : by = s.by
  OBVIOUS
<1>6. by \in [1 .. m -> Names \cup Int]
  BY <1>4, <1>5, NamesAssumption
<1>7. m \in Nat /\ Len(by) = m /\ DOMAIN by = 1 .. m
  BY <1>6
<1>8. DOMAIN Places = 1 .. m
  BY <1>2, <1>5, <1>7 DEF Places, SelectedPlaces
<1> QED BY <1>2, <1>4, <1>5, <1>6, <1>7, <1>8

\* A choice means the column at its place, or none.
LEMMA ChoiceIs ==
  ASSUME FileIs(file), request \in ParquetOptions, request.selection # None, OneOfAKind,
         NEW k \in DOMAIN Places
  PROVE  \A p \in DOMAIN Whole : p \in Chosen(k) <=> p = Places[k]
<1>1. PICK n, whole, s : n = Len(Whole) /\ whole = Whole /\ s = request.selection
  OBVIOUS
<1>2. n \in Nat /\ DOMAIN whole = 1 .. n /\ Len(whole) = n
  BY <1>1, WholeIs
<1>3. PICK m \in Nat : /\ s.by \in [1 .. m -> Names \cup Int] /\ DOMAIN Places = 1 .. m
                       /\ DOMAIN s.by = 1 .. m
                       /\ s.kind \in {"names", "places"}
                       /\ s.kind = "places" => s.by \in [1 .. m -> Int]
  BY <1>1, SelectionIs
<1>4. PICK choice : choice = s.by[k]
  OBVIOUS
<1>5. Places[k] = IF s.kind = "names" THEN
                    LET places == {p \in DOMAIN whole : whole[p].name = choice} IN
                    IF places = {} THEN 0 ELSE CHOOSE p \in places : TRUE
                  ELSE ResolveIndex(choice, n)
  BY <1>1, <1>2, <1>3, <1>4 DEF Places, SelectedPlaces
<1>6. ASSUME NEW p \in 1 .. n
      PROVE  p \in Chosen(k) <=> IF s.kind = "names" THEN whole[p].name = choice
                                 ELSE p = choice + 1 \/ p = choice + 1 + n
  BY <1>1, <1>2, <1>4 DEF Chosen, AskedFor, Means
<1>7. CASE s.kind = "names"
  <2> DEFINE ps == {p \in DOMAIN whole : whole[p].name = choice}
  <2>1. Places[k] = IF ps = {} THEN 0 ELSE CHOOSE p \in ps : TRUE
    BY <1>5, <1>7
  <2>2. \A p \in 1 .. n : p \in ps <=> whole[p].name = choice
    BY <1>2
  <2>3. \A p, q \in 1 .. n : whole[p].name = whole[q].name => p = q
    BY <1>1, <1>2 DEF OneOfAKind, IsInjective, ColumnNames
  <2>4. ps # {} => Places[k] \in ps
    BY <2>1
  <2>5. ps \subseteq 1 .. n
    BY <1>2
  <2> HIDE DEF ps
  <2>6. ASSUME NEW p \in 1 .. n PROVE p \in Chosen(k) <=> p = Places[k]
    <3>1. CASE ps = {}
      BY <1>6, <1>7, <2>1, <2>2, <3>1
    <3>2. CASE ps # {}
      BY <1>6, <1>7, <2>2, <2>3, <2>4, <2>5, <3>2
    <3> QED BY <3>1, <3>2
  <2> QED BY <1>1, <1>2, <2>6
<1>8. CASE s.kind = "places"
  <2>1. choice \in Int
    BY <1>3, <1>4, <1>8
  <2>2. Places[k] = IF choice < 0 THEN choice + n + 1 ELSE choice + 1
    BY <1>2, <1>5, <1>8, <2>1 DEF ResolveIndex
  <2>3. ASSUME NEW p \in 1 .. n PROVE p \in Chosen(k) <=> p = Places[k]
    BY <1>2, <1>6, <1>8, <2>1, <2>2, <2>3
  <2> QED BY <1>1, <1>2, <2>3
<1> QED BY <1>3, <1>7, <1>8

\* What a read needs to succeed.
Possible ==
  /\ OneOfAKind
  /\ \A k \in DOMAIN AskedFor : Chosen(k) # {}
  /\ \A k, l \in DOMAIN AskedFor : k # l => Chosen(k) \cap Chosen(l) = {}
  /\ Indexed => IndexFits(request, Taken)
\* What it then gives.
GivesAsked(given) ==
  /\ Len(given.columns) = Len(AskedFor)
  /\ \A k \in DOMAIN AskedFor : given.columns[k] \in {Whole[p] : p \in Chosen(k)}
  /\ AskedFor # <<>> => given.rows = Taken
  /\ Indexed => \A i \in DOMAIN given.rows : given.index[i] = request.index.offset + i - 1
Answers(given) == (Possible <=> given # Failed) /\ (Possible => GivesAsked(given))

LEMMA ScanIs ==
  Scan(file, request) = IF ~OneOfAKind THEN Failed
                        ELSE Frame(Whole, Taken, ZeroBased(request, Taken))
BY DEF Scan, Whole, Taken, OneOfAKind

LEMMA ChoicesAre ==
  ASSUME FileIs(file), request \in ParquetOptions, request.selection # None, OneOfAKind
  PROVE  /\ DOMAIN AskedFor = DOMAIN Places
         /\ (\A k \in DOMAIN AskedFor : Chosen(k) # {}) <=> (\A k \in DOMAIN Places : Places[k] \in DOMAIN Whole)
         /\ (\A k \in DOMAIN Places : Places[k] \in DOMAIN Whole) =>
              /\ \A k \in DOMAIN Places : Chosen(k) = {Places[k]}
              /\ (\A k, l \in DOMAIN AskedFor : k # l => Chosen(k) \cap Chosen(l) = {}) <=> IsInjective(Places)
              /\ Indexed <=> \E k \in DOMAIN Places : Whole[Places[k]].of = 0
<1>1. DOMAIN AskedFor = DOMAIN Places
  BY SelectionIs DEF AskedFor
<1>2. ASSUME NEW k \in DOMAIN Places
      PROVE  /\ Chosen(k) \subseteq DOMAIN Whole
             /\ \A p \in DOMAIN Whole : p \in Chosen(k) <=> p = Places[k]
  BY ChoiceIs DEF Chosen
<1>3. (\A k \in DOMAIN AskedFor : Chosen(k) # {}) <=> (\A k \in DOMAIN Places : Places[k] \in DOMAIN Whole)
  <2>1. ASSUME NEW k \in DOMAIN Places PROVE Chosen(k) # {} <=> Places[k] \in DOMAIN Whole
    BY <1>2
  <2> QED BY <1>1, <2>1
<1>4. ASSUME \A k \in DOMAIN Places : Places[k] \in DOMAIN Whole
      PROVE  /\ \A k \in DOMAIN Places : Chosen(k) = {Places[k]}
             /\ (\A k, l \in DOMAIN AskedFor : k # l => Chosen(k) \cap Chosen(l) = {}) <=> IsInjective(Places)
             /\ Indexed <=> \E k \in DOMAIN Places : Whole[Places[k]].of = 0
  <2>1. ASSUME NEW k \in DOMAIN Places PROVE Chosen(k) = {Places[k]}
    BY <1>2, <1>4
  <2>2. (\A k, l \in DOMAIN AskedFor : k # l => Chosen(k) \cap Chosen(l) = {}) <=> IsInjective(Places)
    <3>1. ASSUME NEW k \in DOMAIN Places, NEW l \in DOMAIN Places
          PROVE  Chosen(k) \cap Chosen(l) = {} <=> Places[k] # Places[l]
      <4>1. Chosen(k) = {Places[k]} /\ Chosen(l) = {Places[l]}
        BY <2>1
      <4>2. {Places[k]} \cap {Places[l]} = {} <=> Places[k] # Places[l]
        OBVIOUS
      <4> QED BY <4>1, <4>2
    <3>2. PICK P : P = Places
      OBVIOUS
    <3>3. IsInjective(P) <=> \A k, l \in DOMAIN P : P[k] = P[l] => k = l
      BY DEF IsInjective
    <3>4. \A k, l \in DOMAIN P : Chosen(k) \cap Chosen(l) = {} <=> P[k] # P[l]
      BY <3>1, <3>2
    <3>5. (\A k, l \in DOMAIN P : k # l => Chosen(k) \cap Chosen(l) = {}) <=> IsInjective(P)
      BY <3>3, <3>4, Zenon
    <3> QED BY <1>1, <3>2, <3>5
  <2>3. \A p \in DOMAIN Whole : Whole[p].of = 0 <=> p = 1 /\ request.index # None
    BY WholeIs
  <2>4. Indexed <=> request.index # None /\ \E k \in DOMAIN Places : Places[k] = 1
    BY <1>1, <2>1 DEF Indexed
  <2>5. (\E k \in DOMAIN Places : Whole[Places[k]].of = 0) <=> request.index # None /\ \E k \in DOMAIN Places : Places[k] = 1
    BY <1>4, <2>3
  <2> QED BY <2>1, <2>2, <2>4, <2>5
<1> QED BY <1>1, <1>3, <1>4

IndexTyped(given) == ToSet(given.index) \subseteq 0 .. IdxMax

LEMMA NoIndexIsTyped ==
  ASSUME NEW columns, NEW rows
  PROVE  IndexTyped(Frame(columns, rows, <<>>))
BY FrameFields DEF IndexTyped, ToSet

LEMMA FailedIsTyped == IndexTyped(Failed)
BY NoIndexIsTyped DEF Failed

LEMMA ShiftedIsTyped ==
  ASSUME NEW o \in ParquetOptions, o.index # None, NEW rows \in Seq(Nat), IndexFits(o, rows), NEW columns
  PROVE  /\ IndexTyped(Frame(columns, rows, ShiftedIndex(o, rows)))
         /\ \A i \in DOMAIN rows : ShiftedIndex(o, rows)[i] = o.index.offset + i - 1
<1>1. PICK n, offset, index : n = Len(rows) /\ offset = o.index.offset /\ index = ShiftedIndex(o, rows)
  OBVIOUS
<1>2. n \in Nat /\ offset \in Nat /\ IdxMax \in Nat /\ DOMAIN rows = 1 .. n
  BY <1>1, OptionFields, NamesAssumption
<1>3. index = [i \in 1 .. n |-> offset + i - 1]
  BY <1>1 DEF ShiftedIndex
<1>4. n = 0 \/ offset + n - 1 <= IdxMax
  BY <1>1 DEF IndexFits
<1>5. ASSUME NEW i \in 1 .. n PROVE index[i] \in 0 .. IdxMax
  BY <1>2, <1>3, <1>4
<1>6. ToSet(index) \subseteq 0 .. IdxMax
  BY <1>3, <1>5 DEF ToSet
<1> QED BY <1>1, <1>2, <1>3, <1>6, FrameFields DEF IndexTyped

\* A frame of the columns chosen answers a request, with its index shifted
\* where there is one, and fails where that does not fit.
LEMMA ShiftedAnswers ==
  ASSUME FileIs(file), request \in ParquetOptions, Indexed,
         NEW columns \in Seq(FileColumn), Len(columns) = Len(AskedFor),
         \A k \in DOMAIN AskedFor : columns[k] \in {Whole[p] : p \in Chosen(k)},
         Possible <=> IndexFits(request, Taken),
         NEW given, given = OffsetRows(request, Frame(columns, Taken, ZeroBased(request, Taken)))
  PROVE  Answers(given) /\ IndexTyped(given)
<1>1. request.index # None
  BY DEF Indexed
<1>2. Taken \in Seq(Nat)
  BY TakenIs
<1>3. PICK shifted : shifted = Frame(columns, Taken, ShiftedIndex(request, Taken))
  OBVIOUS
<1>4. given = IF IndexFits(request, Taken) THEN shifted ELSE Failed
  BY <1>1, <1>2, <1>3, OptionFields, OffsetIs
<1>5. CASE ~IndexFits(request, Taken)
  BY <1>4, <1>5, FailedIsTyped DEF Answers
<1>6. CASE IndexFits(request, Taken)
  <2>1. given = shifted /\ Possible
    BY <1>4, <1>6
  <2>2. /\ shifted.columns = columns /\ shifted.rows = Taken
        /\ shifted.index = ShiftedIndex(request, Taken) /\ shifted # Failed
    BY <1>3, FrameFields, ColumnsNeverFail
  <2>3. /\ IndexTyped(shifted)
        /\ \A i \in DOMAIN Taken : shifted.index[i] = request.index.offset + i - 1
    BY <1>1, <1>2, <1>3, <1>6, <2>2, ShiftedIsTyped
  <2>4. GivesAsked(shifted)
    BY <2>2, <2>3 DEF GivesAsked
  <2> QED BY <2>1, <2>2, <2>3, <2>4 DEF Answers
<1> QED BY <1>5, <1>6

LEMMA PlainAnswers ==
  ASSUME FileIs(file), request \in ParquetOptions, ~Indexed, Possible,
         NEW columns \in Seq(FileColumn), Len(columns) = Len(AskedFor),
         \A k \in DOMAIN AskedFor : columns[k] \in {Whole[p] : p \in Chosen(k)},
         NEW rows, AskedFor # <<>> => rows = Taken,
         NEW given, given = Frame(columns, rows, <<>>)
  PROVE  Answers(given) /\ IndexTyped(given)
<1>1. given.columns = columns /\ given.rows = rows /\ given # Failed /\ IndexTyped(given)
  BY FrameFields, ColumnsNeverFail, NoIndexIsTyped
<1>2. GivesAsked(given)
  BY <1>1 DEF GivesAsked
<1> QED BY <1>1, <1>2 DEF Answers

LEMMA WithoutSelection ==
  ASSUME FileIs(file), request \in ParquetOptions, request.selection = None, OneOfAKind,
         NEW given, given = OffsetRows(request, Frame(Whole, Taken, ZeroBased(request, Taken)))
  PROVE  Answers(given) /\ IndexTyped(given)
<1>1. PICK n, whole : n = Len(Whole) /\ whole = Whole
  OBVIOUS
<1>2. /\ n \in Nat /\ DOMAIN whole = 1 .. n /\ Len(whole) = n /\ whole \in Seq(FileColumn)
      /\ request.index # None => n >= 1
  BY <1>1, WholeIs
<1>3. DOMAIN AskedFor = 1 .. n /\ Len(AskedFor) = n
  <2>1. AskedFor = Count(n)
    BY <1>1 DEF AskedFor
  <2> QED BY <1>2, <2>1, CountIs
<1>4. ASSUME NEW k \in 1 .. n PROVE Chosen(k) = {k}
  BY <1>1, <1>2, <1>4 DEF Chosen
<1>5. /\ \A k \in DOMAIN AskedFor : Chosen(k) # {}
      /\ \A k, l \in DOMAIN AskedFor : k # l => Chosen(k) \cap Chosen(l) = {}
  <2>1. ASSUME NEW k \in 1 .. n, NEW l \in 1 .. n, k # l PROVE Chosen(k) \cap Chosen(l) = {}
    BY <1>4, <2>1
  <2> QED BY <1>3, <1>4, <2>1
<1>6. \A k \in DOMAIN AskedFor : whole[k] \in {Whole[p] : p \in Chosen(k)}
  <2>1. ASSUME NEW k \in 1 .. n PROVE whole[k] \in {Whole[p] : p \in Chosen(k)}
    BY <1>1, <1>4
  <2> QED BY <1>3, <2>1
<1>7. Indexed <=> request.index # None
  BY <1>2, <1>3, <1>4 DEF Indexed
<1>8. CASE Indexed
  <2>1. Possible <=> IndexFits(request, Taken)
    BY <1>5, <1>8 DEF Possible
  <2>2. Len(whole) = Len(AskedFor)
    BY <1>2, <1>3
  <2>3. given = OffsetRows(request, Frame(whole, Taken, ZeroBased(request, Taken)))
    BY <1>1
  <2> QED BY <1>2, <1>6, <1>8, <2>1, <2>2, <2>3, ShiftedAnswers
<1>9. CASE ~Indexed
  <2>1. Possible
    BY <1>5, <1>9 DEF Possible
  <2>2. given = Frame(whole, Taken, <<>>)
    BY <1>1, <1>7, <1>9 DEF OffsetRows, ZeroBased
  <2>3. Len(whole) = Len(AskedFor)
    BY <1>2, <1>3
  <2> QED BY <1>2, <1>6, <1>9, <2>1, <2>2, <2>3, PlainAnswers
<1> QED BY <1>8, <1>9

\* What is kept of the frame when columns are chosen.
Kept(chosen) ==
  Frame(chosen, IF chosen = <<>> THEN <<>> ELSE Taken,
        IF chosen = <<>> THEN <<>> ELSE ZeroBased(request, Taken))
Choice == [i \in DOMAIN Places |-> Whole[Places[i]]]

LEMMA SelectIs ==
  ASSUME FileIs(file), request \in ParquetOptions, request.selection # None, OneOfAKind
  PROVE  Select(request, Scan(file, request)) =
           IF \E i \in DOMAIN Places : Places[i] \notin DOMAIN Whole THEN Failed
           ELSE IF ~IsInjective(Places) THEN Failed
           ELSE IF \E i \in DOMAIN Choice : Choice[i].of = 0 THEN OffsetRows(request, Kept(Choice))
           ELSE Frame(Choice, IF Choice = <<>> THEN <<>> ELSE Taken, <<>>)
<1>1. PICK given : given = Frame(Whole, Taken, ZeroBased(request, Taken))
  OBVIOUS
<1>2. Scan(file, request) = given
  BY <1>1, ScanIs
<1>3. given # Failed /\ given.columns = Whole
  BY <1>1, FrameFields, ColumnsNeverFail, WholeIs
<1> DEFINE chosen == [i \in DOMAIN Places |-> given.columns[Places[i]]]
           kept == [given EXCEPT !.columns = chosen,
                                 !.rows = IF chosen = <<>> THEN <<>> ELSE @,
                                 !.index = IF chosen = <<>> THEN <<>> ELSE @]
<1>4. Select(request, given) =
        IF \E i \in DOMAIN Places : Places[i] \notin DOMAIN given.columns THEN Failed
        ELSE IF ~IsInjective(Places) THEN Failed
        ELSE IF \E i \in DOMAIN chosen : chosen[i].of = 0 THEN OffsetRows(request, kept)
        ELSE [kept EXCEPT !.index = <<>>]
  BY <1>3 DEF Select, Places
<1>5. chosen = Choice
  BY <1>3 DEF Choice
<1>6. kept = Kept(chosen)
  <2>1. PICK rows, index, cs : rows = Taken /\ index = ZeroBased(request, Taken) /\ cs = chosen
    OBVIOUS
  <2>2. PICK r, x : /\ r = IF cs = <<>> THEN <<>> ELSE rows
                    /\ x = IF cs = <<>> THEN <<>> ELSE index
    OBVIOUS
  <2>3. given = [columns |-> Whole, rows |-> rows, index |-> index] /\ given.rows = rows /\ given.index = index
    BY <1>1, <2>1 DEF Frame
  <2>4. kept = [given EXCEPT !.columns = cs, !.rows = r, !.index = x]
    <3> HIDE DEF chosen
    <3> QED BY <2>1, <2>2, <2>3
  <2>5. [given EXCEPT !.columns = cs, !.rows = r, !.index = x] = Frame(cs, r, x)
    <3> HIDE DEF chosen, kept
    <3>1. PICK k : k = [given EXCEPT !.columns = cs, !.rows = r, !.index = x]
      OBVIOUS
    <3>2. DOMAIN k = DOMAIN given /\ DOMAIN given = {"columns", "rows", "index"}
      BY <2>3, <3>1
    <3>3. k.columns = cs /\ k.rows = r /\ k.index = x
      BY <3>1, <3>2
    <3>4. k = [field \in {"columns", "rows", "index"} |-> k[field]]
      BY <3>1, <3>2
    <3>5. k = [columns |-> cs, rows |-> r, index |-> x]
      BY <3>3, <3>4
    <3> QED BY <3>1, <3>5 DEF Frame
  <2>6. Kept(cs) = Frame(cs, r, x)
    BY <2>1, <2>2 DEF Kept
  <2> QED BY <2>1, <2>4, <2>5, <2>6
<1>7. [Kept(chosen) EXCEPT !.index = <<>>] = Frame(chosen, IF chosen = <<>> THEN <<>> ELSE Taken, <<>>)
  <2> HIDE DEF chosen, kept
  <2>1. PICK k, r, x : /\ k = Kept(chosen) /\ r = IF chosen = <<>> THEN <<>> ELSE Taken
                       /\ k = Frame(chosen, r, x)
    BY DEF Kept
  <2>2. [k EXCEPT !.index = <<>>] = Frame(chosen, r, <<>>)
    BY <2>1 DEF Frame
  <2> QED BY <2>1, <2>2
<1> HIDE DEF chosen, kept
<1> QED BY <1>2, <1>3, <1>4, <1>5, <1>6, <1>7, Zenon

LEMMA WithSelection ==
  ASSUME FileIs(file), request \in ParquetOptions, request.selection # None, OneOfAKind,
         NEW given, given = Select(request, Scan(file, request))
  PROVE  Answers(given) /\ IndexTyped(given)
<1>1. CASE \E i \in DOMAIN Places : Places[i] \notin DOMAIN Whole
  <2>1. given = Failed
    BY <1>1, SelectIs
  <2>2. ~Possible
    BY <1>1, ChoicesAre DEF Possible
  <2> QED BY <2>1, <2>2, FailedIsTyped DEF Answers
<1>2. CASE (\A i \in DOMAIN Places : Places[i] \in DOMAIN Whole) /\ ~IsInjective(Places)
  <2>1. given = Failed
    BY <1>2, SelectIs
  <2>2. ~Possible
    BY <1>2, ChoicesAre DEF Possible
  <2> QED BY <2>1, <2>2, FailedIsTyped DEF Answers
<1>3. CASE (\A i \in DOMAIN Places : Places[i] \in DOMAIN Whole) /\ IsInjective(Places)
  <2>1. PICK chosen : chosen = Choice
    OBVIOUS
  <2>2. PICK m \in Nat : DOMAIN Places = 1 .. m /\ Len(AskedFor) = m
    BY SelectionIs DEF AskedFor
  <2>3. chosen = [i \in 1 .. m |-> Whole[Places[i]]]
    BY <2>1, <2>2 DEF Choice
  <2>4. chosen \in Seq(FileColumn) /\ Len(chosen) = Len(AskedFor) /\ DOMAIN chosen = DOMAIN Places
    <3>1. ASSUME NEW i \in 1 .. m PROVE Whole[Places[i]] \in FileColumn
      BY <1>3, <2>2, WholeIs
    <3>2. chosen \in [1 .. m -> FileColumn]
      BY <2>3, <3>1
    <3> QED BY <2>2, <3>2
  <2>5. /\ DOMAIN AskedFor = DOMAIN Places
        /\ \A k \in DOMAIN Places : Chosen(k) = {Places[k]}
        /\ \A k \in DOMAIN AskedFor : Chosen(k) # {}
        /\ \A k, l \in DOMAIN AskedFor : k # l => Chosen(k) \cap Chosen(l) = {}
        /\ Indexed <=> \E k \in DOMAIN Places : Whole[Places[k]].of = 0
    BY <1>3, ChoicesAre
  <2>6. \A k \in DOMAIN AskedFor : chosen[k] \in {Whole[p] : p \in Chosen(k)}
    <3>1. ASSUME NEW k \in DOMAIN Places PROVE chosen[k] \in {Whole[p] : p \in Chosen(k)}
      BY <2>2, <2>3, <2>5
    <3> QED BY <2>5, <3>1
  <2>7. Possible <=> (Indexed => IndexFits(request, Taken))
    BY <2>5 DEF Possible
  <2>8. Indexed <=> \E i \in DOMAIN chosen : chosen[i].of = 0
    BY <2>2, <2>3, <2>4, <2>5
  <2>9. given = IF Indexed THEN OffsetRows(request, Kept(chosen))
                ELSE Frame(chosen, IF chosen = <<>> THEN <<>> ELSE Taken, <<>>)
    BY <1>3, <2>1, <2>8, SelectIs
  <2>10. chosen = <<>> <=> AskedFor = <<>>
    <3>1. DOMAIN chosen = DOMAIN AskedFor
      BY <2>4, <2>5
    <3>2. chosen = <<>> <=> m = 0
      BY <2>2, <2>4
    <3>3. AskedFor = <<>> => m = 0
      BY <2>2
    <3>4. m = 0 => AskedFor = <<>>
      BY <2>2, SelectionIs DEF AskedFor
    <3> QED BY <3>2, <3>3, <3>4
  <2>11. CASE Indexed
    <3>1. chosen # <<>>
      BY <2>8, <2>11
    <3>2. given = OffsetRows(request, Frame(chosen, Taken, ZeroBased(request, Taken)))
      BY <2>9, <2>11, <3>1 DEF Kept
    <3>3. Possible <=> IndexFits(request, Taken)
      BY <2>7, <2>11
    <3> QED BY <2>4, <2>6, <2>11, <3>2, <3>3, ShiftedAnswers
  <2>12. CASE ~Indexed
    <3>1. PICK rows : rows = IF chosen = <<>> THEN <<>> ELSE Taken
      OBVIOUS
    <3>2. given = Frame(chosen, rows, <<>>) /\ Possible /\ (AskedFor # <<>> => rows = Taken)
      BY <2>7, <2>9, <2>10, <2>12, <3>1
    <3> QED BY <2>4, <2>6, <2>12, <3>2, PlainAnswers
  <2> QED BY <2>11, <2>12
<1> QED BY <1>1, <1>2, <1>3

\* A read answers its request.
LEMMA SelectAnswers ==
  ASSUME FileIs(file), request \in ParquetOptions,
         NEW given, given = Select(request, Scan(file, request))
  PROVE  Answers(given) /\ IndexTyped(given)
<1>1. CASE ~OneOfAKind
  <2>1. Scan(file, request) = Failed
    BY <1>1, ScanIs
  <2>2. given = Failed
    BY <2>1, FailedStays DEF Select
  <2>3. ~Possible
    BY <1>1 DEF Possible
  <2> QED BY <2>2, <2>3, FailedIsTyped DEF Answers
<1>2. CASE OneOfAKind /\ request.selection = None
  <2>1. given = OffsetRows(request, Frame(Whole, Taken, ZeroBased(request, Taken)))
    BY <1>2, ScanIs DEF Select
  <2> QED BY <1>2, <2>1, WithoutSelection
<1>3. CASE OneOfAKind /\ request.selection # None
  BY <1>3, WithSelection
<1> QED BY <1>1, <1>2, <1>3

LEMMA ParquetIsAsAsked ==
  ASSUME FileIs(file), request \in ParquetOptions, got = Select(request, Scan(file, request))
  PROVE  ColumnsAsAsked
<1>1. Answers(got)
  BY SelectAnswers
<1> QED BY <1>1 DEF Answers, Possible, GivesAsked, OneOfAKind, IndexFits, ColumnsAsAsked

-----------------------------------------------------------------------------
(* FrameFiles: JSON.                                                       *)

JsonField == [name : Names, dtype : {"declared", "override", "", "index", "path"}]

LEMMA SchemaIs ==
  ASSUME NEW dtype \in {"declared", "override"}, NEW s \in Schemas(dtype)
  PROVE  /\ s \in Seq(JsonField) /\ \A i \in DOMAIN s : s[i] \in JsonField
         /\ \A i, j \in DOMAIN s : s[i].name = s[j].name => i = j
<1>1. PICK m \in 0 .. MaxChosen : s \in [1 .. m -> [name : Names, dtype : {dtype}]]
  BY DEF Schemas, SeqOf
<1>2. [name : Names, dtype : {dtype}] \subseteq JsonField
  BY DEF JsonField
<1>3. s \in [1 .. m -> JsonField]
  BY <1>1, <1>2
<1>4. IsInjective(FieldNames(s))
  BY DEF Schemas
<1>5. \A i, j \in DOMAIN s : s[i].name = s[j].name => i = j
  BY <1>4 DEF IsInjective, FieldNames
<1> QED BY <1>3, <1>5

\* The fields a schema or a file gives.
LEMMA GivenIs ==
  ASSUME NEW f, FileIs(f), NEW o, o.schema \in {None} \cup Schemas("declared")
  PROVE  Given(f, o) \in Seq(JsonField)
<1>1. CASE o.schema # None
  BY <1>1, SchemaIs DEF Given
<1>2. CASE o.schema = None /\ f.height = 0
  BY <1>2 DEF Given, Inferred
<1>3. CASE o.schema = None /\ f.height # 0
  <2>1. PICK header \in Seq(Names) : header = f.header
    BY FileFields
  <2>2. PICK n \in Nat : header \in [1 .. n -> Names]
    <3>1. Len(header) \in Nat /\ header \in [1 .. Len(header) -> Names]
      BY LenProperties
    <3> QED BY <3>1
  <2>3. Given(f, o) = [i \in 1 .. n |-> [name |-> header[i], dtype |-> ""]]
    BY <1>3, <2>1, <2>2 DEF Given, Inferred, Field
  <2>4. ASSUME NEW i \in 1 .. n PROVE [name |-> header[i], dtype |-> ""] \in JsonField
    BY <2>2 DEF JsonField
  <2>5. Given(f, o) \in [1 .. n -> JsonField]
    BY <2>3, <2>4
  <2> QED BY <2>5
<1> QED BY <1>1, <1>2, <1>3

LEMMA FieldsNeverFail ==
  ASSUME NEW n \in Nat, NEW s, s = [i \in 1 .. n |-> s[i]], \A i \in 1 .. n : s[i].name \in Names
  PROVE  s # FailedFields
<1>1. PICK failed, c : failed = FailedFields /\ c = Field("failed", "failed") /\ failed = <<c>>
  BY DEF FailedFields
<1>2. c.name = "failed"
  BY <1>1 DEF Field
<1>3. SUFFICES ASSUME s = failed PROVE FALSE
  BY <1>1
<1>4. DOMAIN s = 1 .. n /\ DOMAIN failed = 1 .. 1 /\ failed[1] = c
  BY <1>1
<1>5. 1 \in 1 .. n
  BY <1>3, <1>4
<1>6. s[1].name = "failed"
  BY <1>2, <1>3, <1>4
<1> QED BY <1>5, <1>6, NamesAssumption

\* The fields of a read under its overrides.
AgreesWith(read, fields, overrides) ==
  /\ read # FailedFields
  /\ FieldNames(read) = FieldNames(fields)
  /\ ToSet(overrides) \subseteq ToSet(read)
  /\ \A i \in DOMAIN fields : OverrideOf(overrides, fields[i].name) = {} => read[i] = fields[i]
Fits(fields, overrides) == ToSet(FieldNames(overrides)) \subseteq ToSet(FieldNames(fields))

LEMMA OverriddenIs ==
  ASSUME NEW fields \in Seq(JsonField), NEW overrides \in Schemas("override")
  PROVE  /\ Fits(fields, overrides) => AgreesWith(Overridden(fields, overrides), fields, overrides)
         /\ ~Fits(fields, overrides) => Overridden(fields, overrides) = FailedFields
         /\ overrides = <<>> => Fits(fields, overrides) /\ Overridden(fields, overrides) = fields
<1>1. PICK n \in Nat : n = Len(fields) /\ fields \in [1 .. n -> JsonField]
  <2>1. Len(fields) \in Nat /\ fields \in [1 .. Len(fields) -> JsonField]
    BY LenProperties
  <2> QED BY <2>1
<1>2. ~Fits(fields, overrides) => Overridden(fields, overrides) = FailedFields
  BY DEF Fits, Overridden
<1>3. PICK read : read = OverriddenLoose(fields, overrides)
  OBVIOUS
<1>4. /\ read = [i \in 1 .. n |-> read[i]] /\ DOMAIN read = 1 .. n
      /\ \A i \in 1 .. n : read[i] = IF OverrideOf(overrides, fields[i].name) = {} THEN fields[i]
                                     ELSE overrides[CHOOSE k \in OverrideOf(overrides, fields[i].name) : TRUE]
  BY <1>1, <1>3 DEF OverriddenLoose
<1>5. ASSUME NEW i \in 1 .. n
      PROVE  /\ read[i].name = fields[i].name /\ fields[i].name \in Names
             /\ OverrideOf(overrides, fields[i].name) = {} => read[i] = fields[i]
             /\ \A j \in DOMAIN overrides : overrides[j].name = fields[i].name => read[i] = overrides[j]
  <2>1. PICK named : named = OverrideOf(overrides, fields[i].name)
    OBVIOUS
  <2>2. named = {j \in DOMAIN overrides : overrides[j].name = fields[i].name}
    BY <2>1 DEF OverrideOf
  <2>3. fields[i].name \in Names
    BY <1>1 DEF JsonField
  <2>4. CASE named = {}
    <3>1. read[i] = fields[i]
      BY <1>4, <2>1, <2>4
    <3>2. \A j \in DOMAIN overrides : overrides[j].name # fields[i].name
      BY <2>2, <2>4
    <3> QED BY <2>3, <3>1, <3>2
  <2>5. CASE named # {}
    <3>1. PICK k : k = CHOOSE j \in named : TRUE
      OBVIOUS
    <3>2. k \in named
      BY <2>5, <3>1
    <3>3. read[i] = overrides[k]
      BY <1>4, <2>1, <2>5, <3>1
    <3>4. k \in DOMAIN overrides /\ overrides[k].name = fields[i].name
      BY <2>2, <3>2
    <3>5. \A j \in DOMAIN overrides : overrides[j].name = fields[i].name => j = k
      BY <3>4, SchemaIs
    <3> QED BY <2>1, <2>3, <2>5, <3>3, <3>4, <3>5
  <2> QED BY <2>4, <2>5
<1>6. Fits(fields, overrides) => Overridden(fields, overrides) = read
  BY <1>3 DEF Fits, Overridden
<1>7. ASSUME Fits(fields, overrides) PROVE AgreesWith(read, fields, overrides)
  <2>1. FieldNames(read) = FieldNames(fields)
    <3>1. FieldNames(read) = [i \in 1 .. n |-> read[i].name]
      BY <1>4 DEF FieldNames
    <3>2. FieldNames(fields) = [i \in 1 .. n |-> fields[i].name]
      BY <1>1 DEF FieldNames
    <3> QED BY <1>5, <3>1, <3>2
  <2>2. read # FailedFields
    <3>1. \A i \in 1 .. n : read[i].name \in Names
      BY <1>5
    <3> QED BY <1>4, <3>1, FieldsNeverFail
  <2>3. ASSUME NEW j \in DOMAIN overrides PROVE overrides[j] \in ToSet(read)
    <3>1. overrides[j].name \in ToSet(FieldNames(fields))
      <4>1. overrides[j].name \in ToSet(FieldNames(overrides))
        BY DEF FieldNames, ToSet
      <4> QED BY <1>7, <4>1 DEF Fits
    <3>2. PICK i \in 1 .. n : fields[i].name = overrides[j].name
      BY <1>1, <3>1 DEF FieldNames, ToSet
    <3>3. read[i] = overrides[j]
      BY <1>5, <3>2
    <3> QED BY <1>4, <3>3 DEF ToSet
  <2>4. ToSet(overrides) \subseteq ToSet(read)
    <3>1. \A c \in ToSet(overrides) : \E j \in DOMAIN overrides : c = overrides[j]
      BY DEF ToSet
    <3> QED BY <2>3, <3>1
  <2>5. \A i \in DOMAIN fields : OverrideOf(overrides, fields[i].name) = {} => read[i] = fields[i]
    BY <1>1, <1>5
  <2> QED BY <2>1, <2>2, <2>4, <2>5 DEF AgreesWith
<1>8. ASSUME overrides = <<>> PROVE Fits(fields, overrides) /\ read = fields
  <2>1. DOMAIN overrides = {}
    BY <1>8
  <2>2. Fits(fields, overrides)
    BY <2>1 DEF Fits, FieldNames, ToSet
  <2>3. \A i \in 1 .. n : read[i] = fields[i]
    BY <1>5, <2>1 DEF OverrideOf
  <2>4. fields = [i \in 1 .. n |-> fields[i]]
    BY <1>1
  <2> QED BY <1>4, <2>2, <2>3, <2>4
<1> QED BY <1>2, <1>6, <1>7, <1>8

LEMMA JsonIsAsAsked ==
  ASSUME FileIs(file), request \in JsonOptions, got = JsonRead(file, request)
  PROVE  OverridesAsAsked
<1>1. PICK fields, overrides : fields = GivenFields /\ overrides = request.overrides
  OBVIOUS
<1>2. overrides \in Schemas("override") /\ request.schema \in {None} \cup Schemas("declared")
  BY <1>1 DEF JsonOptions
<1>3. fields \in Seq(JsonField)
  BY <1>1, <1>2, GivenIs DEF GivenFields
<1>4. got = IF request.infer = 0 THEN FailedFields
            ELSE IF overrides = <<>> THEN fields ELSE Overridden(fields, overrides)
  BY <1>1 DEF JsonRead, GivenFields
<1>5. /\ Fits(fields, overrides) => AgreesWith(Overridden(fields, overrides), fields, overrides)
      /\ ~Fits(fields, overrides) => Overridden(fields, overrides) = FailedFields
      /\ overrides = <<>> => Fits(fields, overrides) /\ Overridden(fields, overrides) = fields
  BY <1>2, <1>3, OverriddenIs
<1>6. FieldsPossible <=> request.infer # 0 /\ Fits(fields, overrides)
  BY <1>1 DEF FieldsPossible, Fits
<1>7. FieldsPossible => AgreesWith(got, fields, overrides)
  BY <1>4, <1>5, <1>6
<1>8. ~FieldsPossible => got = FailedFields
  BY <1>4, <1>5, <1>6
<1> QED BY <1>1, <1>7, <1>8 DEF AgreesWith, AreOverridden, OverridesAsAsked

-----------------------------------------------------------------------------
(* FrameFiles: NDJSON.                                                     *)

\* The first of the rows.
LEMMA CountOfFirst ==
  ASSUME NEW h \in Nat, NEW n \in Nat, n <= h
  PROVE  SubSeq(Count(h), 1, n) = Count(n)
<1>1. PICK u, t : u = Count(h) /\ t = SubSeq(u, 1, n)
  OBVIOUS
<1>2. u \in Seq(Nat) /\ Len(u) = h /\ \A i \in 1 .. h : u[i] = i
  BY <1>1, CountIs
<1>3. 1 \in 1 .. Len(u) + 1 /\ n \in 1 - 1 .. Len(u)
  BY <1>2
<1>4. t \in Seq(Nat) /\ Len(t) = n - 1 + 1 /\ \A i \in 1 .. n - 1 + 1 : t[i] = u[1 + i - 1]
  BY <1>1, <1>2, <1>3, SubSeqProperties
<1>5. ASSUME NEW i \in 1 .. n PROVE t[i] = i
  <2>1. 1 + i - 1 = i /\ i \in 1 .. n - 1 + 1 /\ i \in 1 .. h
    OBVIOUS
  <2> QED BY <1>2, <1>4, <2>1
<1>6. t = [i \in 1 .. n |-> t[i]]
  BY <1>4, LenProperties
<1> QED BY <1>1, <1>5, <1>6 DEF Count

TakenOf(f, o) == UpTo(o.n, FlattenSeq(f.groups))

LEMMA TakenCounts ==
  ASSUME NEW f, FileIs(f), NEW o \in NdjsonOptions
  PROVE  \E t \in Nat : TakenOf(f, o) = Count(t) /\ Len(TakenOf(f, o)) = t
<1>1. PICK h, n : h = f.height /\ n = o.n
  OBVIOUS
<1>2. h \in Nat /\ FlattenSeq(f.groups) = Count(h) /\ (n # None => n \in Nat)
  BY <1>1, FileFields, FilesAssumption DEF NdjsonOptions
<1>3. Len(Count(h)) = h
  BY <1>2, CountIs
<1>4. CASE n = None \/ n >= h
  <2>1. TakenOf(f, o) = Count(h)
    BY <1>1, <1>2, <1>3, <1>4 DEF TakenOf, UpTo
  <2> QED BY <1>2, <1>3, <2>1
<1>5. CASE ~(n = None \/ n >= h)
  <2>1. n \in Nat /\ n <= h
    BY <1>2, <1>5
  <2>2. TakenOf(f, o) = SubSeq(Count(h), 1, n)
    BY <1>1, <1>2, <1>3, <1>5 DEF TakenOf, UpTo
  <2>3. SubSeq(Count(h), 1, n) = Count(n) /\ Len(Count(n)) = n
    BY <1>2, <2>1, CountOfFirst, CountIs
  <2> QED BY <2>1, <2>2, <2>3
<1> QED BY <1>4, <1>5

LEMMA NumbersGoOn ==
  ASSUME NEW from \in Nat, NEW m \in Nat, NEW rows \in Seq(Nat)
  PROVE  Numbers(from, Count(m)) \o Numbers(from + m, rows) = Numbers(from, Count(m + Len(rows)))
<1>0. PICK k \in Nat : k = Len(rows)
  OBVIOUS
<1>1. PICK s, t, u : /\ s = Numbers(from, Count(m)) /\ t = Numbers(from + m, rows)
                     /\ u = Numbers(from, Count(m + k))
  OBVIOUS
<1>2. s = [i \in 1 .. m |-> from + i - 1]
  BY <1>1, CountIs DEF Numbers
<1>3. t = [i \in 1 .. k |-> (from + m) + i - 1]
  BY <1>0, <1>1 DEF Numbers
<1>4. u = [i \in 1 .. m + k |-> from + i - 1]
  <2>1. m + k \in Nat
    OBVIOUS
  <2>2. DOMAIN Count(m + k) = 1 .. m + k
    BY <2>1, CountIs
  <2> QED BY <1>1, <2>2 DEF Numbers
<1>5. s \in Seq(Int) /\ Len(s) = m
  BY <1>2
<1>6. t \in Seq(Int) /\ Len(t) = k
  BY <1>3
<1>7. PICK st : st = s \o t
  OBVIOUS
<1>8. /\ st \in Seq(Int) /\ Len(st) = m + k
      /\ \A i \in 1 .. m + k : st[i] = IF i <= m THEN s[i] ELSE t[i - m]
  <2>1. /\ s \o t \in Seq(Int) /\ Len(s \o t) = Len(s) + Len(t)
        /\ \A i \in 1 .. Len(s) + Len(t) : (s \o t)[i] = IF i <= Len(s) THEN s[i] ELSE t[i - Len(s)]
    BY <1>5, <1>6, ConcatProperties
  <2> QED BY <1>5, <1>6, <1>7, <2>1
<1>9. ASSUME NEW i \in 1 .. m + k PROVE st[i] = from + i - 1
  <2>1. CASE i <= m
    <3>1. i \in 1 .. m
      BY <2>1
    <3> QED BY <1>2, <1>8, <2>1, <3>1
  <2>2. CASE ~(i <= m)
    <3>1. i - m \in 1 .. k
      BY <2>2
    <3>2. t[i - m] = (from + m) + (i - m) - 1
      BY <1>3, <3>1
    <3>3. (from + m) + (i - m) - 1 = from + i - 1
      OBVIOUS
    <3> QED BY <1>8, <2>2, <3>2, <3>3
  <2> QED BY <2>1, <2>2
<1>10. st = [i \in 1 .. m + k |-> st[i]]
  BY <1>8, LenProperties
<1> QED BY <1>0, <1>1, <1>4, <1>7, <1>9, <1>10

LEMMA FieldsAreNamed ==
  ASSUME NEW fields \in Seq(JsonField), NEW i \in DOMAIN fields
  PROVE  fields[i].name \in Names
<1>1. fields[i] \in JsonField
  OBVIOUS
<1> QED BY <1>1 DEF JsonField

LEMMA OverriddenFields ==
  ASSUME NEW fields \in Seq(JsonField), NEW overrides \in Schemas("override"), Fits(fields, overrides)
  PROVE  Overridden(fields, overrides) \in Seq(JsonField)
<1>1. PICK n \in Nat : n = Len(fields) /\ fields \in [1 .. n -> JsonField]
  <2>1. Len(fields) \in Nat /\ fields \in [1 .. Len(fields) -> JsonField]
    BY LenProperties
  <2> QED BY <2>1
<1>2. PICK read : read = Overridden(fields, overrides)
  OBVIOUS
<1>3. /\ read = [i \in 1 .. n |-> read[i]]
      /\ \A i \in 1 .. n : read[i] = IF OverrideOf(overrides, fields[i].name) = {} THEN fields[i]
                                     ELSE overrides[CHOOSE k \in OverrideOf(overrides, fields[i].name) : TRUE]
  BY <1>1, <1>2 DEF Fits, Overridden, OverriddenLoose
<1>4. ASSUME NEW i \in 1 .. n PROVE read[i] \in JsonField
  <2>1. PICK named : named = OverrideOf(overrides, fields[i].name)
    OBVIOUS
  <2>2. CASE named = {}
    BY <1>1, <1>3, <2>1, <2>2
  <2>3. CASE named # {}
    <3>1. PICK k : k = CHOOSE j \in named : TRUE
      OBVIOUS
    <3>2. k \in DOMAIN overrides
      BY <2>1, <2>3, <3>1 DEF OverrideOf
    <3>3. read[i] = overrides[k]
      BY <1>3, <2>1, <2>3, <3>1
    <3> QED BY <3>2, <3>3, SchemaIs
  <2> QED BY <2>2, <2>3
<1>5. read \in [1 .. n -> JsonField]
  BY <1>3, <1>4
<1> QED BY <1>2, <1>5

\* The columns of a read: three sequences of fields after each other.
LEMMA JoinedIs ==
  ASSUME NEW a \in Seq(JsonField), NEW b \in Seq(JsonField), NEW c \in Seq(JsonField)
  PROVE  /\ a \o b \o c \in Seq(JsonField)
         /\ Len(a \o b \o c) = Len(a) + Len(b) + Len(c)
         /\ \A i \in 1 .. Len(a) + Len(b) + Len(c) :
              (a \o b \o c)[i] = IF i <= Len(a) THEN a[i]
                                 ELSE IF i <= Len(a) + Len(b) THEN b[i - Len(a)]
                                 ELSE c[i - (Len(a) + Len(b))]
         /\ SubSeq(a \o b \o c, Len(a) + 1, Len(a) + Len(b)) = b
<1>1. PICK ab, abc, l, m, n : /\ ab = a \o b /\ abc = ab \o c
                              /\ l = Len(a) /\ m = Len(b) /\ n = Len(c)
  OBVIOUS
<1>2. l \in Nat /\ m \in Nat /\ n \in Nat
  BY <1>1
<1>3. /\ ab \in Seq(JsonField) /\ Len(ab) = l + m
      /\ \A i \in 1 .. l + m : ab[i] = IF i <= l THEN a[i] ELSE b[i - l]
  BY <1>1, ConcatProperties
<1>4. /\ abc \in Seq(JsonField) /\ Len(abc) = l + m + n
      /\ \A i \in 1 .. l + m + n : abc[i] = IF i <= l + m THEN ab[i] ELSE c[i - (l + m)]
  <2>1. /\ ab \o c \in Seq(JsonField) /\ Len(ab \o c) = Len(ab) + Len(c)
        /\ \A i \in 1 .. Len(ab) + Len(c) :
             (ab \o c)[i] = IF i <= Len(ab) THEN ab[i] ELSE c[i - Len(ab)]
    BY <1>3, ConcatProperties
  <2> QED BY <1>1, <1>3, <2>1
<1>5. ASSUME NEW i \in 1 .. l + m + n
      PROVE  abc[i] = IF i <= l THEN a[i] ELSE IF i <= l + m THEN b[i - l] ELSE c[i - (l + m)]
  <2>1. i <= l => i <= l + m
    BY <1>2
  <2>2. i <= l + m => i \in 1 .. l + m
    BY <1>2
  <2> QED BY <1>3, <1>4, <2>1, <2>2
<1>6. SubSeq(abc, l + 1, l + m) = b
  <2>1. PICK x, y, t : x = l + 1 /\ y = l + m /\ t = SubSeq(abc, x, y)
    OBVIOUS
  <2>2. x \in 1 .. Len(abc) + 1 /\ y \in x - 1 .. Len(abc) /\ y - x + 1 = m
    <3>1. PICK z : z = Len(abc)
      OBVIOUS
    <3>2. z = l + m + n
      BY <1>4, <3>1
    <3>3. x \in 1 .. z + 1 /\ y \in x - 1 .. z /\ y - x + 1 = m
      BY <1>2, <2>1, <3>2
    <3> QED BY <3>1, <3>3
  <2>3. t \in Seq(JsonField) /\ Len(t) = m /\ \A i \in 1 .. m : t[i] = abc[x + i - 1]
    <3>1. abc \in Seq(JsonField)
      BY <1>4
    <3>2. /\ SubSeq(abc, x, y) \in Seq(JsonField)
          /\ Len(SubSeq(abc, x, y)) = IF x <= y THEN y - x + 1 ELSE 0
          /\ \A i \in 1 .. y - x + 1 : SubSeq(abc, x, y)[i] = abc[x + i - 1]
      BY <2>2, <3>1, SubSeqProperties
    <3>3. (IF x <= y THEN y - x + 1 ELSE 0) = m
      BY <1>2, <2>1
    <3> QED BY <2>1, <2>2, <3>2, <3>3
  <2>4. ASSUME NEW i \in 1 .. m PROVE t[i] = b[i]
    <3>1. PICK j : j = x + i - 1
      OBVIOUS
    <3>2. j \in 1 .. l + m + n /\ ~(j <= l) /\ j <= l + m /\ j - l = i
      <4>1. j = l + i /\ j - l = i
        BY <1>2, <2>1, <3>1
      <4>2. i >= 1 /\ i <= m
        OBVIOUS
      <4> QED BY <1>2, <4>1, <4>2
    <3>3. abc[j] = b[j - l]
      BY <1>5, <3>2
    <3>4. t[i] = abc[j]
      BY <2>3, <3>1
    <3> QED BY <3>2, <3>3, <3>4
  <2>5. t = [i \in 1 .. m |-> t[i]] /\ b = [i \in 1 .. m |-> b[i]]
    BY <1>1, <2>3, LenProperties
  <2> QED BY <2>1, <2>4, <2>5
<1> QED BY <1>1, <1>4, <1>5, <1>6

LEMMA EndsAreFields ==
  ASSUME NEW o \in NdjsonOptions
  PROVE  IndexField(o) \in Seq(JsonField) /\ PathField(o) \in Seq(JsonField)
<1>1. ASSUME o.index # None PROVE Field(o.index.name, "index") \in JsonField
  BY <1>1 DEF NdjsonOptions, RowIndexes, Field, JsonField
<1>2. ASSUME o.path # None PROVE Field(o.path, "path") \in JsonField
  BY <1>2 DEF NdjsonOptions, Field, JsonField
<1> QED BY <1>1, <1>2 DEF IndexField, PathField

\* Columns of the same names have their names in the same places.
LEMMA NamesOfJoined ==
  ASSUME NEW a \in Seq(JsonField), NEW b \in Seq(JsonField), NEW c \in Seq(JsonField),
         NEW d \in Seq(JsonField), FieldNames(b) = FieldNames(d)
  PROVE  FieldNames(a \o b \o c) = FieldNames(a \o d \o c)
<1>1. Len(b) = Len(d) /\ \A i \in 1 .. Len(b) : b[i].name = d[i].name
  <2>1. DOMAIN FieldNames(b) = 1 .. Len(b) /\ DOMAIN FieldNames(d) = 1 .. Len(d)
    BY DEF FieldNames
  <2>2. Len(b) \in Nat /\ Len(d) \in Nat /\ 1 .. Len(b) = 1 .. Len(d)
    BY <2>1
  <2>3. Len(b) = Len(d)
    BY <2>2
  <2>4. ASSUME NEW i \in 1 .. Len(b) PROVE b[i].name = d[i].name
    <3>1. FieldNames(b)[i] = b[i].name /\ FieldNames(d)[i] = d[i].name
      BY <2>3 DEF FieldNames
    <3> QED BY <3>1
  <2> QED BY <2>3, <2>4
<1>2. PICK x, y, l, m, n : /\ x = a \o b \o c /\ y = a \o d \o c
                           /\ l = Len(a) /\ m = Len(b) /\ n = Len(c)
  OBVIOUS
<1>3. l \in Nat /\ m \in Nat /\ n \in Nat /\ m = Len(d)
  BY <1>1, <1>2
<1>4. /\ x \in Seq(JsonField) /\ Len(x) = l + m + n
      /\ \A i \in 1 .. l + m + n :
           x[i] = IF i <= l THEN a[i] ELSE IF i <= l + m THEN b[i - l] ELSE c[i - (l + m)]
  BY <1>2, JoinedIs
<1>5. /\ y \in Seq(JsonField) /\ Len(y) = l + m + n
      /\ \A i \in 1 .. l + m + n :
           y[i] = IF i <= l THEN a[i] ELSE IF i <= l + m THEN d[i - l] ELSE c[i - (l + m)]
  <2>1. /\ a \o d \o c \in Seq(JsonField) /\ Len(a \o d \o c) = Len(a) + Len(d) + Len(c)
        /\ \A i \in 1 .. Len(a) + Len(d) + Len(c) :
             (a \o d \o c)[i] = IF i <= Len(a) THEN a[i]
                                ELSE IF i <= Len(a) + Len(d) THEN d[i - Len(a)]
                                ELSE c[i - (Len(a) + Len(d))]
    BY JoinedIs
  <2> QED BY <1>2, <1>3, <2>1
<1>6. ASSUME NEW i \in 1 .. l + m + n PROVE x[i].name = y[i].name
  <2>1. CASE i <= l
    BY <1>4, <1>5, <2>1
  <2>2. CASE ~(i <= l) /\ i <= l + m
    <3>1. i - l \in 1 .. m
      BY <1>3, <2>2
    <3> QED BY <1>1, <1>2, <1>4, <1>5, <2>2, <3>1
  <2>3. CASE ~(i <= l) /\ ~(i <= l + m)
    BY <1>4, <1>5, <2>3
  <2> QED BY <2>1, <2>2, <2>3
<1>7. DOMAIN x = 1 .. l + m + n /\ DOMAIN y = 1 .. l + m + n
  BY <1>4, <1>5
<1> QED BY <1>2, <1>6, <1>7 DEF FieldNames

\* A read that has come to the m-th row, or that has failed.
NdjsonFailed == [frame |-> Failed, next |-> 0]
NumbersTo(o, m) == IF o.index = None THEN <<>> ELSE Numbers(o.index.offset, Count(m))
ReadTo(o, columns, m) ==
  [frame |-> Frame(columns, Count(m), NumbersTo(o, m)),
   next |-> IF o.index = None THEN 0 ELSE o.index.offset + m]
NumbersFit(o, m) == o.index # None => o.index.offset + m <= IdxMax
Reading(f, o, read) ==
  \/ /\ read = NdjsonFailed
     /\ NdjsonScan(f, o) = NdjsonFailed \/ ~NumbersFit(o, Len(TakenOf(f, o)))
  \/ \E columns : \E m \in 0 .. Len(TakenOf(f, o)) :
       /\ NdjsonScan(f, o) = ReadTo(o, columns, 0) /\ read = ReadTo(o, columns, m)
       /\ \A i \in DOMAIN columns : columns[i].name \in Names
       /\ NumbersFit(o, m)

LEMMA OffsetIsNat ==
  ASSUME NEW o \in NdjsonOptions, o.index # None
  PROVE  o.index.offset \in Nat
<1>1. o.index \in RowIndexes \cup [name : Names, offset : {IdxMax + 1}]
  BY DEF NdjsonOptions
<1>2. CASE o.index \in RowIndexes
  BY <1>2, NamesAssumption DEF RowIndexes
<1>3. CASE o.index \in [name : Names, offset : {IdxMax + 1}]
  BY <1>3, NamesAssumption
<1> QED BY <1>1, <1>2, <1>3

\* What the scan has of the options: the columns as asked, or a refusal.
ScanTaken(f, o) ==
  /\ o.infer # 0 /\ Fits(Given(f, o), o.overrides) /\ NumbersFit(o, 0)
  /\ IsInjective(FieldNames(IndexField(o) \o Given(f, o) \o PathField(o)))

LEMMA NdjsonScanIs ==
  ASSUME NEW f, FileIs(f), NEW o \in NdjsonOptions
  PROVE  /\ ~ScanTaken(f, o) => NdjsonScan(f, o) = NdjsonFailed
         /\ ScanTaken(f, o) =>
              \E read \in Seq(JsonField) :
                /\ AgreesWith(read, Given(f, o), o.overrides)
                /\ NdjsonScan(f, o) = ReadTo(o, IndexField(o) \o read \o PathField(o), 0)
<1>0. PICK fields, overrides, a, c : /\ fields = Given(f, o) /\ overrides = o.overrides
                                     /\ a = IndexField(o) /\ c = PathField(o)
  OBVIOUS
<1>1. PICK read : read = IF o.schema = None /\ overrides = <<>> THEN fields
                         ELSE Overridden(fields, overrides)
  OBVIOUS
<1>2. overrides \in Schemas("override") /\ o.schema \in {None} \cup Schemas("declared")
  BY <1>0, <1>1 DEF NdjsonOptions
<1>3. fields \in Seq(JsonField)
  BY <1>0, <1>1, <1>2, GivenIs
<1>4. /\ Fits(fields, overrides) => AgreesWith(Overridden(fields, overrides), fields, overrides)
      /\ ~Fits(fields, overrides) => Overridden(fields, overrides) = FailedFields
      /\ overrides = <<>> => Fits(fields, overrides) /\ Overridden(fields, overrides) = fields
  BY <1>2, <1>3, OverriddenIs
<1>5. read = Overridden(fields, overrides)
  BY <1>0, <1>1, <1>4
<1>6. a \in Seq(JsonField) /\ c \in Seq(JsonField)
  BY <1>0, <1>1, EndsAreFields
<1>7. NumbersFit(o, 0) <=> (o.index # None => o.index.offset <= IdxMax)
  BY OffsetIsNat DEF NumbersFit
<1> DEFINE taken == /\ read # FailedFields /\ o.infer # 0
                    /\ o.index # None => o.index.offset <= IdxMax
                    /\ IsInjective(FieldNames(a \o read \o c))
<1>8. NdjsonScan(f, o) =
        IF ~taken THEN [frame |-> Failed, next |-> 0]
        ELSE [frame |-> Frame(a \o read \o c, <<>>, <<>>),
              next |-> IF o.index = None THEN 0 ELSE o.index.offset]
  BY <1>0, <1>1 DEF NdjsonScan
<1>9. CASE ~Fits(fields, overrides)
  <2>1. ~taken
    BY <1>4, <1>5, <1>9
  <2> HIDE DEF taken
  <2>2. NdjsonScan(f, o) = NdjsonFailed
    BY <1>8, <2>1 DEF NdjsonFailed
  <2> QED BY <1>0, <1>1, <1>9, <2>2 DEF ScanTaken
<1>10. CASE Fits(fields, overrides)
  <2>1. AgreesWith(read, fields, overrides)
    BY <1>4, <1>5, <1>10
  <2>2. FieldNames(read) = FieldNames(fields) /\ read # FailedFields
    BY <2>1 DEF AgreesWith
  <2>3. read \in Seq(JsonField)
    BY <1>2, <1>3, <1>5, <1>10, OverriddenFields
  <2>4. FieldNames(a \o read \o c) = FieldNames(a \o fields \o c)
    BY <1>3, <1>6, <2>2, <2>3, NamesOfJoined
  <2>5. taken <=> ScanTaken(f, o)
    BY <1>0, <1>1, <1>7, <1>10, <2>2, <2>4 DEF ScanTaken
  <2> HIDE DEF taken
  <2>6. CASE ~taken
    <3>1. NdjsonScan(f, o) = NdjsonFailed
      BY <1>8, <2>6 DEF NdjsonFailed
    <3> QED BY <2>5, <2>6, <3>1
  <2>7. CASE taken
    <3>1. Count(0) = <<>>
      BY CountIs
    <3>2. NumbersTo(o, 0) = <<>>
      BY <3>1 DEF NumbersTo, Numbers
    <3>3. (IF o.index = None THEN 0 ELSE o.index.offset) = IF o.index = None THEN 0 ELSE o.index.offset + 0
      BY OffsetIsNat
    <3>4. NdjsonScan(f, o) = ReadTo(o, a \o read \o c, 0)
      BY <1>8, <2>7, <3>1, <3>2, <3>3 DEF ReadTo
    <3> QED BY <1>0, <1>1, <2>1, <2>3, <2>5, <2>7, <3>4
  <2> QED BY <2>6, <2>7
<1> QED BY <1>9, <1>10

LEMMA ScanIsReading ==
  ASSUME NEW f, FileIs(f), NEW o \in NdjsonOptions
  PROVE  Reading(f, o, NdjsonScan(f, o))
<1>1. CASE ~ScanTaken(f, o)
  BY <1>1, NdjsonScanIs DEF Reading
<1>2. CASE ScanTaken(f, o)
  <2>1. PICK read \in Seq(JsonField) :
          NdjsonScan(f, o) = ReadTo(o, IndexField(o) \o read \o PathField(o), 0)
    BY <1>2, NdjsonScanIs
  <2>2. PICK columns : columns = IndexField(o) \o read \o PathField(o)
    OBVIOUS
  <2>3. columns \in Seq(JsonField)
    BY <2>2, EndsAreFields, JoinedIs
  <2>4. \A i \in DOMAIN columns : columns[i].name \in Names
    BY <2>3, FieldsAreNamed
  <2>5. 0 \in 0 .. Len(TakenOf(f, o))
    BY TakenCounts
  <2>6. NumbersFit(o, 0)
    BY <1>2 DEF ScanTaken
  <2> QED BY <2>1, <2>2, <2>4, <2>5, <2>6 DEF Reading
<1> QED BY <1>1, <1>2

\* A morsel goes on from where the read has come.
LEMMA MorselIsReading ==
  ASSUME NEW f, FileIs(f), NEW o \in NdjsonOptions, NEW read, Reading(f, o, read),
         read.frame # Failed, NEW k \in 1 .. Len(TakenOf(f, o)) - Len(read.frame.rows)
  PROVE  Reading(f, o, NumberMorsel(o, read,
           SubSeq(TakenOf(f, o), Len(read.frame.rows) + 1, Len(read.frame.rows) + k)))
<1>1. PICK t \in Nat : TakenOf(f, o) = Count(t) /\ Len(TakenOf(f, o)) = t
  BY TakenCounts
<1>2. read # NdjsonFailed
  BY DEF NdjsonFailed
<1>3. PICK columns : \E m \in 0 .. t :
        /\ NdjsonScan(f, o) = ReadTo(o, columns, 0) /\ read = ReadTo(o, columns, m)
        /\ \A i \in DOMAIN columns : columns[i].name \in Names
        /\ NumbersFit(o, m)
  BY <1>1, <1>2 DEF Reading
<1>4. PICK m \in 0 .. t :
        /\ NdjsonScan(f, o) = ReadTo(o, columns, 0) /\ read = ReadTo(o, columns, m)
        /\ \A i \in DOMAIN columns : columns[i].name \in Names
        /\ NumbersFit(o, m)
  BY <1>3
<1>5. PICK seen, next : /\ seen = Frame(columns, Count(m), NumbersTo(o, m))
                         /\ next = (IF o.index = None THEN 0 ELSE o.index.offset + m)
  OBVIOUS
<1>6. read = [frame |-> seen, next |-> next]
  BY <1>4, <1>5 DEF ReadTo
<1>7. read.frame = seen /\ read.next = next
  BY <1>6
<1>8. seen.columns = columns /\ seen.rows = Count(m) /\ seen.index = NumbersTo(o, m)
  BY <1>5, FrameFields
<1>9. m \in Nat /\ Len(Count(m)) = m
  BY CountIs
<1>10. Len(read.frame.rows) = m
  BY <1>7, <1>8, <1>9
<1>11. k \in 1 .. t - m
  BY <1>1, <1>10
<1>12. PICK to : to = m + k
  OBVIOUS
<1>13. to \in 0 .. t /\ m < to /\ to <= t /\ to \in Nat /\ k \in Nat /\ to - m = k
  BY <1>9, <1>11, <1>12
<1>14. PICK rows : rows = SubSeq(Count(t), m + 1, to)
  OBVIOUS
<1>15. Count(m) \o rows = Count(to) /\ Len(rows) = k
  <2>1. /\ Count(m) \o SubSeq(Count(t), m + 1, to) = Count(to)
        /\ Len(SubSeq(Count(t), m + 1, to)) = to - m
    BY <1>9, <1>13, CountGoesOn, Zenon
  <2> QED BY <1>13, <1>14, <2>1
<1>16. rows \in Seq(Nat)
  <2>1. PICK u, x : u = Count(t) /\ x = m + 1
    OBVIOUS
  <2>2. u \in Seq(Nat) /\ Len(u) = t /\ DOMAIN u = 1 .. t
    BY <2>1, CountIs
  <2>3. x \in Int /\ to \in Int
    BY <1>9, <1>13, <2>1
  <2>4. \A i \in x .. to : u[i] \in Nat
    <3>1. \A i \in x .. to : i \in 1 .. t
      BY <1>9, <1>13, <2>1
    <3> QED BY <2>2, <3>1
  <2>5. SubSeq(u, x, to) \in Seq(Nat)
    BY <2>3, <2>4, SubSeqProperties
  <2> QED BY <1>14, <2>1, <2>5
<1>17. PICK new : new = NumberMorsel(o, read, rows)
  OBVIOUS
<1>18. Reading(f, o, new)
  <2>1. CASE o.index = None
    <3>1. NumbersTo(o, m) = NumbersTo(o, to) /\ next = 0
      BY <1>5, <2>1 DEF NumbersTo
    <3>2. new = [read EXCEPT !.frame.rows = @ \o rows]
      BY <1>17, <2>1 DEF NumberMorsel
    <3>3. new = [frame |-> [seen EXCEPT !.rows = Count(to)], next |-> next]
      BY <1>6, <1>7, <1>8, <1>15, <3>2
    <3>4. [seen EXCEPT !.rows = Count(to)] = Frame(columns, Count(to), NumbersTo(o, to))
      BY <1>5, <3>1 DEF Frame
    <3>5. new = ReadTo(o, columns, to)
      BY <2>1, <3>1, <3>3, <3>4 DEF ReadTo
    <3>6. NumbersFit(o, to)
      BY <2>1 DEF NumbersFit
    <3> QED BY <1>1, <1>4, <1>13, <3>5, <3>6 DEF Reading
  <2>2. CASE o.index # None
    <3>1. PICK offset : offset = o.index.offset
      OBVIOUS
    <3>2. offset \in Nat /\ next = offset + m /\ next + k = offset + to
      BY <1>5, <1>9, <1>12, <1>13, <2>2, <3>1, OffsetIsNat
    <3>3. CASE next + Len(rows) > IdxMax
      <4>1. new = NdjsonFailed
        BY <1>7, <1>17, <2>2, <3>3 DEF NumberMorsel, NdjsonFailed
      <4>2. ~(offset + t <= IdxMax)
        BY <1>13, <1>15, <3>2, <3>3, NamesAssumption
      <4>3. ~NumbersFit(o, Len(TakenOf(f, o)))
        BY <1>1, <2>2, <3>1, <4>2 DEF NumbersFit
      <4> QED BY <4>1, <4>3 DEF Reading
    <3>4. CASE ~(next + Len(rows) > IdxMax)
      <4>1. Numbers(offset, Count(m)) \o Numbers(offset + m, rows) = Numbers(offset, Count(m + k))
        <5>1. /\ offset \in Nat /\ m \in Nat /\ k \in Nat
              /\ rows \in Seq(Nat) /\ Len(rows) = k
          BY <1>9, <1>13, <1>15, <1>16, <3>2
        <5>2. Numbers(offset, Count(m)) \o Numbers(offset + m, rows) = Numbers(offset, Count(m + Len(rows)))
          BY <5>1, NumbersGoOn, Zenon
        <5> QED BY <5>1, <5>2
      <4>2. NumbersTo(o, m) \o Numbers(next, rows) = NumbersTo(o, to)
        BY <1>12, <2>2, <3>1, <3>2, <4>1 DEF NumbersTo
      <4>3. new = [frame |-> [seen EXCEPT !.rows = @ \o rows, !.index = @ \o Numbers(next, rows)],
                   next |-> next + Len(rows)]
        BY <1>7, <1>17, <2>2, <3>4 DEF NumberMorsel
      <4>4. [seen EXCEPT !.rows = @ \o rows, !.index = @ \o Numbers(next, rows)] =
              [seen EXCEPT !.rows = Count(to), !.index = NumbersTo(o, to)]
        BY <1>5, <1>8, <1>15, <4>2 DEF Frame
      <4>5. [seen EXCEPT !.rows = Count(to), !.index = NumbersTo(o, to)] =
              Frame(columns, Count(to), NumbersTo(o, to))
        <5>1. PICK r, x, r2, x2 : /\ r = Count(m) /\ x = NumbersTo(o, m)
                                  /\ r2 = Count(to) /\ x2 = NumbersTo(o, to)
          OBVIOUS
        <5>2. seen = [columns |-> columns, rows |-> r, index |-> x]
          BY <1>5, <5>1 DEF Frame
        <5>3. [seen EXCEPT !.rows = r2, !.index = x2] = [columns |-> columns, rows |-> r2, index |-> x2]
          <6>1. PICK y : y = [seen EXCEPT !.rows = r2, !.index = x2]
            OBVIOUS
          <6>2. DOMAIN seen = {"columns", "rows", "index"} /\ seen.columns = columns
            BY <5>2
          <6>3. y = [key \in {"columns", "rows", "index"} |-> y[key]]
            BY <6>1, <6>2
          <6>4. y.columns = columns /\ y.rows = r2 /\ y.index = x2
            BY <6>1, <6>2
          <6> QED BY <6>1, <6>3, <6>4
        <5> QED BY <5>1, <5>3 DEF Frame
      <4>6. new = ReadTo(o, columns, to)
        BY <1>15, <2>2, <3>1, <3>2, <4>3, <4>4, <4>5 DEF ReadTo
      <4>7. offset + to <= IdxMax
        BY <1>15, <3>2, <3>4, NamesAssumption
      <4>8. NumbersFit(o, to)
        BY <3>1, <4>7 DEF NumbersFit
      <4> QED BY <1>1, <1>4, <1>13, <4>6, <4>8 DEF Reading
    <3> QED BY <3>3, <3>4
  <2> QED BY <2>1, <2>2
<1> QED BY <1>1, <1>10, <1>12, <1>14, <1>17, <1>18

\* A read that goes on is of a scan that was taken, and has its columns.
LEMMA TakenScanIs ==
  ASSUME FileIs(file), request \in NdjsonOptions, NEW columns,
         \A i \in DOMAIN columns : columns[i].name \in Names,
         NdjsonScan(file, request) = ReadTo(request, columns, 0)
  PROVE  /\ ScanTaken(file, request)
         /\ FieldNames(columns) = FieldNames(NdjsonFields)
         /\ AreOverridden(SubSeq(columns, Len(IndexField(request)) + 1,
                                 Len(IndexField(request)) + Len(GivenFields)))
<1>1. ReadTo(request, columns, 0).frame = Frame(columns, Count(0), NumbersTo(request, 0))
  BY DEF ReadTo
<1>2. Frame(columns, Count(0), NumbersTo(request, 0)) # Failed
  BY FrameFields
<1>3. NdjsonFailed.frame = Failed
  BY DEF NdjsonFailed
<1>4. ScanTaken(file, request)
  BY <1>1, <1>2, <1>3, NdjsonScanIs
<1>5. PICK read \in Seq(JsonField) :
        /\ AgreesWith(read, Given(file, request), request.overrides)
        /\ NdjsonScan(file, request) =
             ReadTo(request, IndexField(request) \o read \o PathField(request), 0)
  BY <1>4, NdjsonScanIs
<1>6. PICK a, c, fields : a = IndexField(request) /\ c = PathField(request) /\ fields = GivenFields
  OBVIOUS
<1>7. columns = a \o read \o c
  <2>1. PICK joined : joined = a \o read \o c
    OBVIOUS
  <2>2. ReadTo(request, joined, 0).frame = Frame(joined, Count(0), NumbersTo(request, 0))
    BY DEF ReadTo
  <2>3. Frame(columns, Count(0), NumbersTo(request, 0)) = Frame(joined, Count(0), NumbersTo(request, 0))
    BY <1>1, <1>5, <1>6, <2>1, <2>2
  <2>4. /\ Frame(columns, Count(0), NumbersTo(request, 0)).columns = columns
        /\ Frame(joined, Count(0), NumbersTo(request, 0)).columns = joined
    BY FrameFields
  <2> QED BY <2>1, <2>3, <2>4
<1>8. a \in Seq(JsonField) /\ c \in Seq(JsonField) /\ fields \in Seq(JsonField)
  <2>1. request.schema \in {None} \cup Schemas("declared")
    BY DEF NdjsonOptions
  <2> QED BY <1>6, <2>1, EndsAreFields, GivenIs DEF GivenFields
<1>9. AgreesWith(read, fields, request.overrides)
  BY <1>5, <1>6 DEF GivenFields
<1>10. FieldNames(read) = FieldNames(fields)
  BY <1>9 DEF AgreesWith
<1>11. Len(read) = Len(fields)
  <2>1. DOMAIN FieldNames(read) = 1 .. Len(read) /\ DOMAIN FieldNames(fields) = 1 .. Len(fields)
    BY <1>5, <1>8 DEF FieldNames
  <2>2. PICK l, m : l = Len(read) /\ m = Len(fields)
    OBVIOUS
  <2>3. l \in Nat /\ m \in Nat /\ 1 .. l = 1 .. m
    BY <1>5, <1>8, <1>10, <2>1, <2>2
  <2>4. l = m
    BY <2>3
  <2> QED BY <2>2, <2>4
<1>12. FieldNames(a \o read \o c) = FieldNames(a \o fields \o c)
  BY <1>5, <1>8, <1>10, NamesOfJoined
<1>13. SubSeq(a \o read \o c, Len(a) + 1, Len(a) + Len(read)) = read
  BY <1>5, <1>8, JoinedIs
<1>14. AreOverridden(read)
  BY <1>6, <1>9 DEF AgreesWith, AreOverridden
<1>15. FieldNames(columns) = FieldNames(NdjsonFields)
  BY <1>6, <1>7, <1>12 DEF NdjsonFields
<1>16. SubSeq(columns, Len(a) + 1, Len(a) + Len(fields)) = read
  BY <1>7, <1>11, <1>13
<1> QED BY <1>4, <1>6, <1>14, <1>15, <1>16

LEMMA NdjsonIsAsAsked ==
  ASSUME FileIs(file), request \in NdjsonOptions, Reading(file, request, got)
  PROVE  /\ NdjsonAsAsked
         /\ got.next \in 0 .. IdxMax /\ ToSet(got.frame.index) \subseteq 0 .. IdxMax
<1>1. PICK t \in Nat : TakenOf(file, request) = Count(t) /\ Len(TakenOf(file, request)) = t
  BY TakenCounts
<1>2. Taken = Count(t) /\ Len(Taken) = t
  BY <1>1 DEF Taken, TakenOf
<1>3. IdxMax \in Nat
  BY NamesAssumption
<1>4. PICK possible \in BOOLEAN :
        possible <=> /\ NdjsonPossible
                     /\ request.index # None => request.index.offset + Len(Taken) <= IdxMax
  OBVIOUS
<1>5. possible <=> NdjsonPossible /\ NumbersFit(request, t)
  BY <1>2, <1>4 DEF NumbersFit
<1>6. ScanTaken(file, request) <=> NdjsonPossible /\ NumbersFit(request, 0)
  BY DEF ScanTaken, NdjsonPossible, FieldsPossible, NdjsonFields, GivenFields, Fits
<1>7. \A m \in 0 .. t : NumbersFit(request, t) => NumbersFit(request, m)
  <2> SUFFICES ASSUME NEW m \in 0 .. t, request.index # None, request.index.offset + t <= IdxMax
               PROVE  request.index.offset + m <= IdxMax
    BY DEF NumbersFit
  <2>1. PICK offset \in Nat : offset = request.index.offset
    BY OffsetIsNat
  <2> QED BY <1>3, <2>1
<1>8. CASE got = NdjsonFailed /\ (NdjsonScan(file, request) = NdjsonFailed \/ ~NumbersFit(request, t))
  <2>1. got.frame = Failed /\ got.next = 0 /\ got.frame.index = <<>>
    BY <1>8 DEF NdjsonFailed, Failed, Frame
  <2>2. ~possible
    <3>1. CASE ~NumbersFit(request, t)
      BY <1>5, <3>1
    <3>2. CASE NdjsonScan(file, request) = NdjsonFailed
      <4>1. SUFFICES ASSUME ScanTaken(file, request) PROVE FALSE
        <5>1. 0 \in 0 .. t
          OBVIOUS
        <5> QED BY <1>5, <1>6, <1>7, <5>1
      <4>2. PICK read \in Seq(JsonField) :
              NdjsonScan(file, request) =
                ReadTo(request, IndexField(request) \o read \o PathField(request), 0)
        BY <4>1, NdjsonScanIs
      <4>3. PICK columns : columns = IndexField(request) \o read \o PathField(request)
        OBVIOUS
      <4>4. columns \in Seq(JsonField)
        BY <4>3, EndsAreFields, JoinedIs
      <4>5. \A i \in DOMAIN columns : columns[i].name \in Names
        BY <4>4, FieldsAreNamed
      <4>6. Frame(columns, Count(0), NumbersTo(request, 0)) # Failed
        BY <4>5, FrameFields
      <4>7. ReadTo(request, columns, 0).frame = Frame(columns, Count(0), NumbersTo(request, 0))
        BY DEF ReadTo
      <4>8. NdjsonFailed.frame = Failed
        BY DEF NdjsonFailed
      <4> QED BY <3>2, <4>2, <4>3, <4>6, <4>7, <4>8
    <3> QED BY <1>8, <3>1, <3>2
  <2>3. NdjsonAsAsked
    BY <1>4, <2>1, <2>2 DEF NdjsonAsAsked
  <2>4. ToSet(got.frame.index) = {}
    BY <2>1 DEF ToSet
  <2> QED BY <1>3, <2>1, <2>3, <2>4
<1>9. ASSUME NEW columns, NEW m \in 0 .. t,
             NdjsonScan(file, request) = ReadTo(request, columns, 0),
             got = ReadTo(request, columns, m),
             \A i \in DOMAIN columns : columns[i].name \in Names,
             NumbersFit(request, m)
      PROVE  /\ NdjsonAsAsked
             /\ got.next \in 0 .. IdxMax /\ ToSet(got.frame.index) \subseteq 0 .. IdxMax
  <2>1. /\ ScanTaken(file, request)
        /\ FieldNames(columns) = FieldNames(NdjsonFields)
        /\ AreOverridden(SubSeq(columns, Len(IndexField(request)) + 1,
                                Len(IndexField(request)) + Len(GivenFields)))
    BY <1>9, TakenScanIs
  <2>2. /\ got.frame = Frame(columns, Count(m), NumbersTo(request, m))
        /\ got.next = IF request.index = None THEN 0 ELSE request.index.offset + m
    BY <1>9 DEF ReadTo
  <2>3. /\ got.frame.columns = columns /\ got.frame.rows = Count(m)
        /\ got.frame.index = NumbersTo(request, m) /\ got.frame # Failed
    BY <1>9, <2>2, FrameFields
  <2>4. m \in Nat /\ m <= t /\ Len(Count(m)) = m
    BY CountIs
  <2>5. Count(m) = SubSeq(Taken, 1, m)
    BY <1>2, <2>4, CountOfFirst
  <2>6. got.frame.rows = Taken => possible
    <3>1. SUFFICES ASSUME Count(m) = Count(t) PROVE possible
      BY <1>2, <2>3
    <3>2. m = t
      BY <1>2, <2>4, <3>1
    <3> QED BY <1>5, <1>6, <1>9, <2>1, <3>2
  <2>7. request.index # None => got.frame.index = Numbers(request.index.offset, got.frame.rows)
    BY <2>3 DEF NumbersTo
  <2>8. NdjsonAsAsked
    BY <1>4, <2>1, <2>3, <2>4, <2>5, <2>6, <2>7 DEF NdjsonAsAsked
  <2>9. CASE request.index = None
    <3>1. got.next = 0 /\ ToSet(got.frame.index) = {}
      BY <2>2, <2>3, <2>9 DEF NumbersTo, ToSet
    <3> QED BY <1>3, <2>8, <3>1
  <2>10. CASE request.index # None
    <3>1. PICK offset \in Nat : offset = request.index.offset
      BY <2>10, OffsetIsNat
    <3>2. got.next = offset + m /\ offset + m <= IdxMax
      BY <1>9, <2>2, <2>10, <3>1 DEF NumbersFit
    <3>3. got.frame.index = [i \in 1 .. m |-> offset + i - 1]
      BY <2>3, <2>4, <2>10, <3>1, CountIs DEF NumbersTo, Numbers
    <3>4. ASSUME NEW i \in 1 .. m PROVE offset + i - 1 \in 0 .. IdxMax
      BY <1>3, <2>4, <3>2
    <3>5. ToSet(got.frame.index) \subseteq 0 .. IdxMax
      BY <3>3, <3>4 DEF ToSet
    <3>6. got.next \in 0 .. IdxMax
      BY <1>3, <2>4, <3>2
    <3> QED BY <2>8, <3>5, <3>6
  <2> QED BY <2>9, <2>10
<1>10. CASE \E columns : \E m \in 0 .. Len(TakenOf(file, request)) :
              /\ NdjsonScan(file, request) = ReadTo(request, columns, 0)
              /\ got = ReadTo(request, columns, m)
              /\ \A i \in DOMAIN columns : columns[i].name \in Names
              /\ NumbersFit(request, m)
  BY <1>1, <1>9, <1>10
<1> QED BY <1>1, <1>8, <1>10 DEF Reading

-----------------------------------------------------------------------------
(* FrameFiles: the steps.                                                  *)

\* The file is a frame that was written as it was asked, and what was read of
\* it is what the reader gives for the request, so far as NDJSON's has come.
FilesIInv ==
  /\ FileIs(file)
  /\ stage \in {"frame", "parquet", "json", "parquet read", "json read", "ndjson read"}
  /\ stage = "frame" => got \in {None, "refused"}
  /\ stage = "parquet read" => /\ request \in ParquetOptions
                               /\ got = Select(request, Scan(file, request))
  /\ stage = "json read" => request \in JsonOptions /\ got = JsonRead(file, request)
  /\ stage = "ndjson read" => request \in NdjsonOptions /\ Reading(file, request, got)
  /\ GroupsPartition /\ WrittenAsAsked

LEMMA FilesStart == FilesInit => FilesIInv
<1> SUFFICES ASSUME FilesInit PROVE FilesIInv
  OBVIOUS
<1>1. PICK header \in Headers, height \in Heights, binary \in BOOLEAN :
        file = [header |-> header, height |-> height, groups |-> <<Count(height)>>, binary |-> binary]
  BY DEF FilesInit
<1>2. FlattenSeq(<<Count(height)>>) = Count(height)
  BY OneGroup
<1>3. FileIs(file)
  BY <1>1, <1>2 DEF FileIs
<1> QED BY <1>3 DEF FilesInit, FilesIInv, GroupsPartition, WrittenAsAsked

\* A level that is taken is one the codec has: what narrowing makes of another
\* is in no codec's range.
LEMMA LevelTaken ==
  ASSUME NEW codec \in {"snappy", "gzip", "brotli", "zstd"},
         NEW level \in {None} \cup Levels, CompressionTaken(codec, level)
  PROVE  level = None \/ codec = "snappy" \/ level \in CodecLevels(codec)
<1> SUFFICES ASSUME level # None, codec # "snappy" PROVE level \in CodecLevels(codec)
  OBVIOUS
<1>1. level \in Int
  BY FilesAssumption
<1>2. Level(codec, level) \in CodecLevels(codec)
  BY DEF CompressionTaken
<1>3. CASE codec = "zstd"
  BY <1>2, <1>3 DEF Level
<1>4. CASE codec = "gzip"
  <2>1. CodecLevels(codec) = 0 .. 9
    BY <1>4 DEF CodecLevels
  <2>2. Level(codec, level) = Narrowed(level, 2 ^ 8 - 1)
    BY <1>4 DEF Level
  <2>3. 2 ^ 8 - 1 \notin 0 .. 9
    OBVIOUS
  <2> QED BY <1>2, <2>1, <2>2, <2>3 DEF Narrowed
<1>5. CASE codec = "brotli"
  <2>1. CodecLevels(codec) = 0 .. 11
    BY <1>5 DEF CodecLevels
  <2>2. Level(codec, level) = Narrowed(level, 2 ^ 16 - 1)
    BY <1>5 DEF Level
  <2>3. 2 ^ 16 - 1 \notin 0 .. 11
    OBVIOUS
  <2> QED BY <1>2, <2>1, <2>2, <2>3 DEF Narrowed
<1> QED BY <1>3, <1>4, <1>5

LEMMA ExtensionTells ==
  ASSUME NEW compression \in {"uncompressed", "gzip", "zstd"}, NEW extension,
         ExtensionTaken(compression, extension)
  PROVE  /\ extension = "gz" => compression = "gzip"
         /\ extension \in {"zst", "zstd"} => compression = "zstd"
<1>1. CASE compression = "uncompressed"
  BY <1>1 DEF ExtensionTaken
<1>2. CASE compression = "gzip"
  BY <1>2, NamesAssumption DEF ExtensionTaken
<1>3. CASE compression = "zstd"
  BY <1>3, NamesAssumption DEF ExtensionTaken
<1> QED BY <1>1, <1>2, <1>3

LEMMA FilesStep == FilesIInv /\ [FilesNext]_fileVars => FilesIInv'
<1> SUFFICES ASSUME FilesIInv, [FilesNext]_fileVars PROVE FilesIInv'
  OBVIOUS
<1>1. CASE WriteParquet
  <2>1. PICK rows \in {None} \cup GroupSizes, codec \in {"snappy", "gzip", "brotli", "zstd"},
             level \in {None} \cup Levels :
          /\ request' = [rows |-> rows, codec |-> codec, level |-> level]
          /\ \/ /\ CompressionTaken(codec, level)
                /\ stage' = "parquet" /\ got' = "written"
                /\ file' = [file EXCEPT !.groups = RowGroups(Len(FlattenSeq(@)), rows)]
             \/ /\ ~CompressionTaken(codec, level)
                /\ got' = "refused" /\ UNCHANGED <<stage, file>>
    BY <1>1 DEF WriteParquet
  <2>2. stage = "frame"
    BY <1>1 DEF WriteParquet
  <2>3. CASE CompressionTaken(codec, level)
    <3>0. PICK groups : \E header \in Headers, binary \in BOOLEAN, height \in Heights :
            /\ file = [header |-> header, height |-> height, groups |-> groups, binary |-> binary]
            /\ FlattenSeq(groups) = Count(height)
      BY DEF FilesIInv, FileIs
    <3>1. PICK header \in Headers, binary \in BOOLEAN, height \in Heights :
            /\ file = [header |-> header, height |-> height, groups |-> groups, binary |-> binary]
            /\ FlattenSeq(groups) = Count(height)
      BY <3>0
    <3>2. file.groups = groups /\ file.height = height /\ height \in Nat
      BY <3>1, FilesAssumption
    <3>3. Len(FlattenSeq(file.groups)) = height
      BY <3>1, <3>2, CountIs
    <3>4. PICK written : written = RowGroups(height, rows)
      OBVIOUS
    <3>5. /\ FlattenSeq(written) = Count(height)
          /\ rows \notin {None, 0} => \A g \in DOMAIN written : Len(written[g]) \in 1 .. rows
      BY <3>2, <3>4, GroupsAre
    <3>6. file' = [file EXCEPT !.groups = written]
      BY <2>1, <2>3, <3>3, <3>4
    <3>7. file' = [header |-> header, height |-> height, groups |-> written, binary |-> binary]
      BY <3>1, <3>6
    <3>8. /\ file'.groups = written /\ file'.height = height
          /\ request'.rows = rows /\ request'.codec = codec /\ request'.level = level
      BY <2>1, <3>7
    <3>9. FileIs(file)'
      BY <3>5, <3>7 DEF FileIs
    <3>10. GroupsPartition'
      BY <3>1, <3>5, <3>8 DEF GroupsPartition
    <3>11. stage' = "parquet"
      BY <2>1, <2>3
    <3>12. WrittenAsAsked'
      BY <2>3, <3>8, <3>11, LevelTaken DEF WrittenAsAsked
    <3> QED BY <3>9, <3>10, <3>11, <3>12 DEF FilesIInv
  <2>4. CASE ~CompressionTaken(codec, level)
    <3>1. stage' = "frame" /\ got' = "refused" /\ file' = file
      BY <2>1, <2>2, <2>4
    <3>2. FileIs(file)'
      BY <3>1 DEF FilesIInv, FileIs
    <3> QED BY <3>1, <3>2 DEF FilesIInv, GroupsPartition, WrittenAsAsked
  <2> QED BY <2>3, <2>4
<1>2. CASE WriteJson
  <2>1. PICK compression \in {"json", "uncompressed", "gzip", "zstd"},
             extension \in {None, "ndjson", "gz", "zst", "zstd"}, check \in BOOLEAN :
          /\ request' = [compression |-> compression, extension |-> extension, check |-> check]
          /\ LET taken == /\ ~file.binary
                          /\ compression = "json" \/ ~check \/ ExtensionTaken(compression, extension) IN
             /\ stage' = IF taken THEN "json" ELSE stage
             /\ got' = IF taken THEN "written" ELSE "refused"
    BY <1>2 DEF WriteJson
  <2>2. stage = "frame" /\ file' = file
    BY <1>2 DEF WriteJson
  <2>3. FileIs(file)'
    BY <2>2 DEF FilesIInv, FileIs
  <2>4. request'.compression = compression /\ request'.extension = extension /\ request'.check = check
    BY <2>1
  <2> DEFINE taken == /\ ~file.binary
                      /\ compression = "json" \/ ~check \/ ExtensionTaken(compression, extension)
  <2>5. CASE taken
    <3>1. stage' = "json" /\ got' = "written" /\ ~file.binary
      BY <2>1, <2>5
    <3>2. ASSUME check, compression # "json"
          PROVE  /\ extension = "gz" => compression = "gzip"
                 /\ extension \in {"zst", "zstd"} => compression = "zstd"
      BY <2>1, <2>5, <3>2, ExtensionTells
    <3>3. WrittenAsAsked'
      BY <2>2, <2>4, <3>1, <3>2 DEF WrittenAsAsked
    <3> QED BY <2>3, <3>1, <3>3 DEF FilesIInv, GroupsPartition
  <2>6. CASE ~taken
    <3>1. stage' = "frame" /\ got' = "refused"
      BY <2>1, <2>2, <2>6
    <3> QED BY <2>3, <3>1 DEF FilesIInv, GroupsPartition, WrittenAsAsked
  <2> QED BY <2>5, <2>6
<1>3. CASE ReadParquet
  <2>1. /\ stage' = "parquet read" /\ file' = file /\ request' \in ParquetOptions
        /\ got' = Select(request', Scan(file, request'))
    BY <1>3 DEF ReadParquet
  <2>2. FileIs(file)' /\ got' = Select(request', Scan(file', request'))
    BY <2>1 DEF FilesIInv, FileIs
  <2> QED BY <2>1, <2>2 DEF FilesIInv, GroupsPartition, WrittenAsAsked
<1>4. CASE ReadJson
  <2>1. /\ stage' = "json read" /\ file' = file /\ request' \in JsonOptions
        /\ got' = JsonRead(file, request')
    BY <1>4 DEF ReadJson
  <2>2. FileIs(file)' /\ got' = JsonRead(file', request')
    BY <2>1 DEF FilesIInv, FileIs
  <2> QED BY <2>1, <2>2 DEF FilesIInv, GroupsPartition, WrittenAsAsked
<1>5. CASE ScanNdjson
  <2>1. /\ stage' = "ndjson read" /\ file' = file /\ request' \in NdjsonOptions
        /\ got' = NdjsonScan(file, request')
    BY <1>5 DEF ScanNdjson
  <2>2. FileIs(file) /\ FileIs(file)'
    BY <2>1 DEF FilesIInv, FileIs
  <2>3. Reading(file', request', got')
    BY <2>1, <2>2, ScanIsReading
  <2> QED BY <2>1, <2>2, <2>3 DEF FilesIInv, GroupsPartition, WrittenAsAsked
<1>6. CASE NextMorsel
  <2>1. stage = "ndjson read" /\ stage' = stage /\ file' = file /\ request' = request
    BY <1>6 DEF NextMorsel
  <2>2. FileIs(file) /\ FileIs(file)' /\ request \in NdjsonOptions /\ Reading(file, request, got)
    BY <2>1 DEF FilesIInv, FileIs
  <2>3. Taken = TakenOf(file, request)
    BY DEF Taken, TakenOf
  <2>4. PICK k \in 1 .. Len(TakenOf(file, request)) - Len(got.frame.rows) :
          got' = NumberMorsel(request, got, SubSeq(TakenOf(file, request),
                   Len(got.frame.rows) + 1, Len(got.frame.rows) + k))
    BY <1>6, <2>3 DEF NextMorsel
  <2>5. got.frame # Failed
    BY <1>6 DEF NextMorsel
  <2>6. Reading(file, request, got')
    BY <2>2, <2>4, <2>5, MorselIsReading
  <2>7. Reading(file', request', got')
    BY <2>1, <2>6
  <2> QED BY <2>1, <2>2, <2>7 DEF FilesIInv, GroupsPartition, WrittenAsAsked
<1>7. CASE UNCHANGED fileVars
  <2>1. stage' = stage /\ file' = file /\ request' = request /\ got' = got
    BY <1>7 DEF fileVars
  <2>2. FileIs(file)'
    BY <2>1 DEF FilesIInv, FileIs
  <2>3. GroupsPartition' /\ WrittenAsAsked'
    BY <2>1 DEF FilesIInv, GroupsPartition, WrittenAsAsked
  <2> QED BY <2>1, <2>2, <2>3 DEF FilesIInv
<1> QED BY <1>1, <1>2, <1>3, <1>4, <1>5, <1>6, <1>7 DEF FilesNext

LEMMA FilesAlways == FilesSpec => []FilesIInv
BY FilesStart, FilesStep, PTL DEF FilesSpec

\* What a step of a frame's file holds has its type; the index that a read
\* gives is an IdxSize (rust/src/lazyframe/scan.rs:99-134).
THEOREM FilesAreTyped == FilesSpec => []FilesTypeOK
<1>1. FilesIInv => FilesTypeOK
  <2> SUFFICES ASSUME FilesIInv PROVE FilesTypeOK
    OBVIOUS
  <2>1. file.header \in Headers /\ file.height \in Heights
    BY FileFields DEF FilesIInv
  <2>2. ASSUME stage = "parquet read" PROVE ToSet(got.index) \subseteq 0 .. IdxMax
    <3>1. IndexTyped(got)
      BY <2>2, SelectAnswers DEF FilesIInv
    <3> QED BY <3>1 DEF IndexTyped
  <2>3. ASSUME stage = "ndjson read"
        PROVE  got.next \in 0 .. IdxMax /\ ToSet(got.frame.index) \subseteq 0 .. IdxMax
    BY <2>3, NdjsonIsAsAsked DEF FilesIInv
  <2> QED BY <2>1, <2>2, <2>3 DEF FilesIInv, FilesTypeOK
<1> QED BY <1>1, FilesAlways, PTL

\* Every file is written and read as it was asked to be: for frames of any
\* columns and any height, whatever options are combined.
THEOREM FilesAreAsAsked == FilesSpec => []FilesAsAsked
<1>1. FilesIInv => FilesAsAsked
  <2> SUFFICES ASSUME FilesIInv PROVE FilesAsAsked
    OBVIOUS
  <2>1. ColumnsAsAsked
    <3>1. CASE stage = "parquet read"
      BY <3>1, ParquetIsAsAsked DEF FilesIInv
    <3>2. CASE stage # "parquet read"
      BY <3>2 DEF ColumnsAsAsked
    <3> QED BY <3>1, <3>2
  <2>2. OverridesAsAsked
    <3>1. CASE stage = "json read"
      BY <3>1, JsonIsAsAsked DEF FilesIInv
    <3>2. CASE stage # "json read"
      BY <3>2 DEF OverridesAsAsked
    <3> QED BY <3>1, <3>2
  <2>3. NdjsonAsAsked
    <3>1. CASE stage = "ndjson read"
      BY <3>1, NdjsonIsAsAsked DEF FilesIInv
    <3>2. CASE stage # "ndjson read"
      BY <3>2 DEF NdjsonAsAsked
    <3> QED BY <3>1, <3>2
  <2> QED BY <2>1, <2>2, <2>3 DEF FilesIInv, FilesAsAsked
<1> QED BY <1>1, FilesAlways, PTL
-----------------------------------------------------------------------------
(* CsvReads: places in order.                                              *)

Ascends(order, m) == \A i, j \in 1 .. m : i < j => order[i] <= order[j]
Climbs(order, m) == \A i, j \in 1 .. m : i < j => order[i] < order[j]
CanBeOrdered(S, m) == \E order \in [1 .. m -> S] : ToSet(order) = S /\ Climbs(order, m)
HasSize(S, m) == S \subseteq Nat /\ IsFiniteSet(S) /\ Cardinality(S) = m

\* A set of numbers can be put in order.
LEMMA OrderExists ==
  ASSUME NEW m \in Nat, NEW S, HasSize(S, m)
  PROVE  CanBeOrdered(S, m)
<1> DEFINE T == {k \in Nat : \A R \in SUBSET Nat : HasSize(R, k) => CanBeOrdered(R, k)}
<1>1. 0 \in T
  <2> SUFFICES ASSUME NEW R \in SUBSET Nat, HasSize(R, 0) PROVE CanBeOrdered(R, 0)
    OBVIOUS
  <2>1. R = {}
    BY FS_EmptySet DEF HasSize
  <2>2. PICK order : order = [i \in 1 .. 0 |-> 0]
    OBVIOUS
  <2>3. order \in [1 .. 0 -> R] /\ ToSet(order) = R /\ Climbs(order, 0)
    BY <2>1, <2>2 DEF ToSet, Climbs
  <2> QED BY <2>3 DEF CanBeOrdered
<1>2. \A k \in Nat : k \in T => k + 1 \in T
  <2> SUFFICES ASSUME NEW k \in Nat, k \in T, NEW R \in SUBSET Nat, HasSize(R, k + 1)
               PROVE  CanBeOrdered(R, k + 1)
    OBVIOUS
  <2>1. IsFiniteSet(R) /\ Cardinality(R) = k + 1
    BY DEF HasSize
  <2>2. R # {}
    BY <2>1, FS_EmptySet
  <2>3. PICK least \in R : \A x \in R : least <= x
    BY <2>2, LeastNat
  <2>4. PICK rest : rest = R \ {least}
    OBVIOUS
  <2>5. IsFiniteSet(rest) /\ Cardinality(rest) = k
    <3>1. IsFiniteSet(R \ {least}) /\ Cardinality(R \ {least}) = Cardinality(R) - 1
      BY <2>1, <2>3, FS_RemoveElement
    <3> QED BY <2>1, <2>4, <3>1
  <2>6. HasSize(rest, k) /\ rest \in SUBSET Nat
    BY <2>4, <2>5 DEF HasSize
  <2>7. CanBeOrdered(rest, k)
    BY <2>6
  <2>8. PICK order \in [1 .. k -> rest] : ToSet(order) = rest /\ Climbs(order, k)
    BY <2>7 DEF CanBeOrdered
  <2>9. PICK n : n = k + 1
    OBVIOUS
  <2>10. PICK longer : longer = [i \in 1 .. n |-> IF i = 1 THEN least ELSE order[i - 1]]
    OBVIOUS
  <2>11. ASSUME NEW i \in 1 .. n, i # 1
         PROVE  i - 1 \in 1 .. k /\ longer[i] = order[i - 1] /\ order[i - 1] \in rest
    BY <2>8, <2>9, <2>10, <2>11
  <2>12. 1 \in 1 .. n /\ longer[1] = least
    BY <2>9, <2>10
  <2>13. ASSUME NEW i \in 1 .. n PROVE longer[i] \in R
    BY <2>3, <2>4, <2>11, <2>12
  <2>14. longer \in [1 .. n -> R]
    BY <2>10, <2>13
  <2>15. ASSUME NEW x \in R PROVE \E i \in 1 .. n : longer[i] = x
    <3>1. CASE x = least
      BY <2>12, <3>1
    <3>2. CASE x # least
      <4>1. x \in ToSet(order)
        BY <2>4, <2>8, <3>2
      <4>2. PICK i \in 1 .. k : order[i] = x
        BY <2>8, <4>1 DEF ToSet
      <4>3. i + 1 \in 1 .. n /\ i + 1 # 1 /\ (i + 1) - 1 = i
        BY <2>9
      <4>4. longer[i + 1] = x
        BY <2>11, <4>2, <4>3
      <4> QED BY <4>3, <4>4
    <3> QED BY <3>1, <3>2
  <2>16. ToSet(longer) = R
    <3>1. ToSet(longer) = {longer[i] : i \in 1 .. n}
      BY <2>14 DEF ToSet
    <3> QED BY <2>13, <2>15, <3>1
  <2>17. ASSUME NEW i \in 1 .. n, NEW j \in 1 .. n, i < j PROVE longer[i] < longer[j]
    <3>1. j # 1 /\ longer[j] = order[j - 1] /\ order[j - 1] \in rest /\ j - 1 \in 1 .. k
      BY <2>11, <2>17
    <3>2. CASE i = 1
      <4>1. least <= order[j - 1] /\ least # order[j - 1] /\ least \in Nat /\ order[j - 1] \in Nat
        BY <2>3, <2>4, <3>1
      <4> QED BY <2>12, <3>1, <3>2, <4>1
    <3>3. CASE i # 1
      <4>1. longer[i] = order[i - 1] /\ i - 1 \in 1 .. k
        BY <2>11, <3>3
      <4>2. i - 1 < j - 1
        BY <2>17
      <4> QED BY <2>8, <3>1, <4>1, <4>2 DEF Climbs
    <3> QED BY <3>2, <3>3
  <2>18. Climbs(longer, n)
    BY <2>17 DEF Climbs
  <2> QED BY <2>9, <2>14, <2>16, <2>18 DEF CanBeOrdered
<1> HIDE DEF T
<1>3. \A k \in Nat : k \in T
  BY <1>1, <1>2, InductionOnSet
<1> QED BY <1>3 DEF T, HasSize

\* Places that differ, in order.
LEMMA InOrderIs ==
  ASSUME NEW m \in Nat, NEW places \in [1 .. m -> Nat], IsInjective(places)
  PROVE  /\ InOrder(places) \in [1 .. m -> ToSet(places)]
         /\ ToSet(InOrder(places)) = ToSet(places)
         /\ Climbs(InOrder(places), m)
<1>1. PICK S : S = ToSet(places)
  OBVIOUS
<1>2. S = {places[i] : i \in 1 .. m} /\ S \subseteq Nat
  BY <1>1 DEF ToSet
<1>3. places \in Bijection(1 .. m, S)
  BY <1>2 DEF Bijection, Injection, Surjection, IsInjective
<1>4. IsFiniteSet(1 .. m) /\ Cardinality(1 .. m) = m
  BY FS_Interval
<1>5. IsFiniteSet(S) /\ Cardinality(S) = m
  <2>1. ExistsBijection(1 .. m, S)
    BY <1>3 DEF ExistsBijection
  <2> QED BY <1>4, <2>1, FS_Bijection
<1>6. CanBeOrdered(S, m)
  BY <1>2, <1>5, OrderExists DEF HasSize
<1> DEFINE P(order) == ToSet(order) = S /\ \A i, j \in 1 .. m : i < j => order[i] <= order[j]
<1>7. InOrder(places) = CHOOSE order \in [1 .. m -> S] : P(order)
  BY <1>1 DEF InOrder
<1>8. \E order \in [1 .. m -> S] : P(order)
  <2>1. PICK order \in [1 .. m -> S] : ToSet(order) = S /\ Climbs(order, m)
    BY <1>6 DEF CanBeOrdered
  <2>2. ASSUME NEW i \in 1 .. m, NEW j \in 1 .. m, i < j PROVE order[i] <= order[j]
    <3>1. order[i] < order[j] /\ order[i] \in Nat /\ order[j] \in Nat
      BY <1>2, <2>1, <2>2 DEF Climbs
    <3> QED BY <3>1
  <2> QED BY <2>1, <2>2
<1> HIDE DEF P
<1>9. PICK order : order = InOrder(places)
  OBVIOUS
<1>10. order \in [1 .. m -> S] /\ P(order)
  BY <1>7, <1>8, <1>9
<1>11. order \in Surjection(1 .. m, S)
  BY <1>10 DEF P, Surjection, ToSet
<1>12. order \in Injection(1 .. m, S)
  BY <1>4, <1>5, <1>11, FS_SurjSameCardinalityImpliesInj
<1>13. ASSUME NEW i \in 1 .. m, NEW j \in 1 .. m, i < j PROVE order[i] < order[j]
  <2>1. order[i] <= order[j] /\ order[i] # order[j]
    BY <1>10, <1>12, <1>13 DEF P, Injection, IsInjective
  <2>2. order[i] \in Nat /\ order[j] \in Nat
    BY <1>2, <1>10
  <2> QED BY <2>1, <2>2
<1>14. Climbs(order, m)
  BY <1>13 DEF Climbs
<1> QED BY <1>1, <1>9, <1>10, <1>14 DEF P

-----------------------------------------------------------------------------
(* CsvReads: names and what is given to them.                              *)

IsHeader(header, n) ==
  header \in [1 .. n -> Names] /\ \A i, j \in 1 .. n : header[i] = header[j] => i = j

LEMMA PlaceIs ==
  ASSUME NEW n \in Nat, NEW header, IsHeader(header, n), NEW x
  PROVE  /\ PlaceOf(header, x) \in 0 .. n
         /\ x \in ToSet(header) <=> PlaceOf(header, x) # 0
         /\ Contains(header, x) <=> x \in ToSet(header)
         /\ PlaceOf(header, x) # 0 => header[PlaceOf(header, x)] = x
         /\ \A i \in 1 .. n : header[i] = x => PlaceOf(header, x) = i
<1>1. header \in [1 .. n -> Names] /\ Len(header) = n /\ DOMAIN header = 1 .. n
  BY DEF IsHeader
<1>2. Contains(header, x) <=> \E i \in 1 .. n : header[i] = x
  BY <1>1 DEF Contains
<1>3. x \in ToSet(header) <=> \E i \in 1 .. n : header[i] = x
  BY <1>1 DEF ToSet
<1>4. CASE \E i \in 1 .. n : header[i] = x
  <2>1. PlaceOf(header, x) = CHOOSE p \in 1 .. n : header[p] = x
    BY <1>1, <1>2, <1>4 DEF PlaceOf
  <2>2. PlaceOf(header, x) \in 1 .. n /\ header[PlaceOf(header, x)] = x
    BY <1>4, <2>1
  <2>3. \A i \in 1 .. n : header[i] = x => PlaceOf(header, x) = i
    BY <2>2 DEF IsHeader
  <2> QED BY <1>2, <1>3, <1>4, <2>2, <2>3
<1>5. CASE ~(\E i \in 1 .. n : header[i] = x)
  <2>1. PlaceOf(header, x) = 0
    BY <1>2, <1>5 DEF PlaceOf
  <2> QED BY <1>2, <1>3, <1>5, <2>1
<1> QED BY <1>4, <1>5

LEMMA ForIs ==
  ASSUME NEW S
  PROVE  /\ GivenNames(For(S)) = S
         /\ \A x : GivenTo(For(S), x) = IF x \in S THEN x ELSE None
<1>1. For(S) = {[name |-> x, given |-> x] : x \in S}
  BY DEF For
<1>2. GivenNames(For(S)) = S
  <2>1. ASSUME NEW x \in S PROVE x \in GivenNames(For(S))
    <3>1. PICK g : g = [name |-> x, given |-> x]
      OBVIOUS
    <3>2. g \in For(S) /\ g.name = x
      BY <1>1, <3>1
    <3> QED BY <3>2 DEF GivenNames
  <2>2. ASSUME NEW g \in For(S) PROVE g.name \in S
    BY <1>1
  <2> QED BY <2>1, <2>2 DEF GivenNames
<1>3. ASSUME NEW x \in S PROVE GivenTo(For(S), x) = x
  <2>1. PICK g : g = CHOOSE h \in For(S) : h.name = x
    OBVIOUS
  <2>2. \E h \in For(S) : h.name = x
    BY <1>2, <1>3 DEF GivenNames
  <2>3. g \in For(S) /\ g.name = x
    BY <2>1, <2>2
  <2>4. g.given = x
    BY <1>1, <2>3
  <2> QED BY <1>2, <1>3, <2>1, <2>4 DEF GivenTo
<1>4. \A x : x \notin S => GivenTo(For(S), x) = None
  BY <1>2 DEF GivenTo
<1> QED BY <1>2, <1>3, <1>4

\* The columns' names after a renaming, and how many columns there are.
Named == Renamed(csv, wish)
Width == Len(csv)

LEMMA HeaderIs ==
  ASSUME csv \in CsvHeaders
  PROVE  Width \in Nat /\ IsHeader(csv, Width) /\ DOMAIN csv = 1 .. Width
<1>1. csv \in Seq(Names) /\ IsInjective(csv)
  BY CsvAssumption
<1>2. Width \in Nat /\ csv \in [1 .. Width -> Names]
  BY <1>1, LenProperties DEF Width
<1> QED BY <1>1, <1>2 DEF IsHeader, IsInjective

LEMMA ListIs ==
  ASSUME NEW S, NEW k \in Nat, NEW l \in Lists(S, k)
  PROVE  IsInjective(l) /\ \E m \in Nat : l \in [1 .. m -> S] /\ Len(l) = m
<1>1. SeqOf(S, k) = UNION {[1 .. m -> S] : m \in 0 .. k}
  BY DEF SeqOf
<1>2. PICK m \in 0 .. k : l \in [1 .. m -> S]
  BY <1>1 DEF Lists
<1> QED BY <1>2 DEF Lists

LEMMA WishFields ==
  ASSUME wish \in Wishes
  PROVE  /\ DOMAIN wish = {"columns", "names", "overrides", "nulls", "index", "n"}
         /\ wish.names \in Lists(Names, MaxNames)
         /\ wish.index # None => wish.index.name \in Names /\ wish.index.offset \in Nat
         /\ wish.n # None => wish.n \in Nat
         /\ \E S \in SUBSET Names : wish.overrides = For(S)
         /\ \E S : wish.nulls = For(S)
         /\ wish.columns # None => /\ wish.columns.kind \in {"names", "places"}
                                   /\ wish.columns.kind = "names" => wish.columns.by \in Lists(Names, MaxChosen)
                                   /\ wish.columns.kind = "places" => wish.columns.by \in Lists(CsvIndices, MaxChosen)
                                   /\ DOMAIN wish.columns = {"kind", "by"}
<1>1. DOMAIN wish = {"columns", "names", "overrides", "nulls", "index", "n"}
  BY DEF Wishes
<1>2. /\ wish.columns \in Selects /\ wish.names \in Lists(Names, MaxNames)
      /\ wish.overrides \in {For(S) : S \in SUBSET Names}
      /\ wish.nulls \in {{}, EveryColumn} \cup {For({name}) : name \in Names}
      /\ wish.index \in RowIndexes /\ wish.n \in {None} \cup CsvFirsts
  BY DEF Wishes
<1>3. wish.index # None => wish.index.name \in Names /\ wish.index.offset \in Nat
  BY <1>2, NamesAssumption DEF RowIndexes
<1>4. wish.n # None => wish.n \in Nat
  BY <1>2, CsvAssumption
<1>5. \E S : wish.nulls = For(S)
  <2>1. For({}) = {}
    BY DEF For
  <2> QED BY <1>2, <2>1 DEF EveryColumn
<1>6. ASSUME wish.columns # None
      PROVE  /\ wish.columns.kind \in {"names", "places"}
             /\ wish.columns.kind = "names" => wish.columns.by \in Lists(Names, MaxChosen)
             /\ wish.columns.kind = "places" => wish.columns.by \in Lists(CsvIndices, MaxChosen)
             /\ DOMAIN wish.columns = {"kind", "by"}
  <2>1. PICK c : c = wish.columns
    OBVIOUS
  <2>2. \/ c \in [kind : {"names"}, by : Lists(Names, MaxChosen) \ {<<>>}]
        \/ c \in [kind : {"places"}, by : Lists(CsvIndices, MaxChosen) \ {<<>>}]
    BY <1>2, <1>6, <2>1 DEF Selects
  <2> QED BY <2>1, <2>2
<1> QED BY <1>1, <1>2, <1>3, <1>4, <1>5, <1>6

LEMMA NamedIs ==
  ASSUME csv \in CsvHeaders, wish \in Wishes, Renames(csv, wish)
  PROVE  IsHeader(Named, Width)
<1>1. PICK n, named, header : n = Width /\ named = Named /\ header = wish.names
  OBVIOUS
<1>2. n \in Nat /\ csv \in [1 .. n -> Names] /\ DOMAIN csv = 1 .. n
  BY <1>1, HeaderIs DEF IsHeader
<1>3. PICK m \in Nat : header \in [1 .. m -> Names] /\ Len(header) = m
  <2>1. header \in Lists(Names, MaxNames) /\ MaxNames \in Nat
    BY <1>1, WishFields, CsvAssumption
  <2> QED BY <2>1, ListIs
<1>4. named = [i \in 1 .. n |-> IF i \in 1 .. m THEN header[i] ELSE csv[i]]
  BY <1>1, <1>2, <1>3 DEF Named, Renamed
<1>5. ASSUME NEW i \in 1 .. n PROVE named[i] \in Names
  BY <1>2, <1>3, <1>4
<1>6. named \in [1 .. n -> Names]
  BY <1>4, <1>5
<1>7. IsInjective(named)
  BY <1>1 DEF Renames, Named
<1> QED BY <1>1, <1>6, <1>7 DEF IsHeader, IsInjective

LEMMA PlainlyNamed ==
  ASSUME csv \in CsvHeaders, wish.names = <<>>
  PROVE  Named = csv /\ Renames(csv, wish)
<1>1. Width \in Nat /\ csv \in [1 .. Width -> Names] /\ DOMAIN csv = 1 .. Width
  BY HeaderIs DEF IsHeader
<1>2. DOMAIN wish.names = {} /\ Len(wish.names) = 0
  BY SMT
<1>3. Renamed(csv, wish) = [i \in 1 .. Width |-> csv[i]]
  BY <1>1, <1>2 DEF Renamed
<1>4. Named = csv
  BY <1>1, <1>3 DEF Named
<1>5. IsInjective(csv)
  BY CsvAssumption
<1> QED BY <1>1, <1>2, <1>4, <1>5 DEF Renames, Named, Width

\* What was given to a column by its new name, by the name it has in the file.
OldName(x) == csv[PlaceOf(Named, x)]
Moved(given) == {[g EXCEPT !.name = OldName(@)] : g \in given}

LEMMA MovedIs ==
  ASSUME csv \in CsvHeaders, wish \in Wishes, Renames(csv, wish), NEW S, S \subseteq ToSet(Named)
  PROVE  /\ Moved(For(S)) = {[name |-> OldName(x), given |-> x] : x \in S}
         /\ GivenNames(Moved(For(S))) \subseteq ToSet(csv)
         /\ \A i \in 1 .. Width : GivenTo(Moved(For(S)), csv[i]) = GivenTo(For(S), Named[i])
<1>1. PICK n, named : n = Width /\ named = Named
  OBVIOUS
<1>2. n \in Nat /\ IsHeader(csv, n) /\ IsHeader(named, n)
  BY <1>1, HeaderIs, NamedIs
<1>3. PICK M : M = Moved(For(S))
  OBVIOUS
<1>4. M = {[name |-> OldName(x), given |-> x] : x \in S}
  <2>1. For(S) = {[name |-> x, given |-> x] : x \in S}
    BY DEF For
  <2>2. ASSUME NEW x PROVE [[name |-> x, given |-> x] EXCEPT !.name = OldName(@)] = [name |-> OldName(x), given |-> x]
    <3>1. PICK old, g : old = OldName(x) /\ g = [name |-> x, given |-> x]
      OBVIOUS
    <3>2. g.name = x /\ [g EXCEPT !.name = old] = [name |-> old, given |-> x]
      BY <3>1
    <3> QED BY <3>1, <3>2
  <2>3. ASSUME NEW h \in M PROVE h \in {[name |-> OldName(x), given |-> x] : x \in S}
    <3>1. PICK g \in For(S) : h = [g EXCEPT !.name = OldName(@)]
      BY <1>3 DEF Moved
    <3>2. PICK x \in S : g = [name |-> x, given |-> x]
      BY <2>1
    <3> QED BY <2>2, <3>1, <3>2
  <2>4. ASSUME NEW x \in S PROVE [name |-> OldName(x), given |-> x] \in M
    <3>1. PICK g : g = [name |-> x, given |-> x]
      OBVIOUS
    <3>2. g \in For(S)
      BY <2>1, <3>1
    <3>3. [g EXCEPT !.name = OldName(@)] \in M
      BY <1>3, <3>2 DEF Moved
    <3> QED BY <2>2, <3>1, <3>3
  <2> QED BY <2>3, <2>4
<1>5. ASSUME NEW x \in S
      PROVE  \E i \in 1 .. n : OldName(x) = csv[i] /\ x = named[i]
  <2>1. PICK i : i = PlaceOf(named, x)
    OBVIOUS
  <2>2. i \in 1 .. n /\ named[i] = x
    <3>1. x \in ToSet(named)
      BY <1>1
    <3> QED BY <1>2, <2>1, <3>1, PlaceIs
  <2> QED BY <1>1, <2>1, <2>2 DEF OldName
<1>6. \A i, j \in 1 .. n : (csv[i] = csv[j] => i = j) /\ (named[i] = named[j] => i = j)
  BY <1>2 DEF IsHeader
<1>7. GivenNames(M) \subseteq ToSet(csv)
  <2>1. DOMAIN csv = 1 .. n
    BY <1>2 DEF IsHeader
  <2>2. ASSUME NEW g \in M PROVE g.name \in ToSet(csv)
    BY <1>4, <1>5, <2>1 DEF ToSet
  <2> QED BY <2>2 DEF GivenNames
<1>8. ASSUME NEW i \in 1 .. n
      PROVE  GivenTo(M, csv[i]) = GivenTo(For(S), named[i])
  <2>1. GivenTo(For(S), named[i]) = IF named[i] \in S THEN named[i] ELSE None
    BY ForIs
  <2>2. ASSUME NEW g \in M, g.name = csv[i] PROVE g.given = named[i] /\ named[i] \in S
    <3>1. PICK x \in S : g = [name |-> OldName(x), given |-> x]
      BY <1>4
    <3>2. PICK j \in 1 .. n : OldName(x) = csv[j] /\ x = named[j]
      BY <1>5
    <3>3. i = j
      BY <1>6, <2>2, <3>1, <3>2
    <3> QED BY <3>1, <3>2, <3>3
  <2>3. CASE named[i] \in S
    <3>1. PICK g : g = [name |-> OldName(named[i]), given |-> named[i]]
      OBVIOUS
    <3>2. g \in M
      BY <1>4, <2>3, <3>1
    <3>3. PICK j \in 1 .. n : OldName(named[i]) = csv[j] /\ named[i] = named[j]
      BY <1>5, <2>3
    <3>4. g.name = csv[i]
      BY <1>6, <3>1, <3>3
    <3>5. csv[i] \in GivenNames(M)
      BY <3>2, <3>4 DEF GivenNames
    <3>6. PICK h : h = CHOOSE k \in M : k.name = csv[i]
      OBVIOUS
    <3>7. h \in M /\ h.name = csv[i]
      BY <3>2, <3>4, <3>6
    <3>8. GivenTo(M, csv[i]) = h.given
      BY <3>5, <3>6 DEF GivenTo
    <3> QED BY <2>1, <2>2, <2>3, <3>7, <3>8
  <2>4. CASE named[i] \notin S
    <3>1. csv[i] \notin GivenNames(M)
      BY <2>2, <2>4 DEF GivenNames
    <3> QED BY <2>1, <2>4, <3>1 DEF GivenTo
  <2> QED BY <2>3, <2>4
<1> QED BY <1>1, <1>3, <1>4, <1>7, <1>8

-----------------------------------------------------------------------------
(* CsvReads: a request in the names of the header.                         *)

Translated == InFileNames(csv, wish)
AllColumns == InFile(Named, wish)

LEMMA TranslatedFields ==
  ASSUME wish \in Wishes
  PROVE  /\ Translated.index = None /\ Translated.n = wish.n
         /\ Translated.overrides = Moved(wish.overrides)
         /\ Translated.nulls = IF wish.nulls = EveryColumn THEN wish.nulls ELSE Moved(wish.nulls)
         /\ Translated.columns = IF wish.columns = None \/ wish.columns.kind = "places" THEN wish.columns
                                 ELSE [wish.columns EXCEPT !.by = [i \in DOMAIN @ |-> OldName(@[i])]]
<1>1. PICK w, columns, nulls, overrides :
        /\ w = wish
        /\ columns = IF w.columns = None \/ w.columns.kind = "places" THEN w.columns
                     ELSE [w.columns EXCEPT !.by = [i \in DOMAIN @ |-> OldName(@[i])]]
        /\ nulls = IF w.nulls = EveryColumn THEN w.nulls ELSE Moved(w.nulls)
        /\ overrides = Moved(w.overrides)
  OBVIOUS
<1>2. DOMAIN w = {"columns", "names", "overrides", "nulls", "index", "n"}
  BY <1>1, WishFields
<1>3. InFileNamesLoose(csv, w) = [w EXCEPT !.index = None, !.names = <<>>, !.columns = columns, !.nulls = nulls]
  BY <1>1 DEF InFileNamesLoose, Moved, OldName, Named
<1>4. PICK l : l = InFileNamesLoose(csv, w)
  OBVIOUS
<1>5. Translated = [l EXCEPT !.overrides = overrides]
  BY <1>1, <1>4 DEF Translated, InFileNames, Moved, OldName, Named
<1>6. /\ DOMAIN l = DOMAIN w /\ l.index = None /\ l.columns = columns /\ l.nulls = nulls
      /\ l.n = w.n
  BY <1>2, <1>3, <1>4
<1>7. PICK t : t = Translated
  OBVIOUS
<1>8. t.index = None /\ t.columns = columns /\ t.nulls = nulls /\ t.n = w.n /\ t.overrides = overrides
  BY <1>2, <1>5, <1>6, <1>7
<1> QED BY <1>1, <1>7, <1>8

\* What a request says of names holds of the new ones.
SaysRight ==
  /\ Renames(csv, wish)
  /\ GivenNames(wish.overrides) \subseteq ToSet(Named) /\ NullsNamed(wish) \subseteq ToSet(Named)

LEMMA TranslatedGives ==
  ASSUME csv \in CsvHeaders, wish \in Wishes, SaysRight
  PROVE  /\ NullsNamed(Translated) \subseteq ToSet(csv)
         /\ \A i \in 1 .. Width :
              /\ GivenTo(Translated.overrides, csv[i]) = GivenTo(wish.overrides, Named[i])
              /\ NullsOf(Translated, csv[i]) = NullsOf(wish, Named[i])
<1>1. PICK S \in SUBSET Names : wish.overrides = For(S)
  BY WishFields
<1>2. \A i \in 1 .. Width : GivenTo(Translated.overrides, csv[i]) = GivenTo(wish.overrides, Named[i])
  <2>1. S \subseteq ToSet(Named)
    BY <1>1, ForIs DEF SaysRight
  <2>2. \A i \in 1 .. Width : GivenTo(Moved(For(S)), csv[i]) = GivenTo(For(S), Named[i])
    BY <2>1, MovedIs DEF SaysRight
  <2> QED BY <1>1, <2>2, TranslatedFields
<1>3. PICK t : t = Translated
  OBVIOUS
<1>4. CASE wish.nulls = EveryColumn
  <2>1. t.nulls = EveryColumn
    BY <1>3, <1>4, TranslatedFields
  <2>2. NullsNamed(t) = {} /\ \A i \in 1 .. Width : NullsOf(t, csv[i]) = NullsOf(wish, Named[i])
    BY <1>4, <2>1 DEF NullsNamed, NullsOf
  <2> QED BY <1>2, <1>3, <2>2
<1>5. CASE wish.nulls # EveryColumn
  <2>1. PICK U : wish.nulls = For(U)
    BY WishFields
  <2>2. U \subseteq ToSet(Named)
    BY <1>5, <2>1, ForIs DEF SaysRight, NullsNamed
  <2>3. PICK M : M = Moved(For(U))
    OBVIOUS
  <2>4. /\ M = {[name |-> OldName(x), given |-> x] : x \in U}
        /\ GivenNames(M) \subseteq ToSet(csv)
        /\ \A i \in 1 .. Width : GivenTo(M, csv[i]) = GivenTo(For(U), Named[i])
    BY <2>2, <2>3, MovedIs DEF SaysRight
  <2>5. M # EveryColumn
    <3>1. SUFFICES ASSUME M = EveryColumn PROVE FALSE
      OBVIOUS
    <3>2. EveryColumn = {[name |-> x, given |-> x] : x \in {"every column"}}
      BY DEF EveryColumn, For
    <3>3. ASSUME NEW x \in U PROVE x = "every column"
      <4>1. PICK g : g = [name |-> OldName(x), given |-> x]
        OBVIOUS
      <4>2. g \in M /\ g.given = x
        BY <2>4, <4>1
      <4>3. \A h \in EveryColumn : h.given = "every column"
        <5>1. ASSUME NEW h \in EveryColumn PROVE h.given = "every column"
          <6>1. PICK y \in {"every column"} : h = [name |-> y, given |-> y]
            BY <3>2
          <6> QED BY <6>1
        <5> QED BY <5>1
      <4> QED BY <3>1, <4>2, <4>3
    <3>4. U # {}
      <4>1. [name |-> "every column", given |-> "every column"] \in EveryColumn
        BY <3>2
      <4> QED BY <2>4, <3>1, <4>1
    <3>5. U = {"every column"}
      BY <3>3, <3>4
    <3> QED BY <1>5, <2>1, <3>5 DEF EveryColumn
  <2>6. t.nulls = M
    BY <1>3, <1>5, <2>1, <2>3, TranslatedFields
  <2>7. NullsNamed(t) = GivenNames(M)
    BY <2>5, <2>6 DEF NullsNamed
  <2>8. \A x : NullsOf(t, x) = GivenTo(M, x) /\ NullsOf(wish, x) = GivenTo(For(U), x)
    BY <1>5, <2>1, <2>5, <2>6 DEF NullsOf
  <2> QED BY <1>2, <1>3, <2>4, <2>7, <2>8
<1> QED BY <1>4, <1>5

LEMMA InFileIs ==
  ASSUME NEW n \in Nat, NEW header, IsHeader(header, n), NEW w
  PROVE  /\ InFile(header, w) = [i \in 1 .. n |-> Column(header[i], i, GivenTo(w.overrides, header[i]), NullsOf(w, header[i]))]
         /\ \A i \in 1 .. n : /\ InFile(header, w)[i].name = header[i] /\ InFile(header, w)[i].of = i
                              /\ header[i] \in Names
<1>1. DOMAIN header = 1 .. n
  BY DEF IsHeader
<1>2. InFile(header, w) = [i \in 1 .. n |-> Column(header[i], i, GivenTo(w.overrides, header[i]), NullsOf(w, header[i]))]
  BY <1>1 DEF InFile
<1>3. \A x, p, d, u : Column(x, p, d, u).name = x /\ Column(x, p, d, u).of = p
  BY DEF Column
<1> QED BY <1>2, <1>3 DEF IsHeader

\* A column under its new name.
LEMMA ColumnRenamed ==
  ASSUME csv \in CsvHeaders, wish \in Wishes, SaysRight, NEW i \in 1 .. Width, NEW c,
         c = InFile(csv, Translated)[i]
  PROVE  [c EXCEPT !.name = Named[PlaceOf(csv, @)]] = AllColumns[i]
<1>1. PICK n, named, d, u : /\ n = Width /\ named = Named
                            /\ d = GivenTo(wish.overrides, Named[i]) /\ u = NullsOf(wish, Named[i])
  OBVIOUS
<1>2. n \in Nat /\ IsHeader(csv, n) /\ IsHeader(named, n) /\ i \in 1 .. n
  BY <1>1, HeaderIs, NamedIs DEF SaysRight
<1>3. c = Column(csv[i], i, d, u)
  <2>1. c = Column(csv[i], i, GivenTo(Translated.overrides, csv[i]), NullsOf(Translated, csv[i]))
    <3>1. PICK w : w = Translated
      OBVIOUS
    <3>2. InFile(csv, w)[i] = Column(csv[i], i, GivenTo(w.overrides, csv[i]), NullsOf(w, csv[i]))
      BY <1>2 DEF InFile, IsHeader
    <3> QED BY <3>1, <3>2
  <2> QED BY <1>1, <2>1, TranslatedGives
<1>4. AllColumns[i] = Column(named[i], i, d, u)
  BY <1>1, <1>2, InFileIs DEF AllColumns
<1>5. PlaceOf(csv, csv[i]) = i
  BY <1>2, PlaceIs
<1>6. PICK x, y : x = csv[i] /\ y = named[i]
  OBVIOUS
<1>7. c = [name |-> x, of |-> i, dtype |-> d, nulls |-> u]
  BY <1>3, <1>6 DEF Column
<1>8. c.name = x
  BY <1>7
<1>9. [c EXCEPT !.name = Named[PlaceOf(csv, @)]] = [c EXCEPT !.name = y]
  BY <1>1, <1>5, <1>6, <1>8
<1>10. [c EXCEPT !.name = y] = [name |-> y, of |-> i, dtype |-> d, nulls |-> u]
  BY <1>7
<1> QED BY <1>4, <1>6, <1>9, <1>10 DEF Column

\* Columns of the file, in the file's order.
IsOrder(order, k) == k \in Nat /\ order \in [1 .. k -> 1 .. Width] /\ Climbs(order, k)
These(columns, order, k) == [i \in 1 .. k |-> columns[order[i]]]

LEMMA TheseAre ==
  ASSUME csv \in CsvHeaders, NEW header, IsHeader(header, Width), NEW w, NEW order, NEW k, IsOrder(order, k)
  PROVE  LET cs == These(InFile(header, w), order, k) IN
         /\ DOMAIN cs = 1 .. k /\ Len(cs) = k /\ cs \in Seq({InFile(header, w)[p] : p \in 1 .. Width})
         /\ \A i \in 1 .. k : cs[i] = InFile(header, w)[order[i]] /\ cs[i].name \in Names /\ cs[i].of = order[i]
<1>1. PICK n, cs : n = Width /\ cs = These(InFile(header, w), order, k)
  OBVIOUS
<1>2. n \in Nat /\ IsHeader(header, n)
  BY <1>1, HeaderIs
<1>3. k \in Nat /\ order \in [1 .. k -> 1 .. n]
  BY <1>1 DEF IsOrder
<1>4. cs = [i \in 1 .. k |-> InFile(header, w)[order[i]]]
  BY <1>1 DEF These
<1>5. cs \in [1 .. k -> {InFile(header, w)[p] : p \in 1 .. n}]
  BY <1>3, <1>4
<1>6. ASSUME NEW i \in 1 .. k PROVE cs[i].name \in Names /\ cs[i].of = order[i]
  <2>1. PICK p : p = order[i]
    OBVIOUS
  <2>2. p \in 1 .. n /\ cs[i] = InFile(header, w)[p]
    BY <1>3, <1>4, <2>1
  <2>3. \A j \in 1 .. n : InFile(header, w)[j].name = header[j] /\ InFile(header, w)[j].of = j /\ header[j] \in Names
    BY <1>2, InFileIs
  <2> QED BY <2>1, <2>2, <2>3
<1>7. DOMAIN cs = 1 .. k /\ Len(cs) = k /\ cs \in Seq({InFile(header, w)[p] : p \in 1 .. n})
  <2>1. cs = [i \in 1 .. k |-> cs[i]]
    BY <1>4
  <2> QED BY <1>3, <1>5, <2>1, LenIs
<1> QED BY <1>1, <1>4, <1>6, <1>7

-----------------------------------------------------------------------------
(* CsvReads: what the readers and the library give.                        *)

\* The places a request picks are there, and its row index has a free name.
PicksRight == wish.columns # None => ToSet(Picked(Named, wish.columns)) \subseteq 1 .. Width
IndexIsFree == wish.index # None => ~Contains(Named, wish.index.name)
OrderOf == IF wish.columns = None THEN Count(Width) ELSE InOrder(Picked(Named, wish.columns))
PlacesOf == IF wish.columns = None THEN 1 .. Width ELSE ToSet(Picked(Named, wish.columns))

LEMMA PickedIs ==
  ASSUME csv \in CsvHeaders, wish \in Wishes, Renames(csv, wish), wish.columns # None
  PROVE  \E m \in Nat :
           /\ DOMAIN wish.columns.by = 1 .. m /\ IsInjective(wish.columns.by)
           /\ Picked(Named, wish.columns) \in [1 .. m -> Nat]
           /\ \A i \in 1 .. m : Picked(Named, wish.columns)[i] =
                                  IF wish.columns.kind = "names" THEN PlaceOf(Named, wish.columns.by[i])
                                  ELSE wish.columns.by[i] + 1
           /\ wish.columns.kind = "places" => wish.columns.by \in [1 .. m -> Nat]
<1>1. PICK c, named, n, picked : c = wish.columns /\ named = Named /\ n = Width /\ picked = Picked(named, c)
  OBVIOUS
<1>2. n \in Nat /\ IsHeader(named, n)
  BY <1>1, HeaderIs, NamedIs
<1>3. PICK by : by = c.by
  OBVIOUS
<1>4. /\ c.kind \in {"names", "places"}
      /\ c.kind = "names" => by \in Lists(Names, MaxChosen)
      /\ c.kind = "places" => by \in Lists(CsvIndices, MaxChosen)
  BY <1>1, <1>3, WishFields
<1>5. PICK m \in Nat : /\ IsInjective(by) /\ DOMAIN by = 1 .. m
                       /\ c.kind = "places" => by \in [1 .. m -> CsvIndices]
  BY <1>4, ListIs, NamesAssumption
<1>6. picked = [i \in 1 .. m |-> IF c.kind = "names" THEN PlaceOf(named, by[i]) ELSE by[i] + 1]
  BY <1>1, <1>3, <1>5 DEF Picked
<1>7. ASSUME NEW i \in 1 .. m PROVE picked[i] \in Nat
  <2>1. CASE c.kind = "names"
    <3>1. \A x : PlaceOf(named, x) \in 0 .. n
      BY <1>2, PlaceIs
    <3> QED BY <1>2, <1>6, <2>1, <3>1
  <2>2. CASE c.kind = "places"
    <3>1. PICK b \in Nat : b = by[i]
      BY <1>5, <2>2, CsvAssumption
    <3>2. picked[i] = b + 1
      BY <1>6, <2>2, <3>1
    <3> QED BY <3>2
  <2> QED BY <1>4, <2>1, <2>2
<1>8. picked \in [1 .. m -> Nat]
  BY <1>6, <1>7
<1>9. c.kind = "places" => by \in [1 .. m -> Nat]
  BY <1>5, CsvAssumption
<1> QED BY <1>1, <1>3, <1>5, <1>6, <1>8, <1>9

LEMMA OrderIs ==
  ASSUME csv \in CsvHeaders, wish \in Wishes, Renames(csv, wish), PicksRight
  PROVE  \E k : IsOrder(OrderOf, k) /\ ToSet(OrderOf) = PlacesOf
<1>1. PICK n : n = Width
  OBVIOUS
<1>2. n \in Nat
  BY <1>1, HeaderIs
<1>3. CASE wish.columns = None
  <2>1. PICK order : order = Count(n)
    OBVIOUS
  <2>2. OrderOf = order /\ PlacesOf = 1 .. n
    BY <1>1, <1>3, <2>1 DEF OrderOf, PlacesOf
  <2>3. DOMAIN order = 1 .. n /\ \A i \in 1 .. n : order[i] = i
    BY <1>2, <2>1, CountIs
  <2>4. order \in [1 .. n -> 1 .. n]
    BY <2>1, <2>3 DEF Count
  <2>5. Climbs(order, n)
    BY <1>2, <2>3 DEF Climbs
  <2>6. ToSet(order) = 1 .. n
    <3>1. ToSet(order) = {order[i] : i \in 1 .. n}
      BY <2>3 DEF ToSet
    <3> QED BY <2>3, <3>1
  <2> QED BY <1>1, <1>2, <2>2, <2>4, <2>5, <2>6 DEF IsOrder
<1>4. CASE wish.columns # None
  <2>1. PICK picked, by, named : picked = Picked(Named, wish.columns) /\ by = wish.columns.by /\ named = Named
    OBVIOUS
  <2>2. PICK m \in Nat :
          /\ DOMAIN by = 1 .. m /\ IsInjective(by)
          /\ picked \in [1 .. m -> Nat]
          /\ \A i \in 1 .. m : picked[i] = IF wish.columns.kind = "names" THEN PlaceOf(named, by[i]) ELSE by[i] + 1
          /\ wish.columns.kind = "places" => by \in [1 .. m -> Nat]
    BY <1>4, <2>1, PickedIs
  <2>3. ToSet(picked) \subseteq 1 .. n /\ \A i \in 1 .. m : picked[i] \in 1 .. n
    <3>1. ToSet(picked) \subseteq 1 .. n
      BY <1>1, <1>4, <2>1 DEF PicksRight
    <3>2. ToSet(picked) = {picked[i] : i \in 1 .. m}
      BY <2>2 DEF ToSet
    <3> QED BY <3>1, <3>2
  <2>4. ASSUME NEW i \in 1 .. m, NEW j \in 1 .. m, picked[i] = picked[j] PROVE i = j
    <3>1. CASE wish.columns.kind = "names"
      <4>1. \A x : PlaceOf(named, x) # 0 => named[PlaceOf(named, x)] = x
        BY <1>1, <1>2, <2>1, NamedIs, PlaceIs
      <4>2. picked[i] = PlaceOf(named, by[i]) /\ picked[j] = PlaceOf(named, by[j]) /\ picked[i] # 0 /\ picked[j] # 0
        BY <2>2, <2>3, <3>1
      <4>3. by[i] = by[j]
        BY <2>4, <4>1, <4>2
      <4> QED BY <2>2, <4>3 DEF IsInjective
    <3>2. CASE wish.columns.kind # "names"
      <4>1. wish.columns.kind = "places"
        BY <1>4, <3>2, WishFields
      <4>2. by[i] \in Nat /\ by[j] \in Nat /\ by[i] + 1 = by[j] + 1
        BY <2>2, <2>4, <4>1
      <4>3. by[i] = by[j]
        BY <4>2
      <4> QED BY <2>2, <4>3 DEF IsInjective
    <3> QED BY <3>1, <3>2
  <2>5. IsInjective(picked)
    BY <2>2, <2>4 DEF IsInjective
  <2>6. PICK order : order = InOrder(picked)
    OBVIOUS
  <2>7. order \in [1 .. m -> ToSet(picked)] /\ ToSet(order) = ToSet(picked) /\ Climbs(order, m)
    BY <2>2, <2>5, <2>6, InOrderIs
  <2>8. order \in [1 .. m -> 1 .. n]
    BY <2>3, <2>7
  <2>9. OrderOf = order /\ PlacesOf = ToSet(picked)
    BY <1>4, <2>1, <2>6 DEF OrderOf, PlacesOf
  <2> QED BY <1>1, <2>2, <2>7, <2>8, <2>9 DEF IsOrder
<1> QED BY <1>3, <1>4

\* A frame whose columns are the file's never is the one that marks a failure.
LEMMA TheseNeverFail ==
  ASSUME csv \in CsvHeaders, NEW header, IsHeader(header, Width), NEW w, NEW order, NEW k, IsOrder(order, k),
         NEW rows, NEW index
  PROVE  Frame(These(InFile(header, w), order, k), rows, index) # Failed
<1>1. PICK n, cs : n = Width /\ cs = These(InFile(header, w), order, k)
  OBVIOUS
<1>2. n \in Nat
  BY <1>1, HeaderIs
<1>3. \A i \in DOMAIN cs : cs[i].name \in Names
  BY <1>1, TheseAre
<1> QED BY <1>1, <1>3, FrameFields

LEMMA NewNamesAre ==
  ASSUME csv \in CsvHeaders, wish \in Wishes, SaysRight, NEW order, NEW k, IsOrder(order, k), NEW rows
  PROVE  NewNames(csv, wish, Frame(These(InFile(csv, Translated), order, k), rows, <<>>)) =
           Frame(These(AllColumns, order, k), rows, <<>>)
<1>1. PICK cs, read : /\ cs = These(InFile(csv, Translated), order, k)
                      /\ read = Frame(cs, rows, <<>>)
  OBVIOUS
<1>2. DOMAIN cs = 1 .. k /\ \A i \in 1 .. k : cs[i] = InFile(csv, Translated)[order[i]]
  BY <1>1 DEF These
<1>3. order \in [1 .. k -> 1 .. Width]
  BY DEF IsOrder
<1>4. ASSUME NEW i \in 1 .. k
      PROVE  [cs[i] EXCEPT !.name = Named[PlaceOf(csv, @)]] = AllColumns[order[i]]
  <2>1. PICK p, c : p = order[i] /\ c = cs[i]
    OBVIOUS
  <2>2. p \in 1 .. Width /\ c = InFile(csv, Translated)[p]
    BY <1>2, <1>3, <2>1
  <2>3. [c EXCEPT !.name = Named[PlaceOf(csv, @)]] = AllColumns[p]
    BY <2>2, ColumnRenamed
  <2> QED BY <2>1, <2>3
<1>5. PICK new : new = [i \in DOMAIN cs |-> [cs[i] EXCEPT !.name = Named[PlaceOf(csv, @)]]]
  OBVIOUS
<1>6. new = These(AllColumns, order, k)
  BY <1>2, <1>4, <1>5 DEF These
<1>7. read = [columns |-> cs, rows |-> rows, index |-> <<>>] /\ read.columns = cs
  BY <1>1 DEF Frame
<1>8. NewNames(csv, wish, read) = [read EXCEPT !.columns = new]
  BY <1>5, <1>7 DEF NewNames, Named
<1>9. [read EXCEPT !.columns = new] = Frame(new, rows, <<>>)
  BY <1>7 DEF Frame
<1> QED BY <1>1, <1>6, <1>8, <1>9

LEMMA WithRowIndexIs ==
  ASSUME NEW columns, NEW rows
  PROVE  WithRowIndex(wish, Frame(columns, rows, <<>>)) =
           Frame(CsvIndex(wish) \o columns, rows, ZeroBased(wish, rows))
<1>1. PICK read : read = Frame(columns, rows, <<>>)
  OBVIOUS
<1>2. read = [columns |-> columns, rows |-> rows, index |-> <<>>] /\ read.columns = columns /\ read.rows = rows
  BY <1>1 DEF Frame
<1>3. PICK cs, index : cs = CsvIndex(wish) \o columns /\ index = ZeroBased(wish, rows)
  OBVIOUS
<1>4. WithRowIndex(wish, read) = [read EXCEPT !.columns = cs, !.index = index]
  BY <1>2, <1>3 DEF WithRowIndex
<1>5. [read EXCEPT !.columns = cs, !.index = index] = Frame(cs, rows, index)
  <2>1. PICK f : f = [read EXCEPT !.columns = cs, !.index = index]
    OBVIOUS
  <2>2. DOMAIN f = DOMAIN read /\ DOMAIN read = {"columns", "rows", "index"}
    BY <1>2, <2>1
  <2>3. f.columns = cs /\ f.rows = rows /\ f.index = index
    BY <1>2, <2>1, <2>2
  <2>4. f = [field \in {"columns", "rows", "index"} |-> f[field]]
    BY <2>1, <2>2
  <2>5. f = [columns |-> cs, rows |-> rows, index |-> index]
    BY <2>3, <2>4
  <2> QED BY <2>1, <2>5 DEF Frame
<1> QED BY <1>1, <1>3, <1>4, <1>5


\* A request that can be read, and what it is read as.
Sensible == SaysRight /\ PicksRight /\ IndexIsFree
Size == Len(OrderOf)
Rows == CsvRows(wish)
Target == Frame(CsvIndex(wish) \o These(AllColumns, OrderOf, Size), Rows, ZeroBased(wish, Rows))

LEMMA SizeIs ==
  ASSUME csv \in CsvHeaders, wish \in Wishes, Renames(csv, wish), PicksRight
  PROVE  IsOrder(OrderOf, Size) /\ ToSet(OrderOf) = PlacesOf
<1>1. PICK k, order : order = OrderOf /\ IsOrder(order, k) /\ ToSet(order) = PlacesOf
  BY OrderIs
<1>2. k \in Nat /\ order = [i \in 1 .. k |-> order[i]]
  BY <1>1 DEF IsOrder
<1>3. Len(order) = k
  BY <1>2, LenIs
<1> QED BY <1>1, <1>3 DEF Size

\* Columns picked by name are at the same places of the header.
LEMMA PickedMoves ==
  ASSUME csv \in CsvHeaders, wish \in Wishes, Renames(csv, wish), wish.columns # None,
         wish.columns.kind = "names" => ToSet(wish.columns.by) \subseteq ToSet(Named)
  PROVE  Translated.columns # None /\ Picked(csv, Translated.columns) = Picked(Named, wish.columns)
<1>1. PICK c, t, n, named : c = wish.columns /\ t = Translated.columns /\ n = Width /\ named = Named
  OBVIOUS
<1>2. n \in Nat /\ IsHeader(csv, n) /\ IsHeader(named, n)
  BY <1>1, HeaderIs, NamedIs
<1>3. c.kind \in {"names", "places"} /\ DOMAIN c = {"kind", "by"} /\ c # None
  BY <1>1, WishFields
<1>4. CASE c.kind = "places"
  <2>1. t = c
    BY <1>1, <1>4, TranslatedFields
  <2>2. \A header : Picked(header, c) = [i \in DOMAIN c.by |-> c.by[i] + 1]
    BY <1>4 DEF Picked
  <2> QED BY <1>1, <1>3, <2>1, <2>2
<1>5. CASE c.kind = "names"
  <2>1. PICK by, m, old : /\ by = c.by /\ m \in Nat /\ DOMAIN by = 1 .. m
                          /\ old = [i \in 1 .. m |-> OldName(by[i])]
    <3>1. PICK m \in Nat : DOMAIN wish.columns.by = 1 .. m
      BY PickedIs
    <3> QED BY <1>1, <3>1
  <2>2. t = [c EXCEPT !.by = old]
    <3>1. t = [c EXCEPT !.by = [i \in DOMAIN c.by |-> OldName(c.by[i])]]
      BY <1>1, <1>3, <1>5, TranslatedFields
    <3> QED BY <2>1, <3>1
  <2>3. t = [kind |-> "names", by |-> old]
    <3>1. DOMAIN t = {"kind", "by"} /\ t.kind = "names" /\ t.by = old
      BY <1>3, <1>5, <2>2
    <3> QED BY <1>3, <2>2, <3>1
  <2>4. ASSUME NEW i \in 1 .. m
        PROVE  old[i] \in Names /\ PlaceOf(csv, old[i]) = PlaceOf(named, by[i])
    <3>1. PICK x : x = by[i]
      OBVIOUS
    <3>2. x \in ToSet(named)
      BY <1>1, <1>5, <2>1, <3>1 DEF ToSet
    <3>3. PICK p : p = PlaceOf(named, x)
      OBVIOUS
    <3>4. p \in 1 .. n
      BY <1>2, <3>2, <3>3, PlaceIs
    <3>5. old[i] = csv[p]
      BY <1>1, <2>1, <3>1, <3>3 DEF OldName
    <3>6. PlaceOf(csv, csv[p]) = p
      BY <1>2, <3>4, PlaceIs
    <3>7. csv[p] \in Names
      BY <1>2, <3>4 DEF IsHeader
    <3> QED BY <3>1, <3>3, <3>5, <3>6, <3>7
  <2>5. t # None
    <3>1. old \in [1 .. m -> Names]
      BY <2>1, <2>4
    <3>2. old \in Seq(Names)
      BY <2>1, <3>1
    <3> QED BY <2>3, <3>2, CsvAssumption
  <2>6. Picked(csv, t) = [i \in 1 .. m |-> PlaceOf(csv, old[i])]
    <3>1. t.kind = "names" /\ t.by = old /\ DOMAIN old = 1 .. m
      BY <2>1, <2>3
    <3> QED BY <3>1 DEF Picked
  <2>7. Picked(named, c) = [i \in 1 .. m |-> PlaceOf(named, by[i])]
    BY <1>5, <2>1 DEF Picked
  <2>8. Picked(csv, t) = Picked(named, c)
    BY <2>4, <2>6, <2>7
  <2> QED BY <1>1, <2>5, <2>8
<1> QED BY <1>3, <1>4, <1>5

\* What `Renaming::new` and `in_file_names` let by.
LEMMA TranslatesIs ==
  ASSUME csv \in CsvHeaders, wish \in Wishes
  PROVE  /\ Sensible <=> Translates(csv, wish) /\ PicksRight
         /\ Translates(csv, wish) => /\ SaysRight /\ IndexIsFree
                                     /\ wish.columns # None /\ wish.columns.kind = "names" =>
                                          ToSet(wish.columns.by) \subseteq ToSet(Named)
<1>1. Translates(csv, wish) <=>
        /\ SaysRight /\ IndexIsFree
        /\ wish.columns # None /\ wish.columns.kind = "names" =>
             ToSet(wish.columns.by) \subseteq ToSet(Named)
  BY DEF Translates, SaysRight, IndexIsFree, Named, OverridesInFile, FreeRowIndex
<1>2. ASSUME Renames(csv, wish), PicksRight, wish.columns # None, wish.columns.kind = "names"
      PROVE  ToSet(wish.columns.by) \subseteq ToSet(Named)
  <2>1. PICK by, n, named, picked : /\ by = wish.columns.by /\ n = Width /\ named = Named
                                    /\ picked = Picked(Named, wish.columns)
    OBVIOUS
  <2>2. PICK m \in Nat : /\ DOMAIN by = 1 .. m /\ picked \in [1 .. m -> Nat]
                         /\ \A i \in 1 .. m : picked[i] = PlaceOf(named, by[i])
    BY <1>2, <2>1, PickedIs
  <2>3. ASSUME NEW i \in 1 .. m PROVE by[i] \in ToSet(named)
    <3>1. picked[i] \in ToSet(picked)
      BY <2>2 DEF ToSet
    <3>2. picked[i] \in 1 .. n
      BY <1>2, <2>1, <3>1 DEF PicksRight
    <3>3. PlaceOf(named, by[i]) # 0
      BY <2>1, <2>2, <3>2, HeaderIs
    <3>4. IsHeader(named, n) /\ n \in Nat
      BY <1>2, <2>1, HeaderIs, NamedIs
    <3> QED BY <3>3, <3>4, PlaceIs
  <2>4. ToSet(by) = {by[i] : i \in 1 .. m}
    BY <2>2 DEF ToSet
  <2> QED BY <2>1, <2>3, <2>4
<1> QED BY <1>1, <1>2 DEF Sensible, SaysRight

\* A request of the header's names that asks for the rows and columns of `wish`.
AsksForThese(w) ==
  /\ NullsNamed(w) \subseteq ToSet(csv) /\ w.n = wish.n
  /\ wish.columns = None <=> w.columns = None
  /\ wish.columns # None => Picked(csv, w.columns) = Picked(Named, wish.columns)

LEMMA EagerReaderIs ==
  ASSUME csv \in CsvHeaders, wish \in Wishes, Renames(csv, wish), NEW w, AsksForThese(w)
  PROVE  EagerReader(csv, w) =
           IF PicksRight
           THEN Frame(CsvIndex(w) \o These(InFile(csv, w), OrderOf, Size), Rows, ZeroBased(w, Rows))
           ELSE Failed
<1>1. PICK places : places = IF w.columns = None THEN Count(Len(csv)) ELSE InOrder(Picked(csv, w.columns))
  OBVIOUS
<1>2. places = OrderOf
  BY <1>1 DEF OrderOf, AsksForThese, Width
<1>3. DOMAIN csv = 1 .. Width
  BY HeaderIs
<1>4. (w.columns # None /\ ~(ToSet(Picked(csv, w.columns)) \subseteq DOMAIN csv)) <=> ~PicksRight
  BY <1>3 DEF AsksForThese, PicksRight
<1>5. CsvRows(w) = Rows
  BY DEF AsksForThese, CsvRows, Rows
<1>6. EagerReader(csv, w) =
        IF ~PicksRight THEN Failed
        ELSE Frame(CsvIndex(w) \o [i \in DOMAIN places |-> InFile(csv, w)[places[i]]],
                   Rows, ZeroBased(w, Rows))
  <2>1. EagerReader(csv, w) =
          IF \/ w.columns # None /\ ~(ToSet(Picked(csv, w.columns)) \subseteq DOMAIN csv)
             \/ ~(NullsNamed(w) \subseteq ToSet(csv))
          THEN Failed
          ELSE Frame(CsvIndex(w) \o [i \in DOMAIN places |-> InFile(csv, w)[places[i]]],
                     CsvRows(w), ZeroBased(w, CsvRows(w)))
    BY <1>1, Zenon DEF EagerReader
  <2> QED BY <1>4, <1>5, <2>1 DEF AsksForThese
<1>7. ASSUME PicksRight
      PROVE  [i \in DOMAIN places |-> InFile(csv, w)[places[i]]] = These(InFile(csv, w), OrderOf, Size)
  <2>1. PICK k : k = Size /\ IsOrder(places, k)
    BY <1>2, <1>7, SizeIs
  <2>2. DOMAIN places = 1 .. k
    BY <2>1 DEF IsOrder
  <2> QED BY <1>2, <2>1, <2>2 DEF These
<1> QED BY <1>6, <1>7

\* The lazy reader gives every column.
LEMMA LazyReaderIs ==
  ASSUME csv \in CsvHeaders, NEW w, NullsNamed(w) \subseteq ToSet(csv), w.n = wish.n,
         w.index # None => ~Contains(csv, w.index.name)
  PROVE  LazyReader(csv, w) = Frame(CsvIndex(w) \o InFile(csv, w), Rows, ZeroBased(w, Rows))
<1>1. CsvRows(w) = Rows
  BY DEF CsvRows, Rows
<1> QED BY <1>1 DEF LazyReader

\* All of the columns, in the file's order.
LEMMA AllOfThem ==
  ASSUME csv \in CsvHeaders, NEW header, IsHeader(header, Width), NEW w
  PROVE  /\ InFile(header, w) = These(InFile(header, w), Count(Width), Width)
         /\ IsOrder(Count(Width), Width)
<1>1. PICK n : n = Width
  OBVIOUS
<1>2. n \in Nat
  BY <1>1, HeaderIs
<1>3. \A i \in 1 .. n : Count(n)[i] = i
  BY <1>2, CountIs
<1>4. DOMAIN header = 1 .. n
  BY <1>1 DEF IsHeader
<1>5. InFile(header, w) = [i \in 1 .. n |-> InFile(header, w)[i]]
  BY <1>4 DEF InFile
<1>6. These(InFile(header, w), Count(n), n) = [i \in 1 .. n |-> InFile(header, w)[i]]
  BY <1>3 DEF These
<1>7. IsOrder(Count(n), n)
  <2>1. Count(n) \in [1 .. n -> 1 .. n]
    BY DEF Count
  <2>2. Climbs(Count(n), n)
    BY <1>3 DEF Climbs
  <2> QED BY <1>1, <1>2, <2>1, <2>2 DEF IsOrder
<1> QED BY <1>1, <1>5, <1>6, <1>7

LEMMA NothingBefore ==
  ASSUME NEW w, w.index = None, NEW S, NEW cs \in Seq(S)
  PROVE  CsvIndex(w) \o cs = cs
<1>1. CsvIndex(w) = <<>>
  BY DEF CsvIndex
<1> QED BY <1>1

\* An eager read: `eager_renamed` and `eager_plain`.
LEMMA EagerRenamedIs ==
  ASSUME csv \in CsvHeaders, wish \in Wishes
  PROVE  EagerRenamed(csv, wish) = IF Sensible THEN OffsetRows(wish, Target) ELSE Failed
<1>1. CASE ~Translates(csv, wish)
  <2>1. ~Sensible
    BY <1>1, TranslatesIs
  <2> QED BY <1>1, <2>1 DEF EagerRenamed
<1>2. CASE Translates(csv, wish)
  <2>1. /\ SaysRight /\ IndexIsFree /\ Renames(csv, wish)
        /\ wish.columns # None /\ wish.columns.kind = "names" =>
             ToSet(wish.columns.by) \subseteq ToSet(Named)
    BY <1>2, TranslatesIs DEF SaysRight
  <2>2. PICK w : w = Translated
    OBVIOUS
  <2>3. w.index = None /\ w.n = wish.n /\ NullsNamed(w) \subseteq ToSet(csv)
    BY <2>1, <2>2, TranslatedFields, TranslatedGives
  <2>4. AsksForThese(w)
    <3>1. CASE wish.columns = None
      <4>1. w.columns = None
        BY <2>2, <3>1, TranslatedFields
      <4> QED BY <2>3, <3>1, <4>1 DEF AsksForThese
    <3>2. CASE wish.columns # None
      BY <2>1, <2>2, <2>3, <3>2, PickedMoves DEF AsksForThese
    <3> QED BY <3>1, <3>2
  <2>5. EagerReader(csv, w) =
          IF PicksRight
          THEN Frame(CsvIndex(w) \o These(InFile(csv, w), OrderOf, Size), Rows, ZeroBased(w, Rows))
          ELSE Failed
    BY <2>1, <2>4, EagerReaderIs
  <2>6. \A read : OffsetRows(w, read) = read
    BY <2>3 DEF OffsetRows
  <2>7. EagerPlain(csv, w) = EagerReader(csv, w)
    BY <2>6 DEF EagerPlain
  <2>8. EagerRenamed(csv, wish) =
          IF EagerReader(csv, w) = Failed THEN Failed
          ELSE OffsetRows(wish, WithRowIndex(wish, NewNames(csv, wish, EagerReader(csv, w))))
    BY <1>2, <2>2, <2>7 DEF EagerRenamed, Translated
  <2>9. CASE ~PicksRight
    BY <2>5, <2>8, <2>9 DEF Sensible
  <2>10. CASE PicksRight
    <3>1. IsOrder(OrderOf, Size) /\ IsHeader(csv, Width)
      BY <2>1, <2>10, SizeIs, HeaderIs
    <3>2. PICK cs : cs = These(InFile(csv, w), OrderOf, Size)
      OBVIOUS
    <3>3. cs \in Seq({InFile(csv, w)[p] : p \in 1 .. Width})
      BY <3>1, <3>2, TheseAre
    <3>4. CsvIndex(w) \o cs = cs
      BY <2>3, <3>3, NothingBefore
    <3>5. EagerReader(csv, w) = Frame(cs, Rows, <<>>)
      BY <2>3, <2>5, <2>10, <3>2, <3>4 DEF ZeroBased
    <3>6. Frame(cs, Rows, <<>>) # Failed
      BY <3>1, <3>2, TheseNeverFail
    <3>7. NewNames(csv, wish, Frame(cs, Rows, <<>>)) = Frame(These(AllColumns, OrderOf, Size), Rows, <<>>)
      BY <2>1, <2>2, <3>1, <3>2, NewNamesAre
    <3>8. WithRowIndex(wish, Frame(These(AllColumns, OrderOf, Size), Rows, <<>>)) = Target
      BY WithRowIndexIs DEF Target
    <3>9. Sensible
      BY <2>1, <2>10 DEF Sensible
    <3> QED BY <2>8, <3>5, <3>6, <3>7, <3>8, <3>9
  <2> QED BY <2>9, <2>10
<1> QED BY <1>1, <1>2

\* What is read without new names.
LEMMA PlainlyTold ==
  ASSUME csv \in CsvHeaders, wish \in Wishes, wish.names = <<>>
  PROVE  /\ Sensible <=> /\ OverridesInFile(csv, wish) /\ FreeRowIndex(csv, wish)
                         /\ NullsNamed(wish) \subseteq ToSet(csv) /\ PicksRight
         /\ Named = csv /\ Renames(csv, wish) /\ AllColumns = InFile(csv, wish)
<1>1. Named = csv /\ Renames(csv, wish)
  BY PlainlyNamed
<1> QED BY <1>1 DEF Sensible, SaysRight, IndexIsFree, OverridesInFile, FreeRowIndex, AllColumns

LEMMA EagerPlainIs ==
  ASSUME csv \in CsvHeaders, wish \in Wishes, wish.names = <<>>
  PROVE  EagerRead(csv, wish) = IF Sensible THEN OffsetRows(wish, Target) ELSE Failed
<1>1. /\ Named = csv /\ Renames(csv, wish) /\ AllColumns = InFile(csv, wish)
      /\ Sensible <=> /\ OverridesInFile(csv, wish) /\ FreeRowIndex(csv, wish)
                      /\ NullsNamed(wish) \subseteq ToSet(csv) /\ PicksRight
  BY PlainlyTold
<1>2. wish.overrides = {} /\ wish.index = None => OverridesInFile(csv, wish) /\ FreeRowIndex(csv, wish)
  BY DEF OverridesInFile, FreeRowIndex, GivenNames
<1>3. EagerRead(csv, wish) =
        IF ~(OverridesInFile(csv, wish) /\ FreeRowIndex(csv, wish)) THEN Failed ELSE EagerPlain(csv, wish)
  BY <1>2 DEF EagerRead
<1>4. EagerPlain(csv, wish) = OffsetRows(wish, EagerReader(csv, wish))
  BY FailedStays DEF EagerPlain
<1>5. CASE ~(NullsNamed(wish) \subseteq ToSet(csv))
  <2>1. EagerReader(csv, wish) = Failed
    BY <1>5, Zenon DEF EagerReader
  <2> QED BY <1>1, <1>3, <1>4, <1>5, <2>1, FailedStays
<1>6. CASE NullsNamed(wish) \subseteq ToSet(csv)
  <2>1. AsksForThese(wish)
    BY <1>1, <1>6 DEF AsksForThese
  <2>2. EagerReader(csv, wish) = IF PicksRight THEN Target ELSE Failed
    BY <1>1, <2>1, EagerReaderIs DEF Target
  <2> QED BY <1>1, <1>3, <1>4, <1>6, <2>2, FailedStays
<1> QED BY <1>5, <1>6

LEMMA EagerIs ==
  ASSUME csv \in CsvHeaders, wish \in Wishes
  PROVE  EagerRead(csv, wish) = IF Sensible THEN OffsetRows(wish, Target) ELSE Failed
<1>1. CASE wish.names # <<>>
  BY <1>1, EagerRenamedIs DEF EagerRead
<1>2. CASE wish.names = <<>>
  BY <1>2, EagerPlainIs
<1> QED BY <1>1, <1>2

\* A scan before columns are chosen: the whole file, or a failure.
Told == SaysRight /\ IndexIsFree
WholeFile == Frame(CsvIndex(wish) \o AllColumns, Rows, ZeroBased(wish, Rows))

LEMMA WholeFileIs ==
  ASSUME csv \in CsvHeaders, wish \in Wishes, Renames(csv, wish)
  PROVE  /\ AllColumns = These(AllColumns, Count(Width), Width)
         /\ AllColumns \in Seq({AllColumns[p] : p \in 1 .. Width}) /\ Len(AllColumns) = Width
         /\ ColumnNames(AllColumns) = Named
         /\ \A i \in 1 .. Width : AllColumns[i].name = Named[i] /\ AllColumns[i].of = i /\ Named[i] \in Names
<1>1. PICK n, named, all : n = Width /\ named = Named /\ all = AllColumns
  OBVIOUS
<1>2. n \in Nat /\ IsHeader(named, n)
  BY <1>1, HeaderIs, NamedIs
<1>3. all = InFile(named, wish)
  BY <1>1 DEF AllColumns
<1>4. /\ all = [i \in 1 .. n |-> Column(named[i], i, GivenTo(wish.overrides, named[i]), NullsOf(wish, named[i]))]
      /\ \A i \in 1 .. n : all[i].name = named[i] /\ all[i].of = i /\ named[i] \in Names
  BY <1>2, <1>3, InFileIs
<1>5. all \in [1 .. n -> {all[p] : p \in 1 .. n}]
  <2>1. all = [i \in 1 .. n |-> all[i]]
    BY <1>4
  <2> QED BY <2>1
<1>6. all \in Seq({all[p] : p \in 1 .. n}) /\ Len(all) = n
  BY <1>2, <1>5
<1>7. ColumnNames(all) = named
  <2>1. ColumnNames(all) = [i \in 1 .. n |-> named[i]]
    BY <1>4, <1>5 DEF ColumnNames
  <2> QED BY <1>2, <2>1 DEF IsHeader
<1>8. all = These(all, Count(n), n)
  BY <1>1, <1>2, <1>3, AllOfThem
<1>9. AllColumns \in Seq({AllColumns[p] : p \in 1 .. Width})
  BY <1>1, <1>6, Zenon
<1>10. \A i \in 1 .. Width : AllColumns[i].name = Named[i] /\ AllColumns[i].of = i /\ Named[i] \in Names
  BY <1>1, <1>4, Zenon
<1> QED BY <1>1, <1>6, <1>7, <1>8, <1>9, <1>10, Zenon

LEMMA RenamedScanIs ==
  ASSUME csv \in CsvHeaders, wish \in Wishes, Translates(csv, wish)
  PROVE  RenamedScan(csv, wish) = WholeFile
<1>1. SaysRight /\ Renames(csv, wish)
  BY TranslatesIs DEF SaysRight
<1>2. PICK t, w : t = Translated /\ w = [t EXCEPT !.columns = None]
  OBVIOUS
<1>3. /\ t.index = None /\ t.n = wish.n /\ t.overrides = Moved(wish.overrides)
      /\ NullsNamed(t) \subseteq ToSet(csv)
  BY <1>1, <1>2, TranslatedFields, TranslatedGives
<1>4. DOMAIN t = {"columns", "names", "overrides", "nulls", "index", "n"}
  BY <1>2, WishFields DEF Translated, InFileNames, InFileNamesLoose
<1>5. w.index = None /\ w.n = wish.n /\ w.overrides = t.overrides /\ w.nulls = t.nulls
  BY <1>2, <1>3, <1>4
<1>6. NullsNamed(w) \subseteq ToSet(csv) /\ InFile(csv, w) = InFile(csv, t)
  BY <1>3, <1>5 DEF NullsNamed, InFile, NullsOf
<1>7. LazyReader(csv, w) = Frame(CsvIndex(w) \o InFile(csv, w), Rows, ZeroBased(w, Rows))
  BY <1>5, <1>6, LazyReaderIs
<1>8. PICK cs : cs = These(InFile(csv, Translated), Count(Width), Width)
  OBVIOUS
<1>9. InFile(csv, w) = cs /\ IsOrder(Count(Width), Width) /\ IsHeader(csv, Width)
  BY <1>2, <1>6, <1>8, HeaderIs, AllOfThem
<1>10. cs \in Seq({InFile(csv, Translated)[p] : p \in 1 .. Width})
  BY <1>8, <1>9, TheseAre
<1>11. LazyReader(csv, w) = Frame(cs, Rows, <<>>)
  <2>1. CsvIndex(w) \o cs = cs
    BY <1>5, <1>10, NothingBefore
  <2> QED BY <1>5, <1>7, <1>9, <2>1 DEF ZeroBased
<1>12. Frame(cs, Rows, <<>>) # Failed
  BY <1>8, <1>9, TheseNeverFail
<1>13. NewNames(csv, wish, Frame(cs, Rows, <<>>)) = Frame(AllColumns, Rows, <<>>)
  BY <1>1, <1>8, <1>9, NewNamesAre, WholeFileIs
<1>14. RenamedScan(csv, wish) = WithRowIndex(wish, NewNames(csv, wish, LazyReader(csv, w)))
  <2>1. LazyReader(csv, [InFileNames(csv, wish) EXCEPT !.columns = None]) # Failed
    BY <1>2, <1>11, <1>12 DEF Translated
  <2> QED BY <1>2, <2>1 DEF RenamedScan, Translated
<1>15. WithRowIndex(wish, Frame(AllColumns, Rows, <<>>)) = WholeFile
  BY WithRowIndexIs DEF WholeFile
<1> QED BY <1>11, <1>13, <1>14, <1>15

\* The columns without the row index before them.
LEMMA WithoutIndex ==
  ASSUME NEW S, NEW c \in S, NEW cs \in Seq(S), NEW x, c.name = x, \A i \in 1 .. Len(cs) : cs[i].name # x
  PROVE  Without(x, <<c>> \o cs) = cs
<1>1. PICK n, all, header : n = Len(cs) /\ all = <<c>> \o cs /\ header = ColumnNames(all)
  OBVIOUS
<1>2. /\ n \in Nat /\ DOMAIN cs = 1 .. n
      /\ all \in Seq(S) /\ Len(all) = n + 1 /\ all[1] = c
      /\ \A i \in 2 .. n + 1 : all[i] = cs[i - 1]
  BY <1>1
<1>3. DOMAIN all = 1 .. n + 1 /\ DOMAIN header = 1 .. n + 1 /\ \A i \in 1 .. n + 1 : header[i] = all[i].name
  BY <1>1, <1>2 DEF ColumnNames
<1>4. header[1] = x
  BY <1>2, <1>3
<1>5. \A i \in 1 .. n + 1 : i # 1 => header[i] # x
  <2>1. ASSUME NEW i \in 1 .. n + 1, i # 1 PROVE header[i] # x
    <3>1. i - 1 \in 1 .. n /\ i \in 2 .. n + 1
      BY <1>2, <2>1
    <3>2. header[i] = cs[i - 1].name
      BY <1>2, <1>3, <3>1
    <3> QED BY <1>1, <3>1, <3>2
  <2> QED BY <2>1
<1>6. PlaceOf(header, x) = 1
  <2>1. 1 \in 1 .. n + 1
    BY <1>2
  <2>2. Len(header) = n + 1
    <3>1. header = [i \in 1 .. n + 1 |-> header[i]]
      BY <1>1, <1>3 DEF ColumnNames
    <3> QED BY <1>2, <3>1, LenIs
  <2>3. Contains(header, x)
    BY <1>4, <2>1, <2>2 DEF Contains
  <2>4. PlaceOf(header, x) = CHOOSE p \in 1 .. n + 1 : header[p] = x
    BY <1>3, <2>3 DEF PlaceOf
  <2> QED BY <1>4, <1>5, <2>1, <2>4
<1>7. Without(x, all) = RemoveAt(all, 1)
  BY <1>1, <1>6 DEF Without
<1>8. RemoveAt(all, 1) = SubSeq(all, 1, 0) \o SubSeq(all, 2, n + 1)
  BY <1>2 DEF RemoveAt
<1>9. SubSeq(all, 1, 0) = <<>>
  BY <1>2
<1>10. SubSeq(all, 2, n + 1) = cs
  <2>1. PICK r : r = SubSeq(all, 2, n + 1)
    OBVIOUS
  <2>2. r \in Seq(S) /\ Len(r) = n /\ \A i \in 1 .. n : r[i] = all[2 + i - 1]
    <3>1. 2 \in 1 .. Len(all) + 1 /\ n + 1 \in 2 - 1 .. Len(all) /\ (n + 1) - 2 + 1 = n
      BY <1>2
    <3> QED BY <1>2, <2>1, <3>1, SubSeqProperties
  <2>3. ASSUME NEW i \in 1 .. n PROVE r[i] = cs[i]
    <3>1. 2 + i - 1 \in 2 .. n + 1 /\ (2 + i - 1) - 1 = i
      BY <1>2
    <3> QED BY <1>2, <2>2, <3>1
  <2> QED BY <1>1, <2>1, <2>2, <2>3, SeqEqual
<1>11. <<>> \o cs = cs
  OBVIOUS
<1> QED BY <1>1, <1>7, <1>8, <1>9, <1>10, <1>11

\* No column that is read has the name that marks a failure.
LEMMA ReadNeverFails ==
  ASSUME csv \in CsvHeaders, wish \in Wishes, Renames(csv, wish), NEW order, NEW k, IsOrder(order, k),
         NEW index
  PROVE  Frame(CsvIndex(wish) \o These(AllColumns, order, k), Rows, index) # Failed
<1>1. PICK cs, all : cs = These(AllColumns, order, k) /\ all = CsvIndex(wish) \o cs
  OBVIOUS
<1>2. /\ DOMAIN cs = 1 .. k /\ Len(cs) = k /\ cs \in Seq({AllColumns[p] : p \in 1 .. Width})
      /\ \A i \in 1 .. k : cs[i].name \in Names
  <2>1. PICK named, w : named = Named /\ w = wish
    OBVIOUS
  <2>2. IsHeader(named, Width) /\ AllColumns = InFile(named, w)
    BY <2>1, NamedIs DEF AllColumns
  <2>3. PICK them : them = These(InFile(named, w), order, k)
    OBVIOUS
  <2>4. them \in Seq({InFile(named, w)[p] : p \in 1 .. Width})
    BY <2>2, <2>3, TheseAre
  <2>5. DOMAIN them = 1 .. k /\ Len(them) = k
    <3>1. k \in Nat /\ them = [i \in 1 .. k |-> them[i]]
      BY <2>3 DEF These, IsOrder
    <3> QED BY <3>1, LenIs
  <2>6. \A i \in 1 .. k : them[i].name \in Names
    BY <2>2, <2>3, TheseAre
  <2> QED BY <1>1, <2>2, <2>3, <2>4, <2>5, <2>6
<1>3. CASE wish.index = None
  <2>1. all = cs
    BY <1>1, <1>2, <1>3, NothingBefore
  <2> QED BY <1>1, <1>2, <2>1, FrameFields
<1>4. CASE wish.index # None
  <2>1. PICK c : c = Column(wish.index.name, 0, None, None)
    OBVIOUS
  <2>2. c.name \in Names
    BY <1>4, <2>1, WishFields DEF Column
  <2>3. PICK S : S = {c} \cup {AllColumns[p] : p \in 1 .. Width}
    OBVIOUS
  <2>4. c \in S /\ cs \in Seq(S)
    BY <1>2, <2>3
  <2>5. all = <<c>> \o cs
    BY <1>1, <1>4, <2>1 DEF CsvIndex
  <2>6. k \in Nat /\ all \in Seq(S) /\ Len(all) = k + 1 /\ all[1] = c /\ \A i \in 2 .. k + 1 : all[i] = cs[i - 1]
    BY <1>2, <2>4, <2>5 DEF IsOrder
  <2>7. ASSUME NEW i \in DOMAIN all PROVE all[i].name \in Names
    <3>1. i \in 1 .. k + 1
      BY <2>6
    <3>2. CASE i = 1
      BY <2>2, <2>6, <3>2
    <3>3. CASE i # 1
      <4>1. i - 1 \in 1 .. k /\ i \in 2 .. k + 1
        BY <2>6, <3>1, <3>3
      <4> QED BY <1>2, <2>6, <4>1
    <3> QED BY <3>2, <3>3
  <2>8. \A i \in DOMAIN all : all[i].name \in Names
    BY <2>7
  <2>9. Frame(all, Rows, index) # Failed
    BY <2>8, FrameFields
  <2> QED BY <1>1, <2>9
<1> QED BY <1>3, <1>4

\* `select`, of a scan of the whole file.
LEMMA CsvSelectIs ==
  ASSUME csv \in CsvHeaders, wish \in Wishes, Told
  PROVE  CsvSelect(wish, WholeFile) = IF PicksRight THEN Target ELSE Failed
<1>1. Renames(csv, wish) /\ IndexIsFree /\ IsHeader(Named, Width) /\ Width \in Nat
  BY NamedIs, HeaderIs DEF Told, SaysRight
<1>2. /\ AllColumns = These(AllColumns, Count(Width), Width)
      /\ AllColumns \in Seq({AllColumns[p] : p \in 1 .. Width}) /\ Len(AllColumns) = Width
      /\ ColumnNames(AllColumns) = Named
      /\ \A i \in 1 .. Width : AllColumns[i].name = Named[i]
  BY <1>1, WholeFileIs
<1>3. WholeFile # Failed
  <2>1. IsOrder(Count(Width), Width)
    BY <1>1, AllOfThem
  <2> QED BY <1>1, <1>2, <2>1, ReadNeverFails DEF WholeFile
<1>4. CASE wish.columns = None
  <2>1. PicksRight
    BY <1>4 DEF PicksRight
  <2>2. OrderOf = Count(Width) /\ Size = Width
    BY <1>1, <1>4, CountIs DEF OrderOf, Size
  <2>3. Target = WholeFile
    BY <1>2, <2>2 DEF Target, WholeFile
  <2> QED BY <1>4, <2>1, <2>3 DEF CsvSelect
<1>5. CASE wish.columns # None
  <2>1. WholeFile.columns = CsvIndex(wish) \o AllColumns
    BY DEF WholeFile, Frame
  <2>2. (IF wish.index = None THEN WholeFile.columns ELSE Without(wish.index.name, WholeFile.columns)) = AllColumns
    <3>1. CASE wish.index = None
      BY <1>2, <2>1, <3>1, NothingBefore
    <3>2. CASE wish.index # None
      <4>1. PICK c, x, cs, n : /\ x = wish.index.name /\ c = Column(x, 0, None, None)
                               /\ cs = AllColumns /\ n = Width
        OBVIOUS
      <4>2. c.name = x /\ CsvIndex(wish) = <<c>>
        BY <3>2, <4>1 DEF CsvIndex, Column
      <4>3. PICK S : S = {c} \cup {AllColumns[p] : p \in 1 .. Width}
        OBVIOUS
      <4>4. c \in S /\ cs \in Seq(S) /\ Len(cs) = n
        BY <1>2, <4>1, <4>3
      <4>5. ASSUME NEW i \in 1 .. n PROVE cs[i].name # x
        <5>1. cs[i].name = Named[i]
          BY <1>2, <4>1, <4>5
        <5>2. ~Contains(Named, x)
          BY <1>1, <3>2, <4>1 DEF IndexIsFree
        <5>3. Len(Named) = n /\ n \in Nat
          BY <1>1, <4>1 DEF IsHeader
        <5> QED BY <4>5, <5>1, <5>2, <5>3 DEF Contains
      <4>6. Without(x, <<c>> \o cs) = cs
        BY <4>2, <4>4, <4>5, WithoutIndex
      <4> QED BY <2>1, <3>2, <4>1, <4>2, <4>6
    <3> QED BY <3>1, <3>2
  <2>3. DOMAIN AllColumns = 1 .. Width
    BY <1>2
  <2>4. PICK picked, places : picked = Picked(Named, wish.columns) /\ places = InOrder(picked)
    OBVIOUS
  <2>5. CsvSelect(wish, WholeFile) =
          IF ~(ToSet(picked) \subseteq 1 .. Width) THEN Failed
          ELSE [WholeFile EXCEPT !.columns =
                  CsvIndex(wish) \o [i \in DOMAIN places |-> AllColumns[places[i]]]]
    BY <1>2, <1>3, <1>5, <2>2, <2>3, <2>4 DEF CsvSelect
  <2>6. PicksRight <=> ToSet(picked) \subseteq 1 .. Width
    BY <1>5, <2>4 DEF PicksRight
  <2>7. places = OrderOf
    BY <1>5, <2>4 DEF OrderOf
  <2>8. ASSUME PicksRight
        PROVE  [WholeFile EXCEPT !.columns = CsvIndex(wish) \o [i \in DOMAIN places |-> AllColumns[places[i]]]]
                 = Target
    <3>1. PICK k : k = Size /\ IsOrder(places, k)
      BY <1>1, <2>7, <2>8, SizeIs
    <3>2. DOMAIN places = 1 .. k
      BY <3>1 DEF IsOrder
    <3>3. [i \in DOMAIN places |-> AllColumns[places[i]]] = These(AllColumns, places, k)
      BY <3>2 DEF These
    <3>4. \A cs : [WholeFile EXCEPT !.columns = cs] = Frame(cs, Rows, ZeroBased(wish, Rows))
      BY DEF WholeFile, Frame
    <3> QED BY <2>7, <3>1, <3>3, <3>4 DEF Target
  <2> QED BY <2>5, <2>6, <2>8
<1> QED BY <1>4, <1>5

LEMMA ScanGives ==
  ASSUME csv \in CsvHeaders, wish \in Wishes
  PROVE  CsvScan(csv, wish) = IF Sensible THEN Target ELSE Failed
<1>1. CsvSelect(wish, Failed) = Failed
  BY DEF CsvSelect
<1>2. CASE wish.names # <<>>
  <2>1. CsvScan(csv, wish) = CsvSelect(wish, RenamedScan(csv, wish))
    BY <1>2 DEF CsvScan
  <2>2. CASE ~Translates(csv, wish)
    <3>1. RenamedScan(csv, wish) = Failed
      BY <2>2 DEF RenamedScan
    <3> QED BY <1>1, <2>1, <2>2, <3>1, TranslatesIs
  <2>3. CASE Translates(csv, wish)
    <3>1. Told
      BY <2>3, TranslatesIs DEF Told
    <3>2. CsvScan(csv, wish) = IF PicksRight THEN Target ELSE Failed
      BY <2>1, <2>3, <3>1, RenamedScanIs, CsvSelectIs
    <3> QED BY <2>3, <3>2, TranslatesIs
  <2> QED BY <2>2, <2>3
<1>3. CASE wish.names = <<>>
  <2>1. /\ Sensible <=> /\ OverridesInFile(csv, wish) /\ FreeRowIndex(csv, wish)
                        /\ NullsNamed(wish) \subseteq ToSet(csv) /\ PicksRight
        /\ Named = csv /\ Renames(csv, wish) /\ AllColumns = InFile(csv, wish)
    BY <1>3, PlainlyTold
  <2>2. CsvScan(csv, wish) =
          CsvSelect(wish, IF ~OverridesInFile(csv, wish) THEN Failed ELSE LazyReader(csv, wish))
    BY <1>3 DEF CsvScan
  <2>3. CASE OverridesInFile(csv, wish) /\ FreeRowIndex(csv, wish) /\ NullsNamed(wish) \subseteq ToSet(csv)
    <3>1. Told
      BY <2>1, <2>3 DEF Told, SaysRight, IndexIsFree, OverridesInFile, FreeRowIndex
    <3>2. LazyReader(csv, wish) = WholeFile
      BY <2>1, <2>3, LazyReaderIs DEF WholeFile, FreeRowIndex
    <3> QED BY <2>1, <2>2, <2>3, <3>1, <3>2, CsvSelectIs
  <2>4. CASE OverridesInFile(csv, wish) /\ ~(FreeRowIndex(csv, wish) /\ NullsNamed(wish) \subseteq ToSet(csv))
    <3>1. LazyReader(csv, wish) = Failed
      BY <2>4, Zenon DEF LazyReader, FreeRowIndex
    <3> QED BY <1>1, <2>1, <2>2, <2>4, <3>1
  <2>5. CASE ~OverridesInFile(csv, wish)
    BY <1>1, <2>1, <2>2, <2>5
  <2> QED BY <2>3, <2>4, <2>5
<1> QED BY <1>2, <1>3

-----------------------------------------------------------------------------
(* CsvReads: what is read is what the request means.                       *)

LEMMA RowsIs ==
  ASSUME wish \in Wishes
  PROVE  Rows \in Seq(Nat)
<1>1. PICK rows, n : rows = Count(CsvHeight) /\ n = wish.n
  OBVIOUS
<1>2. rows \in Seq(Nat) /\ CsvHeight \in Nat
  BY <1>1, CountIs, CsvAssumption
<1>3. n # None => n \in Nat
  BY <1>1, WishFields
<1>4. UpTo(n, rows) \in Seq(Nat)
  <2>1. CASE n = None \/ n >= Len(rows)
    BY <1>2, <2>1 DEF UpTo
  <2>2. CASE ~(n = None \/ n >= Len(rows))
    <3>1. n \in Nat /\ n < Len(rows)
      BY <1>2, <1>3, <2>2
    <3>2. \A i \in 1 .. n : rows[i] \in Nat
      BY <1>2, <3>1
    <3>3. SubSeq(rows, 1, n) \in Seq(Nat)
      BY <3>1, <3>2, SubSeqProperties
    <3> QED BY <2>2, <3>3 DEF UpTo
  <2> QED BY <2>1, <2>2
<1> QED BY <1>1, <1>4 DEF Rows, CsvRows

InColumnOrder(columns) == \A i, j \in DOMAIN columns : i < j => columns[i].of < columns[j].of

\* The columns a request means are those that are read, in the file's order.
LEMMA ColumnsAreMeant ==
  ASSUME csv \in CsvHeaders, wish \in Wishes, Sensible, NEW all,
         all = CsvIndex(wish) \o These(AllColumns, OrderOf, Size)
  PROVE  /\ ToSet(all) = ToSet(CsvIndex(wish)) \cup {AllColumns[p] : p \in PlacesOf}
         /\ InColumnOrder(all)
<1>1. PICK cs, order, k, n : /\ cs = These(AllColumns, OrderOf, Size)
                             /\ order = OrderOf /\ k = Size /\ n = Width
  OBVIOUS
<1>2. Renames(csv, wish) /\ PicksRight
  BY DEF Sensible, SaysRight
<1>3. IsOrder(order, k) /\ ToSet(order) = PlacesOf
  BY <1>1, <1>2, SizeIs
<1>4. n \in Nat /\ k \in Nat /\ order \in [1 .. k -> 1 .. n] /\ Climbs(order, k)
  BY <1>1, <1>3, HeaderIs DEF IsOrder
<1>5. cs = [i \in 1 .. k |-> AllColumns[order[i]]]
  BY <1>1 DEF These
<1>6. Len(cs) = k /\ DOMAIN cs = 1 .. k
  <2>1. cs = [i \in 1 .. k |-> cs[i]]
    BY <1>5
  <2> QED BY <1>4, <2>1, LenIs
<1>7. PICK S : S = {AllColumns[p] : p \in 1 .. n}
  OBVIOUS
<1>8. cs \in Seq(S)
  <2>1. \A i \in 1 .. k : cs[i] \in S
    BY <1>4, <1>5, <1>7
  <2>2. cs \in [1 .. k -> S]
    BY <1>5, <2>1
  <2> QED BY <1>4, <2>2
<1>9. ASSUME NEW i \in 1 .. k PROVE cs[i].of = order[i] /\ order[i] \in 1 .. n
  <2>1. order[i] \in 1 .. n
    BY <1>4
  <2>2. AllColumns[order[i]].of = order[i]
    BY <1>1, <1>2, <2>1, WholeFileIs
  <2> QED BY <1>5, <2>1, <2>2
<1>10. ToSet(cs) = {AllColumns[p] : p \in PlacesOf}
  <2>1. PlacesOf = {order[i] : i \in 1 .. k}
    BY <1>3, <1>4 DEF ToSet
  <2>2. ToSet(cs) = {cs[i] : i \in 1 .. k}
    BY <1>6 DEF ToSet
  <2> QED BY <1>5, <2>1, <2>2
<1>11. InColumnOrder(cs)
  <2>1. ASSUME NEW i \in 1 .. k, NEW j \in 1 .. k, i < j PROVE cs[i].of < cs[j].of
    BY <1>4, <1>9, <2>1 DEF Climbs
  <2> QED BY <1>6, <2>1 DEF InColumnOrder
<1>12. CASE wish.index = None
  <2>1. CsvIndex(wish) = <<>> /\ all = cs
    BY <1>1, <1>8, <1>12, NothingBefore DEF CsvIndex
  <2>2. ToSet(<<>>) = {}
    BY DEF ToSet
  <2> QED BY <1>10, <1>11, <2>1, <2>2
<1>13. CASE wish.index # None
  <2>1. PICK c : c = Column(wish.index.name, 0, None, None)
    OBVIOUS
  <2>2. CsvIndex(wish) = <<c>> /\ c.of = 0
    BY <1>13, <2>1 DEF CsvIndex, Column
  <2>3. PICK U : U = S \cup {c}
    OBVIOUS
  <2>4. cs \in Seq(U) /\ c \in U
    BY <1>8, <2>3
  <2>5. all = <<c>> \o cs
    BY <1>1, <2>2
  <2>6. /\ all \in Seq(U) /\ Len(all) = k + 1 /\ DOMAIN all = 1 .. k + 1 /\ all[1] = c
        /\ \A i \in 2 .. k + 1 : all[i] = cs[i - 1]
    BY <1>4, <1>6, <2>4, <2>5
  <2>7. ASSUME NEW i \in 1 .. k + 1, i # 1
        PROVE  i - 1 \in 1 .. k /\ all[i] = cs[i - 1]
    <3>1. i - 1 \in 1 .. k /\ i \in 2 .. k + 1
      BY <1>4, <2>7
    <3> QED BY <2>6, <3>1
  <2>8. ToSet(all) = {c} \cup ToSet(cs)
    <3>1. ToSet(all) = {all[i] : i \in 1 .. k + 1} /\ ToSet(cs) = {cs[i] : i \in 1 .. k}
      BY <1>6, <2>6 DEF ToSet
    <3>2. ASSUME NEW i \in 1 .. k + 1 PROVE all[i] \in {c} \cup ToSet(cs)
      BY <2>6, <2>7, <3>1
    <3>3. 1 \in 1 .. k + 1 /\ c \in ToSet(all)
      BY <1>4, <2>6, <3>1
    <3>4. ASSUME NEW i \in 1 .. k PROVE cs[i] \in ToSet(all)
      <4>1. i + 1 \in 1 .. k + 1 /\ i + 1 # 1 /\ (i + 1) - 1 = i
        BY <1>4
      <4>2. all[i + 1] = cs[i]
        BY <2>7, <4>1
      <4> QED BY <3>1, <4>1, <4>2
    <3> QED BY <3>1, <3>2, <3>3, <3>4
  <2>9. ASSUME NEW i \in 1 .. k + 1, NEW j \in 1 .. k + 1, i < j PROVE all[i].of < all[j].of
    <3>1. j # 1
      BY <1>4, <2>9
    <3>2. j - 1 \in 1 .. k /\ all[j] = cs[j - 1]
      BY <2>7, <3>1
    <3>3. all[j].of \in 1 .. n
      BY <1>9, <3>2
    <3>4. CASE i = 1
      BY <1>4, <2>2, <2>6, <3>3, <3>4
    <3>5. CASE i # 1
      <4>1. i - 1 \in 1 .. k /\ all[i] = cs[i - 1]
        BY <2>7, <3>5
      <4>2. i - 1 < j - 1
        BY <2>9
      <4> QED BY <1>6, <1>11, <3>2, <4>1, <4>2 DEF InColumnOrder
    <3> QED BY <3>4, <3>5
  <2>10. ToSet(<<c>>) = {c}
    BY DEF ToSet
  <2> QED BY <1>10, <2>2, <2>6, <2>8, <2>9, <2>10 DEF InColumnOrder
<1> QED BY <1>12, <1>13

MeantIndex ==
  IF wish.index = None THEN <<>> ELSE [i \in DOMAIN Rows |-> wish.index.offset + i - 1]

\* What is read, once the row index is shifted.
LEMMA ShiftedTarget ==
  ASSUME csv \in CsvHeaders, wish \in Wishes, Sensible
  PROVE  OffsetRows(wish, Target) =
           IF wish.index = None \/ IndexFits(wish, Rows)
           THEN Frame(CsvIndex(wish) \o These(AllColumns, OrderOf, Size), Rows, MeantIndex) ELSE Failed
<1>1. PICK columns, rows : columns = CsvIndex(wish) \o These(AllColumns, OrderOf, Size) /\ rows = Rows
  OBVIOUS
<1>2. rows \in Seq(Nat)
  BY <1>1, RowsIs
<1>3. Target = Frame(columns, rows, ZeroBased(wish, rows))
  BY <1>1 DEF Target
<1>4. CASE wish.index = None
  <2>1. OffsetRows(wish, Target) = Target
    BY <1>4 DEF OffsetRows
  <2>2. ZeroBased(wish, rows) = MeantIndex
    BY <1>4 DEF ZeroBased, MeantIndex
  <2> QED BY <1>1, <1>3, <1>4, <2>1, <2>2
<1>5. CASE wish.index # None
  <2>1. wish.index.offset \in Nat
    BY <1>5, WishFields
  <2>2. OffsetRows(wish, Frame(columns, rows, ZeroBased(wish, rows))) =
          IF IndexFits(wish, rows) THEN Frame(columns, rows, ShiftedIndex(wish, rows)) ELSE Failed
    BY <1>2, <1>5, <2>1, OffsetIs
  <2>3. DOMAIN rows = 1 .. Len(rows)
    BY <1>2
  <2>4. ShiftedIndex(wish, rows) = MeantIndex
    BY <1>1, <1>5, <2>3 DEF ShiftedIndex, MeantIndex
  <2> QED BY <1>1, <1>3, <1>5, <2>2, <2>4
<1> QED BY <1>4, <1>5

LEMMA MeansIs ==
  ASSUME csv \in CsvHeaders, wish \in Wishes
  PROVE  /\ MeansSomething <=> Sensible /\ (wish.index = None \/ IndexFits(wish, Rows))
         /\ \A read : IsMeant(read) <=>
              /\ ToSet(read.columns) = ToSet(CsvIndex(wish)) \cup {AllColumns[p] : p \in PlacesOf}
              /\ InColumnOrder(read.columns) /\ read.rows = Rows /\ read.index = MeantIndex
<1>1. DOMAIN csv = 1 .. Width /\ DOMAIN Named = 1 .. Width
  BY HeaderIs DEF Named, Renamed
<1>2. MeansSomething <=> Sensible /\ (wish.index = None \/ IndexFits(wish, Rows))
  BY <1>1 DEF MeansSomething, Sensible, SaysRight, PicksRight, IndexIsFree, IndexFits, Rows, Named
<1>3. (IF wish.columns = None THEN DOMAIN csv ELSE ToSet(Picked(Renamed(csv, wish), wish.columns))) = PlacesOf
  BY <1>1 DEF PlacesOf, Named
<1>4. InFile(Renamed(csv, wish), wish) = AllColumns
  BY DEF AllColumns, Named
<1>5. (IF wish.index = None THEN <<>>
       ELSE [i \in DOMAIN CsvRows(wish) |-> wish.index.offset + i - 1]) = MeantIndex
  BY DEF MeantIndex, Rows
<1> QED BY <1>2, <1>3, <1>4, <1>5, Zenon DEF IsMeant, InColumnOrder, Rows

\* A read as asked: both of the ways there are to it.
MeansRequest(read) == IF MeansSomething THEN read # Failed /\ IsMeant(read) ELSE read = Failed

LEMMA TargetMeansRequest ==
  ASSUME csv \in CsvHeaders, wish \in Wishes
  PROVE  MeansRequest(IF Sensible THEN OffsetRows(wish, Target) ELSE Failed)
<1>1. CASE ~Sensible
  BY <1>1, MeansIs DEF MeansRequest
<1>2. CASE Sensible /\ ~(wish.index = None \/ IndexFits(wish, Rows))
  <2>1. OffsetRows(wish, Target) = Failed
    BY <1>2, ShiftedTarget
  <2> QED BY <1>2, <2>1, MeansIs DEF MeansRequest
<1>3. CASE Sensible /\ (wish.index = None \/ IndexFits(wish, Rows))
  <2>1. PICK columns, read, rows, index :
          /\ columns = CsvIndex(wish) \o These(AllColumns, OrderOf, Size)
          /\ rows = Rows /\ index = MeantIndex /\ read = Frame(columns, rows, index)
    OBVIOUS
  <2>2. OffsetRows(wish, Target) = read
    BY <1>3, <2>1, ShiftedTarget
  <2>3. read # Failed
    <3>1. Renames(csv, wish) /\ IsOrder(OrderOf, Size)
      BY <1>3, SizeIs DEF Sensible, SaysRight
    <3> QED BY <2>1, <3>1, ReadNeverFails
  <2>4. read.columns = columns /\ read.rows = rows /\ read.index = index
    BY <2>1 DEF Frame
  <2>5. /\ ToSet(columns) = ToSet(CsvIndex(wish)) \cup {AllColumns[p] : p \in PlacesOf}
        /\ InColumnOrder(columns)
    BY <1>3, <2>1, ColumnsAreMeant
  <2>6. IsMeant(read)
    BY <2>1, <2>4, <2>5, MeansIs
  <2> QED BY <1>3, <2>2, <2>3, <2>6, MeansIs DEF MeansRequest
<1> QED BY <1>1, <1>2, <1>3

LEMMA ReadsAreMeant ==
  ASSUME csv \in CsvHeaders, wish \in Wishes
  PROVE  /\ MeansRequest(Collected(wish, CsvScan(csv, wish)))
         /\ \A pattern : MeansRequest(CsvRead(csv, wish, pattern))
<1>1. PICK right : right = (IF Sensible THEN OffsetRows(wish, Target) ELSE Failed)
  OBVIOUS
<1>2. MeansRequest(right)
  BY <1>1, TargetMeansRequest
<1>3. Collected(wish, CsvScan(csv, wish)) = right
  BY <1>1, ScanGives, FailedStays DEF Collected
<1>4. EagerRead(csv, wish) = right
  BY <1>1, EagerIs
<1> QED BY <1>2, <1>3, <1>4 DEF CsvRead

-----------------------------------------------------------------------------
(* CsvReads.  What was read, and the plan of a scan, are what the library  *)
(* computes of the request.                                                *)

CsvIInv ==
  /\ csv \in CsvHeaders /\ how \in {"unread", "eager", "scanned", "collected"}
  /\ how # "unread" => wish \in Wishes
  /\ how \in {"unread", "scanned"} => frame = Failed
  /\ how = "eager" => \E pattern \in BOOLEAN : frame = CsvRead(csv, wish, pattern)
  /\ how \in {"scanned", "collected"} => plan = CsvScan(csv, wish)
  /\ how = "collected" => frame = Collected(wish, plan)

LEMMA CsvStart == CsvInit => CsvIInv
  BY DEF CsvInit, CsvIInv

LEMMA CsvStep == CsvIInv /\ [CsvNext]_csvVars => CsvIInv'
<1> SUFFICES ASSUME CsvIInv, [CsvNext]_csvVars PROVE CsvIInv'
  OBVIOUS
<1>1. CASE ReadCsv
  <2>1. PICK w \in Wishes, pattern \in BOOLEAN : wish' = w /\ frame' = CsvRead(csv, w, pattern)
    BY <1>1 DEF ReadCsv
  <2>2. how' = "eager" /\ csv' = csv
    BY <1>1 DEF ReadCsv
  <2>3. CsvRead(csv, w, pattern) = CsvRead(csv', wish', pattern)
    BY <2>1, <2>2
  <2> QED BY <2>1, <2>2, <2>3 DEF CsvIInv
<1>2. CASE ScanCsv
  <2>1. PICK w \in Wishes : wish' = w /\ plan' = CsvScan(csv, w)
    BY <1>2 DEF ScanCsv
  <2>2. how = "unread" /\ how' = "scanned" /\ csv' = csv /\ frame' = frame
    BY <1>2 DEF ScanCsv
  <2>3. CsvScan(csv, w) = CsvScan(csv', wish')
    BY <2>1, <2>2
  <2> QED BY <2>1, <2>2, <2>3 DEF CsvIInv
<1>3. CASE CollectCsv
  <2>1. /\ how = "scanned" /\ how' = "collected" /\ frame' = Collected(wish, plan)
        /\ csv' = csv /\ wish' = wish /\ plan' = plan
    BY <1>3 DEF CollectCsv
  <2>2. CsvScan(csv', wish') = CsvScan(csv, wish) /\ Collected(wish', plan') = Collected(wish, plan)
    BY <2>1
  <2> QED BY <2>1, <2>2 DEF CsvIInv
<1>4. CASE UNCHANGED csvVars
  <2>1. csv' = csv /\ how' = how /\ wish' = wish /\ plan' = plan /\ frame' = frame
    BY <1>4 DEF csvVars
  <2>2. \A pattern : CsvRead(csv', wish', pattern) = CsvRead(csv, wish, pattern)
    BY <2>1
  <2>3. CsvScan(csv', wish') = CsvScan(csv, wish) /\ Collected(wish', plan') = Collected(wish, plan)
    BY <2>1
  <2> QED BY <2>1, <2>2, <2>3 DEF CsvIInv
<1> QED BY <1>1, <1>2, <1>3, <1>4 DEF CsvNext

LEMMA CsvAlways == CsvSpec => []CsvIInv
  BY CsvStart, CsvStep, PTL DEF CsvSpec

\* Eager or as a scan, of one file or a pattern, in new names or the file's: a
\* CSV file is read as its renamed columns mean the request, or not at all
\* (lazyframe/csv.rs:380-704).
THEOREM ReadsMeanTheirRequest == CsvSpec => []ReadMeansRequest
<1>1. CsvIInv => ReadMeansRequest
  <2> SUFFICES ASSUME CsvIInv, how \in {"eager", "collected"}
               PROVE  IF MeansSomething THEN frame # Failed /\ IsMeant(frame) ELSE frame = Failed
    BY DEF ReadMeansRequest
  <2>1. csv \in CsvHeaders /\ wish \in Wishes
    BY DEF CsvIInv
  <2>2. MeansRequest(frame)
    <3>1. CASE how = "eager"
      BY <2>1, <3>1, ReadsAreMeant DEF CsvIInv
    <3>2. CASE how = "collected"
      <4>1. frame = Collected(wish, CsvScan(csv, wish))
        BY <3>2 DEF CsvIInv
      <4> QED BY <2>1, <4>1, ReadsAreMeant
    <3> QED BY <3>1, <3>2
  <2> QED BY <2>2 DEF MeansRequest
<1> QED BY <1>1, CsvAlways, PTL

\* An index that is read is one that IdxSize holds.
THEOREM CsvReadsAreTyped == CsvSpec => []CsvTypeOK
<1>1. CsvIInv /\ ReadMeansRequest => CsvTypeOK
  <2> SUFFICES ASSUME CsvIInv, ReadMeansRequest PROVE CsvTypeOK
    OBVIOUS
  <2>1. /\ csv \in CsvHeaders /\ how \in {"unread", "eager", "scanned", "collected"}
        /\ how # "unread" => wish \in Wishes
    BY DEF CsvIInv
  <2>2. how # "unread" => wish.index \in RowIndexes /\ wish.n \in {None} \cup CsvFirsts
    BY <2>1 DEF Wishes
  <2>3. ToSet(Failed.index) \subseteq 0 .. IdxMax
    BY DEF Failed, Frame, ToSet
  <2>4. ToSet(frame.index) \subseteq 0 .. IdxMax
    <3>1. CASE frame = Failed
      BY <2>3, <3>1
    <3>2. CASE frame # Failed
      <4>1. how \in {"eager", "collected"} /\ MeansSomething /\ IsMeant(frame)
        BY <3>2 DEF CsvIInv, ReadMeansRequest
      <4>2. wish \in Wishes
        BY <2>1, <4>1
      <4>3. frame.index = MeantIndex /\ (wish.index = None \/ IndexFits(wish, Rows))
        BY <2>1, <4>1, <4>2, MeansIs
      <4>4. CASE wish.index = None
        <5>1. frame.index = <<>>
          BY <4>3, <4>4 DEF MeantIndex
        <5> QED BY <5>1 DEF ToSet
      <4>5. CASE wish.index # None
        <5>1. PICK n, o : n = Len(Rows) /\ o = wish.index.offset
          OBVIOUS
        <5>2. n \in Nat /\ DOMAIN Rows = 1 .. n /\ o \in Nat /\ IdxMax \in Nat
          BY <4>2, <4>5, <5>1, RowsIs, WishFields, NamesAssumption
        <5>3. n = 0 \/ o + n - 1 <= IdxMax
          BY <4>3, <4>5, <5>1 DEF IndexFits
        <5>4. frame.index = [i \in 1 .. n |-> o + i - 1]
          BY <4>3, <4>5, <5>1, <5>2 DEF MeantIndex
        <5>5. ASSUME NEW i \in 1 .. n PROVE o + i - 1 \in 0 .. IdxMax
          BY <5>2, <5>3
        <5> QED BY <5>4, <5>5 DEF ToSet
      <4> QED BY <4>4, <4>5
    <3> QED BY <3>1, <3>2
  <2> QED BY <2>1, <2>2, <2>4 DEF CsvTypeOK
<1> QED BY <1>1, CsvAlways, ReadsMeanTheirRequest, PTL
=============================================================================
