---------------------------- MODULE CsvInference ----------------------------
(***************************************************************************)
(* How many rows a CSV reader infers dtypes from.  polars reserves room    *)
(* for as many lines as it is told to infer from, so a number no program   *)
(* means aborts the process.  The library has every row inferred from      *)
(* instead, when the number could not be reserved or is more than the file *)
(* can hold, which it bounds by the file's bytes and its compression       *)
(* without reading it (rust/src/lazyframe/csv.rs:128-231).                 *)
(***************************************************************************)
EXTENDS Integers, FiniteSetsExt

CONSTANTS
  Free,       \* FREE_RESERVATION: rows that are reserved without a question
  Never,      \* NEVER_RESERVED: rows no address space holds
  RowBytes,   \* of a reserved line
  Deflate, Zstd,  \* the most a byte of the file expands to, if it is compressed
  MaxBytes,   \* of a file
  Unset       \* no number, and no bound

ASSUME InferenceAssumption ==
  /\ Free \in Nat /\ Never \in Nat /\ Free < Never /\ RowBytes \in Nat \ {0}
  /\ Deflate \in Nat \ {0} /\ Zstd \in Nat /\ Deflate <= Zstd /\ MaxBytes \in Nat
  /\ Unset \notin Nat

VARIABLES
  paths,      \* what the path given leads to: files, or Unset for what polars cannot list
  memory,     \* of the host: an override of it, or what there is
  requested,  \* the rows to infer from, or Unset for all
  inferred    \* what polars is told

inferVars == <<paths, memory, requested, inferred>>

Expansions == [plain |-> 1, deflate |-> Deflate, zstd |-> Zstd]
\* A line is a byte and its end, which the last one may leave out.
MostLines(f) == f.bytes * Expansions[f.packed] + 1
AFile == {f \in [bytes : 0 .. MaxBytes, packed : DOMAIN Expansions, opens : BOOLEAN,
                 regular : BOOLEAN, rows : 0 .. MaxBytes * Zstd + 1] : f.rows <= MostLines(f)}

\* The type invariant of the module's state.
InferenceTypeOK ==
  /\ paths = {} \/ paths = {Unset} \/ paths \subseteq AFile
  /\ memory.total \in Nat /\ memory.override \in Nat \cup {Unset, -1}
  /\ requested \in Nat \cup {Unset} /\ inferred \in Nat \cup {Unset}

-----------------------------------------------------------------------------
\* `host_memory`: what is not a number, here -1, is no memory.
HostMemory == IF memory.override = Unset THEN memory.total
              ELSE IF memory.override < 0 THEN 0 ELSE memory.override

\* Fault: the line without an end is left out.
MostRowsInFileLess(f) ==
  IF ~f.regular THEN Unset
  ELSE f.bytes * (IF f.opens THEN Expansions[f.packed] ELSE Zstd)
\* `most_rows_in_file`, `expansion`: a file that does not open, or whose head
\* is not read, may expand the most; a pipe or a directory has no bound.
MostRowsInFile(f) ==
  IF ~f.regular THEN Unset
  ELSE f.bytes * (IF f.opens THEN Expansions[f.packed] ELSE Zstd) + 1

\* `input_files`, `most_rows`: of the largest of the files.
MostRows ==
  IF paths \in {{}, {Unset}} \/ \E f \in paths : MostRowsInFile(f) = Unset THEN Unset
  ELSE Max({MostRowsInFile(f) : f \in paths})

Reservation(n) == n * RowBytes

\* `rows_to_infer`.
RowsToInfer(n) ==
  IF n = Unset \/ n <= Free THEN n
  ELSE IF \/ n >= Never
          \/ Reservation(n) > HostMemory
          \/ (MostRows # Unset /\ n >= MostRows)
  THEN Unset
  ELSE n

-----------------------------------------------------------------------------
InferInit ==
  /\ paths \in {{}, {Unset}} \cup {{f} : f \in AFile}
               \cup {{f, g} : f, g \in {h \in AFile : h.rows = MostLines(h) /\ h.regular}}
  /\ memory \in [total : {Free * RowBytes, Never * RowBytes - 1}, override : {Unset, -1, (Free + 2) * RowBytes}]
  /\ requested = Unset /\ inferred = Unset

\* The part of `decode` that settles it, for each reader's request.
DecodeInference ==
  /\ \E n \in 0 .. Never + 1 : requested' = n /\ inferred' = RowsToInfer(n)
  /\ UNCHANGED <<paths, memory>>

InferNext == DecodeInference
InferSpec == InferInit /\ [][InferNext]_inferVars

-----------------------------------------------------------------------------
Reach(n, f) == IF n = Unset \/ n > f.rows THEN f.rows ELSE n

\* The dtypes are inferred from the rows the program asked for, of every file,
\* unless they could not be reserved; and polars is never told to reserve what
\* the host does not have, beyond the room that is always free
\* (lazyframe/csv.rs:136-231).
InferenceReach ==
  /\ inferred # Unset =>
       inferred <= Free \/ (inferred < Never /\ Reservation(inferred) <= HostMemory)
  /\ requested # Unset /\ requested < Never /\ Reservation(requested) <= HostMemory /\ paths # {Unset} =>
       \A f \in paths : Reach(inferred, f) = Reach(requested, f)
=============================================================================
