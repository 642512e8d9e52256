------------------------------ MODULE MCFiles -------------------------------
(***************************************************************************)
(* Files read and written with options, checked beside each other: a       *)
(* behaviour writes and reads one frame, or reads one CSV file, or settles *)
(* the rows of one CSV file to infer from; or it installs the native       *)
(* library all of them need.                                               *)
(***************************************************************************)
EXTENDS FrameFiles, CsvReads, CsvInference, NativeLibs

CONSTANTS x1, x2, new, next

VARIABLE part

MCHeaders == {<<"a">>, <<"a", "b">>}
MCLevels == {-1, 0, 9, 22, 2 ^ 8 + 1}
MCIndices == -3 .. 2

FilesIdle ==
  /\ FilesInit
  /\ file = [header |-> <<"a">>, height |-> 0, groups |-> <<<<>>>>, binary |-> FALSE]
CsvIdle == CsvInit /\ csv = <<"a">>
InferIdle ==
  /\ paths = {} /\ memory = [total |-> 0, override |-> Unset]
  /\ requested = Unset /\ inferred = Unset
LibsIdle == LibsInit /\ inodes = <<>>

MCInstallers == {x1, x2}
MCBuilds == {new, next}

OptionsInit ==
  \/ part = "files" /\ FilesInit /\ CsvIdle /\ InferIdle /\ LibsIdle
  \/ part = "csv" /\ FilesIdle /\ CsvInit /\ InferIdle /\ LibsIdle
  \/ part = "inference" /\ FilesIdle /\ CsvIdle /\ InferInit /\ LibsIdle
  \/ part = "install" /\ FilesIdle /\ CsvIdle /\ InferIdle /\ LibsInit

OptionsNext ==
  /\ UNCHANGED part
  /\ \/ part = "files" /\ FilesNext /\ UNCHANGED <<csvVars, inferVars, libVars>>
     \/ part = "csv" /\ CsvNext /\ UNCHANGED <<fileVars, inferVars, libVars>>
     \/ part = "inference" /\ InferNext /\ UNCHANGED <<fileVars, csvVars, libVars>>
     \/ part = "install" /\ LibsNext /\ UNCHANGED <<fileVars, csvVars, inferVars>>

\* The type invariants of the four parts.
OptionsTypeOK == FilesTypeOK /\ CsvTypeOK /\ InferenceTypeOK /\ LibsTypeOK

OptionsSpec == OptionsInit /\ [][OptionsNext]_<<part, fileVars, csvVars, inferVars, libVars>>
=============================================================================
