---------------------------- MODULE AtomicReplace -----------------------------
(***************************************************************************)
(* What the manual promises of write-csv, write-json, write-ndjson and     *)
(* write-parquet on a regular or missing file: a call replaces the whole   *)
(* file in one step and keeps its permission bits, or it fails and leaves  *)
(* the file alone.  `StagedWrite` implements this specification.           *)
(***************************************************************************)
CONSTANTS Writers, None

VARIABLES
  shown,   \* content and mode a reader of the path finds; "default" if absent
  status   \* what each call has returned, or is bound to return

vars == <<shown, status>>

Failures == {"null_arg", "bad_path", "open_failed", "write_failed"}

Init ==
  /\ \/ shown = [content |-> <<None, "absent">>, mode |-> "default"]
     \/ \E mode \in {"default", "private", "readonly"} :
          shown = [content |-> <<None, "old">>, mode |-> mode]
  /\ status = [w \in Writers |-> "none"]

\* A file that its mode forbids to write is not replaced either.
Replace(w) ==
  /\ status[w] = "none"
  /\ shown.mode # "readonly"
  /\ shown' = [shown EXCEPT !.content = <<w, "whole">>]
  /\ status' = [status EXCEPT ![w] = "ok"]

Refuse(w) ==
  /\ status[w] = "none"
  /\ \E failure \in Failures : status' = [status EXCEPT ![w] = failure]
  /\ UNCHANGED shown

Next == \E w \in Writers : Replace(w) \/ Refuse(w)

Spec == Init /\ [][Next]_vars
==============================================================================
