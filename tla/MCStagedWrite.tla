----------------------------- MODULE MCStagedWrite ----------------------------
(* Two places of one process and a second process, which may have the same   *)
(* pid; every kind of file a caller can name.                                *)
EXTENDS StagedWrite, TLC

CONSTANTS first, second, third, here, there, pidA, pidB

MCWriters == {first, second, third}
MCTwoWriters == {first, third}
MCProcesses == {here, there}
MCProcessOf == (first :> here) @@ (second :> here) @@ (third :> there)
MCTwoProcessOf == (first :> here) @@ (third :> there)
MCPids == {pidA, pidB}
MCOnePid == {pidA}

MCFiles == [kind : {"file"}, mode : {"default", "private", "readonly"}]
MCAbsent == {[kind |-> "absent", mode |-> "default"]}
MCRegular == MCFiles \cup MCAbsent
MCSeeds == MCAbsent \cup [kind : {"file", "special"}, mode : {"default"}]
             \cup {[kind |-> "file", mode |-> "readonly"], [kind |-> "dir", mode |-> "default"]}
==============================================================================
