----------------------------- MODULE StagedWrite ------------------------------
(***************************************************************************)
(* `write_checked_frame` in rust/src/dataframe/io.rs: how write-csv,       *)
(* write-json, write-ndjson and write-parquet put a file in place.  The    *)
(* bytes of a write to a regular or missing file go to a staging file in   *)
(* the same directory, named by process id and a process-wide counter, and *)
(* `Staged::finish` renames it over the target.  A device, a pipe and a    *)
(* dangling link are written in place.                                     *)
(*                                                                         *)
(* Every system call is a step of its own: writers of one process (places  *)
(* share the counter), writers of other processes, a process that dies and *)
(* an outsider that removes or replaces the target all come in between.    *)
(* Two processes may have one pid: a reused one, or that of another pid    *)
(* namespace that shares the directory.                                    *)
(***************************************************************************)
EXTENDS Naturals, FiniteSets

CONSTANTS
  Writers,     \* write calls, one per writer
  Processes,
  processOf,   \* the process a writer runs in
  Pids,
  MaxCounter,  \* bound: staging names a process may take
  Routes,      \* how a caller names the target: "path", or "link" to it
  Seeds,       \* what may be at the target at first
  Meddling,    \* whether an outsider removes or replaces the target
  Target, Seed, None

ASSUME ConstantsAssumption ==
  /\ processOf \in [Writers -> Processes]
  /\ MaxCounter \in Nat
  /\ Routes \subseteq {"path", "link"}
  /\ Seeds \subseteq [kind : {"absent", "file", "dir", "special"},
                      mode : {"default", "private", "readonly"}]
  /\ Meddling \in BOOLEAN
  /\ Target \notin Pids \X (0..MaxCounter)
  /\ Seed \notin Writers /\ None \notin Writers \cup {Seed} \cup (Pids \X (0..MaxCounter))

VARIABLES
  dir,       \* the directory: the inode a name is linked to, or None
  inode,     \* kind, content and permissions; a writer's new file is its own inode
  pid,       \* of each process
  counter,   \* STAGING_FILES of each process
  job,       \* the state of each write call
  litter     \* staging files whose removal failed (history)

vars == <<dir, inode, pid, counter, job, litter>>

StagingNames == Pids \X (0..MaxCounter)
Names  == {Target} \cup StagingNames
Inodes == Writers \cup {Seed}

\* What a file holds: what it held at first, or what a writer has written so far.
Contents == {<<None, "old">>} \cup (Writers \X {"empty", "partial", "whole"})
InodeStates == [kind : {"file", "dir", "special"}, content : Contents,
                mode : {"default", "private", "readonly"}]

NewFile(w) == [kind |-> "file", content |-> <<w, "empty">>, mode |-> "default"]
SeedOf(s)  == [kind |-> IF s.kind = "absent" THEN "file" ELSE s.kind,
               content |-> <<None, "old">>, mode |-> s.mode]

Idle == [pc |-> "idle", route |-> "path", staging |-> None, node |-> None,
         kept |-> "none", written |-> FALSE, status |-> "none"]

At(n)      == IF dir[n] = None THEN "absent" ELSE inode[dir[n]].kind
AtTarget   == At(Target)
TargetMode == inode[dir[Target]].mode

Goto(w, pc)        == job' = [job EXCEPT ![w].pc = pc]
Done(w, status)    == job' = [job EXCEPT ![w].pc = "done", ![w].status = status]
OpenFailed(w)      == Done(w, "open_failed")

Init ==
  /\ \E s \in Seeds :
       /\ inode = [i \in Inodes |-> IF i = Seed THEN SeedOf(s) ELSE NewFile(i)]
       /\ dir = [n \in Names |-> IF n = Target /\ s.kind # "absent" THEN Seed ELSE None]
  /\ pid \in [Processes -> Pids]
  /\ counter = [p \in Processes |-> 0]
  /\ job = [w \in Writers |-> Idle]
  /\ litter = {}

------------------------------------------------------------------------------

\* Arguments are decoded and `check` runs before anything is opened: a null
\* argument, a bad path or a refused option leaves at once.
Check(w, route) ==
  /\ job[w].pc = "idle"
  /\ \/ job' = [job EXCEPT ![w].pc = "resolve", ![w].route = route]
     \/ \E status \in {"null_arg", "bad_path", "write_failed"} : Done(w, status)
  /\ UNCHANGED <<dir, inode, pid, counter, litter>>

\* `create_staged`: a link is followed to what it names; a dangling one is
\* opened in place.
Resolve(w) ==
  /\ job[w].pc = "resolve"
  /\ Goto(w, IF job[w].route = "link" /\ dir[Target] = None THEN "in place" ELSE "stat")
  /\ UNCHANGED <<dir, inode, pid, counter, litter>>

\* `stage_existing`: the metadata decide between staging, in place and refusal.
Stat(w) ==
  /\ job[w].pc = "stat"
  /\ \/ AtTarget = "absent" /\ Goto(w, "create")
     \/ AtTarget = "dir" /\ OpenFailed(w)
     \/ /\ AtTarget = "file"
        /\ job' = [job EXCEPT ![w].pc = "probe", ![w].kept = TargetMode]
     \/ AtTarget = "special" /\ Goto(w, "in place")
     \/ OpenFailed(w)
  /\ UNCHANGED <<dir, inode, pid, counter, litter>>

\* A target that is not writable is refused, although a rename would replace it.
Probe(w) ==
  /\ job[w].pc = "probe"
  /\ \/ AtTarget \in {"file", "special"} /\ TargetMode # "readonly" /\ Goto(w, "create")
     \/ OpenFailed(w)
  /\ UNCHANGED <<dir, inode, pid, counter, litter>>

\* Fault: an existing staging file is opened.
CreateShared(w) ==
  LET p == processOf[w]
      name == <<pid[p], counter[p]>> IN
  /\ job[w].pc = "create"
  /\ counter[p] <= MaxCounter
  /\ counter' = [counter EXCEPT ![p] = @ + 1]
  /\ dir' = [dir EXCEPT ![name] = w]
  /\ inode' = [inode EXCEPT ![w] = NewFile(w)]
  /\ job' = [job EXCEPT ![w].pc = "permit", ![w].staging = name, ![w].node = w]
  /\ UNCHANGED <<pid, litter>>

\* Fault: the counter moves on only when a name was free.
CreateStuck(w) ==
  LET p == processOf[w]
      name == <<pid[p], counter[p]>> IN
  /\ job[w].pc = "create"
  /\ counter[p] <= MaxCounter
  /\ dir[name] = None
  /\ counter' = [counter EXCEPT ![p] = @ + 1]
  /\ dir' = [dir EXCEPT ![name] = w]
  /\ inode' = [inode EXCEPT ![w] = NewFile(w)]
  /\ job' = [job EXCEPT ![w].pc = "permit", ![w].staging = name, ![w].node = w]
  /\ UNCHANGED <<pid, litter>>

\* One round of the `create_new` loop in `stage`: the next name, unless taken.
Create(w) ==
  LET p == processOf[w]
      name == <<pid[p], counter[p]>> IN
  /\ job[w].pc = "create"
  /\ counter[p] <= MaxCounter
  /\ counter' = [counter EXCEPT ![p] = @ + 1]
  /\ \/ /\ dir[name] # None
        /\ UNCHANGED <<dir, inode, job>>
     \/ /\ dir[name] = None
        /\ dir' = [dir EXCEPT ![name] = w]
        /\ inode' = [inode EXCEPT ![w] = NewFile(w)]
        /\ job' = [job EXCEPT ![w].pc = "permit", ![w].staging = name, ![w].node = w]
     \/ OpenFailed(w) /\ UNCHANGED <<dir, inode>>
  /\ UNCHANGED <<pid, litter>>

\* Fault: a new file keeps the bits it was made with.
PermitNothing(w) ==
  /\ job[w].pc = "permit"
  /\ Goto(w, "write")
  /\ UNCHANGED <<dir, inode, pid, counter, litter>>

\* The staging file takes the permission bits of the file it will replace.
Permit(w) ==
  /\ job[w].pc = "permit"
  /\ \/ /\ job[w].kept = "none"
        /\ Goto(w, "write") /\ UNCHANGED inode
     \/ /\ job[w].kept # "none"
        /\ inode' = [inode EXCEPT ![job[w].node].mode = job[w].kept]
        /\ Goto(w, "write")
     \/ /\ job[w].kept # "none"
        /\ job' = [job EXCEPT ![w].pc = "remove", ![w].status = "open_failed"]
        /\ UNCHANGED inode
  /\ UNCHANGED <<dir, pid, counter, litter>>

\* `in_place`: File::create makes the file, or truncates what is there by now.
OpenInPlace(w) ==
  /\ job[w].pc = "in place"
  /\ \/ /\ AtTarget = "absent"
        /\ dir' = [dir EXCEPT ![Target] = w]
        /\ inode' = [inode EXCEPT ![w] = NewFile(w)]
        /\ job' = [job EXCEPT ![w].pc = "write", ![w].node = w]
     \/ /\ AtTarget \in {"file", "special"} /\ TargetMode # "readonly"
        /\ inode' = IF AtTarget = "file"
                    THEN [inode EXCEPT ![dir[Target]].content = <<w, "empty">>] ELSE inode
        /\ job' = [job EXCEPT ![w].pc = "write", ![w].node = dir[Target]]
        /\ UNCHANGED dir
     \/ OpenFailed(w) /\ UNCHANGED <<dir, inode>>
  /\ UNCHANGED <<pid, counter, litter>>

WriteTo(i, c) ==
  inode' = IF inode[i].kind = "file" THEN [inode EXCEPT ![i].content = c] ELSE inode

\* The writer's bytes, under `guard_panic`: some of them, the last of them, or
\* an error or a panic that ends the write early.
Write(w) ==
  /\ job[w].pc = "write"
  /\ \/ WriteTo(job[w].node, <<w, "partial">>) /\ UNCHANGED job
     \/ /\ WriteTo(job[w].node, <<w, "whole">>)
        /\ job' = [job EXCEPT ![w].pc = "finish", ![w].written = TRUE]
     \/ Goto(w, "finish") /\ UNCHANGED inode
  /\ UNCHANGED <<dir, pid, counter, litter>>

Staged(w) == job[w].staging # None

\* Fault: the file is renamed whether or not it is complete.
FinishTorn(w) ==
  /\ job[w].pc = "finish"
  /\ IF Staged(w)
     THEN dir' = [dir EXCEPT ![Target] = dir[job[w].staging], ![job[w].staging] = None]
     ELSE UNCHANGED dir
  /\ Done(w, IF job[w].written THEN "ok" ELSE "write_failed")
  /\ UNCHANGED <<inode, pid, counter, litter>>

\* Fault: a failed write leaves its staging file.
FinishLittering(w) ==
  /\ job[w].pc = "finish"
  /\ \/ Staged(w) /\ job[w].written /\ AtTarget # "dir"
        /\ dir' = [dir EXCEPT ![Target] = dir[job[w].staging], ![job[w].staging] = None]
        /\ Done(w, "ok")
     \/ Done(w, "write_failed") /\ UNCHANGED dir
  /\ UNCHANGED <<inode, pid, counter, litter>>

\* `Staged::finish`: in place there is only the status left; a complete staging
\* file is renamed over the target, in one step of the file system; anything
\* else, a failed rename included, goes on to remove the staging file.
Finish(w) ==
  /\ job[w].pc = "finish"
  /\ \/ /\ ~Staged(w)
        /\ Done(w, IF job[w].written THEN "ok" ELSE "write_failed")
        /\ UNCHANGED dir
     \/ /\ Staged(w) /\ job[w].written /\ AtTarget # "dir"
        /\ dir' = [dir EXCEPT ![Target] = dir[job[w].staging], ![job[w].staging] = None]
        /\ Done(w, "ok")
     \/ /\ Staged(w)
        /\ job' = [job EXCEPT ![w].pc = "remove", ![w].status = "write_failed"]
        /\ UNCHANGED dir
  /\ UNCHANGED <<inode, pid, counter, litter>>

\* The staging file is removed; a failure to do so is ignored.
Remove(w) ==
  /\ job[w].pc = "remove"
  /\ Goto(w, "done")
  /\ \/ dir' = [dir EXCEPT ![job[w].staging] = None] /\ UNCHANGED litter
     \/ litter' = litter \cup {job[w].staging} /\ UNCHANGED dir
  /\ UNCHANGED <<inode, pid, counter>>

\* The process dies: its writes stop where they are.
Crash(p) ==
  /\ \E w \in Writers : processOf[w] = p /\ job[w].pc \notin {"idle", "done", "crashed"}
  /\ job' = [w \in Writers |-> IF processOf[w] = p /\ job[w].pc # "done"
                               THEN [job[w] EXCEPT !.pc = "crashed"] ELSE job[w]]
  /\ UNCHANGED <<dir, inode, pid, counter, litter>>

\* Another program unlinks the target, or moves a file of its own there.
Meddle ==
  /\ Meddling
  /\ \/ dir[Target] # None /\ dir' = [dir EXCEPT ![Target] = None]
     \/ dir[Target] = None /\ dir' = [dir EXCEPT ![Target] = Seed]
  /\ UNCHANGED <<inode, pid, counter, job, litter>>

WriterStep(w) ==
  \/ \E route \in Routes : Check(w, route)
  \/ Resolve(w) \/ Stat(w) \/ Probe(w) \/ Create(w) \/ Permit(w)
  \/ OpenInPlace(w) \/ Write(w) \/ Finish(w) \/ Remove(w)

Next ==
  \/ \E w \in Writers : WriterStep(w)
  \/ \E p \in Processes : Crash(p)
  \/ Meddle

Spec == Init /\ [][Next]_vars

\* A call that was entered keeps executing; a write is of finite data.
Progress(w) ==
  \/ Resolve(w) \/ Stat(w) \/ Probe(w) \/ Create(w) \/ Permit(w)
  \/ OpenInPlace(w) \/ (Write(w) /\ job'[w].pc = "finish") \/ Finish(w) \/ Remove(w)

FairSpec == Spec /\ \A w \in Writers : WF_vars(Progress(w))

------------------------------------------------------------------------------

JobStates ==
  [pc : {"idle", "resolve", "stat", "probe", "create", "permit", "in place", "write",
         "finish", "remove", "done", "crashed"},
   route : {"path", "link"}, staging : StagingNames \cup {None}, node : Inodes \cup {None},
   kept : {"none", "default", "private", "readonly"}, written : BOOLEAN,
   status : {"none", "ok", "null_arg", "bad_path", "open_failed", "write_failed"}]

\* The type invariant of the module's state.
TypeOK ==
  /\ dir \in [Names -> Inodes \cup {None}]
  /\ inode \in [Inodes -> InodeStates]
  /\ pid \in [Processes -> Pids]
  /\ counter \in [Processes -> 0..(MaxCounter + 1)]
  /\ job \in [Writers -> JobStates]
  /\ litter \in SUBSET StagingNames

Holds(w) ==
  job[w].staging # None /\ job[w].pc \in {"permit", "write", "finish", "remove", "crashed"}

\* From the moment a writer has made its staging file until it renames or
\* removes it, the name is linked to its own file: no other writer, not even
\* one of a process with the same pid and the same counter, writes, renames or
\* removes that file.
StagingExclusive == \A w \in Writers : Holds(w) => dir[job[w].staging] = w

WroteInPlace(i) == \E w \in Writers : job[w].node = i /\ job[w].staging = None

\* Whoever looks at the target at any moment, after a crash included, finds a
\* complete file: the old one, or all that one writer wrote, unless a writer
\* that found a dangling link there wrote this very file in place.
TargetNeverTorn ==
  AtTarget = "file" =>
    \/ inode[dir[Target]].content \in {<<None, "old">>} \cup (Writers \X {"whole"})
    \/ WroteInPlace(dir[Target])

\* A staging file outlives its write only if the process died or the removal
\* failed: every other failure cleans up.
NoLitter ==
  \A n \in StagingNames :
    dir[n] # None => n \in litter \/ \E w \in Writers : Holds(w) /\ job[w].staging = n

\* "An existing file is replaced atomically, keeping its permission bits": seen
\* from outside, each call either replaces all of it in one step, with the bits
\* it had, or fails and leaves it as it was.
Atomic ==
  INSTANCE AtomicReplace WITH
    shown <- IF dir[Target] = None THEN [content |-> <<None, "absent">>, mode |-> "default"]
             ELSE [content |-> inode[dir[Target]].content, mode |-> TargetMode],
    status <- [w \in Writers |-> job[w].status]

ReplacesAtomically == Atomic!Spec

Whole(i) == inode[i].content[2] \in {"old", "whole"}

\* The same sentence of the manual for every way of naming the file: an
\* existing complete file is followed by a complete file.
ExistingReplacedWhole ==
  [][(AtTarget = "file" /\ Whole(dir[Target]) /\ AtTarget' = "file")
       => inode'[dir'[Target]].content[2] \in {"old", "whole"}]_vars

\* A write that was entered returns a status, unless its process dies: the
\* search for a free staging name ends although other processes take names.
WritesEnd == \A w \in Writers : job[w].pc = "resolve" ~> job[w].pc \in {"done", "crashed"}
==============================================================================
