-------------------------- MODULE StagedWriteProofs ---------------------------
(***************************************************************************)
(* For every number of writers, processes, pids and staging names, with    *)
(* crashes, reused pids and an outsider: what `StagedWrite` keeps true,    *)
(* and that calls on a regular or missing file implement `AtomicReplace`.  *)
(* The inductive invariant says where in its course a write has a staging  *)
(* file, that a file at the target is no longer anybody's staging file,    *)
(* and that what is renamed there was written to the end.                  *)
(***************************************************************************)
EXTENDS StagedWrite, TLAPS

\* Where in its course a call has opened a file, and which.
OpenedBy(w, call) ==
  /\ call.pc \in {"idle", "resolve", "stat", "probe", "create", "in place"}
       => call.staging = None /\ call.node = None
  /\ call.staging # None => call.node = w
  /\ call.pc \in {"permit", "remove"} => call.staging # None
  /\ call.pc \in {"write", "finish"} => call.node # None
  /\ call.pc \notin {"finish", "remove", "done", "crashed"} => ~call.written

Opened == \A w \in Writers : OpenedBy(w, job[w])

\* A writer's file is at the target only when it was opened there, or when the
\* writer has renamed it there and is done.
AtTargetIsDone ==
  \A w \in Writers : dir[Target] = w =>
    \/ job[w].staging = None /\ job[w].node = w
    \/ job[w].staging # None /\ job[w].pc = "done"

\* What was renamed to the target, or may yet be, is whole, unless another
\* writer opened it in place since.
WholeOrInPlace ==
  /\ inode[Seed].content = <<None, "old">> \/ WroteInPlace(Seed)
  /\ \A w \in Writers :
       (job[w].staging # None /\ (dir[Target] = w \/ job[w].written))
         => inode[w].content = <<w, "whole">> \/ WroteInPlace(w)

\* A file that a writer makes is a regular one.
MadeAreFiles == \A w \in Writers : inode[w].kind = "file"

StagedIInv ==
  /\ TypeOK
  /\ MadeAreFiles
  /\ Opened
  /\ StagingExclusive
  /\ AtTargetIsDone
  /\ WholeOrInPlace
  /\ NoLitter

LEMMA InitStagedIInv == Init => StagedIInv
<1> SUFFICES ASSUME Init PROVE StagedIInv
  OBVIOUS
<1>1. PICK s \in Seeds :
        /\ inode = [i \in Inodes |-> IF i = Seed THEN SeedOf(s) ELSE NewFile(i)]
        /\ dir = [n \in Names |-> IF n = Target /\ s.kind # "absent" THEN Seed ELSE None]
  BY DEF Init
<1>2. s.kind \in {"absent", "file", "dir", "special"} /\ s.mode \in {"default", "private", "readonly"}
  BY ConstantsAssumption
<1>3. TypeOK
  <2>1. inode \in [Inodes -> InodeStates]
    BY <1>1, <1>2 DEF InodeStates, Contents, SeedOf, NewFile, Inodes
  <2>2. dir \in [Names -> Inodes \cup {None}]
    BY <1>1 DEF Inodes
  <2>3. job \in [Writers -> JobStates]
    BY DEF Init, Idle, JobStates
  <2>4. pid \in [Processes -> Pids] /\ counter \in [Processes -> 0..(MaxCounter + 1)]
    BY ConstantsAssumption DEF Init
  <2> QED BY <2>1, <2>2, <2>3, <2>4 DEF Init, TypeOK
<1>4. \A w \in Writers : job[w] = Idle
  BY DEF Init
<1>5. Opened
  <2>1. \A w \in Writers : job[w].pc = "idle" /\ job[w].staging = None /\ job[w].node = None
                            /\ job[w].written = FALSE
    BY <1>4 DEF Idle
  <2> QED BY <2>1 DEF Opened, OpenedBy
<1>10. StagingExclusive
  BY <1>4 DEF StagingExclusive, Holds, Idle
<1>6. AtTargetIsDone
  BY <1>1, ConstantsAssumption DEF AtTargetIsDone, Names
<1>7. WholeOrInPlace
  BY <1>1, <1>4 DEF WholeOrInPlace, Idle, SeedOf, Inodes
<1>8. NoLitter
  BY <1>1, ConstantsAssumption DEF NoLitter, StagingNames, Names
<1>9. MadeAreFiles
  BY <1>1, ConstantsAssumption DEF MadeAreFiles, NewFile, Inodes
<1> QED BY <1>3, <1>5, <1>10, <1>6, <1>7, <1>8, <1>9 DEF StagedIInv

LEMMA StagedTypes ==
  ASSUME StagedIInv
  PROVE  /\ dir \in [Names -> Inodes \cup {None}]
         /\ inode \in [Inodes -> InodeStates]
         /\ job \in [Writers -> JobStates]
         /\ \A w \in Writers : job[w] \in JobStates
         /\ \A w \in Writers : w \in Inodes /\ w # None /\ w # Seed
         /\ Target \in Names /\ Target \notin StagingNames /\ StagingNames \subseteq Names
         /\ None \notin StagingNames
         /\ dir[Target] \in Inodes \cup {None}
BY ConstantsAssumption DEF StagedIInv, TypeOK, Names, StagingNames, Inodes

------------------------------------------------------------------------------

\* The call goes on, or returns, with the file it had.
Moved(w, pc) ==
  /\ job' \in [Writers -> JobStates]
  /\ \A v \in Writers : v # w => job'[v] = job[v]
  /\ job'[w].pc = pc
  /\ job'[w].staging = job[w].staging
  /\ job'[w].node = job[w].node
  /\ job'[w].written = job[w].written

PcValues == {"idle", "resolve", "stat", "probe", "create", "permit", "in place", "write",
             "finish", "remove", "done", "crashed"}
Early    == {"idle", "resolve", "stat", "probe", "create", "in place"}
Statuses == {"none", "ok", "null_arg", "bad_path", "open_failed", "write_failed"}

LEMMA GotoMoves ==
  ASSUME StagedIInv, NEW w \in Writers, NEW pc \in PcValues, Goto(w, pc)
  PROVE  Moved(w, pc) /\ job'[w].kept = job[w].kept /\ job'[w].status = job[w].status
BY ZenonT(60), StagedTypes DEF Goto, Moved, JobStates, PcValues

LEMMA DoneMoves ==
  ASSUME StagedIInv, NEW w \in Writers, NEW status \in Statuses, Done(w, status)
  PROVE  Moved(w, "done") /\ job'[w].status = status
<1> DEFINE f == [job EXCEPT ![w].pc = "done"]
<1>1. /\ f \in [Writers -> JobStates]
      /\ \A v \in Writers : v # w => f[v] = job[v]
      /\ f[w].pc = "done" /\ f[w].staging = job[w].staging /\ f[w].node = job[w].node
      /\ f[w].written = job[w].written
  BY ZenonT(60), StagedTypes DEF JobStates
<1>2. job' = [f EXCEPT ![w].status = status]
  BY DEF Done
<1> HIDE DEF f
<1> QED BY ZenonT(60), <1>1, <1>2 DEF Moved, JobStates, Statuses

\* Whoever holds a staging file goes on holding it while another call moves.
LEMMA OthersHold ==
  ASSUME NEW w \in Writers, \A v \in Writers : v # w => job'[v] = job[v]
  PROVE  \A v \in Writers : v # w => (Holds(v)' <=> Holds(v))
BY DEF Holds

\* A call that has opened nothing, and opens nothing in this step.
LEMMA EarlyKeeps ==
  ASSUME StagedIInv, NEW w \in Writers, job[w].pc \in Early,
         NEW pc \in Early \cup {"done"}, Moved(w, pc),
         UNCHANGED <<dir, inode, pid, litter>>,
         counter' \in [Processes -> 0..(MaxCounter + 1)]
  PROVE  StagedIInv'
<1>1. /\ \A v \in Writers : v \in Inodes /\ v # None /\ v # Seed
      /\ job[w].staging = None /\ job[w].node = None /\ ~job[w].written
  BY StagedTypes DEF StagedIInv, Opened, OpenedBy, Early
<1>2. /\ \A v \in Writers : v # w => job'[v] = job[v]
      /\ job'[w].staging = None /\ job'[w].node = None /\ ~job'[w].written
      /\ job'[w].pc \in Early \cup {"done"}
  BY <1>1 DEF Moved
<1>3. TypeOK'
  BY DEF StagedIInv, TypeOK, Moved
<1>4. Opened'
  BY <1>2 DEF StagedIInv, Opened, OpenedBy, Early
<1>5. \A v \in Writers : Holds(v)' <=> Holds(v)
  BY <1>1, <1>2, OthersHold DEF Holds
<1>6. StagingExclusive'
  BY <1>1, <1>2, <1>5 DEF StagedIInv, StagingExclusive, Holds
<1>7. AtTargetIsDone'
  <2>1. dir[Target] # w
    BY <1>1 DEF StagedIInv, AtTargetIsDone
  <2> QED BY <1>2, <2>1 DEF StagedIInv, AtTargetIsDone
<1>8. WholeOrInPlace'
  <2>1. \A i \in Inodes : WroteInPlace(i)' <=> WroteInPlace(i)
    <3>1. \A v \in Writers : job'[v].node = job[v].node /\ job'[v].staging = job[v].staging
      BY <1>1, <1>2
    <3> QED BY <3>1 DEF WroteInPlace
  <2> QED BY <1>1, <1>2, <2>1 DEF StagedIInv, WholeOrInPlace, Inodes
<1>9. NoLitter'
  <2>1. \A v \in Writers : job'[v].staging = job[v].staging
    BY <1>1, <1>2
  <2> QED BY <1>5, <2>1 DEF StagedIInv, NoLitter
<1>10. MadeAreFiles'
  BY DEF StagedIInv, MadeAreFiles
<1> QED BY <1>3, <1>4, <1>6, <1>7, <1>8, <1>9, <1>10 DEF StagedIInv

\* `Check`, `Resolve`, `Stat` and `Probe` open nothing.
LEMMA CheckKeeps ==
  ASSUME StagedIInv, NEW w \in Writers, NEW route \in Routes, Check(w, route)
  PROVE  StagedIInv'
<1>1. /\ job[w].pc \in Early /\ UNCHANGED <<dir, inode, pid, litter>>
      /\ counter' \in [Processes -> 0..(MaxCounter + 1)]
  BY DEF Check, Early, StagedIInv, TypeOK
<1>2. CASE job' = [job EXCEPT ![w].pc = "resolve", ![w].route = route]
  <2>1. route \in {"path", "link"}
    BY ConstantsAssumption
  <2>2. Moved(w, "resolve")
    <3> DEFINE f == [job EXCEPT ![w].pc = "resolve"]
    <3>1. /\ f \in [Writers -> JobStates]
          /\ \A v \in Writers : v # w => f[v] = job[v]
          /\ f[w].pc = "resolve" /\ f[w].staging = job[w].staging /\ f[w].node = job[w].node
          /\ f[w].written = job[w].written
      BY ZenonT(60), StagedTypes DEF JobStates
    <3>2. job' = [f EXCEPT ![w].route = route]
      BY <1>2
    <3> HIDE DEF f
    <3>3. [f[w] EXCEPT !.route = route] \in JobStates
      BY ZenonT(60), <2>1, <3>1 DEF JobStates
    <3>4. job' \in [Writers -> JobStates]
      BY <3>1, <3>2, <3>3
    <3>5. job'[w] = [f[w] EXCEPT !.route = route] /\ f[w] \in JobStates
      BY <3>1, <3>2
    <3>6. /\ job'[w].pc = "resolve" /\ job'[w].staging = job[w].staging
          /\ job'[w].node = job[w].node /\ job'[w].written = job[w].written
      BY <3>1, <3>5 DEF JobStates
    <3>7. \A v \in Writers : v # w => job'[v] = job[v]
      BY <3>1, <3>2
    <3> QED BY <3>4, <3>6, <3>7 DEF Moved
  <2> QED BY <1>1, <2>2, EarlyKeeps DEF Early
<1>3. ASSUME NEW status \in {"null_arg", "bad_path", "write_failed"}, Done(w, status)
      PROVE  StagedIInv'
  <2>1. Moved(w, "done")
    BY <1>3, DoneMoves DEF Statuses
  <2> QED BY <1>1, <2>1, EarlyKeeps
<1> QED BY <1>2, <1>3 DEF Check

LEMMA ResolveKeeps ==
  ASSUME StagedIInv, NEW w \in Writers, Resolve(w)
  PROVE  StagedIInv'
<1>1. /\ job[w].pc \in Early /\ UNCHANGED <<dir, inode, pid, litter>>
      /\ counter' \in [Processes -> 0..(MaxCounter + 1)]
  BY DEF Resolve, Early, StagedIInv, TypeOK
<1>2. PICK pc \in {"in place", "stat"} : Goto(w, pc)
  BY DEF Resolve
<1>3. Moved(w, pc)
  BY <1>2, GotoMoves DEF PcValues
<1> QED BY <1>1, <1>3, EarlyKeeps DEF Early

LEMMA StatKeeps ==
  ASSUME StagedIInv, NEW w \in Writers, Stat(w)
  PROVE  StagedIInv'
<1>1. /\ job[w].pc \in Early /\ UNCHANGED <<dir, inode, pid, litter>>
      /\ counter' \in [Processes -> 0..(MaxCounter + 1)]
  BY DEF Stat, Early, StagedIInv, TypeOK
<1>2. ASSUME NEW pc \in {"create", "in place"}, Goto(w, pc) PROVE StagedIInv'
  <2>1. Moved(w, pc)
    BY <1>2, GotoMoves DEF PcValues
  <2> QED BY <1>1, <2>1, EarlyKeeps DEF Early
<1>3. CASE AtTarget = "file" /\ job' = [job EXCEPT ![w].pc = "probe", ![w].kept = TargetMode]
  <2>1. TargetMode \in {"default", "private", "readonly"}
    BY <1>3, StagedTypes DEF AtTarget, At, TargetMode, InodeStates
  <2>2. Moved(w, "probe")
    <3> DEFINE f == [job EXCEPT ![w].pc = "probe"]
    <3>1. /\ f \in [Writers -> JobStates]
          /\ \A v \in Writers : v # w => f[v] = job[v]
          /\ f[w].pc = "probe" /\ f[w].staging = job[w].staging /\ f[w].node = job[w].node
          /\ f[w].written = job[w].written
      BY ZenonT(60), StagedTypes DEF JobStates
    <3>2. job' = [f EXCEPT ![w].kept = TargetMode]
      BY <1>3
    <3> HIDE DEF f
    <3>3. [f[w] EXCEPT !.kept = TargetMode] \in JobStates
      BY ZenonT(60), <2>1, <3>1 DEF JobStates
    <3>4. job' \in [Writers -> JobStates]
      BY <3>1, <3>2, <3>3
    <3>5. /\ \A v \in Writers : v # w => job'[v] = job[v]
          /\ job'[w].pc = "probe"
      BY <3>1, <3>2 DEF JobStates
    <3>6. job'[w].staging = job[w].staging /\ job'[w].node = job[w].node
      BY <3>1, <3>2 DEF JobStates
    <3>7. job'[w].written = job[w].written
      BY <3>1, <3>2 DEF JobStates
    <3> QED BY <3>4, <3>5, <3>6, <3>7 DEF Moved
  <2> QED BY <1>1, <2>2, EarlyKeeps DEF Early
<1>4. CASE OpenFailed(w)
  <2>1. Moved(w, "done")
    BY <1>4, DoneMoves DEF OpenFailed, Statuses
  <2> QED BY <1>1, <2>1, EarlyKeeps
<1> QED BY <1>2, <1>3, <1>4 DEF Stat

LEMMA ProbeKeeps ==
  ASSUME StagedIInv, NEW w \in Writers, Probe(w)
  PROVE  StagedIInv'
<1>1. /\ job[w].pc \in Early /\ UNCHANGED <<dir, inode, pid, litter>>
      /\ counter' \in [Processes -> 0..(MaxCounter + 1)]
  BY DEF Probe, Early, StagedIInv, TypeOK
<1>2. CASE Goto(w, "create")
  <2>1. Moved(w, "create")
    BY <1>2, GotoMoves DEF PcValues
  <2> QED BY <1>1, <2>1, EarlyKeeps DEF Early
<1>3. CASE OpenFailed(w)
  <2>1. Moved(w, "done")
    BY <1>3, DoneMoves DEF OpenFailed, Statuses
  <2> QED BY <1>1, <2>1, EarlyKeeps
<1> QED BY <1>2, <1>3 DEF Probe

------------------------------------------------------------------------------

\* Which calls write in place does not change while files and staging names do
\* not; and a call that has opened nothing writes nothing.
LEMMA InPlaceStays ==
  ASSUME NEW w \in Writers, \A v \in Writers : v # w => job'[v] = job[v],
         job'[w].node = job[w].node, job'[w].staging = job[w].staging
  PROVE  \A i \in Inodes : WroteInPlace(i)' <=> WroteInPlace(i)
<1>1. \A v \in Writers : job'[v].node = job[v].node /\ job'[v].staging = job[v].staging
  OBVIOUS
<1> QED BY <1>1 DEF WroteInPlace

\* The file of a call that holds a staging file is not at the target.
LEMMA StagedIsElsewhere ==
  ASSUME StagedIInv, NEW w \in Writers, job[w].pc # "done", job[w].staging # None
  PROVE  dir[Target] # w
BY DEF StagedIInv, AtTargetIsDone

LEMMA UnopenedIsElsewhere ==
  ASSUME StagedIInv, NEW w \in Writers, job[w].staging = None, job[w].node = None
  PROVE  dir[Target] # w
BY StagedTypes DEF StagedIInv, AtTargetIsDone

Holding == {"permit", "write", "finish", "remove"}

\* A call that holds a staging file, writes to it or changes its bits, and goes
\* on holding it.
LEMMA HeldKeeps ==
  ASSUME StagedIInv, NEW w \in Writers, job[w].pc \in Holding, job[w].staging # None,
         NEW pc \in Holding, job' \in [Writers -> JobStates],
         \A v \in Writers : v # w => job'[v] = job[v],
         job'[w].pc = pc, job'[w].staging = job[w].staging, job'[w].node = job[w].node,
         pc \in {"permit", "write"} => ~job'[w].written,
         inode' \in [Inodes -> InodeStates],
         \A i \in Inodes : inode'[i].kind = inode[i].kind,
         \A i \in Inodes : i # w => inode'[i].content = inode[i].content,
         job'[w].written => inode'[w].content = <<w, "whole">> \/ WroteInPlace(w),
         UNCHANGED <<dir, pid, counter, litter>>
  PROVE  StagedIInv'
<1>1. /\ \A v \in Writers : v \in Inodes /\ v # None /\ v # Seed
      /\ Seed \in Inodes
  BY StagedTypes DEF Inodes
<1>2. job[w].node = w
  BY DEF StagedIInv, Opened, OpenedBy
<1>3. TypeOK'
  BY DEF StagedIInv, TypeOK
<1>4. Opened'
  <2>1. ASSUME NEW v \in Writers, v # w
        PROVE  OpenedBy(v, job'[v])
    <3>1. job'[v] = job[v]
      BY <2>1
    <3> QED BY <3>1 DEF StagedIInv, Opened
  <2>2. /\ job'[w].pc \notin {"idle", "resolve", "stat", "probe", "create", "in place"}
        /\ job'[w].node = w /\ w # None /\ job'[w].staging # None
        /\ job'[w].pc \notin {"finish", "remove", "done", "crashed"} => ~job'[w].written
    BY <1>1, <1>2 DEF Holding
  <2> QED BY <2>1, <2>2 DEF Opened, OpenedBy
<1>5. \A v \in Writers : (Holds(v)' <=> Holds(v)) /\ job'[v].staging = job[v].staging
  <2>1. Holds(w)' /\ Holds(w)
    BY DEF Holds, Holding
  <2> QED BY <2>1, OthersHold
<1>6. StagingExclusive'
  BY <1>5 DEF StagedIInv, StagingExclusive
<1>7. dir[Target] # w
  BY StagedIsElsewhere DEF Holding
<1>8. AtTargetIsDone'
  BY <1>7 DEF StagedIInv, AtTargetIsDone
<1>9. WholeOrInPlace'
  <2>1. \A i \in Inodes : WroteInPlace(i)' <=> WroteInPlace(i)
    BY InPlaceStays
  <2>2. inode'[Seed].content = <<None, "old">> \/ WroteInPlace(Seed)'
    BY <1>1, <2>1 DEF StagedIInv, WholeOrInPlace
  <2>3. ASSUME NEW v \in Writers, job'[v].staging # None, dir[Target] = v \/ job'[v].written
        PROVE  inode'[v].content = <<v, "whole">> \/ WroteInPlace(v)'
    <3>1. CASE v = w
      BY <1>1, <1>7, <2>1, <2>3, <3>1
    <3>2. CASE v # w
      BY <1>1, <2>1, <2>3, <3>2 DEF StagedIInv, WholeOrInPlace
    <3> QED BY <3>1, <3>2
  <2> QED BY <2>2, <2>3 DEF WholeOrInPlace
<1>10. NoLitter'
  BY <1>5 DEF StagedIInv, NoLitter
<1>11. MadeAreFiles'
  BY <1>1 DEF StagedIInv, MadeAreFiles
<1> QED BY <1>3, <1>4, <1>6, <1>8, <1>9, <1>10, <1>11 DEF StagedIInv

\* A call that writes in place, to a file that then counts as written there.
LEMMA InPlaceKeeps ==
  ASSUME StagedIInv, NEW w \in Writers, job[w].pc \in {"write", "finish"}, job[w].staging = None,
         NEW pc \in {"write", "finish", "done"}, job' \in [Writers -> JobStates],
         \A v \in Writers : v # w => job'[v] = job[v],
         job'[w].pc = pc, job'[w].staging = job[w].staging, job'[w].node = job[w].node,
         pc = "write" => ~job'[w].written,
         inode' \in [Inodes -> InodeStates],
         \A i \in Inodes : inode'[i].kind = inode[i].kind,
         \A i \in Inodes : i # job[w].node => inode'[i].content = inode[i].content,
         UNCHANGED <<dir, pid, counter, litter>>
  PROVE  StagedIInv'
<1>1. /\ \A v \in Writers : v \in Inodes /\ v # None /\ v # Seed
      /\ Seed \in Inodes
  BY StagedTypes DEF Inodes
<1>2. job[w].node # None
  BY DEF StagedIInv, Opened, OpenedBy
<1>3. TypeOK'
  BY DEF StagedIInv, TypeOK
<1>4. Opened'
  BY <1>2 DEF StagedIInv, Opened, OpenedBy
<1>5. \A v \in Writers : (Holds(v)' <=> Holds(v)) /\ job'[v].staging = job[v].staging
  <2>1. ~Holds(w)' /\ ~Holds(w)
    BY DEF Holds
  <2> QED BY <2>1, OthersHold
<1>6. StagingExclusive'
  BY <1>5 DEF StagedIInv, StagingExclusive
<1>7. AtTargetIsDone'
  BY DEF StagedIInv, AtTargetIsDone
<1>8. WholeOrInPlace'
  <2>1. \A i \in Inodes : WroteInPlace(i)' <=> WroteInPlace(i)
    BY InPlaceStays
  <2>2. WroteInPlace(job[w].node)
    BY DEF WroteInPlace
  <2>3. inode'[Seed].content = <<None, "old">> \/ WroteInPlace(Seed)'
    BY <1>1, <2>1, <2>2 DEF StagedIInv, WholeOrInPlace
  <2>4. ASSUME NEW v \in Writers, job'[v].staging # None, dir[Target] = v \/ job'[v].written
        PROVE  inode'[v].content = <<v, "whole">> \/ WroteInPlace(v)'
    <3>1. v # w
      BY <2>4
    <3> QED BY <1>1, <2>1, <2>2, <2>4, <3>1 DEF StagedIInv, WholeOrInPlace
  <2> QED BY <2>3, <2>4 DEF WholeOrInPlace
<1>9. NoLitter'
  BY <1>5 DEF StagedIInv, NoLitter
<1>10. MadeAreFiles'
  BY <1>1 DEF StagedIInv, MadeAreFiles
<1> QED BY <1>3, <1>4, <1>6, <1>7, <1>8, <1>9, <1>10 DEF StagedIInv

------------------------------------------------------------------------------

\* `Create` takes a name that no call holds.
LEMMA CreateKeeps ==
  ASSUME StagedIInv, NEW w \in Writers, Create(w)
  PROVE  StagedIInv'
<1> DEFINE p == processOf[w]
           name == <<pid[p], counter[p]>>
<1>1. /\ dir \in [Names -> Inodes \cup {None}]
      /\ inode \in [Inodes -> InodeStates]
      /\ job \in [Writers -> JobStates] /\ job[w] \in JobStates
      /\ \A v \in Writers : v \in Inodes /\ v # None /\ v # Seed
      /\ Target \in Names /\ Target \notin StagingNames /\ StagingNames \subseteq Names
      /\ None \notin StagingNames /\ Seed \in Inodes
  BY StagedTypes DEF Inodes
<1>2. /\ job[w].pc = "create" /\ counter[p] <= MaxCounter
      /\ counter' = [counter EXCEPT ![p] = @ + 1]
      /\ pid' = pid /\ litter' = litter
  BY DEF Create
<1>3. /\ pid \in [Processes -> Pids] /\ counter \in [Processes -> 0..(MaxCounter + 1)]
      /\ p \in Processes /\ MaxCounter \in Nat
  BY ConstantsAssumption DEF StagedIInv, TypeOK
<1>4. counter' \in [Processes -> 0..(MaxCounter + 1)] /\ counter[p] \in 0..MaxCounter
  BY <1>2, <1>3
<1>5. name \in StagingNames /\ name \in Names /\ name # Target /\ name # None
  BY <1>1, <1>3, <1>4 DEF StagingNames
<1>6. job[w].staging = None /\ job[w].node = None /\ ~job[w].written
  BY <1>2 DEF StagedIInv, Opened, OpenedBy
<1>7. CASE UNCHANGED <<dir, inode, job>>
  <2>1. TypeOK'
    BY <1>2, <1>4, <1>7 DEF StagedIInv, TypeOK
  <2>2. Opened' /\ StagingExclusive' /\ AtTargetIsDone'
    BY <1>7 DEF StagedIInv, Opened, StagingExclusive, Holds, AtTargetIsDone
  <2>3. WholeOrInPlace' /\ NoLitter' /\ MadeAreFiles'
    BY <1>2, <1>7 DEF StagedIInv, WholeOrInPlace, WroteInPlace, NoLitter, Holds, MadeAreFiles
  <2> QED BY <2>1, <2>2, <2>3 DEF StagedIInv
<1>8. CASE OpenFailed(w) /\ UNCHANGED <<dir, inode>>
  <2>1. Moved(w, "done")
    BY <1>8, DoneMoves DEF OpenFailed, Statuses
  <2> QED BY <1>2, <1>4, <1>8, <2>1, EarlyKeeps DEF Early
<1>9. CASE /\ dir[name] = None
           /\ dir' = [dir EXCEPT ![name] = w]
           /\ inode' = [inode EXCEPT ![w] = NewFile(w)]
           /\ job' = [job EXCEPT ![w].pc = "permit", ![w].staging = name, ![w].node = w]
  <2>1. job' = [job EXCEPT ![w] = [job[w] EXCEPT !.pc = "permit", !.staging = name, !.node = w]]
    <3>1. job \in [Writers -> JobStates]
      BY <1>1
    <3> HIDE DEF name
    <3> QED BY <1>9, <3>1
  <2> HIDE DEF name, p
  <2>2. [job[w] EXCEPT !.pc = "permit", !.staging = name, !.node = w] \in JobStates
    BY <1>1, <1>5 DEF JobStates
  <2>3. /\ job' \in [Writers -> JobStates]
        /\ \A v \in Writers : v # w => job'[v] = job[v]
        /\ job'[w] = [job[w] EXCEPT !.pc = "permit", !.staging = name, !.node = w]
    BY <1>1, <2>1, <2>2
  <2>4. /\ job'[w].pc = "permit" /\ job'[w].staging = name /\ job'[w].node = w
        /\ ~job'[w].written
    BY <1>1, <1>6, <2>3 DEF JobStates
  <2>5. NewFile(w) \in InodeStates
    BY DEF NewFile, InodeStates, Contents
  <2>6. TypeOK'
    BY <1>1, <1>2, <1>3, <1>4, <1>9, <2>3, <2>5 DEF StagedIInv, TypeOK
  <2>7. Opened'
    <3>1. ASSUME NEW v \in Writers, v # w
          PROVE  OpenedBy(v, job'[v])
      <4>1. job'[v] = job[v]
        BY <2>3, <3>1
      <4> QED BY <4>1 DEF StagedIInv, Opened
    <3> QED BY <1>5, <2>4, <3>1 DEF Opened, OpenedBy
  <2>8. ~Holds(w) /\ Holds(w)' /\ \A v \in Writers : v # w => (Holds(v)' <=> Holds(v))
    BY <1>2, <1>5, <2>3, <2>4, OthersHold DEF Holds
  <2>9. \A n \in Names : dir'[n] = IF n = name THEN w ELSE dir[n]
    BY <1>1, <1>5, <1>9
  <2>10. StagingExclusive'
    <3>1. ASSUME NEW v \in Writers, v # w, Holds(v) PROVE dir'[job[v].staging] = v
      <4>1. job[v].staging \in StagingNames /\ dir[job[v].staging] = v
        BY <1>1, <3>1 DEF Holds, JobStates, StagedIInv, StagingExclusive
      <4> QED BY <1>1, <1>9, <2>9, <4>1
    <3> QED BY ZenonT(60), <1>5, <2>3, <2>4, <2>8, <2>9, <3>1 DEF StagingExclusive
  <2>11. dir'[Target] = dir[Target] /\ dir[Target] # w
    BY <1>1, <1>5, <1>6, <2>9, UnopenedIsElsewhere
  <2>12. AtTargetIsDone'
    BY <2>3, <2>11 DEF StagedIInv, AtTargetIsDone
  <2>13. \A i \in Inodes : i # w => inode'[i] = inode[i]
    BY <1>1, <1>9
  <2>14. WholeOrInPlace'
    <3>1. ASSUME NEW i \in Inodes, WroteInPlace(i) PROVE WroteInPlace(i)'
      <4>1. PICK v \in Writers : job[v].node = i /\ job[v].staging = None
        BY <3>1 DEF WroteInPlace
      <4>2. v # w
        BY <1>1, <1>6, <4>1, ConstantsAssumption DEF Inodes
      <4> QED BY <2>3, <4>1, <4>2 DEF WroteInPlace
    <3>2. inode'[Seed].content = <<None, "old">> \/ WroteInPlace(Seed)'
      BY <1>1, <2>13, <3>1 DEF StagedIInv, WholeOrInPlace
    <3>3. ASSUME NEW v \in Writers, job'[v].staging # None, dir'[Target] = v \/ job'[v].written
          PROVE  inode'[v].content = <<v, "whole">> \/ WroteInPlace(v)'
      <4>1. v # w
        BY <2>4, <2>11, <3>3
      <4> QED BY <1>1, <2>3, <2>11, <2>13, <3>1, <3>3, <4>1 DEF StagedIInv, WholeOrInPlace
    <3> QED BY <3>2, <3>3 DEF WholeOrInPlace
  <2>15. NoLitter'
    <3> SUFFICES ASSUME NEW n \in StagingNames, dir'[n] # None, n \notin litter'
                 PROVE  \E v \in Writers : Holds(v)' /\ job'[v].staging = n
      BY DEF NoLitter
    <3>1. CASE n = name
      BY <2>4, <2>8, <3>1
    <3>2. CASE n # name
      <4>1. dir[n] # None
        BY <1>1, <2>9, <3>2
      <4>2. PICK v \in Writers : Holds(v) /\ job[v].staging = n
        BY <1>2, <4>1 DEF StagedIInv, NoLitter
      <4> QED BY <2>3, <2>8, <4>2
    <3> QED BY <3>1, <3>2
  <2>16. MadeAreFiles'
    BY <1>1, <1>9 DEF StagedIInv, MadeAreFiles, NewFile
  <2> QED BY <2>6, <2>7, <2>10, <2>12, <2>14, <2>15, <2>16 DEF StagedIInv
<1> QED BY <1>7, <1>8, <1>9 DEF Create

\* `Permit` changes no content, and keeps the staging file or sets out to
\* remove it.
LEMMA PermitKeeps ==
  ASSUME StagedIInv, NEW w \in Writers, Permit(w)
  PROVE  StagedIInv'
<1>1. /\ job[w].pc = "permit" /\ job[w].staging # None /\ ~job[w].written
      /\ UNCHANGED <<dir, pid, counter, litter>>
      /\ inode \in [Inodes -> InodeStates] /\ job[w] \in JobStates
      /\ job[w].node = w /\ w \in Inodes
  BY StagedTypes DEF Permit, StagedIInv, Opened, OpenedBy
<1>2. CASE Goto(w, "write") /\ UNCHANGED inode
  <2>1. Moved(w, "write")
    BY <1>2, GotoMoves DEF PcValues
  <2> QED BY <1>1, <1>2, <2>1, HeldKeeps DEF Moved, Holding
<1>3. CASE job[w].kept # "none" /\ inode' = [inode EXCEPT ![job[w].node].mode = job[w].kept]
             /\ Goto(w, "write")
  <2>1. Moved(w, "write")
    BY <1>3, GotoMoves DEF PcValues
  <2>2. job[w].kept \in {"default", "private", "readonly"}
    BY <1>1, <1>3 DEF JobStates
  <2>3. /\ inode' \in [Inodes -> InodeStates]
        /\ \A i \in Inodes : inode'[i].content = inode[i].content /\ inode'[i].kind = inode[i].kind
    BY <1>1, <1>3, <2>2 DEF InodeStates
  <2> QED BY <1>1, <2>1, <2>3, HeldKeeps DEF Moved, Holding
<1>4. CASE job' = [job EXCEPT ![w].pc = "remove", ![w].status = "open_failed"] /\ UNCHANGED inode
  <2> DEFINE c == [job[w] EXCEPT !.pc = "remove", !.status = "open_failed"]
  <2>1. job \in [Writers -> JobStates] /\ job' = [job EXCEPT ![w] = c]
    BY <1>4, StagedTypes
  <2>2. c \in JobStates /\ c.pc = "remove" /\ c.staging = job[w].staging /\ c.node = job[w].node
          /\ c.written = job[w].written
    BY <1>1 DEF JobStates
  <2> HIDE DEF c
  <2>3. Moved(w, "remove")
    BY <2>1, <2>2 DEF Moved
  <2> QED BY <1>1, <1>4, <2>3, HeldKeeps DEF Moved, Holding
<1> QED BY <1>2, <1>3, <1>4 DEF Permit

\* `in_place` makes a file of its own at the target, or takes what is there.
LEMMA OpenInPlaceKeeps ==
  ASSUME StagedIInv, NEW w \in Writers, OpenInPlace(w)
  PROVE  StagedIInv'
<1>1. /\ dir \in [Names -> Inodes \cup {None}]
      /\ inode \in [Inodes -> InodeStates]
      /\ job \in [Writers -> JobStates] /\ job[w] \in JobStates
      /\ \A v \in Writers : v \in Inodes /\ v # None /\ v # Seed
      /\ Target \in Names /\ Target \notin StagingNames /\ StagingNames \subseteq Names
      /\ None \notin StagingNames /\ Seed \in Inodes /\ None \notin Inodes
      /\ dir[Target] \in Inodes \cup {None}
  BY StagedTypes, ConstantsAssumption DEF Inodes
<1>2. /\ job[w].pc = "in place" /\ UNCHANGED <<pid, counter, litter>>
      /\ job[w].staging = None /\ job[w].node = None /\ ~job[w].written
  BY DEF OpenInPlace, StagedIInv, Opened, OpenedBy
<1>3. CASE OpenFailed(w) /\ UNCHANGED <<dir, inode>>
  <2>1. Moved(w, "done")
    BY <1>3, DoneMoves DEF OpenFailed, Statuses
  <2>2. counter' \in [Processes -> 0..(MaxCounter + 1)]
    BY <1>2 DEF StagedIInv, TypeOK
  <2> QED BY <1>2, <1>3, <2>1, <2>2, EarlyKeeps DEF Early
<1>4. ASSUME NEW i \in Inodes,
             job' = [job EXCEPT ![w].pc = "write", ![w].node = i],
             inode' \in [Inodes -> InodeStates],
             \A j \in Inodes : j # i => inode'[j].content = inode[j].content,
             \A v \in Writers : inode'[v].kind = "file",
             dir' \in [Names -> Inodes \cup {None}],
             \A n \in Names : n # Target => dir'[n] = dir[n],
             dir'[Target] = i,
             \A v \in Writers : v # w /\ dir'[Target] = v => dir[Target] = v
      PROVE  StagedIInv'
  <2> DEFINE c == [job[w] EXCEPT !.pc = "write", !.node = i]
  <2>1. job' = [job EXCEPT ![w] = c]
    BY <1>1, <1>4
  <2>2. c \in JobStates /\ c.pc = "write" /\ c.staging = None /\ c.node = i /\ ~c.written
    BY <1>1, <1>2 DEF JobStates
  <2> HIDE DEF c
  <2>3. /\ job' \in [Writers -> JobStates]
        /\ \A v \in Writers : v # w => job'[v] = job[v]
        /\ job'[w].pc = "write" /\ job'[w].staging = None /\ job'[w].node = i /\ ~job'[w].written
    BY <1>1, <2>1, <2>2
  <2>4. TypeOK'
    BY <1>2, <1>4, <2>3 DEF StagedIInv, TypeOK
  <2>5. Opened'
    <3>1. ASSUME NEW v \in Writers, v # w PROVE OpenedBy(v, job'[v])
      <4>1. job'[v] = job[v]
        BY <2>3, <3>1
      <4> QED BY <4>1 DEF StagedIInv, Opened
    <3>2. OpenedBy(w, job'[w])
      BY <1>1, <2>3 DEF OpenedBy
    <3> QED BY <3>1, <3>2 DEF Opened
  <2>6. \A v \in Writers : (Holds(v)' <=> Holds(v)) /\ job'[v].staging = job[v].staging
    <3>1. ~Holds(w)' /\ ~Holds(w)
      BY <1>2, <2>3 DEF Holds
    <3> QED BY <1>2, <2>3, <3>1, OthersHold
  <2>7. StagingExclusive'
    <3> SUFFICES ASSUME NEW v \in Writers, Holds(v) PROVE dir'[job[v].staging] = v
      BY <2>6 DEF StagingExclusive
    <3>1. job[v].staging \in StagingNames
      BY <1>1 DEF Holds, JobStates
    <3>2. dir[job[v].staging] = v
      BY DEF StagedIInv, StagingExclusive
    <3> QED BY <1>1, <1>4, <3>1, <3>2
  <2>8. AtTargetIsDone'
    <3> SUFFICES ASSUME NEW v \in Writers, dir'[Target] = v
                 PROVE  \/ job'[v].staging = None /\ job'[v].node = v
                        \/ job'[v].staging # None /\ job'[v].pc = "done"
      BY DEF AtTargetIsDone
    <3>1. CASE v = w
      BY <1>4, <2>3, <3>1
    <3>2. CASE v # w
      <4>1. dir[Target] = v /\ job'[v] = job[v]
        BY <1>4, <2>3, <3>2
      <4> QED BY <4>1 DEF StagedIInv, AtTargetIsDone
    <3> QED BY <3>1, <3>2
  <2>9. WholeOrInPlace'
    <3>1. WroteInPlace(i)'
      BY <2>3 DEF WroteInPlace
    <3>2. ASSUME NEW j \in Inodes, WroteInPlace(j) PROVE WroteInPlace(j)'
      <4>1. PICK v \in Writers : job[v].node = j /\ job[v].staging = None
        BY <3>2 DEF WroteInPlace
      <4>2. v # w
        BY <1>1, <1>2, <4>1
      <4> QED BY <2>3, <4>1, <4>2 DEF WroteInPlace
    <3>3. inode'[Seed].content = <<None, "old">> \/ WroteInPlace(Seed)'
      BY <1>1, <1>4, <3>1, <3>2 DEF StagedIInv, WholeOrInPlace
    <3>4. ASSUME NEW v \in Writers, job'[v].staging # None, dir'[Target] = v \/ job'[v].written
          PROVE  inode'[v].content = <<v, "whole">> \/ WroteInPlace(v)'
      <4>1. v # w
        BY <2>3, <3>4
      <4>2. job[v].staging # None /\ (dir[Target] = v \/ job[v].written)
        BY <1>4, <2>3, <3>4, <4>1
      <4>3. inode[v].content = <<v, "whole">> \/ WroteInPlace(v)
        BY <4>2 DEF StagedIInv, WholeOrInPlace
      <4> QED BY <1>1, <1>4, <3>1, <3>2, <4>3
    <3> QED BY <3>3, <3>4 DEF WholeOrInPlace
  <2>10. NoLitter'
    <3> SUFFICES ASSUME NEW n \in StagingNames, dir'[n] # None, n \notin litter'
                 PROVE  \E v \in Writers : Holds(v)' /\ job'[v].staging = n
      BY DEF NoLitter
    <3>1. dir[n] # None /\ n \notin litter
      BY <1>1, <1>2, <1>4
    <3>2. PICK v \in Writers : Holds(v) /\ job[v].staging = n
      BY <3>1 DEF StagedIInv, NoLitter
    <3> QED BY <2>6, <3>2
  <2>11. MadeAreFiles'
    BY <1>4 DEF MadeAreFiles
  <2> QED BY <2>4, <2>5, <2>7, <2>8, <2>9, <2>10, <2>11 DEF StagedIInv
<1>5. CASE /\ dir' = [dir EXCEPT ![Target] = w]
           /\ inode' = [inode EXCEPT ![w] = NewFile(w)]
           /\ job' = [job EXCEPT ![w].pc = "write", ![w].node = w]
  <2>1. NewFile(w) \in InodeStates
    BY DEF NewFile, InodeStates, Contents
  <2>2. \A v \in Writers : inode'[v].kind = "file"
    BY <1>1, <1>5 DEF NewFile, StagedIInv, MadeAreFiles
  <2>3. /\ inode' \in [Inodes -> InodeStates] /\ dir' \in [Names -> Inodes \cup {None}]
        /\ \A j \in Inodes : j # w => inode'[j].content = inode[j].content
        /\ \A n \in Names : n # Target => dir'[n] = dir[n]
        /\ dir'[Target] = w
    BY <1>1, <1>5, <2>1
  <2> QED BY <1>1, <1>4, <1>5, <2>2, <2>3
<1>6. CASE /\ AtTarget \in {"file", "special"}
           /\ inode' = IF AtTarget = "file"
                       THEN [inode EXCEPT ![dir[Target]].content = <<w, "empty">>] ELSE inode
           /\ job' = [job EXCEPT ![w].pc = "write", ![w].node = dir[Target]]
           /\ UNCHANGED dir
  <2>1. dir[Target] \in Inodes
    BY <1>1, <1>6 DEF AtTarget, At
  <2>2. inode' \in [Inodes -> InodeStates]
    BY <1>1, <1>6, <2>1 DEF InodeStates, Contents
  <2>3. \A j \in Inodes : j # dir[Target] => inode'[j].content = inode[j].content
    BY <1>1, <1>6, <2>1
  <2>4. \A v \in Writers : inode'[v].kind = "file"
    BY <1>1, <1>6, <2>1 DEF StagedIInv, MadeAreFiles, InodeStates
  <2> QED BY <1>1, <1>4, <1>6, <2>1, <2>2, <2>3, <2>4
<1> QED BY <1>3, <1>5, <1>6 DEF OpenInPlace

\* What is written goes to the call's own staging file, or to the file it
\* opened in place.
LEMMA WriteKeeps ==
  ASSUME StagedIInv, NEW w \in Writers, Write(w)
  PROVE  StagedIInv'
<1>1. /\ inode \in [Inodes -> InodeStates]
      /\ job \in [Writers -> JobStates] /\ job[w] \in JobStates /\ w \in Inodes
  BY StagedTypes
<1>2. /\ job[w].pc = "write" /\ UNCHANGED <<dir, pid, counter, litter>>
      /\ ~job[w].written
      /\ job[w].node # None /\ job[w].node \in Inodes
      /\ job[w].staging # None => job[w].node = w
  BY <1>1 DEF Write, StagedIInv, Opened, OpenedBy, JobStates
<1>3. ASSUME NEW pc \in {"write", "finish"}, Moved(w, pc), inode' \in [Inodes -> InodeStates],
             \A i \in Inodes : i # job[w].node => inode'[i].content = inode[i].content,
             \A i \in Inodes : inode'[i].kind = inode[i].kind
      PROVE  StagedIInv'
  <2>1. CASE job[w].staging # None
    BY <1>2, <1>3, <2>1, HeldKeeps DEF Moved, Holding
  <2>2. CASE job[w].staging = None
    BY <1>2, <1>3, <2>2, InPlaceKeeps DEF Moved
  <2> QED BY <2>1, <2>2
<1>4. ASSUME NEW c \in Contents, WriteTo(job[w].node, c)
      PROVE  /\ inode' \in [Inodes -> InodeStates]
             /\ \A i \in Inodes : i # job[w].node => inode'[i].content = inode[i].content
             /\ \A i \in Inodes : inode'[i].kind = inode[i].kind
             /\ inode[job[w].node].kind = "file" => inode'[job[w].node].content = c
  BY <1>1, <1>2, <1>4 DEF WriteTo, InodeStates
<1>5. CASE WriteTo(job[w].node, <<w, "partial">>) /\ UNCHANGED job
  <2>1. <<w, "partial">> \in Contents
    BY DEF Contents
  <2>2. Moved(w, "write")
    BY <1>1, <1>2, <1>5 DEF Moved
  <2> QED BY <1>3, <1>4, <1>5, <2>1, <2>2
<1>6. CASE /\ WriteTo(job[w].node, <<w, "whole">>)
           /\ job' = [job EXCEPT ![w].pc = "finish", ![w].written = TRUE]
  <2> DEFINE c == [job[w] EXCEPT !.pc = "finish", !.written = TRUE]
  <2>1. job' = [job EXCEPT ![w] = c]
    BY <1>1, <1>6
  <2>2. c \in JobStates /\ c.pc = "finish" /\ c.staging = job[w].staging /\ c.node = job[w].node
    BY <1>1 DEF JobStates
  <2> HIDE DEF c
  <2>3. /\ job' \in [Writers -> JobStates]
        /\ \A v \in Writers : v # w => job'[v] = job[v]
        /\ job'[w].pc = "finish" /\ job'[w].staging = job[w].staging /\ job'[w].node = job[w].node
    BY <1>1, <2>1, <2>2
  <2>4. <<w, "whole">> \in Contents
    BY DEF Contents
  <2>5. CASE job[w].staging # None
    <3>1. inode[w].kind = "file"
      BY <1>2, <2>5 DEF StagedIInv, MadeAreFiles
    <3>2. inode'[w].content = <<w, "whole">>
      BY <1>2, <1>4, <1>6, <2>4, <2>5, <3>1
    <3> QED BY <1>2, <1>4, <1>6, <2>3, <2>4, <2>5, <3>2, HeldKeeps DEF Holding
  <2>6. CASE job[w].staging = None
    BY <1>2, <1>4, <1>6, <2>3, <2>4, <2>6, InPlaceKeeps
  <2> QED BY <2>5, <2>6
<1>7. CASE Goto(w, "finish") /\ UNCHANGED inode
  <2>1. Moved(w, "finish")
    BY <1>7, GotoMoves DEF PcValues
  <2> QED BY <1>1, <1>3, <1>7, <2>1
<1> QED BY <1>5, <1>6, <1>7 DEF Write

\* `finish` renames a whole file, and nothing is linked twice.
LEMMA FinishKeeps ==
  ASSUME StagedIInv, NEW w \in Writers, Finish(w)
  PROVE  StagedIInv'
<1>1. /\ dir \in [Names -> Inodes \cup {None}]
      /\ inode \in [Inodes -> InodeStates]
      /\ job \in [Writers -> JobStates] /\ job[w] \in JobStates
      /\ \A v \in Writers : v \in Inodes /\ v # None /\ v # Seed
      /\ Target \in Names /\ Target \notin StagingNames /\ StagingNames \subseteq Names
      /\ None \notin StagingNames /\ Seed \in Inodes /\ None \notin Inodes
  BY StagedTypes, ConstantsAssumption DEF Inodes
<1>2. job[w].pc = "finish" /\ UNCHANGED <<inode, pid, counter, litter>>
  BY DEF Finish
<1>3. CASE ~Staged(w) /\ Done(w, IF job[w].written THEN "ok" ELSE "write_failed") /\ UNCHANGED dir
  <2>1. Moved(w, "done")
    BY <1>3, DoneMoves DEF Statuses
  <2> QED BY <1>1, <1>2, <1>3, <2>1, InPlaceKeeps DEF Staged, Moved
<1>4. CASE /\ Staged(w)
           /\ job' = [job EXCEPT ![w].pc = "remove", ![w].status = "write_failed"]
           /\ UNCHANGED dir
  <2> DEFINE c == [job[w] EXCEPT !.pc = "remove", !.status = "write_failed"]
  <2>1. job' = [job EXCEPT ![w] = c]
    BY <1>1, <1>4
  <2>2. c \in JobStates /\ c.pc = "remove" /\ c.staging = job[w].staging /\ c.node = job[w].node
          /\ c.written = job[w].written
    BY <1>1 DEF JobStates
  <2> HIDE DEF c
  <2>3. Moved(w, "remove")
    BY <1>1, <2>1, <2>2 DEF Moved
  <2>4. job[w].written => inode[w].content = <<w, "whole">> \/ WroteInPlace(w)
    BY <1>4 DEF StagedIInv, WholeOrInPlace, Staged
  <2> QED BY <1>1, <1>2, <1>4, <2>3, <2>4, HeldKeeps DEF Staged, Moved, Holding
<1>5. CASE /\ Staged(w) /\ job[w].written
           /\ dir' = [dir EXCEPT ![Target] = dir[job[w].staging], ![job[w].staging] = None]
           /\ Done(w, "ok")
  <2>1. Moved(w, "done")
    BY <1>5, DoneMoves DEF Statuses
  <2>2. /\ \A v \in Writers : v # w => job'[v] = job[v]
        /\ job'[w].pc = "done" /\ job'[w].staging = job[w].staging /\ job'[w].node = job[w].node
        /\ job'[w].written
        /\ job[w].staging # None
    BY <1>5, <2>1 DEF Moved, Staged
  <2> DEFINE name == job[w].staging
  <2>3. name \in StagingNames /\ name \in Names /\ name # Target
    BY <1>1, <2>2 DEF JobStates
  <2>4. dir[name] = w
    BY <1>2, <2>2 DEF StagedIInv, StagingExclusive, Holds
  <2>5. dir' \in [Names -> Inodes \cup {None}]
    BY <1>1, <1>5, <2>4
  <2>6. \A n \in Names : dir'[n] = IF n = name THEN None ELSE IF n = Target THEN w ELSE dir[n]
    BY <1>1, <1>5, <2>3, <2>4
  <2> HIDE DEF name
  <2>7. TypeOK'
    BY <1>2, <2>1, <2>5 DEF StagedIInv, TypeOK, Moved
  <2>8. Opened'
    <3>1. ASSUME NEW v \in Writers, v # w PROVE OpenedBy(v, job'[v])
      <4>1. job'[v] = job[v]
        BY <2>2, <3>1
      <4> QED BY <4>1 DEF StagedIInv, Opened
    <3>2. OpenedBy(w, job'[w])
      BY <2>2 DEF OpenedBy, StagedIInv, Opened
    <3> QED BY <3>1, <3>2 DEF Opened
  <2>9. ~Holds(w)' /\ \A v \in Writers : v # w => (Holds(v)' <=> Holds(v))
    BY <2>2, OthersHold DEF Holds
  <2>10. StagingExclusive'
    <3> SUFFICES ASSUME NEW v \in Writers, v # w, Holds(v) PROVE dir'[job[v].staging] = v
      BY <2>2, <2>9 DEF StagingExclusive
    <3>1. job[v].staging \in StagingNames
      BY <1>1 DEF Holds, JobStates
    <3>2. dir[job[v].staging] = v
      BY DEF StagedIInv, StagingExclusive
    <3> QED BY <1>1, <2>4, <2>6, <3>1, <3>2
  <2>11. dir'[Target] = w
    BY <1>1, <2>3, <2>6
  <2>12. AtTargetIsDone'
    BY <2>2, <2>11 DEF AtTargetIsDone
  <2>13. WholeOrInPlace'
    <3>1. \A i \in Inodes : WroteInPlace(i)' <=> WroteInPlace(i)
      BY <2>2, InPlaceStays
    <3>2. inode'[Seed].content = <<None, "old">> \/ WroteInPlace(Seed)'
      BY <1>1, <1>2, <3>1 DEF StagedIInv, WholeOrInPlace
    <3>3. ASSUME NEW v \in Writers, job'[v].staging # None, dir'[Target] = v \/ job'[v].written
          PROVE  inode'[v].content = <<v, "whole">> \/ WroteInPlace(v)'
      <4>1. job[v].staging # None /\ job[v].written
        BY <1>5, <2>2, <2>11, <3>3
      <4> QED BY <1>1, <1>2, <3>1, <4>1 DEF StagedIInv, WholeOrInPlace
    <3> QED BY <3>2, <3>3 DEF WholeOrInPlace
  <2>14. NoLitter'
    <3> SUFFICES ASSUME NEW n \in StagingNames, dir'[n] # None, n \notin litter'
                 PROVE  \E v \in Writers : Holds(v)' /\ job'[v].staging = n
      BY DEF NoLitter
    <3>1. n # name /\ dir[n] # None /\ n \notin litter
      BY <1>1, <1>2, <2>6
    <3>2. PICK v \in Writers : Holds(v) /\ job[v].staging = n
      BY <3>1 DEF StagedIInv, NoLitter
    <3>3. v # w
      BY <3>1, <3>2 DEF name
    <3> QED BY <2>2, <2>9, <3>2, <3>3
  <2>15. MadeAreFiles'
    BY <1>2 DEF StagedIInv, MadeAreFiles
  <2> QED BY <2>7, <2>8, <2>10, <2>12, <2>13, <2>14, <2>15 DEF StagedIInv
<1> QED BY <1>3, <1>4, <1>5 DEF Finish

\* `Remove` unlinks the call's own staging file or counts it as litter.
LEMMA RemoveKeeps ==
  ASSUME StagedIInv, NEW w \in Writers, Remove(w)
  PROVE  StagedIInv'
<1>1. /\ dir \in [Names -> Inodes \cup {None}]
      /\ job \in [Writers -> JobStates] /\ job[w] \in JobStates
      /\ \A v \in Writers : v \in Inodes /\ v # None /\ v # Seed
      /\ Target \in Names /\ Target \notin StagingNames /\ StagingNames \subseteq Names
      /\ None \notin StagingNames /\ Seed \in Inodes
  BY StagedTypes DEF Inodes
<1>2. job[w].pc = "remove" /\ job[w].staging # None /\ UNCHANGED <<inode, pid, counter>>
  BY DEF Remove, StagedIInv, Opened, OpenedBy
<1> DEFINE name == job[w].staging
<1>3. name \in StagingNames /\ name \in Names /\ name # Target
  BY <1>1, <1>2 DEF JobStates
<1>4. Moved(w, "done")
  BY GotoMoves DEF Remove, PcValues
<1>5. /\ \A v \in Writers : v # w => job'[v] = job[v]
      /\ job'[w].pc = "done" /\ job'[w].staging = job[w].staging /\ job'[w].node = job[w].node
      /\ job'[w].written = job[w].written
  BY <1>4 DEF Moved
<1>6. dir[name] = w
  BY <1>2 DEF StagedIInv, StagingExclusive, Holds
<1>7. /\ litter' \in SUBSET StagingNames /\ litter \subseteq litter'
      /\ dir' \in [Names -> Inodes \cup {None}]
      /\ \A n \in Names : n # name => dir'[n] = dir[n]
      /\ name \in litter' \/ dir'[name] = None
  <2>1. litter \in SUBSET StagingNames
    BY DEF StagedIInv, TypeOK
  <2> QED BY <1>1, <1>3, <2>1 DEF Remove
<1> HIDE DEF name
<1>8. TypeOK'
  BY <1>2, <1>4, <1>7 DEF StagedIInv, TypeOK, Moved
<1>9. Opened'
  <2>1. ASSUME NEW v \in Writers, v # w PROVE OpenedBy(v, job'[v])
    <3>1. job'[v] = job[v]
      BY <1>5, <2>1
    <3> QED BY <3>1 DEF StagedIInv, Opened
  <2>2. OpenedBy(w, job'[w])
    BY <1>5 DEF OpenedBy, StagedIInv, Opened
  <2> QED BY <2>1, <2>2 DEF Opened
<1>10. ~Holds(w)' /\ \A v \in Writers : v # w => (Holds(v)' <=> Holds(v))
  BY <1>5, OthersHold DEF Holds
<1>11. StagingExclusive'
  <2> SUFFICES ASSUME NEW v \in Writers, v # w, Holds(v) PROVE dir'[job[v].staging] = v
    BY <1>5, <1>10 DEF StagingExclusive
  <2>1. job[v].staging \in StagingNames
    BY <1>1 DEF Holds, JobStates
  <2>2. dir[job[v].staging] = v
    BY DEF StagedIInv, StagingExclusive
  <2> QED BY <1>1, <1>6, <1>7, <2>1, <2>2
<1>12. dir'[Target] = dir[Target] /\ dir[Target] # w
  BY <1>1, <1>2, <1>3, <1>7, StagedIsElsewhere
<1>13. AtTargetIsDone'
  BY <1>5, <1>12 DEF StagedIInv, AtTargetIsDone
<1>14. WholeOrInPlace'
  <2>1. \A i \in Inodes : WroteInPlace(i)' <=> WroteInPlace(i)
    BY <1>5, InPlaceStays
  <2>2. \A v \in Writers : job'[v].staging = job[v].staging /\ job'[v].written = job[v].written
    BY <1>5
  <2> QED BY <1>1, <1>2, <1>12, <2>1, <2>2 DEF StagedIInv, WholeOrInPlace
<1>15. NoLitter'
  <2> SUFFICES ASSUME NEW n \in StagingNames, dir'[n] # None, n \notin litter'
               PROVE  \E v \in Writers : Holds(v)' /\ job'[v].staging = n
    BY DEF NoLitter
  <2>1. n # name /\ dir[n] # None /\ n \notin litter
    BY <1>1, <1>7
  <2>2. PICK v \in Writers : Holds(v) /\ job[v].staging = n
    BY <2>1 DEF StagedIInv, NoLitter
  <2>3. v # w
    BY <2>1, <2>2 DEF name
  <2> QED BY <1>5, <1>10, <2>2, <2>3
<1>16. MadeAreFiles'
  BY <1>2 DEF StagedIInv, MadeAreFiles
<1> QED BY <1>8, <1>9, <1>11, <1>13, <1>14, <1>15, <1>16 DEF StagedIInv

\* A process that dies leaves every file as it is.
LEMMA CrashKeeps ==
  ASSUME StagedIInv, NEW p \in Processes, Crash(p)
  PROVE  StagedIInv'
<1>1. /\ job \in [Writers -> JobStates]
      /\ UNCHANGED <<dir, inode, pid, counter, litter>>
  BY StagedTypes DEF Crash
<1>2. ASSUME NEW v \in Writers
      PROVE  /\ job'[v] \in JobStates
             /\ job'[v].staging = job[v].staging /\ job'[v].node = job[v].node
             /\ job'[v].written = job[v].written
             /\ job'[v].pc = IF processOf[v] = p /\ job[v].pc # "done" THEN "crashed" ELSE job[v].pc
  BY ZenonT(60), <1>1 DEF Crash, JobStates
<1>3. TypeOK'
  <2>1. job' \in [Writers -> JobStates]
    BY <1>2 DEF Crash
  <2> QED BY <1>1, <2>1 DEF StagedIInv, TypeOK
<1>4. Opened'
  <2>1. ASSUME NEW v \in Writers PROVE OpenedBy(v, job'[v])
    <3>1. OpenedBy(v, job[v])
      BY DEF StagedIInv, Opened
    <3> QED BY <1>2, <3>1 DEF OpenedBy
  <2> QED BY <2>1 DEF Opened
<1>5. ASSUME NEW v \in Writers PROVE Holds(v)' <=> Holds(v)
  <2>1. job[v] \in JobStates /\ OpenedBy(v, job[v])
    BY <1>1 DEF StagedIInv, Opened
  <2> QED BY <1>2, <2>1 DEF Holds, OpenedBy, JobStates
<1>6. StagingExclusive'
  BY <1>1, <1>2, <1>5 DEF StagedIInv, StagingExclusive
<1>7. AtTargetIsDone'
  BY <1>1, <1>2 DEF StagedIInv, AtTargetIsDone
<1>8. WholeOrInPlace'
  <2>1. \A i \in Inodes : WroteInPlace(i)' <=> WroteInPlace(i)
    BY <1>2 DEF WroteInPlace
  <2>2. Seed \in Inodes /\ \A v \in Writers : v \in Inodes
    BY DEF Inodes
  <2> QED BY <1>1, <1>2, <2>1, <2>2 DEF StagedIInv, WholeOrInPlace
<1>9. NoLitter'
  BY <1>1, <1>2, <1>5 DEF StagedIInv, NoLitter
<1>10. MadeAreFiles'
  BY <1>1 DEF StagedIInv, MadeAreFiles
<1> QED BY <1>3, <1>4, <1>6, <1>7, <1>8, <1>9, <1>10 DEF StagedIInv

\* An outsider can unlink the target or put back the file of the start, which
\* no call wrote but in place.
LEMMA MeddleKeeps ==
  ASSUME StagedIInv, Meddle
  PROVE  StagedIInv'
<1>1. /\ dir \in [Names -> Inodes \cup {None}]
      /\ job \in [Writers -> JobStates]
      /\ \A v \in Writers : v \in Inodes /\ v # None /\ v # Seed
      /\ Target \in Names /\ Target \notin StagingNames /\ StagingNames \subseteq Names
      /\ None \notin StagingNames /\ Seed \in Inodes
  BY StagedTypes DEF Inodes
<1>2. /\ UNCHANGED <<inode, pid, counter, job, litter>>
      /\ dir' \in [Names -> Inodes \cup {None}]
      /\ \A n \in Names : n # Target => dir'[n] = dir[n]
      /\ dir'[Target] \in {Seed, None}
  BY <1>1 DEF Meddle
<1>3. TypeOK' /\ Opened' /\ MadeAreFiles'
  BY <1>2 DEF StagedIInv, TypeOK, Opened, MadeAreFiles
<1>4. StagingExclusive'
  <2> SUFFICES ASSUME NEW v \in Writers, Holds(v) PROVE dir'[job[v].staging] = v
    BY <1>2 DEF StagingExclusive, Holds
  <2>1. job[v].staging \in StagingNames
    BY <1>1 DEF Holds, JobStates
  <2>2. dir[job[v].staging] = v
    BY DEF StagedIInv, StagingExclusive
  <2> QED BY <1>1, <1>2, <2>1, <2>2
<1>5. AtTargetIsDone'
  BY <1>1, <1>2 DEF AtTargetIsDone
<1>6. WholeOrInPlace'
  BY <1>1, <1>2 DEF StagedIInv, WholeOrInPlace, WroteInPlace
<1>7. NoLitter'
  BY <1>1, <1>2 DEF StagedIInv, NoLitter, Holds
<1> QED BY <1>3, <1>4, <1>5, <1>6, <1>7 DEF StagedIInv

\* Every step keeps the inductive invariant.
LEMMA NextKeepsStagedIInv == StagedIInv /\ [Next]_vars => StagedIInv'
<1> SUFFICES ASSUME StagedIInv, [Next]_vars PROVE StagedIInv'
  OBVIOUS
<1>1. CASE UNCHANGED vars
  <2>1. TypeOK' /\ Opened' /\ MadeAreFiles' /\ StagingExclusive'
    BY <1>1 DEF StagedIInv, TypeOK, Opened, MadeAreFiles, StagingExclusive, Holds, vars
  <2>2. AtTargetIsDone' /\ WholeOrInPlace' /\ NoLitter'
    BY <1>1 DEF StagedIInv, AtTargetIsDone, WholeOrInPlace, WroteInPlace, NoLitter, Holds, vars
  <2> QED BY <2>1, <2>2 DEF StagedIInv
<1>2. ASSUME NEW w \in Writers, WriterStep(w) PROVE StagedIInv'
  <2>1. ASSUME NEW route \in Routes, Check(w, route) PROVE StagedIInv'
    BY <2>1, CheckKeeps
  <2>2. CASE Resolve(w) \/ Stat(w) \/ Probe(w)
    BY <2>2, ResolveKeeps, StatKeeps, ProbeKeeps
  <2>3. CASE Create(w) \/ Permit(w) \/ OpenInPlace(w)
    BY <2>3, CreateKeeps, PermitKeeps, OpenInPlaceKeeps
  <2>4. CASE Write(w) \/ Finish(w) \/ Remove(w)
    BY <2>4, WriteKeeps, FinishKeeps, RemoveKeeps
  <2> QED BY <1>2, <2>1, <2>2, <2>3, <2>4 DEF WriterStep
<1>3. ASSUME NEW p \in Processes, Crash(p) PROVE StagedIInv'
  BY <1>3, CrashKeeps
<1>4. CASE Meddle
  BY <1>4, MeddleKeeps
<1> QED BY <1>1, <1>2, <1>3, <1>4 DEF Next

LEMMA StagedIInvHolds == Spec => []StagedIInv
BY InitStagedIInv, NextKeepsStagedIInv, PTL DEF Spec

------------------------------------------------------------------------------

\* The state of the staged writers is well typed.
THEOREM StagedIsTyped == Spec => []TypeOK
<1>1. StagedIInv => TypeOK
  BY DEF StagedIInv
<1> QED BY <1>1, StagedIInvHolds, PTL

\* From `create_new` to the rename or the removal a staging name is linked to
\* its own writer's file, also between processes that share a pid.
THEOREM StagingIsExclusive == Spec => []StagingExclusive
<1>1. StagedIInv => StagingExclusive
  BY DEF StagedIInv
<1> QED BY <1>1, StagedIInvHolds, PTL

\* A staging file outlives its write only after a crash or a failed removal.
THEOREM NoLitterIsLeft == Spec => []NoLitter
<1>1. StagedIInv => NoLitter
  BY DEF StagedIInv
<1> QED BY <1>1, StagedIInvHolds, PTL

\* Whoever reads the target at any moment finds a complete file, unless a
\* writer that followed a dangling link is writing that very file in place.
THEOREM TargetIsNeverTorn == Spec => []TargetNeverTorn
<1>1. ASSUME StagedIInv PROVE TargetNeverTorn
  <2> SUFFICES ASSUME AtTarget = "file"
               PROVE  \/ inode[dir[Target]].content \in {<<None, "old">>} \cup (Writers \X {"whole"})
                      \/ WroteInPlace(dir[Target])
    BY DEF TargetNeverTorn
  <2>1. dir[Target] \in Inodes
    BY <1>1, StagedTypes DEF AtTarget, At
  <2>2. CASE dir[Target] = Seed
    BY <1>1, <2>2 DEF StagedIInv, WholeOrInPlace
  <2>3. CASE dir[Target] # Seed
    <3> DEFINE w == dir[Target]
    <3>1. w \in Writers
      BY <2>1, <2>3 DEF Inodes
    <3>2. CASE job[w].staging = None
      BY <1>1, <3>1, <3>2 DEF StagedIInv, AtTargetIsDone, WroteInPlace
    <3>3. CASE job[w].staging # None
      <4>1. inode[w].content = <<w, "whole">> \/ WroteInPlace(w)
        BY <1>1, <3>1, <3>3 DEF StagedIInv, WholeOrInPlace
      <4>2. <<w, "whole">> \in Writers \X {"whole"}
        BY <3>1
      <4> QED BY <4>1, <4>2
    <3> QED BY <3>2, <3>3
  <2> QED BY <2>2, <2>3
<1> QED BY <1>1, StagedIInvHolds, PTL

------------------------------------------------------------------------------
(* Calls by a path of its own, to a regular or missing file, without an       *)
(* outsider.                                                                  *)

RegularSeeds ==
  [kind : {"file"}, mode : {"default", "private", "readonly"}]
    \cup {[kind |-> "absent", mode |-> "default"]}

OnlyRegular == Routes = {"path"} /\ Meddling = FALSE /\ Seeds \subseteq RegularSeeds

TargetBits == IF dir[Target] = None THEN "none" ELSE TargetMode

\* Nothing is opened in place, and a call that goes on to write has noted the
\* bits that the target has now; its own file, `bits`, has them once it writes.
CallBits(call, target, bits) ==
  /\ call.route = "path" /\ call.pc # "in place"
  /\ call.staging = None => call.node = None
  /\ call.pc \in {"idle", "resolve", "stat"} => call.kept = "none"
  /\ call.pc \in {"probe", "create", "permit", "write", "finish"} =>
       IF call.kept = "none" THEN target \in {"none", "default"} ELSE target = call.kept
  /\ call.pc \in {"create", "permit", "write", "finish"} => call.kept # "readonly"
  /\ call.pc = "permit" => bits = "default"
  /\ call.pc \in {"write", "finish"} =>
       bits = IF call.kept = "none" THEN "default" ELSE call.kept
  /\ call.pc \notin {"remove", "done", "crashed"} => call.status = "none"

RegularIInv ==
  /\ \A i \in Inodes : inode[i].kind = "file"
  /\ \A w \in Writers : CallBits(job[w], TargetBits, inode[w].mode)

LEMMA InitRegularIInv ==
  ASSUME OnlyRegular, Init
  PROVE  RegularIInv
<1>1. PICK s \in Seeds :
        /\ inode = [i \in Inodes |-> IF i = Seed THEN SeedOf(s) ELSE NewFile(i)]
        /\ dir = [n \in Names |-> IF n = Target /\ s.kind # "absent" THEN Seed ELSE None]
  BY DEF Init
<1>2. s.kind \in {"file", "absent"}
  BY DEF OnlyRegular, RegularSeeds
<1>3. \A i \in Inodes : inode[i].kind = "file"
  BY <1>1, <1>2 DEF SeedOf, NewFile
<1>4. ASSUME NEW w \in Writers PROVE CallBits(job[w], TargetBits, inode[w].mode)
  <2>1. job[w] = Idle
    BY DEF Init
  <2> QED BY <2>1 DEF CallBits, Idle
<1> QED BY <1>3, <1>4 DEF RegularIInv

LEMMA NothingInPlace ==
  ASSUME RegularIInv, NEW i \in Inodes
  PROVE  ~WroteInPlace(i)
<1>1. i # None
  BY ConstantsAssumption DEF Inodes
<1> QED BY <1>1 DEF RegularIInv, CallBits, WroteInPlace

\* A step of one call, which leaves the bits of the target and of the others'
\* files alone.
LEMMA OthersRegular ==
  ASSUME RegularIInv, NEW w \in Writers,
         \A v \in Writers : v # w => job'[v] = job[v] /\ inode'[v].mode = inode[v].mode,
         \A i \in Inodes : inode'[i].kind = "file",
         TargetBits' = TargetBits,
         CallBits(job'[w], TargetBits, inode'[w].mode)
  PROVE  RegularIInv'
<1>1. ASSUME NEW v \in Writers PROVE CallBits(job'[v], TargetBits', inode'[v].mode)
  <2>1. CASE v = w
    BY <2>1
  <2>2. CASE v # w
    <3>1. CallBits(job[v], TargetBits, inode[v].mode)
      BY DEF RegularIInv
    <3>2. job'[v] = job[v] /\ inode'[v].mode = inode[v].mode
      BY <2>2
    <3> QED BY <3>1, <3>2
  <2> QED BY <2>1, <2>2
<1> QED BY <1>1 DEF RegularIInv

\* What `AtomicReplace` is shown of the target, and its steps.
Shown ==
  IF dir[Target] = None THEN [content |-> <<None, "absent">>, mode |-> "default"]
  ELSE [content |-> inode[dir[Target]].content, mode |-> TargetMode]

Others(w) == \A v \in Writers : v # w => job'[v].status = job[v].status

AtomicStep ==
  \/ Shown' = Shown /\ \A w \in Writers : job'[w].status = job[w].status
  \/ \E w \in Writers :
       /\ job[w].status = "none"
       /\ job'[w].status \in {"null_arg", "bad_path", "open_failed", "write_failed"}
       /\ Others(w) /\ Shown' = Shown
  \/ \E w \in Writers :
       /\ job[w].status = "none" /\ job'[w].status = "ok"
       /\ Shown.mode # "readonly"
       /\ Shown' = [Shown EXCEPT !.content = <<w, "whole">>]
       /\ Others(w)

LEMMA AtomicSteps ==
  ASSUME AtomicStep
  PROVE  [Atomic!Next]_(Atomic!vars)
<1> DEFINE statuses == [w \in Writers |-> job[w].status]
<1>1. CASE Shown' = Shown /\ \A w \in Writers : job'[w].status = job[w].status
  <2>1. statuses' = statuses
    BY <1>1
  <2> QED BY <1>1, <2>1 DEF Atomic!vars, Shown
<1>2. ASSUME NEW w \in Writers, job[w].status = "none",
             job'[w].status \in {"null_arg", "bad_path", "open_failed", "write_failed"},
             Others(w), Shown' = Shown
      PROVE  Atomic!Next
  <2>1. statuses' = [statuses EXCEPT ![w] = job'[w].status]
    BY <1>2 DEF Others
  <2>2. Atomic!Refuse(w)
    BY <1>2, <2>1 DEF Atomic!Refuse, Atomic!Failures, Shown
  <2> QED BY <2>2 DEF Atomic!Next
<1>3. ASSUME NEW w \in Writers, job[w].status = "none", job'[w].status = "ok",
             Shown.mode # "readonly", Shown' = [Shown EXCEPT !.content = <<w, "whole">>],
             Others(w)
      PROVE  Atomic!Next
  <2>1. statuses' = [statuses EXCEPT ![w] = "ok"]
    BY <1>3 DEF Others
  <2>2. Atomic!Replace(w)
    BY <1>3, <2>1 DEF Atomic!Replace, Shown
  <2> QED BY <2>2 DEF Atomic!Next
<1> QED BY <1>1, <1>2, <1>3 DEF AtomicStep

LEMMA TargetStays ==
  ASSUME dir'[Target] = dir[Target],
         dir[Target] # None => inode'[dir[Target]] = inode[dir[Target]]
  PROVE  TargetBits' = TargetBits /\ Shown' = Shown
BY DEF TargetBits, Shown, TargetMode

\* One call goes on or fails, and the target stays as it is.
LEMMA OneGoesOn ==
  ASSUME RegularIInv, NEW w \in Writers,
         \A v \in Writers : v # w => job'[v] = job[v],
         \A i \in Inodes : i # w => inode'[i] = inode[i],
         w \in Inodes, inode'[w].kind = "file",
         dir'[Target] = dir[Target],
         dir[Target] # None => inode'[dir[Target]] = inode[dir[Target]],
         CallBits(job'[w], TargetBits, inode'[w].mode),
         \/ job'[w].status = job[w].status
         \/ /\ job[w].status = "none"
            /\ job'[w].status \in {"null_arg", "bad_path", "open_failed", "write_failed"}
  PROVE  RegularIInv' /\ AtomicStep
<1>1. TargetBits' = TargetBits /\ Shown' = Shown
  BY TargetStays
<1>2. \A i \in Inodes : inode'[i].kind = "file"
  BY DEF RegularIInv
<1>3. \A v \in Writers : v \in Inodes
  BY DEF Inodes
<1>4. RegularIInv'
  BY <1>1, <1>2, <1>3, OthersRegular
<1>5. Others(w)
  BY DEF Others
<1>6. AtomicStep
  BY <1>1, <1>5 DEF AtomicStep, Others
<1> QED BY <1>4, <1>6

LEMMA GotoFields ==
  ASSUME StagedIInv, NEW w \in Writers, NEW pc \in PcValues, Goto(w, pc)
  PROVE  /\ \A v \in Writers : v # w => job'[v] = job[v]
         /\ job'[w].pc = pc /\ job'[w].route = job[w].route
         /\ job'[w].staging = job[w].staging /\ job'[w].node = job[w].node
         /\ job'[w].kept = job[w].kept /\ job'[w].status = job[w].status
BY StagedTypes DEF Goto, JobStates

LEMMA DoneFields ==
  ASSUME StagedIInv, NEW w \in Writers, NEW status \in Statuses, NEW pc \in PcValues,
         job' = [job EXCEPT ![w].pc = pc, ![w].status = status]
  PROVE  /\ \A v \in Writers : v # w => job'[v] = job[v]
         /\ job'[w].pc = pc /\ job'[w].route = job[w].route
         /\ job'[w].staging = job[w].staging /\ job'[w].node = job[w].node
         /\ job'[w].kept = job[w].kept /\ job'[w].status = status
<1> DEFINE c == [job[w] EXCEPT !.pc = pc, !.status = status]
<1>1. job \in [Writers -> JobStates] /\ job[w] \in JobStates /\ job' = [job EXCEPT ![w] = c]
  BY StagedTypes
<1>2. /\ c.pc = pc /\ c.route = job[w].route /\ c.staging = job[w].staging
      /\ c.node = job[w].node /\ c.kept = job[w].kept /\ c.status = status
  BY <1>1 DEF JobStates
<1> HIDE DEF c
<1> QED BY <1>1, <1>2

\* `Check` refuses a call or lets it go on; nothing is open.
LEMMA CheckIsAtomic ==
  ASSUME OnlyRegular, StagedIInv, RegularIInv, NEW w \in Writers, NEW route \in Routes,
         Check(w, route)
  PROVE  RegularIInv' /\ AtomicStep
<1>1. /\ job \in [Writers -> JobStates] /\ job[w] \in JobStates /\ w \in Inodes
      /\ inode[w].kind = "file" /\ CallBits(job[w], TargetBits, inode[w].mode)
  BY StagedTypes DEF RegularIInv
<1>2. job[w].pc = "idle" /\ UNCHANGED <<dir, inode>>
  BY DEF Check
<1>3. CASE job' = [job EXCEPT ![w].pc = "resolve", ![w].route = route]
  <2> DEFINE c == [job[w] EXCEPT !.pc = "resolve", !.route = route]
  <2>1. route = "path" /\ job' = [job EXCEPT ![w] = c]
    BY <1>1, <1>3 DEF OnlyRegular
  <2>2. /\ c.pc = "resolve" /\ c.route = "path" /\ c.staging = job[w].staging
        /\ c.node = job[w].node /\ c.kept = job[w].kept /\ c.status = job[w].status
    BY <1>1, <2>1 DEF JobStates
  <2> HIDE DEF c
  <2>3. job'[w] = c /\ \A v \in Writers : v # w => job'[v] = job[v]
    BY <1>1, <2>1
  <2>4. CallBits(job'[w], TargetBits, inode'[w].mode)
    BY <1>1, <1>2, <2>2, <2>3 DEF CallBits
  <2> QED BY <1>1, <1>2, <2>2, <2>3, <2>4, OneGoesOn
<1>4. ASSUME NEW status \in {"null_arg", "bad_path", "write_failed"}, Done(w, status)
      PROVE  RegularIInv' /\ AtomicStep
  <2>1. /\ \A v \in Writers : v # w => job'[v] = job[v]
        /\ job'[w].pc = "done" /\ job'[w].route = job[w].route
        /\ job'[w].staging = job[w].staging /\ job'[w].node = job[w].node
        /\ job'[w].status = status
    BY <1>4, DoneFields DEF Done, Statuses, PcValues
  <2>2. CallBits(job'[w], TargetBits, inode'[w].mode) /\ job[w].status = "none"
    BY <1>1, <1>2, <2>1 DEF CallBits
  <2> QED BY <1>1, <1>2, <2>1, <2>2, OneGoesOn
<1> QED BY <1>3, <1>4 DEF Check

\* A call by path goes on to look at the target; the bits it notes are those
\* of the target.
LEMMA LookingIsAtomic ==
  ASSUME OnlyRegular, StagedIInv, RegularIInv, NEW w \in Writers,
         Resolve(w) \/ Stat(w) \/ Probe(w)
  PROVE  RegularIInv' /\ AtomicStep
<1>1. /\ job \in [Writers -> JobStates] /\ job[w] \in JobStates /\ w \in Inodes
      /\ inode[w].kind = "file" /\ CallBits(job[w], TargetBits, inode[w].mode)
      /\ inode \in [Inodes -> InodeStates] /\ dir[Target] \in Inodes \cup {None}
  BY StagedTypes DEF RegularIInv
<1>2. job[w].pc \in {"resolve", "stat", "probe"} /\ UNCHANGED <<dir, inode>>
  BY DEF Resolve, Stat, Probe
<1>3. AtTarget = "absent" <=> dir[Target] = None
  BY <1>1 DEF AtTarget, At, RegularIInv
<1>4. AtTarget # "special" /\ (dir[Target] # None => AtTarget = "file")
  BY <1>1 DEF AtTarget, At, RegularIInv
<1>5. CASE OpenFailed(w)
  <2>1. /\ \A v \in Writers : v # w => job'[v] = job[v]
        /\ job'[w].pc = "done" /\ job'[w].route = job[w].route
        /\ job'[w].staging = job[w].staging /\ job'[w].node = job[w].node
        /\ job'[w].status = "open_failed"
    BY <1>5, DoneFields DEF OpenFailed, Done, Statuses, PcValues
  <2>2. CallBits(job'[w], TargetBits, inode'[w].mode) /\ job[w].status = "none"
    BY <1>1, <1>2, <2>1 DEF CallBits
  <2> QED BY <1>1, <1>2, <2>1, <2>2, OneGoesOn
<1>6. ASSUME NEW pc \in {"stat", "create"}, Goto(w, pc),
             pc = "stat" => job[w].kept = "none",
             pc = "create" => /\ job[w].kept # "readonly"
                              /\ IF job[w].kept = "none" THEN TargetBits \in {"none", "default"}
                                 ELSE TargetBits = job[w].kept
      PROVE  RegularIInv' /\ AtomicStep
  <2>1. /\ \A v \in Writers : v # w => job'[v] = job[v]
        /\ job'[w].pc = pc /\ job'[w].route = job[w].route
        /\ job'[w].staging = job[w].staging /\ job'[w].node = job[w].node
        /\ job'[w].kept = job[w].kept /\ job'[w].status = job[w].status
    BY <1>6, GotoFields DEF PcValues
  <2>2. CallBits(job'[w], TargetBits, inode'[w].mode)
    BY <1>1, <1>2, <1>6, <2>1 DEF CallBits
  <2> QED BY <1>1, <1>2, <2>1, <2>2, OneGoesOn
<1>7. CASE Resolve(w)
  <2>1. job[w].route = "path" /\ job[w].kept = "none"
    BY <1>1, <1>7 DEF CallBits, Resolve
  <2>2. Goto(w, "stat")
    BY <1>7, <2>1 DEF Resolve
  <2> QED BY <1>6, <2>1, <2>2
<1>8. CASE Stat(w)
  <2>1. job[w].kept = "none" /\ job[w].pc = "stat"
    BY <1>1, <1>8 DEF CallBits, Stat
  <2>2. CASE AtTarget = "absent" /\ Goto(w, "create")
    <3>1. TargetBits = "none"
      BY <1>3, <2>2 DEF TargetBits
    <3> QED BY <1>6, <2>1, <2>2, <3>1
  <2>3. CASE AtTarget = "file" /\ job' = [job EXCEPT ![w].pc = "probe", ![w].kept = TargetMode]
    <3>1. dir[Target] # None /\ TargetBits = TargetMode /\ TargetMode # "none"
      BY <1>1, <1>3, <2>3 DEF TargetBits, TargetMode, InodeStates
    <3> DEFINE c == [job[w] EXCEPT !.pc = "probe", !.kept = TargetMode]
    <3>2. job' = [job EXCEPT ![w] = c]
      BY <1>1, <2>3
    <3>3. /\ c.pc = "probe" /\ c.route = job[w].route /\ c.staging = job[w].staging
          /\ c.node = job[w].node /\ c.kept = TargetMode /\ c.status = job[w].status
      BY <1>1 DEF JobStates
    <3> HIDE DEF c
    <3>4. job'[w] = c /\ \A v \in Writers : v # w => job'[v] = job[v]
      BY <1>1, <3>2
    <3>5. CallBits(job'[w], TargetBits, inode'[w].mode)
      BY <1>1, <1>2, <2>1, <3>1, <3>3, <3>4 DEF CallBits
    <3> QED BY <1>1, <1>2, <3>3, <3>4, <3>5, OneGoesOn
  <2> QED BY <1>4, <1>5, <1>8, <2>2, <2>3 DEF Stat
<1>9. CASE Probe(w)
  <2>1. CASE /\ AtTarget \in {"file", "special"} /\ TargetMode # "readonly"
             /\ Goto(w, "create")
    <3>1. dir[Target] # None /\ TargetBits = TargetMode
      BY <1>3, <2>1 DEF TargetBits
    <3>2. IF job[w].kept = "none" THEN TargetBits \in {"none", "default"}
          ELSE TargetBits = job[w].kept
      BY <1>1, <1>9 DEF CallBits, Probe
    <3> QED BY <1>6, <2>1, <3>1, <3>2
  <2> QED BY <1>5, <1>9, <2>1 DEF Probe
<1> QED BY <1>7, <1>8, <1>9

\* A staging file is made beside the target; its bits are the default ones.
LEMMA CreateIsAtomic ==
  ASSUME OnlyRegular, StagedIInv, RegularIInv, NEW w \in Writers, Create(w)
  PROVE  RegularIInv' /\ AtomicStep
<1>1. /\ job \in [Writers -> JobStates] /\ job[w] \in JobStates /\ w \in Inodes
      /\ inode[w].kind = "file" /\ CallBits(job[w], TargetBits, inode[w].mode)
      /\ inode \in [Inodes -> InodeStates] /\ dir \in [Names -> Inodes \cup {None}]
      /\ Target \in Names /\ Target \notin StagingNames /\ None \notin StagingNames
  BY StagedTypes DEF RegularIInv
<1> DEFINE name == <<pid[processOf[w]], counter[processOf[w]]>>
<1>2. job[w].pc = "create" /\ job[w].staging = None /\ job[w].node = None
  BY DEF Create, StagedIInv, Opened, OpenedBy
<1>3. dir[Target] # w
  BY <1>2, UnopenedIsElsewhere
<1>4. CASE UNCHANGED <<dir, inode, job>>
  BY <1>1, <1>4, OneGoesOn
<1>5. CASE OpenFailed(w) /\ UNCHANGED <<dir, inode>>
  <2>1. /\ \A v \in Writers : v # w => job'[v] = job[v]
        /\ job'[w].pc = "done" /\ job'[w].route = job[w].route
        /\ job'[w].staging = job[w].staging /\ job'[w].node = job[w].node
        /\ job'[w].status = "open_failed"
    BY <1>5, DoneFields DEF OpenFailed, Done, Statuses, PcValues
  <2>2. CallBits(job'[w], TargetBits, inode'[w].mode) /\ job[w].status = "none"
    BY <1>1, <1>2, <2>1 DEF CallBits
  <2> QED BY <1>1, <1>5, <2>1, <2>2, OneGoesOn
<1>6. CASE /\ dir' = [dir EXCEPT ![name] = w]
           /\ inode' = [inode EXCEPT ![w] = NewFile(w)]
           /\ job' = [job EXCEPT ![w].pc = "permit", ![w].staging = name, ![w].node = w]
  <2>1. name \in StagingNames
    BY ConstantsAssumption DEF StagedIInv, TypeOK, StagingNames, Create
  <2> HIDE DEF name
  <2> DEFINE c == [job[w] EXCEPT !.pc = "permit", !.staging = name, !.node = w]
  <2>2. job' = [job EXCEPT ![w] = c]
    BY <1>1, <1>6
  <2>3. /\ c.pc = "permit" /\ c.route = job[w].route /\ c.staging = name
        /\ c.node = w /\ c.kept = job[w].kept /\ c.status = job[w].status
    BY <1>1 DEF JobStates
  <2> HIDE DEF c
  <2>4. job'[w] = c /\ \A v \in Writers : v # w => job'[v] = job[v]
    BY <1>1, <2>2
  <2>5. /\ inode'[w].kind = "file" /\ inode'[w].mode = "default"
        /\ \A i \in Inodes : i # w => inode'[i] = inode[i]
    BY <1>1, <1>6 DEF NewFile
  <2>6. CallBits(job'[w], TargetBits, inode'[w].mode)
    BY ZenonT(60), <1>1, <1>2, <2>1, <2>3, <2>4, <2>5 DEF CallBits
  <2>7. dir'[Target] = dir[Target]
    BY <1>1, <1>6, <2>1
  <2>8. dir[Target] # None => inode'[dir[Target]] = inode[dir[Target]]
    BY <1>1, <1>3, <2>5
  <2> QED BY <1>1, <2>3, <2>4, <2>5, <2>6, <2>7, <2>8, OneGoesOn
<1> QED BY <1>4, <1>5, <1>6 DEF Create

\* The staging file takes the bits of the target.
LEMMA PermitIsAtomic ==
  ASSUME OnlyRegular, StagedIInv, RegularIInv, NEW w \in Writers, Permit(w)
  PROVE  RegularIInv' /\ AtomicStep
<1>1. /\ job \in [Writers -> JobStates] /\ job[w] \in JobStates /\ w \in Inodes
      /\ inode[w].kind = "file" /\ CallBits(job[w], TargetBits, inode[w].mode)
      /\ inode \in [Inodes -> InodeStates] /\ dir[Target] \in Inodes \cup {None}
  BY StagedTypes DEF RegularIInv
<1>2. /\ job[w].pc = "permit" /\ job[w].staging # None /\ job[w].node = w
      /\ dir' = dir /\ dir[Target] # w
  BY StagedIsElsewhere DEF Permit, StagedIInv, Opened, OpenedBy
<1>3. ASSUME Goto(w, "write"), \A i \in Inodes : i # w => inode'[i] = inode[i],
             inode'[w].kind = "file",
             inode'[w].mode = IF job[w].kept = "none" THEN "default" ELSE job[w].kept
      PROVE  RegularIInv' /\ AtomicStep
  <2>1. /\ \A v \in Writers : v # w => job'[v] = job[v]
        /\ job'[w].pc = "write" /\ job'[w].route = job[w].route
        /\ job'[w].staging = job[w].staging /\ job'[w].node = job[w].node
        /\ job'[w].kept = job[w].kept /\ job'[w].status = job[w].status
    BY <1>3, GotoFields DEF PcValues
  <2>2. CallBits(job'[w], TargetBits, inode'[w].mode)
    BY <1>1, <1>2, <1>3, <2>1 DEF CallBits
  <2>3. dir[Target] # None => inode'[dir[Target]] = inode[dir[Target]]
    BY <1>1, <1>2, <1>3
  <2> QED BY <1>1, <1>2, <1>3, <2>1, <2>2, <2>3, OneGoesOn
<1>4. CASE job[w].kept = "none" /\ Goto(w, "write") /\ UNCHANGED inode
  <2>1. inode[w].mode = "default"
    BY <1>1, <1>2 DEF CallBits
  <2> QED BY <1>1, <1>3, <1>4, <2>1
<1>5. CASE /\ job[w].kept # "none"
           /\ inode' = [inode EXCEPT ![job[w].node].mode = job[w].kept]
           /\ Goto(w, "write")
  <2>1. /\ \A i \in Inodes : i # w => inode'[i] = inode[i]
        /\ inode'[w].kind = "file" /\ inode'[w].mode = job[w].kept
    BY <1>1, <1>2, <1>5 DEF InodeStates
  <2> QED BY <1>3, <1>5, <2>1
<1>6. CASE job' = [job EXCEPT ![w].pc = "remove", ![w].status = "open_failed"] /\ UNCHANGED inode
  <2>1. /\ \A v \in Writers : v # w => job'[v] = job[v]
        /\ job'[w].pc = "remove" /\ job'[w].route = job[w].route
        /\ job'[w].staging = job[w].staging /\ job'[w].node = job[w].node
        /\ job'[w].status = "open_failed"
    BY <1>6, DoneFields DEF Statuses, PcValues
  <2>2. CallBits(job'[w], TargetBits, inode'[w].mode) /\ job[w].status = "none"
    BY <1>1, <1>2, <2>1 DEF CallBits
  <2> QED BY <1>1, <1>2, <1>6, <2>1, <2>2, OneGoesOn
<1> QED BY <1>4, <1>5, <1>6 DEF Permit

\* Nothing is written to the file at the target.
LEMMA WriteIsAtomic ==
  ASSUME OnlyRegular, StagedIInv, RegularIInv, NEW w \in Writers, Write(w)
  PROVE  RegularIInv' /\ AtomicStep
<1>1. /\ job \in [Writers -> JobStates] /\ job[w] \in JobStates /\ w \in Inodes
      /\ inode[w].kind = "file" /\ CallBits(job[w], TargetBits, inode[w].mode)
      /\ inode \in [Inodes -> InodeStates] /\ dir[Target] \in Inodes \cup {None}
  BY StagedTypes DEF RegularIInv
<1>2. job[w].pc = "write" /\ dir' = dir /\ job[w].node # None
  BY DEF Write, StagedIInv, Opened, OpenedBy
<1>3. job[w].staging # None /\ job[w].node = w /\ dir[Target] # w
  <2>1. job[w].staging # None
    BY <1>1, <1>2 DEF CallBits
  <2> QED BY <1>2, <2>1, StagedIsElsewhere DEF StagedIInv, Opened, OpenedBy
<1>4. ASSUME NEW pc \in {"write", "finish"},
             \A v \in Writers : v # w => job'[v] = job[v],
             job'[w].pc = pc, job'[w].route = job[w].route,
             job'[w].staging = job[w].staging, job'[w].node = job[w].node,
             job'[w].kept = job[w].kept, job'[w].status = job[w].status,
             \A i \in Inodes : i # w => inode'[i] = inode[i],
             inode'[w].kind = "file", inode'[w].mode = inode[w].mode
      PROVE  RegularIInv' /\ AtomicStep
  <2>1. CallBits(job'[w], TargetBits, inode'[w].mode)
    BY <1>1, <1>2, <1>4 DEF CallBits
  <2>2. dir[Target] # None => inode'[dir[Target]] = inode[dir[Target]]
    BY <1>1, <1>3, <1>4
  <2> QED BY <1>1, <1>2, <1>4, <2>1, <2>2, OneGoesOn
<1>5. ASSUME NEW c, WriteTo(job[w].node, c)
      PROVE  /\ \A i \in Inodes : i # w => inode'[i] = inode[i]
             /\ inode'[w].kind = "file" /\ inode'[w].mode = inode[w].mode
  BY <1>1, <1>3, <1>5 DEF WriteTo, InodeStates
<1>6. CASE WriteTo(job[w].node, <<w, "partial">>) /\ UNCHANGED job
  BY <1>2, <1>4, <1>5, <1>6
<1>7. CASE /\ WriteTo(job[w].node, <<w, "whole">>)
           /\ job' = [job EXCEPT ![w].pc = "finish", ![w].written = TRUE]
  <2> DEFINE c == [job[w] EXCEPT !.pc = "finish", !.written = TRUE]
  <2>1. job' = [job EXCEPT ![w] = c]
    BY <1>1, <1>7
  <2>2. /\ c.pc = "finish" /\ c.route = job[w].route /\ c.staging = job[w].staging
        /\ c.node = job[w].node /\ c.kept = job[w].kept /\ c.status = job[w].status
    BY <1>1 DEF JobStates
  <2> HIDE DEF c
  <2>3. job'[w] = c /\ \A v \in Writers : v # w => job'[v] = job[v]
    BY <1>1, <2>1
  <2> QED BY <1>4, <1>5, <1>7, <2>2, <2>3
<1>8. CASE Goto(w, "finish") /\ UNCHANGED inode
  <2>1. /\ \A v \in Writers : v # w => job'[v] = job[v]
        /\ job'[w].pc = "finish" /\ job'[w].route = job[w].route
        /\ job'[w].staging = job[w].staging /\ job'[w].node = job[w].node
        /\ job'[w].kept = job[w].kept /\ job'[w].status = job[w].status
    BY <1>8, GotoFields DEF PcValues
  <2> QED BY <1>1, <1>4, <1>8, <2>1
<1> QED BY <1>6, <1>7, <1>8 DEF Write

\* The rename puts a whole file with the target's bits at the target.
LEMMA FinishIsAtomic ==
  ASSUME OnlyRegular, StagedIInv, RegularIInv, NEW w \in Writers, Finish(w)
  PROVE  RegularIInv' /\ AtomicStep
<1>1. /\ job \in [Writers -> JobStates] /\ job[w] \in JobStates /\ w \in Inodes /\ w # None
      /\ inode[w].kind = "file" /\ CallBits(job[w], TargetBits, inode[w].mode)
      /\ inode \in [Inodes -> InodeStates] /\ dir \in [Names -> Inodes \cup {None}]
      /\ Target \in Names /\ Target \notin StagingNames /\ StagingNames \subseteq Names
  BY StagedTypes DEF RegularIInv
<1>2. job[w].pc = "finish" /\ inode' = inode /\ job[w].node # None /\ job[w].status = "none"
  BY <1>1 DEF Finish, StagedIInv, Opened, OpenedBy, CallBits
<1>3. job[w].staging # None
  BY <1>1, <1>2 DEF CallBits
<1>4. CASE job' = [job EXCEPT ![w].pc = "remove", ![w].status = "write_failed"] /\ UNCHANGED dir
  <2>1. /\ \A v \in Writers : v # w => job'[v] = job[v]
        /\ job'[w].pc = "remove" /\ job'[w].route = job[w].route
        /\ job'[w].staging = job[w].staging /\ job'[w].node = job[w].node
        /\ job'[w].status = "write_failed"
    BY <1>4, DoneFields DEF Statuses, PcValues
  <2>2. CallBits(job'[w], TargetBits, inode'[w].mode)
    BY <1>1, <1>2, <2>1 DEF CallBits
  <2> QED BY <1>1, <1>2, <1>4, <2>1, <2>2, OneGoesOn
<1>5. CASE /\ job[w].written
           /\ dir' = [dir EXCEPT ![Target] = dir[job[w].staging], ![job[w].staging] = None]
           /\ Done(w, "ok")
  <2>1. /\ \A v \in Writers : v # w => job'[v] = job[v]
        /\ job'[w].pc = "done" /\ job'[w].route = job[w].route
        /\ job'[w].staging = job[w].staging /\ job'[w].node = job[w].node
        /\ job'[w].status = "ok"
    BY <1>5, DoneFields DEF Done, Statuses, PcValues
  <2>2. job[w].staging \in StagingNames /\ dir[job[w].staging] = w
    BY <1>1, <1>2, <1>3 DEF JobStates, StagedIInv, StagingExclusive, Holds
  <2>3. dir'[Target] = w
    BY <1>1, <1>5, <2>2
  <2>4. inode[w].content = <<w, "whole">>
    BY <1>1, <1>3, <1>5, NothingInPlace DEF StagedIInv, WholeOrInPlace
  <2> DEFINE bits == IF job[w].kept = "none" THEN "default" ELSE job[w].kept
  <2>5. /\ inode[w].mode = bits /\ TargetBits' = bits /\ bits # "readonly" /\ bits # "none"
        /\ Shown.mode = bits /\ TargetBits \in {"none", bits}
        /\ job[w].kept # "none" => TargetBits = bits
    <3>1. inode[w].mode = bits /\ job[w].kept # "readonly"
      BY <1>1, <1>2 DEF CallBits
    <3>2. TargetBits' = bits
      BY <1>1, <1>2, <2>3, <3>1 DEF TargetBits, TargetMode
    <3>3. IF job[w].kept = "none" THEN TargetBits \in {"none", "default"}
          ELSE TargetBits = job[w].kept
      BY <1>1, <1>2 DEF CallBits
    <3>4. dir[Target] # None => TargetMode \in {"default", "private", "readonly"}
      BY <1>1 DEF TargetMode, InodeStates
    <3>5. TargetBits = "none" <=> dir[Target] = None
      BY <3>4 DEF TargetBits
    <3>6. Shown.mode = IF dir[Target] = None THEN "default" ELSE TargetBits
      BY DEF Shown, TargetBits
    <3> QED BY <3>1, <3>2, <3>3, <3>5, <3>6
  <2> HIDE DEF bits
  <2>6. Shown' = [content |-> <<w, "whole">>, mode |-> bits]
    BY <1>1, <1>2, <2>3, <2>4, <2>5 DEF Shown, TargetMode
  <2>7. Shown' = [Shown EXCEPT !.content = <<w, "whole">>]
    <3>1. Shown = [content |-> Shown.content, mode |-> Shown.mode]
      BY DEF Shown
    <3> QED BY <2>5, <2>6, <3>1
  <2>8. AtomicStep
    BY <1>2, <2>1, <2>5, <2>7 DEF AtomicStep, Others
  <2>9. RegularIInv'
    <3>1. ASSUME NEW v \in Writers PROVE CallBits(job'[v], TargetBits', inode'[v].mode)
      <4>1. CASE v = w
        BY <1>1, <1>2, <2>1, <4>1 DEF CallBits
      <4>2. CASE v # w
        <5>1. CallBits(job[v], TargetBits, inode[v].mode) /\ job'[v] = job[v]
          BY <2>1, <4>2 DEF RegularIInv
        <5>2. IF job[v].kept = "none" THEN TargetBits \in {"none", "default"} => bits = "default"
              ELSE TargetBits = job[v].kept => bits = job[v].kept
          BY <2>5 DEF bits
        <5> QED BY <1>2, <2>5, <5>1, <5>2 DEF CallBits
      <4> QED BY <4>1, <4>2
    <3> QED BY <1>2, <3>1 DEF RegularIInv
  <2> QED BY <2>8, <2>9
<1> QED BY <1>3, <1>4, <1>5 DEF Finish, Staged

\* Taking a staging file away leaves the target alone.
LEMMA RemoveIsAtomic ==
  ASSUME OnlyRegular, StagedIInv, RegularIInv, NEW w \in Writers, Remove(w)
  PROVE  RegularIInv' /\ AtomicStep
<1>1. /\ job \in [Writers -> JobStates] /\ job[w] \in JobStates /\ w \in Inodes
      /\ inode[w].kind = "file" /\ CallBits(job[w], TargetBits, inode[w].mode)
      /\ dir \in [Names -> Inodes \cup {None}]
      /\ Target \in Names /\ Target \notin StagingNames /\ StagingNames \subseteq Names
  BY StagedTypes DEF RegularIInv
<1>2. job[w].pc = "remove" /\ inode' = inode /\ job[w].staging # None
  BY DEF Remove, StagedIInv, Opened, OpenedBy
<1>3. job[w].staging \in StagingNames
  BY <1>1, <1>2 DEF JobStates
<1>4. dir'[Target] = dir[Target]
  BY <1>1, <1>3 DEF Remove
<1>5. /\ \A v \in Writers : v # w => job'[v] = job[v]
      /\ job'[w].pc = "done" /\ job'[w].route = job[w].route
      /\ job'[w].staging = job[w].staging /\ job'[w].node = job[w].node
      /\ job'[w].kept = job[w].kept /\ job'[w].status = job[w].status
  BY GotoFields DEF Remove, PcValues
<1>6. CallBits(job'[w], TargetBits, inode'[w].mode)
  BY <1>1, <1>2, <1>5 DEF CallBits
<1> QED BY <1>1, <1>2, <1>4, <1>5, <1>6, OneGoesOn

\* A process that dies changes neither the target nor what a call returned.
LEMMA CrashIsAtomic ==
  ASSUME OnlyRegular, StagedIInv, RegularIInv, NEW p \in Processes, Crash(p)
  PROVE  RegularIInv' /\ AtomicStep
<1>1. job \in [Writers -> JobStates] /\ UNCHANGED <<dir, inode>>
  BY StagedTypes DEF Crash
<1>2. ASSUME NEW v \in Writers
      PROVE  /\ job'[v].route = job[v].route /\ job'[v].staging = job[v].staging
             /\ job'[v].node = job[v].node /\ job'[v].kept = job[v].kept
             /\ job'[v].status = job[v].status
             /\ job'[v].pc \in {job[v].pc, "crashed"}
  BY ZenonT(60), <1>1 DEF Crash, JobStates
<1>3. TargetBits' = TargetBits /\ Shown' = Shown
  BY <1>1, TargetStays
<1>4. ASSUME NEW v \in Writers PROVE CallBits(job'[v], TargetBits', inode'[v].mode)
  <2>1. CallBits(job[v], TargetBits, inode[v].mode) /\ inode' = inode
    BY <1>1 DEF RegularIInv
  <2> QED BY <1>2, <1>3, <2>1 DEF CallBits
<1>5. RegularIInv'
  BY <1>1, <1>4 DEF RegularIInv
<1>6. AtomicStep
  BY <1>2, <1>3 DEF AtomicStep
<1> QED BY <1>5, <1>6

\* Every step keeps the invariant and is a step of `AtomicReplace`, or none.
LEMMA NextIsAtomic ==
  ASSUME OnlyRegular
  PROVE  StagedIInv /\ RegularIInv /\ [Next]_vars
           => RegularIInv' /\ [Atomic!Next]_(Atomic!vars)
<1> SUFFICES ASSUME StagedIInv, RegularIInv, [Next]_vars PROVE RegularIInv' /\ AtomicStep
  BY AtomicSteps
<1>1. CASE UNCHANGED vars
  <2>1. TargetBits' = TargetBits /\ Shown' = Shown
    BY <1>1, TargetStays DEF vars
  <2>2. RegularIInv'
    BY <1>1, <2>1 DEF RegularIInv, vars
  <2> QED BY <1>1, <2>1, <2>2 DEF AtomicStep, vars
<1>2. ASSUME NEW w \in Writers, WriterStep(w) PROVE RegularIInv' /\ AtomicStep
  <2>1. ASSUME NEW route \in Routes, Check(w, route) PROVE RegularIInv' /\ AtomicStep
    BY <2>1, CheckIsAtomic
  <2>2. CASE Resolve(w) \/ Stat(w) \/ Probe(w)
    BY <2>2, LookingIsAtomic
  <2>3. CASE Create(w) \/ Permit(w)
    BY <2>3, CreateIsAtomic, PermitIsAtomic
  <2>4. ~OpenInPlace(w)
    BY DEF OpenInPlace, RegularIInv, CallBits
  <2>5. CASE Write(w) \/ Finish(w) \/ Remove(w)
    BY <2>5, WriteIsAtomic, FinishIsAtomic, RemoveIsAtomic
  <2> QED BY <1>2, <2>1, <2>2, <2>3, <2>4, <2>5 DEF WriterStep
<1>3. ASSUME NEW p \in Processes, Crash(p) PROVE RegularIInv' /\ AtomicStep
  BY <1>3, CrashIsAtomic
<1>4. ~Meddle
  BY DEF Meddle, OnlyRegular
<1> QED BY <1>1, <1>2, <1>3, <1>4 DEF Next

\* What is there at first is what `AtomicReplace` starts from.
LEMMA InitIsAtomic ==
  ASSUME OnlyRegular, Init
  PROVE  Atomic!Init
<1>1. PICK s \in Seeds :
        /\ inode = [i \in Inodes |-> IF i = Seed THEN SeedOf(s) ELSE NewFile(i)]
        /\ dir = [n \in Names |-> IF n = Target /\ s.kind # "absent" THEN Seed ELSE None]
  BY DEF Init
<1>2. s.mode \in {"default", "private", "readonly"} /\ Seed # None /\ Seed \in Inodes
      /\ Target \in Names
  BY ConstantsAssumption DEF OnlyRegular, RegularSeeds, Inodes, Names
<1>3. [w \in Writers |-> job[w].status] = [w \in Writers |-> "none"]
  BY DEF Init, Idle
<1>4. CASE s.kind = "absent"
  <2>1. dir[Target] = None
    BY <1>1, <1>2, <1>4
  <2> QED BY <1>3, <2>1 DEF Atomic!Init
<1>5. CASE s.kind # "absent"
  <2>1. dir[Target] = Seed /\ inode[Seed].content = <<None, "old">> /\ inode[Seed].mode = s.mode
    BY <1>1, <1>2, <1>5 DEF SeedOf
  <2> QED BY <1>2, <1>3, <2>1 DEF Atomic!Init, TargetMode
<1> QED BY <1>4, <1>5

\* "An existing file is replaced atomically, keeping its permission bits": calls
\* that name a regular or missing file by a path, of any number of writers and
\* processes, crashes and reused pids included, implement `AtomicReplace`.
THEOREM CallsReplaceAtomically ==
  ASSUME OnlyRegular
  PROVE  Spec => ReplacesAtomically
<1>1. Init => RegularIInv /\ Atomic!Init
  BY InitRegularIInv, InitIsAtomic
<1>2. StagedIInv /\ RegularIInv /\ [Next]_vars => RegularIInv' /\ [Atomic!Next]_(Atomic!vars)
  BY NextIsAtomic
<1> QED BY <1>1, <1>2, StagedIInvHolds, PTL DEF Spec, ReplacesAtomically, Atomic!Spec

==============================================================================
