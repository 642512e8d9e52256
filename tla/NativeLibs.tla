----------------------------- MODULE NativeLibs -----------------------------
(***************************************************************************)
(* Two installers put libcompat into place, each beside runs of the other  *)
(* and of itself: the pre-installer of the Racket package                  *)
(* (polars/private/install-compat.rkt), which copies a committed candidate *)
(* or the build a variable names, and the dev shell's script               *)
(* (scripts/install-native-libs.sh), which copies a fresh build and marks  *)
(* it with its hash.  Either may fail or be killed between any two of its  *)
(* steps, and a racket may have mapped any library it found.               *)
(*                                                                         *)
(* What a file holds is a build, or Partial; a marker holds a hash, which  *)
(* is the build it is of.  Each library is installed on its own, so one is *)
(* enough.                                                                 *)
(***************************************************************************)
EXTENDS Naturals, Sequences

CONSTANTS
  Installers,  \* the processes that install
  Candidate,   \* the committed build
  Builds,      \* what a dev shell installs, or the variable names
  MaxRuns,     \* of installers
  Partial, Absent

ASSUME LibsAssumption ==
  /\ MaxRuns \in Nat /\ Candidate \notin Builds
  /\ {Partial, Absent} \cap (Builds \cup {Candidate} \cup Nat) = {}

VARIABLES
  inodes,   \* what each file made holds
  names,    \* the inodes linked as the library and as its marker
  temps,    \* the inodes linked under a temporary name
  mapped,   \* what a racket mapped: an inode, and what it held then
  runs,     \* how many runs there were
  installer \* process -> its run

libVars == <<inodes, names, temps, mapped, runs, installer>>

Roles == {"script", "candidate", "forced", "override"}
Contents == Builds \cup {Candidate}
Steps == {"check", "hash", "compare", "stage", "copy", "rename", "unmark"}
Ends == {"kept", "done", "failed", "killed"}

\* A run: its role, what it installs, whether it can read what is there, the
\* file it is at and its temporary one; and, for the properties, what it started
\* from and whether no other run has changed the two names since.
Run(role, source, reads, pc) ==
  [role |-> role, source |-> source, reads |-> reads, pc |-> pc, file |-> "library",
   marked |-> Absent, staged |-> Absent,
   from |-> names, vouched |-> FALSE, alone |-> TRUE]
\* No run, or a killed one, of which nothing is left but files.
NoRun == [Run("forced", Candidate, TRUE, "killed") EXCEPT !.from = Absent, !.alone = FALSE]

\* The type invariant of the module's state.
LibsTypeOK ==
  /\ \A i \in DOMAIN inodes : inodes[i] \in Contents \cup {Partial}
  /\ \A n \in {"library", "marker"} : names[n] \in {Absent} \cup DOMAIN inodes
  /\ temps \subseteq DOMAIN inodes /\ runs \in 0..MaxRuns
  /\ mapped = Absent \/ mapped.inode \in DOMAIN inodes
  /\ \A p \in Installers :
       /\ installer[p].role \in Roles /\ installer[p].pc \in Steps \cup Ends
       /\ installer[p].staged \in {Absent} \cup DOMAIN inodes

-----------------------------------------------------------------------------
Linked(name) == names[name] # Absent
Holds(name, content) == Linked(name) /\ inodes[names[name]] = content
\* A marker vouches for the library it is the hash of.
Vouched == Linked("marker") /\ Holds("library", inodes[names["marker"]])

At(p, pc) == installer[p].pc = pc
Goes(p, pc) == installer' = [installer EXCEPT ![p].pc = pc]
\* A step of p that changes what is linked: no other run is alone any more.
Disturbs(p, run) ==
  installer' = [q \in Installers |->
    IF q = p THEN run ELSE [installer[q] EXCEPT !.alone = FALSE]]
KeepsFiles == UNCHANGED <<inodes, names, temps>>
KeepsRest == UNCHANGED <<mapped, runs>>

\* What a run goes on with once the file it is at holds what it should.  Only the
\* script writes a marker; with the variable set, the pre-installer does not look
\* at it.
Onward(run) ==
  CASE run.role = "script" /\ run.file = "library" -> [run EXCEPT !.pc = "compare", !.file = "marker"]
    [] run.role \in {"candidate", "forced"}         -> [run EXCEPT !.pc = "unmark"]
    [] OTHER                                        -> [run EXCEPT !.pc = "done"]

StartRun(p, role, source, reads) ==
  /\ installer[p].pc \in Ends /\ runs < MaxRuns
  /\ runs' = runs + 1
  /\ installer' = [installer EXCEPT ![p] =
       [Run(role, source, reads, IF role = "candidate" THEN "check" ELSE "compare")
         EXCEPT !.vouched = Vouched /\ reads]]
  /\ KeepsFiles /\ UNCHANGED mapped

-----------------------------------------------------------------------------
(* `dev-built?`: the marker is read, if it and a library are there, and the *)
(* library is hashed after it.                                              *)

CheckMarker(p) ==
  /\ At(p, "check")
  /\ IF installer[p].reads /\ Linked("marker") /\ Linked("library")
     THEN installer' = [installer EXCEPT ![p].pc = "hash",
                                         ![p].marked = inodes[names["marker"]]]
     ELSE Goes(p, "compare")
  /\ KeepsFiles /\ KeepsRest

\* Fault: that there is a marker is taken for an answer.
HashLibraryNever(p) ==
  At(p, "hash") /\ Goes(p, "kept") /\ KeepsFiles /\ KeepsRest
HashLibrary(p) ==
  /\ At(p, "hash")
  /\ Goes(p, IF Holds("library", installer[p].marked) THEN "kept" ELSE "compare")
  /\ KeepsFiles /\ KeepsRest

\* `same-bytes?` and `cmp`: what holds the same is left alone.
Compare(p) ==
  /\ At(p, "compare")
  /\ IF installer[p].reads /\ Holds(installer[p].file, installer[p].source)
     THEN installer' = [installer EXCEPT ![p] = Onward(@)]
     ELSE Goes(p, "stage")
  /\ KeepsFiles /\ KeepsRest

-----------------------------------------------------------------------------
(* `install-if-different!` and `install_by_rename`: written beside the name *)
(* and renamed onto it.                                                     *)

\* A file of a name nobody else has.
Stage(p) ==
  /\ At(p, "stage")
  /\ inodes' = Append(inodes, Partial) /\ temps' = temps \cup {Len(inodes')}
  /\ installer' = [installer EXCEPT ![p].pc = "copy", ![p].staged = Len(inodes')]
  /\ UNCHANGED names /\ KeepsRest

Copy(p) ==
  /\ At(p, "copy")
  /\ inodes' = [inodes EXCEPT ![installer[p].staged] = installer[p].source]
  /\ Goes(p, "rename")
  /\ UNCHANGED <<names, temps>> /\ KeepsRest

\* Fault: the copy is written into the file that has the name (`cp -f`).
RenameByCopy(p) ==
  /\ At(p, "rename")
  /\ LET there == names[installer[p].file]
         copied == installer[p].staged IN
     /\ names' = [names EXCEPT ![installer[p].file] = IF there = Absent THEN copied ELSE there]
     /\ inodes' = IF there = Absent THEN inodes ELSE [inodes EXCEPT ![there] = inodes[copied]]
     /\ temps' = temps \ {copied}
  /\ Disturbs(p, Onward(installer[p])) /\ KeepsRest
Rename(p) ==
  /\ At(p, "rename")
  /\ names' = [names EXCEPT ![installer[p].file] = installer[p].staged]
  /\ temps' = temps \ {installer[p].staged}
  /\ Disturbs(p, Onward(installer[p]))
  /\ UNCHANGED inodes /\ KeepsRest

\* `remove-marker!`, whose failure is passed over.
Unmark(p) ==
  /\ At(p, "unmark")
  /\ \/ names' = [names EXCEPT !["marker"] = Absent]
     \/ UNCHANGED names
  /\ Disturbs(p, [installer[p] EXCEPT !.pc = "done"])
  /\ UNCHANGED <<inodes, temps>> /\ KeepsRest

\* A step fails, or a break or a signal comes: the temporary file is removed.
Fail(p) ==
  /\ installer[p].pc \in Steps
  /\ Goes(p, "failed") /\ temps' = temps \ {installer[p].staged}
  /\ UNCHANGED <<inodes, names>> /\ KeepsRest
\* The process is killed, or the host goes down.
Kill(p) ==
  /\ installer[p].pc \in Steps
  /\ installer' = [installer EXCEPT ![p] = NoRun] /\ KeepsFiles /\ KeepsRest

\* A racket maps the library that is there, and keeps it.
Map ==
  /\ mapped = Absent /\ Linked("library")
  /\ mapped' = [inode |-> names["library"], content |-> inodes[names["library"]]]
  /\ KeepsFiles /\ UNCHANGED <<runs, installer>>

-----------------------------------------------------------------------------
\* Any library and any marker that earlier runs, killed ones too, may have left.
LibsInit ==
  /\ inodes \in UNION {[1..n -> Contents] : n \in 0..2}
  /\ names \in [{"library", "marker"} -> {Absent} \cup DOMAIN inodes]
  /\ \A i \in DOMAIN inodes : i \in {names["library"], names["marker"]}
  /\ Linked("library") /\ Linked("marker") => names["library"] < names["marker"]
  /\ Linked("marker") => inodes[names["marker"]] # Candidate
  /\ temps = {} /\ mapped = Absent /\ runs = 0
  /\ installer = [p \in Installers |-> NoRun]

LibsNext ==
  \/ \E p \in Installers :
       \/ \E reads \in BOOLEAN :
            \/ StartRun(p, "candidate", Candidate, reads) \/ StartRun(p, "forced", Candidate, reads)
            \/ \E build \in Builds : StartRun(p, "script", build, reads) \/ StartRun(p, "override", build, reads)
       \/ CheckMarker(p) \/ HashLibrary(p) \/ Compare(p)
       \/ Stage(p) \/ Copy(p) \/ Rename(p) \/ Unmark(p) \/ Fail(p) \/ Kill(p)
  \/ Map

LibsSpec == LibsInit /\ [][LibsNext]_libVars

-----------------------------------------------------------------------------
\* Whoever installs, fails or is killed, a library that a racket has mapped keeps
\* its bytes, and from then on there is always a library, a whole one
\* (install-compat.rkt:38-46, install-native-libs.sh:46-58).
LibraryUnharmed ==
  /\ mapped # Absent =>
       /\ mapped.content # Partial /\ inodes[mapped.inode] = mapped.content
       /\ Linked("library")
  /\ Linked("library") => inodes[names["library"]] # Partial

\* Whatever earlier runs left when they were killed, and whichever others stand
\* in the middle, a run whose names nobody else changes ends as it should: a
\* script's build is there and marked, an unforced pre-installer keeps a library
\* its marker vouches for and no other, a forced or unmarked candidate is there
\* with nothing to vouch for it; a run that fails has changed the library to its
\* own or not at all; and no run but a killed one leaves a temporary file
\* (install-compat.rkt:70-89, install-native-libs.sh:6-20).
RunsEndAsAsked ==
  \A p \in Installers :
    LET run == installer[p]
        ended == run.pc \in {"kept", "done"} IN
    /\ run.pc \in Ends \ {"killed"} => run.staged \notin temps
    /\ run.alone /\ ended =>
         IF run.role = "candidate" /\ run.vouched THEN names = run.from
         ELSE /\ Holds("library", run.source)
              /\ run.role = "script" => Holds("marker", run.source)
              /\ run.role \in {"candidate", "forced"} => ~Vouched
    /\ run.alone /\ run.pc = "failed" =>
         /\ names["marker"] = run.from["marker"]
         /\ names["library"] = run.from["library"] \/ Holds("library", run.source)
=============================================================================
