----------------------------- MODULE ForeignCalls -----------------------------
(***************************************************************************)
(* How a failed native call tells Racket why, and how a panic inside       *)
(* polars becomes such a failure.                                          *)
(*                                                                         *)
(* rust/src/ffi/errors.rs keeps the reason in a thread-local slot.  All    *)
(* Racket threads of a place run on the place's one OS thread, so they     *)
(* share the slot; places have one each.  A recording entry point clears   *)
(* the slot, runs its body (under `guard_panic` when it runs polars code   *)
(* on the caller's data), and records what went wrong.  `call/reason` in   *)
(* polars/private/foreign.rkt makes the call and reads the slot in one     *)
(* atomic extent.  Entry points that record nothing are called through     *)
(* `allocator/or-fail`, which never reads the slot.                        *)
(*                                                                         *)
(* The panic hook is process-wide.  It stays quiet on a guarded thread,    *)
(* and on a polars worker while any guard of any thread is open: whether   *)
(* the worker runs for that guard it cannot tell, so a worker's panic that *)
(* nothing catches is printed only when no guard is open beside it.        *)
(***************************************************************************)
EXTENDS Naturals, FiniteSets

CONSTANTS
  Places,      \* Racket places: one OS thread, one slot each
  Tasks,       \* Racket threads
  home,        \* the place a thread runs in
  MaxCalls,    \* bound: calls each thread makes
  MaxGuards,   \* bound: nesting of guard_panic in one call
  Nothing

ASSUME CallsAssumption ==
  /\ home \in [Tasks -> Places]
  /\ Nothing \notin Tasks \cup (Tasks \X Nat)
  /\ MaxCalls \in Nat /\ MaxGuards \in Nat

VARIABLES
  slot,      \* LAST_ERROR of each OS thread: the call that recorded, or Nothing
  depth,     \* GUARD_DEPTH of each OS thread
  active,    \* ACTIVE_GUARDS, process-wide
  owner,     \* the thread that holds its place: in a callout or in atomic mode
  call,      \* the call each thread is making or has last made
  mishaps    \* panics the hook treated wrongly so far (history)

callVars == <<slot, depth, active, owner, call, mishaps>>

\* How an entry point is written: `scalar_result`/`boxed_result`,
\* `boxed_unguarded`, or no `clear_last_error` at all.
Entries   == {"guarded", "unguarded", "silent"}
Recording == {"guarded", "unguarded"}

Reasons == (Tasks \X Nat) \cup {Nothing}

\* The message a call records, told apart from every other call's.
Message(t) == <<t, call[t].number>>

Quiet(guardDepth, onWorker) == guardDepth > 0 \/ (active > 0 /\ onWorker)

CallsInit ==
  /\ slot = [p \in Places |-> Nothing]
  /\ depth = [p \in Places |-> 0]
  /\ active = 0
  /\ owner = [p \in Places |-> Nothing]
  /\ call = [t \in Tasks |-> [pc |-> "idle", entry |-> "silent", number |-> 0,
                              guards |-> 0, ok |-> TRUE, reason |-> Nothing]]
  /\ mishaps = {}

------------------------------------------------------------------------------

\* `call/reason` enters atomic mode, or a plain callout takes the OS thread.
Enter(t, e) ==
  /\ call[t].pc = "idle"
  /\ call[t].number < MaxCalls
  /\ owner[home[t]] = Nothing
  /\ owner' = [owner EXCEPT ![home[t]] = t]
  /\ call' = [call EXCEPT ![t] = [pc |-> "entered", entry |-> e, number |-> @.number + 1,
                                  guards |-> 0, ok |-> TRUE, reason |-> Nothing]]
  /\ UNCHANGED <<slot, depth, active, mishaps>>

\* The entry point's first statement: `clear_last_error`, where it has one.
Begin(t) ==
  /\ call[t].pc = "entered"
  /\ slot' = IF call[t].entry \in Recording THEN [slot EXCEPT ![home[t]] = Nothing] ELSE slot
  /\ call' = [call EXCEPT ![t].pc = "running"]
  /\ UNCHANGED <<depth, active, owner, mishaps>>

\* Fault: a guard that workers cannot see.
GuardUnseen(t) ==
  /\ call[t].pc = "running"
  /\ call[t].entry = "guarded"
  /\ call[t].guards < MaxGuards
  /\ depth' = [depth EXCEPT ![home[t]] = @ + 1]
  /\ call' = [call EXCEPT ![t].guards = @ + 1]
  /\ UNCHANGED <<slot, active, owner, mishaps>>

\* `guard_panic` up to `catch_unwind`.
Guard(t) ==
  /\ call[t].pc = "running"
  /\ call[t].entry = "guarded"
  /\ call[t].guards < MaxGuards
  /\ depth' = [depth EXCEPT ![home[t]] = @ + 1]
  /\ active' = active + 1
  /\ call' = [call EXCEPT ![t].guards = @ + 1]
  /\ UNCHANGED <<slot, owner, mishaps>>

LeaveGuard(t) ==
  /\ call[t].guards > 0
  /\ depth' = [depth EXCEPT ![home[t]] = @ - 1]
  /\ active' = active - 1

\* `guard_panic` when its closure returned, with a value or with None.
Unguard(t) ==
  /\ call[t].pc \in {"running", "failing"}
  /\ LeaveGuard(t)
  /\ call' = [call EXCEPT ![t].guards = @ - 1]
  /\ UNCHANGED <<slot, owner, mishaps>>

\* `record` of an error, or a silent entry point about to return NULL.
Fail(t) ==
  /\ call[t].pc = "running"
  /\ slot' = IF call[t].entry \in Recording THEN [slot EXCEPT ![home[t]] = Message(t)] ELSE slot
  /\ call' = [call EXCEPT ![t].pc = "failing", ![t].ok = FALSE]
  /\ UNCHANGED <<depth, active, owner, mishaps>>

\* polars panics under a guard, on the calling thread or on a worker that the
\* call waits for and whose panic is resumed on the calling thread.  Unguarded
\* entry points run no code that panics.
Panic(t, onWorker) ==
  /\ call[t].pc = "running"
  /\ call[t].guards > 0
  /\ call' = [call EXCEPT ![t].pc = "panicking"]
  /\ mishaps' = IF Quiet(IF onWorker THEN 0 ELSE depth[home[t]], onWorker)
                THEN mishaps ELSE mishaps \cup {"caught panic printed"}
  /\ UNCHANGED <<slot, depth, active, owner>>

\* Fault: the depth is not restored when a panic was caught.
CatchDeep(t) ==
  /\ call[t].pc = "panicking"
  /\ active' = active - 1
  /\ slot' = [slot EXCEPT ![home[t]] = Message(t)]
  /\ call' = [call EXCEPT ![t].pc = "failing", ![t].ok = FALSE, ![t].guards = @ - 1]
  /\ UNCHANGED <<depth, owner, mishaps>>

\* Fault: ACTIVE_GUARDS is not restored when a panic was caught.
CatchActive(t) ==
  /\ call[t].pc = "panicking"
  /\ depth' = [depth EXCEPT ![home[t]] = @ - 1]
  /\ slot' = [slot EXCEPT ![home[t]] = Message(t)]
  /\ call' = [call EXCEPT ![t].pc = "failing", ![t].ok = FALSE, ![t].guards = @ - 1]
  /\ UNCHANGED <<active, owner, mishaps>>

\* `guard_panic` after `catch_unwind` caught a payload.
Catch(t) ==
  /\ call[t].pc = "panicking"
  /\ LeaveGuard(t)
  /\ slot' = [slot EXCEPT ![home[t]] = Message(t)]
  /\ call' = [call EXCEPT ![t].pc = "failing", ![t].ok = FALSE, ![t].guards = @ - 1]
  /\ UNCHANGED <<owner, mishaps>>

\* Fault: the call and the reading of its reason are two atomic extents.
ReturnUnowned(t) ==
  /\ call[t].pc \in {"running", "failing"}
  /\ call[t].guards = 0
  /\ call' = [call EXCEPT ![t].pc = IF call[t].entry \in Recording THEN "returned" ELSE "idle"]
  /\ owner' = [owner EXCEPT ![home[t]] = Nothing]
  /\ UNCHANGED <<slot, depth, active, mishaps>>

\* The entry point returns.  `call/reason` keeps the place until it has read
\* the slot; a plain callout gives it back.
Return(t) ==
  /\ call[t].pc \in {"running", "failing"}
  /\ call[t].guards = 0
  /\ IF call[t].entry \in Recording
     THEN /\ call' = [call EXCEPT ![t].pc = "returned"]
          /\ UNCHANGED owner
     ELSE /\ call' = [call EXCEPT ![t].pc = "idle"]
          /\ owner' = [owner EXCEPT ![home[t]] = Nothing]
  /\ UNCHANGED <<slot, depth, active, mishaps>>

\* `call/reason` reads `last_error_message` when the result is not ok, then
\* leaves atomic mode.
ReadReason(t) ==
  /\ call[t].pc = "returned"
  /\ call' = [call EXCEPT ![t].pc = "idle",
                          ![t].reason = IF call[t].ok THEN Nothing ELSE slot[home[t]]]
  /\ owner' = [owner EXCEPT ![home[t]] = Nothing]
  /\ UNCHANGED <<slot, depth, active, mishaps>>

AnyGuard == \E t \in Tasks : call[t].guards > 0

\* A panic that no guard is going to catch: on an OS thread of the program's
\* own, or on a polars worker that runs for no guarded call.
ForeignPanic(onWorker) ==
  /\ mishaps' = IF ~Quiet(0, onWorker) THEN mishaps
                ELSE mishaps \cup {IF ~onWorker THEN "thread panic silenced"
                                   ELSE IF AnyGuard THEN "worker panic silenced beside a guard"
                                   ELSE "worker panic silenced"}
  /\ UNCHANGED <<slot, depth, active, owner, call>>

Step(t) ==
  \/ \E e \in Entries : Enter(t, e)
  \/ Begin(t) \/ Guard(t) \/ Unguard(t) \/ Fail(t)
  \/ \E onWorker \in BOOLEAN : Panic(t, onWorker)
  \/ Catch(t) \/ Return(t) \/ ReadReason(t)

CallsNext ==
  \/ \E t \in Tasks : Step(t)
  \/ \E onWorker \in BOOLEAN : ForeignPanic(onWorker)

CallsSpec == CallsInit /\ [][CallsNext]_callVars

------------------------------------------------------------------------------

CallStates ==
  [pc : {"idle", "entered", "running", "panicking", "failing", "returned"}, entry : Entries,
   number : Nat, guards : Nat, ok : BOOLEAN, reason : Reasons]

\* The type invariant of the module's state.
CallsTypeOK ==
  /\ slot \in [Places -> Reasons]
  /\ depth \in [Places -> Nat]
  /\ active \in Nat
  /\ owner \in [Places -> Tasks \cup {Nothing}]
  /\ call \in [Tasks -> CallStates]
  /\ mishaps \in SUBSET {"caught panic printed", "thread panic silenced",
                         "worker panic silenced", "worker panic silenced beside a guard"}

Finished(t) == call[t].pc = "idle" /\ call[t].number > 0

\* A finished call that failed through `call/reason` reports the reason that
\* this very call recorded: never none, never one left by an earlier call or by
\* another thread of the place; and a call that succeeded reports none.
ReasonIsOwn ==
  \A t \in Tasks : Finished(t) =>
    call[t].reason = IF ~call[t].ok /\ call[t].entry \in Recording THEN Message(t) ELSE Nothing

\* GUARD_DEPTH of a place is the nesting of the one call that runs there, and
\* is zero again whenever the place is free, whatever mixture of errors and
\* panics the call met.
DepthBalanced ==
  \A p \in Places :
    depth[p] = IF owner[p] = Nothing THEN 0 ELSE call[owner[p]].guards

\* The hook prints no panic that a guard catches, wherever polars raised it,
\* and hides no panic of a thread that is no worker.  It hides a worker's that
\* nothing catches only while some call, of whatever place, is under a guard,
\* as tests/last_error.rs:53-54 has it: the count it goes by is never left
\* behind by a guard that an error or a panic closed (errors.rs:22-28, 40-44).
HookTellsPanicsApart == mishaps \subseteq {"worker panic silenced beside a guard"}

\* ACTIVE_GUARDS falls to zero when no call is under a guard anywhere, so a
\* later worker panic that nothing catches is printed.
ActiveWhileGuarded == (active > 0) <=> (\E p \in Places : depth[p] > 0)
==============================================================================
