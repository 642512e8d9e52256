-------------------------------- MODULE Extent --------------------------------
(***************************************************************************)
(* One evaluation of `with-release`, `with-releases` or                    *)
(* `with-release-pool` (polars/private/resource.rkt) by a Racket thread    *)
(* that may be broken, killed, escape, raise, or jump back in through a    *)
(* continuation captured in the body.                                      *)
(*                                                                         *)
(* All three expand to `call-with-one-shot-extent`, a dynamic-wind whose   *)
(* pre and post thunks run with breaks disabled.  They differ in where a   *)
(* resource is acquired:                                                   *)
(*   "nested"  with-release: in the pre thunk of an extent of its own,     *)
(*             inside the extents of the clauses before it;                *)
(*   "list"    with-releases: in the body, before the user's part of it;   *)
(*   "pool"    with-release-pool: in the body, whenever `own` is called.   *)
(* A value acquired in a body is for a moment neither the extent's nor     *)
(* released: the finalizer that `allocator` registered backs that up, as   *)
(* it backs up a killed thread, whose post thunks never run.               *)
(***************************************************************************)
EXTENDS Naturals, Sequences

CONSTANT N   \* bound: clauses, elements or owned values of one extent

ASSUME NAssumption == N \in Nat

Resources == 1..N

VARIABLES
  kind,     \* which of the three forms
  phase,    \* where the thread is
  next,     \* the resource to acquire next
  state,    \* of each resource
  box,      \* what the extent holds, the latest first; nested: one extent each
  names,    \* resources the body's names are bound to
  order,    \* releases so far (history)
  outcome   \* how the last step out of the extent, or back into it, went

vars == <<kind, phase, next, state, box, names, order, outcome>>

States == {"none", "made", "held", "absent", "released", "collected"}

Inside == phase \in {"acquiring", "body"}

Init ==
  /\ kind \in {"nested", "list", "pool"}
  /\ phase = "outside"
  /\ next = 1
  /\ state = [r \in Resources |-> "none"]
  /\ box = <<>>
  /\ names = {}
  /\ order = <<>>
  /\ outcome = "none"

------------------------------------------------------------------------------

\* The outermost pre thunk: `entered?` is set; a list or a pool makes its box.
Enter ==
  /\ phase = "outside"
  /\ phase' = IF kind = "pool" THEN "body" ELSE "acquiring"
  /\ UNCHANGED <<kind, next, state, box, names, order, outcome>>

Acquiring == phase = "acquiring" \/ (phase = "body" /\ kind = "pool")

Stray == {r \in Resources : state[r] = "made"}

\* `acquire` returns; its value is not in `held` or in the box yet.
Acquire ==
  /\ Acquiring
  /\ Stray = {}
  /\ next \in Resources
  /\ state' = [state EXCEPT ![next] = "made"]
  /\ next' = next + 1
  /\ UNCHANGED <<kind, phase, box, names, order, outcome>>

\* A with-release clause whose acquire gives #f has nothing to release.
AcquireNothing ==
  /\ phase = "acquiring" /\ kind = "nested"
  /\ Stray = {}
  /\ next \in Resources
  /\ state' = [state EXCEPT ![next] = "absent"]
  /\ next' = next + 1
  /\ UNCHANGED <<kind, phase, box, names, order, outcome>>

\* Fault: the box is a queue.
StoreLast ==
  /\ Inside
  /\ \E r \in Stray :
       /\ state' = [state EXCEPT ![r] = "held"]
       /\ box' = box \o <<r>>
       /\ names' = IF kind = "list" THEN names ELSE names \cup {r}
  /\ UNCHANGED <<kind, phase, next, order, outcome>>

\* `(set! held (acquire))`, or the cons onto the box.  with-release binds its
\* name at once; a list binds its name when every element is there.
Store ==
  /\ Inside
  /\ \E r \in Stray :
       /\ state' = [state EXCEPT ![r] = "held"]
       /\ box' = <<r>> \o box
       /\ names' = IF kind = "list" THEN names ELSE names \cup {r}
  /\ UNCHANGED <<kind, phase, next, order, outcome>>

\* The last clause or element, one of up to N, is behind: the body proper runs.
StartBody ==
  /\ phase = "acquiring"
  /\ Stray = {}
  /\ phase' = "body"
  /\ names' = {r \in Resources : state[r] = "held"}
  /\ UNCHANGED <<kind, next, state, box, order, outcome>>

\* The thread leaves: the body returns, raises or escapes, an acquire raises,
\* or a break arrives.  No break arrives in with-release's pre thunk, so none
\* separates its acquire from its `held`.  with-releases and
\* with-release-pool unbind their name before the first release.
Leave(how) ==
  /\ Inside
  /\ how = "return" => phase = "body"
  /\ how # "break" => Stray = {}
  /\ kind = "nested" => Stray = {}
  /\ phase' = "unwinding"
  /\ outcome' = how
  /\ names' = IF kind = "nested" THEN names ELSE {}
  /\ UNCHANGED <<kind, next, state, box, order>>

\* Fault: a release that raises ends the loop.
ReleaseUntilRaise(raises) ==
  /\ phase = "unwinding"
  /\ box # <<>>
  /\ state' = [state EXCEPT ![Head(box)] = "released"]
  /\ names' = names \ {Head(box)}
  /\ order' = Append(order, Head(box))
  /\ box' = IF raises THEN <<>> ELSE Tail(box)
  /\ outcome' = IF raises THEN "raise" ELSE outcome
  /\ UNCHANGED <<kind, phase, next>>

\* Fault: the name stays bound to the released value.
ReleaseNamed(raises) ==
  /\ phase = "unwinding"
  /\ box # <<>>
  /\ state' = [state EXCEPT ![Head(box)] = "released"]
  /\ order' = Append(order, Head(box))
  /\ box' = Tail(box)
  /\ outcome' = IF raises THEN "raise" ELSE outcome
  /\ UNCHANGED <<kind, phase, next, names>>

\* One post thunk of with-release, or one link of `release-each`: the value is
\* no longer held and no longer named when its release runs.  A release that
\* raises does not stop the ones that are left.
Release(raises) ==
  /\ phase = "unwinding"
  /\ box # <<>>
  /\ state' = [state EXCEPT ![Head(box)] = "released"]
  /\ names' = names \ {Head(box)}
  /\ order' = Append(order, Head(box))
  /\ box' = Tail(box)
  /\ outcome' = IF raises THEN "raise" ELSE outcome
  /\ UNCHANGED <<kind, phase, next>>

\* The outermost post thunk returns.  `pool-close!` has closed the pool.
Finish ==
  /\ phase = "unwinding"
  /\ box = <<>>
  /\ phase' = "done"
  /\ UNCHANGED <<kind, next, state, box, names, order, outcome>>

\* Fault: an extent that can be entered again.
ReEnterBody ==
  /\ phase = "done"
  /\ phase' = "body"
  /\ UNCHANGED <<kind, next, state, box, names, order, outcome>>

\* A continuation captured in the body is applied after the release: the
\* outermost pre thunk finds `entered?` set and raises.
ReEnter ==
  /\ phase = "done"
  /\ outcome' = "re-entry refused"
  /\ UNCHANGED <<kind, phase, next, state, box, names, order>>

\* An `own` that escaped is called after `pool-close!`: it raises, and the
\* value stays its caller's, who leaves it to the collector.
OwnLate ==
  /\ phase = "done" /\ kind = "pool"
  /\ next \in Resources
  /\ state' = [state EXCEPT ![next] = "made"]
  /\ next' = next + 1
  /\ outcome' = "own refused"
  /\ UNCHANGED <<kind, phase, box, names, order>>

\* `kill-thread`: no post thunk runs; what the thread had is unreachable, and
\* the finalizers release it.
Kill ==
  /\ phase \notin {"outside", "done", "killed"}
  /\ phase' = "killed"
  /\ state' = [r \in Resources |-> IF state[r] \in {"made", "held"} THEN "collected" ELSE state[r]]
  /\ box' = <<>>
  /\ names' = {}
  /\ UNCHANGED <<kind, next, order, outcome>>

\* A value that the extent never held is unreachable once the body is left.
CollectStray ==
  /\ ~Inside
  /\ Stray # {}
  /\ state' = [r \in Resources |-> IF r \in Stray THEN "collected" ELSE state[r]]
  /\ UNCHANGED <<kind, phase, next, box, names, order, outcome>>

Next ==
  \/ Enter \/ Acquire \/ AcquireNothing \/ Store \/ StartBody
  \/ \E how \in {"return", "raise", "break"} : Leave(how)
  \/ \E raises \in BOOLEAN : Release(raises)
  \/ Finish \/ ReEnter \/ OwnLate \/ Kill \/ CollectStray

Spec == Init /\ [][Next]_vars

\* A thread that unwinds goes on unwinding, and the collector keeps running.
FairSpec ==
  /\ Spec
  /\ WF_vars(\E raises \in BOOLEAN : Release(raises))
  /\ WF_vars(Finish)
  /\ WF_vars(CollectStray)

------------------------------------------------------------------------------

\* The type invariant of the module's state.
TypeOK ==
  /\ kind \in {"nested", "list", "pool"}
  /\ phase \in {"outside", "acquiring", "body", "unwinding", "done", "killed"}
  /\ next \in 1..(N + 1)
  /\ state \in [Resources -> States]
  /\ box \in Seq(Resources)
  /\ names \in SUBSET Resources
  /\ order \in Seq(Resources)
  /\ outcome \in {"none", "return", "raise", "break", "re-entry refused", "own refused"}

Bracketed ==
  INSTANCE Bracket WITH
    inside <- Inside,
    state <- [r \in Resources |->
                CASE state[r] \in {"none", "absent"} -> "none"
                  [] state[r] \in {"made", "held"} -> "owned"
                  [] OTHER -> state[r]]

\* Every acquired value is released once, by the extent or by the collector,
\* and only after the code that could use it has been left for good.
ImplementsBracket == Bracketed!Spec

\* Releases run in the reverse of the order of acquisition.
ReverseOrder == \A i, j \in DOMAIN order : i < j => order[i] > order[j]

\* Once the extent is left everything it held is released, also when releases
\* raised; and unless its thread was killed, with-release leaves nothing at
\* all for the collector.
NothingHeldAfter ==
  /\ phase = "done" => \A r \in Resources : state[r] # "held"
  /\ phase = "done" /\ kind = "nested" => \A r \in Resources : state[r] \notin {"made", "collected"}

\* A name the body could have captured in a closure is bound to a value only
\* as long as that value is not released.
NamesAreHeld == \A r \in names : state[r] = "held"

\* Whatever happens to the thread once it leaves its body, every value it
\* acquired is released or collected.
AllSettled ==
  \A r \in Resources :
    (state[r] \in {"made", "held"} /\ ~Inside) ~> state[r] \in {"released", "collected"}
==============================================================================
