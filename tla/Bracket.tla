------------------------------- MODULE Bracket --------------------------------
(***************************************************************************)
(* What polars/private/resource.rkt promises of everything acquired in one *)
(* extent: it is released once, by the extent or by the collector, and     *)
(* never while the extent's body can still use it.  `Extent` implements    *)
(* this specification.                                                     *)
(***************************************************************************)
CONSTANT Resources

VARIABLES
  state,   \* of each resource: "none", "owned", "released" or "collected"
  inside   \* whether code that can use the resources is running

vars == <<state, inside>>

Init ==
  /\ state = [r \in Resources |-> "none"]
  /\ inside = FALSE

\* The extent is entered once, before anything is acquired.
Enter ==
  /\ \A r \in Resources : state[r] = "none"
  /\ inside' = TRUE
  /\ UNCHANGED state

Leave ==
  /\ inside' = FALSE
  /\ UNCHANGED state

Acquire(r) ==
  /\ state[r] = "none"
  /\ state' = [state EXCEPT ![r] = "owned"]
  /\ UNCHANGED inside

Release(r) ==
  /\ ~inside
  /\ state[r] = "owned"
  /\ state' = [state EXCEPT ![r] = "released"]
  /\ UNCHANGED inside

\* What the extent will not release, the collector does.
Abandon(R) ==
  /\ \A r \in R : state[r] = "owned"
  /\ state' = [r \in Resources |-> IF r \in R THEN "collected" ELSE state[r]]
  /\ inside' = FALSE

Next ==
  \/ Enter \/ Leave
  \/ \E r \in Resources : Acquire(r) \/ Release(r)
  \/ \E R \in SUBSET Resources : Abandon(R)

Spec == Init /\ [][Next]_vars
==============================================================================
