------------------------------- MODULE Handles -------------------------------
(***************************************************************************)
(* The life of a native value (a Series, DataFrame, Expr or LazyFrame box  *)
(* on the Rust heap) and of the Racket pointer that owns it.               *)
(*                                                                         *)
(* polars/private/foreign.rkt makes every owning pointer through           *)
(* `define-owned-cpointer-type`: a cpointer whose tag says which type it   *)
(* owns, or that it has been dropped.  Every producer is wrapped with      *)
(* `(allocator X-drop)`, which registers a release for the collector to    *)
(* run, and every `X-drop` goes through `release-owned`.  The box itself   *)
(* is freed by `series_drop` and its siblings in rust/src.  The allocator  *)
(* of an Expr registers its drop on the `expr` struct around the cpointer  *)
(* (expr-core.rkt): for that type the struct is what is modelled here as   *)
(* the pointer.                                                            *)
(*                                                                         *)
(* Racket threads interleave between atomic extents (`call-as-atomic`,     *)
(* `allocator` and `deallocator` all run in atomic mode).  A producer is   *)
(* one step; a plain accessor is two, the conversion that checks the tag   *)
(* and the native call, and another thread may run in between.             *)
(***************************************************************************)
EXTENDS Naturals, FiniteSets

CONSTANTS
  Threads,      \* Racket threads of one place
  Pointers,     \* cpointer objects: each owns one box in its life
  Wrappers,     \* series/dataframe/lazyframe structs around a pointer
  Addresses,    \* addresses of the Rust heap, reused after a free
  Kinds,        \* owned types: Series, DataFrame, Expr, LazyFrame
  SharedDrops,  \* whether a program drops what another thread is using
  None

ASSUME ConstantsAssumption ==
  /\ None \notin Pointers \cup Wrappers \cup Kinds
  /\ Pointers \cap Wrappers = {}
  /\ SharedDrops \in BOOLEAN
  /\ IsFiniteSet(Pointers)

VARIABLES
  heap,       \* the pointer whose box lies at an address, or None
  pointer,    \* kind, tag and address of each cpointer
  releases,   \* what `allocator` registered for a pointer: a kind's drop, or None
  wrapped,    \* the pointer at the bottom of a wrapper, or None
  held,       \* values a thread can still reach
  callout,    \* the value a plain call has converted and not yet passed on
  wills,      \* pointers the collector has found unreachable
  dropCount,  \* the DROPPED counter of each kind
  faults      \* memory errors so far (history, read by the properties only)

vars == <<heap, pointer, releases, wrapped, held, callout, wills, dropCount, faults>>

Values == Pointers \cup Wrappers

\* `owned-pointer-arg`, and what prop:cpointer passes to a native call
Unwrap(v) == IF v \in Wrappers THEN wrapped[v] ELSE v

Live(p)    == pointer[p].tag = "live"
Dropped(p) == pointer[p].tag = "dropped"

\* What keeps a cpointer: a thread's frame or a converted argument that is
\* the pointer or wraps it.
Reachable(p) ==
  \E t \in Threads : \E v \in held[t] \cup {callout[t]} : v # None /\ Unwrap(v) = p

\* `->c`: only a pointer with the type's own tag crosses
Accepts(v, k) == Live(Unwrap(v)) /\ pointer[Unwrap(v)].kind = k

\* Dereferencing the box of p: an error unless it is still p's box.
Touch(p, fault) ==
  faults' = IF heap[pointer[p].addr] = p THEN faults ELSE faults \cup {fault}

\* `series_drop`: Box::from_raw at the pointer's address, and the counter.
FreeBox(p) ==
  /\ heap' = [heap EXCEPT ![pointer[p].addr] = None]
  /\ dropCount' = [dropCount EXCEPT ![pointer[p].kind] = @ + 1]
  /\ Touch(p, "double free")

\* Fault: the release is looked up under the value as given, which the program
\* may have passed as a wrapper, and not under its pointer.
ReleaseAsGiven(v, k) ==
  LET p == Unwrap(v) IN
  /\ ~Dropped(p)
  /\ Accepts(p, k)
  /\ FreeBox(p)
  /\ releases' = IF v \in Pointers THEN [releases EXCEPT ![v] = None] ELSE releases
  /\ pointer' = [pointer EXCEPT ![p].tag = "dropped"]

\* Fault: the tag is not looked at.
ReleaseUnchecked(v, k) ==
  LET p == Unwrap(v) IN
  /\ FreeBox(p)
  /\ releases' = [releases EXCEPT ![p] = None]
  /\ pointer' = [pointer EXCEPT ![p].tag = "dropped"]

\* `release-owned`: refuses a dropped pointer and another type's pointer,
\* frees the box, unregisters the release and retags, all in atomic mode.
ReleaseOwned(v, k) ==
  LET p == Unwrap(v) IN
  /\ ~Dropped(p)
  /\ Accepts(p, k)
  /\ FreeBox(p)
  /\ releases' = [releases EXCEPT ![p] = None]
  /\ pointer' = [pointer EXCEPT ![p].tag = "dropped"]

\* Fault: nothing is registered with the collector.
ProduceUnregistered(t, p, a, k) ==
  /\ pointer[p].tag = "unmade"
  /\ heap[a] = None
  /\ heap' = [heap EXCEPT ![a] = p]
  /\ pointer' = [pointer EXCEPT ![p] = [tag |-> "live", kind |-> k, addr |-> a]]
  /\ held' = [held EXCEPT ![t] = @ \cup {p}]
  /\ UNCHANGED releases

\* Fault: a result is given a pointer that was dropped before.
ProduceAgain(t, p, a, k) ==
  /\ pointer[p].tag # "live"
  /\ heap[a] = None
  /\ heap' = [heap EXCEPT ![a] = p]
  /\ pointer' = [pointer EXCEPT ![p] = [tag |-> "live", kind |-> k, addr |-> a]]
  /\ releases' = [releases EXCEPT ![p] = k]
  /\ held' = [held EXCEPT ![t] = @ \cup {p}]

\* A producer's non-NULL result: `->racket` tags it, `allocator` registers
\* the kind's drop on it.
Produce(t, p, a, k) ==
  /\ pointer[p].tag = "unmade"
  /\ heap[a] = None
  /\ heap' = [heap EXCEPT ![a] = p]
  /\ pointer' = [pointer EXCEPT ![p] = [tag |-> "live", kind |-> k, addr |-> a]]
  /\ releases' = [releases EXCEPT ![p] = k]
  /\ held' = [held EXCEPT ![t] = @ \cup {p}]

Init ==
  /\ heap = [a \in Addresses |-> None]
  /\ pointer = [p \in Pointers |-> [tag |-> "unmade", kind |-> None, addr |-> None]]
  /\ releases = [p \in Pointers |-> None]
  /\ wrapped = [w \in Wrappers |-> None]
  /\ held = [t \in Threads |-> {}]
  /\ callout = [t \in Threads |-> None]
  /\ wills = {}
  /\ dropCount = [k \in Kinds |-> 0]
  /\ faults = {}

------------------------------------------------------------------------------

\* A constructor: an `allocator` producer that takes no owned argument.
Make(t, k) ==
  /\ callout[t] = None
  /\ \E p \in Pointers, a \in Addresses : Produce(t, p, a, k)
  /\ UNCHANGED <<wrapped, callout, wills, dropCount, faults>>

\* An `allocator` producer or a `call/reason` call over v: conversion, native
\* call and registration are one atomic extent.
Derive(t, v, k) ==
  /\ callout[t] = None
  /\ v \in held[t]
  /\ Accepts(v, pointer[Unwrap(v)].kind)
  /\ Touch(Unwrap(v), "use after free")
  /\ \E p \in Pointers, a \in Addresses : Produce(t, p, a, k)
  /\ UNCHANGED <<wrapped, callout, wills, dropCount>>

\* The first half of a plain accessor such as `series-len`: the tag check.
Convert(t, v, k) ==
  /\ callout[t] = None
  /\ v \in held[t]
  /\ Accepts(v, k)
  /\ callout' = [callout EXCEPT ![t] = v]
  /\ UNCHANGED <<heap, pointer, releases, wrapped, held, wills, dropCount, faults>>

\* The second half: the native call reads the box.
Callout(t) ==
  /\ callout[t] # None
  /\ Touch(Unwrap(callout[t]), "stale callout")
  /\ callout' = [callout EXCEPT ![t] = None]
  /\ UNCHANGED <<heap, pointer, releases, wrapped, held, wills, dropCount>>

\* An explicit `series-drop` and its siblings.  Without SharedDrops the
\* program keeps the rule the manual states: no drop while another thread
\* uses the same value.
Drop(t, v, k) ==
  /\ callout[t] = None
  /\ v \in held[t]
  /\ \/ SharedDrops
     \/ \A u \in Threads : callout[u] = None \/ Unwrap(callout[u]) # Unwrap(v)
  /\ ReleaseOwned(v, k)
  /\ UNCHANGED <<wrapped, held, callout, wills>>

\* `wrap-series` and its siblings around a raw pointer or another wrapper.
Wrap(t, w, v) ==
  /\ callout[t] = None
  /\ v \in held[t]
  /\ wrapped[w] = None
  /\ wrapped' = [wrapped EXCEPT ![w] = Unwrap(v)]
  /\ held' = [held EXCEPT ![t] = (@ \ {v}) \cup {w}]
  /\ UNCHANGED <<heap, pointer, releases, callout, wills, dropCount, faults>>

\* A value handed to another thread (a channel, a closure, a module variable).
Share(t, u, v) ==
  /\ callout[t] = None
  /\ v \in held[t]
  /\ held' = [held EXCEPT ![u] = @ \cup {v}]
  /\ UNCHANGED <<heap, pointer, releases, wrapped, callout, wills, dropCount, faults>>

\* The thread's last use of v is behind it.
Forget(t, v) ==
  /\ v \in held[t]
  /\ held' = [held EXCEPT ![t] = @ \ {v}]
  /\ UNCHANGED <<heap, pointer, releases, wrapped, callout, wills, dropCount, faults>>

\* `kill-thread`, at any point outside an atomic extent.
Kill(t) ==
  /\ held' = [held EXCEPT ![t] = {}]
  /\ callout' = [callout EXCEPT ![t] = None]
  /\ UNCHANGED <<heap, pointer, releases, wrapped, wills, dropCount, faults>>

\* Fault: neither a wrapper nor a converted argument keeps its pointer.
CollectBare(p) ==
  /\ releases[p] # None
  /\ \A t \in Threads : p \notin held[t]
  /\ p \notin wills
  /\ wills' = wills \cup {p}
  /\ UNCHANGED <<heap, pointer, releases, wrapped, held, callout, dropCount, faults>>

\* The collector finds a registered pointer unreachable.
Collect(p) ==
  /\ releases[p] # None
  /\ ~Reachable(p)
  /\ p \notin wills
  /\ wills' = wills \cup {p}
  /\ UNCHANGED <<heap, pointer, releases, wrapped, held, callout, dropCount, faults>>

\* The finalizer thread runs the registered drop on the bare pointer.
Finalize(p) ==
  /\ p \in wills
  /\ wills' = wills \ {p}
  /\ ReleaseOwned(p, releases[p])
  /\ UNCHANGED <<wrapped, held, callout>>

Next ==
  \/ \E t \in Threads :
       \/ \E k \in Kinds : Make(t, k)
       \/ \E v \in Values, k \in Kinds : Derive(t, v, k) \/ Convert(t, v, k) \/ Drop(t, v, k)
       \/ \E v \in Values, w \in Wrappers : Wrap(t, w, v)
       \/ \E v \in Values, u \in Threads : Share(t, u, v)
       \/ \E v \in Values : Forget(t, v)
       \/ Callout(t)
       \/ Kill(t)
  \/ \E p \in Pointers : Collect(p) \/ Finalize(p)

\* The collector and the finalizer thread keep running; a native call that
\* was entered returns.
Fairness ==
  /\ \A p \in Pointers : WF_vars(Collect(p)) /\ WF_vars(Finalize(p))
  /\ \A t \in Threads : WF_vars(Callout(t))

Spec == Init /\ [][Next]_vars
FairSpec == Spec /\ Fairness

------------------------------------------------------------------------------

PointerStates ==
  [tag : {"unmade", "live", "dropped"}, kind : Kinds \cup {None}, addr : Addresses \cup {None}]

\* The type invariant of the module's state.
TypeOK ==
  /\ heap \in [Addresses -> Pointers \cup {None}]
  /\ pointer \in [Pointers -> PointerStates]
  /\ \A p \in Pointers :
       pointer[p].tag # "unmade" => pointer[p].kind \in Kinds /\ pointer[p].addr \in Addresses
  /\ releases \in [Pointers -> Kinds \cup {None}]
  /\ wrapped \in [Wrappers -> Pointers \cup {None}]
  /\ held \in [Threads -> SUBSET Values]
  /\ callout \in [Threads -> Values \cup {None}]
  /\ wills \in SUBSET Pointers
  /\ dropCount \in [Kinds -> Nat]
  /\ faults \in SUBSET {"use after free", "double free", "stale callout"}

\* Tag, registration and box agree for every pointer: a pointer that answers
\* to its type owns the box at its address and has exactly its own type's drop
\* registered, and one that has been dropped has neither (the reason
\* `owned-pointer-arg` unwraps before `deallocator` looks the pointer up).
OwnedOnce ==
  \A p \in Pointers :
    /\ Live(p) => heap[pointer[p].addr] = p /\ releases[p] = pointer[p].kind
    /\ ~Live(p) => releases[p] = None /\ \A a \in Addresses : heap[a] # p

\* "The collector never runs a release while a thread can still reach the
\* value": what waits for the finalizer thread is out of every thread's reach.
CollectorSparesReachable == \A p \in wills : ~Reachable(p) /\ Live(p)

\* Whatever the threads do, no box is freed twice, and no atomic call reads a
\* freed one: all that can go wrong is a plain call whose value another thread
\* dropped between its conversion and its native call.
OnlyStaleCallouts == faults \subseteq {"stale callout"}

\* In a program that keeps the manual's rule nothing reads or frees a freed box.
NoMemoryFault == ~SharedDrops => faults = {}

\* A drop counter is the number of boxes of its kind that were released, by
\* the program or by the collector: never one release counted twice.
CountsReleases ==
  \A k \in Kinds : dropCount[k] = Cardinality({p \in Pointers : Dropped(p) /\ pointer[p].kind = k})

\* A dropped pointer stays dropped, so a stale reference to a reused address
\* is refused for ever.
DroppedForGood == [][\A p \in Pointers : Dropped(p) => pointer'[p] = pointer[p]]_vars

\* Every box that no thread can reach is released in the end, the boxes of a
\* killed thread included.
NothingLeaks == \A p \in Pointers : (Live(p) /\ ~Reachable(p)) ~> Dropped(p)
==============================================================================
