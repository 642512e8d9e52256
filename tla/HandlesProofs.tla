---------------------------- MODULE HandlesProofs -----------------------------
(***************************************************************************)
(* For every number of threads, pointers, wrappers, addresses and types:   *)
(* what `Handles` keeps true.  The inductive invariant IInv adds to the    *)
(* properties of the runs that a box lies at the address its pointer       *)
(* holds, that whatever a thread holds was produced, and that the values   *)
(* of plain calls are live in a program that keeps the manual's rule.      *)
(***************************************************************************)
EXTENDS Handles, FiniteSetTheorems, TLAPS

BoxesPlaced ==
  \A a \in Addresses : heap[a] # None => Live(heap[a]) /\ pointer[heap[a]].addr = a

Made(p) == p \in Pointers /\ pointer[p].tag # "unmade"

RootsMade ==
  \A t \in Threads :
    /\ \A v \in held[t] : Made(Unwrap(v))
    /\ callout[t] # None => Made(Unwrap(callout[t]))

CalloutsLive ==
  ~SharedDrops => \A t \in Threads : callout[t] # None => Live(Unwrap(callout[t]))

FaultsKnown == OnlyStaleCallouts /\ NoMemoryFault

IInv ==
  /\ TypeOK
  /\ OwnedOnce
  /\ BoxesPlaced
  /\ RootsMade
  /\ CalloutsLive
  /\ CollectorSparesReachable
  /\ FaultsKnown

\* At first nothing is made, held, registered or wrong.
LEMMA InitIInv == Init => IInv
BY ConstantsAssumption
   DEF Init, IInv, TypeOK, PointerStates, OwnedOnce, BoxesPlaced, RootsMade, CalloutsLive,
       CollectorSparesReachable, FaultsKnown, OnlyStaleCallouts, NoMemoryFault, Live, Made

\* A producer gives a fresh pointer a fresh address, so nothing else moves.
LEMMA ProduceKeepsIInv ==
  ASSUME IInv, NEW t \in Threads, NEW p \in Pointers, NEW a \in Addresses, NEW k \in Kinds,
         Produce(t, p, a, k), UNCHANGED <<wrapped, callout, wills, dropCount, faults>>
  PROVE  IInv'
<1> USE ConstantsAssumption
<1>t. TypeOK /\ OwnedOnce /\ BoxesPlaced /\ RootsMade /\ CalloutsLive
      /\ CollectorSparesReachable /\ FaultsKnown
  BY DEF IInv
<1>1. pointer' = [pointer EXCEPT ![p] = [tag |-> "live", kind |-> k, addr |-> a]]
  BY DEF Produce
<1>2. \A q \in Pointers : q # p => pointer'[q] = pointer[q]
  BY <1>1, <1>t DEF TypeOK
<1>3. pointer'[p].tag = "live" /\ pointer'[p].kind = k /\ pointer'[p].addr = a
  BY <1>1, <1>t DEF TypeOK
<1>4. TypeOK'
  <2>1. pointer' \in [Pointers -> PointerStates]
    BY <1>1, <1>t DEF TypeOK, PointerStates
  <2>2. ASSUME NEW q \in Pointers, pointer'[q].tag # "unmade"
        PROVE  pointer'[q].kind \in Kinds /\ pointer'[q].addr \in Addresses
    <3>1. CASE q = p
      BY <1>3, <3>1
    <3>2. CASE q # p
      BY <1>2, <1>t, <2>2, <3>2 DEF TypeOK
    <3> QED BY <3>1, <3>2
  <2>3. /\ heap' \in [Addresses -> Pointers \cup {None}]
        /\ releases' \in [Pointers -> Kinds \cup {None}]
        /\ held' \in [Threads -> SUBSET Values]
    BY <1>t DEF TypeOK, Produce, Values
  <2> QED BY <1>t, <2>1, <2>2, <2>3 DEF TypeOK
<1>5. \A b \in Addresses : heap'[b] = IF b = a THEN p ELSE heap[b]
  BY <1>t DEF Produce, TypeOK
<1>6. \A q \in Pointers : releases'[q] = IF q = p THEN k ELSE releases[q]
  BY <1>t DEF Produce, TypeOK
<1>7. heap[a] = None /\ \A b \in Addresses : heap[b] # p
  BY <1>t DEF Produce, OwnedOnce, Live
<1>8. OwnedOnce'
  <2> SUFFICES ASSUME NEW q \in Pointers
               PROVE  /\ Live(q)' => heap'[pointer'[q].addr] = q /\ releases'[q] = pointer'[q].kind
                      /\ ~Live(q)' => releases'[q] = None /\ \A b \in Addresses : heap'[b] # q
    BY DEF OwnedOnce
  <2>1. CASE q = p
    BY <1>3, <1>5, <1>6, <2>1 DEF Live
  <2>2. CASE q # p
    <3>1. Live(q)' = Live(q) /\ pointer'[q] = pointer[q] /\ releases'[q] = releases[q]
      BY <1>2, <1>6, <2>2 DEF Live
    <3>2. CASE Live(q)
      <4>1. pointer[q].addr \in Addresses /\ heap[pointer[q].addr] = q
        BY <1>t, <3>2 DEF OwnedOnce, TypeOK, Live
      <4>2. pointer[q].addr # a
        BY <1>7, <4>1
      <4> QED BY <1>t, <1>5, <3>1, <3>2, <4>1, <4>2 DEF OwnedOnce
    <3>3. CASE ~Live(q)
      BY <1>t, <1>5, <2>2, <3>1, <3>3 DEF OwnedOnce
    <3> QED BY <3>2, <3>3
  <2> QED BY <2>1, <2>2
<1>9. BoxesPlaced'
  <2> SUFFICES ASSUME NEW b \in Addresses, heap'[b] # None
               PROVE  Live(heap[b])' /\ pointer'[heap'[b]].addr = b
    BY DEF BoxesPlaced
  <2>1. CASE b = a
    BY <1>3, <1>5, <2>1 DEF Live
  <2>2. CASE b # a
    <3>1. heap'[b] = heap[b] /\ heap[b] \in Pointers /\ heap[b] # p
      BY <1>t, <1>5, <1>7, <2>2 DEF TypeOK
    <3> QED BY <1>t, <1>2, <3>1 DEF BoxesPlaced, Live
  <2> QED BY <2>1, <2>2
<1>10. \A v : (Unwrap(v))' = Unwrap(v)
  BY DEF Unwrap
<1>11. \A q : Made(q) => (Made(q))' /\ q # p
  BY <1>2, <1>3 DEF Made, Produce
<1>12. (Made(p))' /\ Unwrap(p) = p
  BY <1>3 DEF Made, Unwrap
<1>13. \A u \in Threads : held'[u] \subseteq held[u] \cup {p}
  BY <1>t DEF Produce, TypeOK
<1>14. RootsMade'
  BY <1>t, <1>10, <1>11, <1>12, <1>13 DEF RootsMade
<1>15. CalloutsLive'
  BY <1>t, <1>2, <1>10, <1>11 DEF CalloutsLive, RootsMade, Live, Made
<1>16. CollectorSparesReachable'
  <2> SUFFICES ASSUME NEW q \in wills PROVE ~Reachable(q)' /\ Live(q)'
    BY DEF CollectorSparesReachable
  <2>1. q \in Pointers /\ q # p /\ Live(q) /\ ~Reachable(q)
    BY <1>t DEF CollectorSparesReachable, TypeOK, Produce, Live
  <2> QED BY <1>2, <1>10, <1>12, <1>13, <2>1 DEF Reachable, Live
<1>17. FaultsKnown'
  BY <1>t DEF FaultsKnown, OnlyStaleCallouts, NoMemoryFault
<1> QED
  BY <1>4, <1>8, <1>9, <1>14, <1>15, <1>16, <1>17 DEF IInv

\* A release frees the pointer's own box: the tag check saw it live.
LEMMA ReleaseKeepsBoxes ==
  ASSUME IInv, NEW v \in Values, NEW k, Unwrap(v) \in Pointers, ReleaseOwned(v, k),
         UNCHANGED <<wrapped, held, callout>>, wills' \subseteq wills
  PROVE  /\ TypeOK' /\ OwnedOnce' /\ BoxesPlaced' /\ RootsMade' /\ faults' = faults
         /\ Live(Unwrap(v))
         /\ pointer' = [pointer EXCEPT ![Unwrap(v)].tag = "dropped"]
<1> DEFINE p == Unwrap(v)
<1> USE ConstantsAssumption
<1>t. TypeOK /\ OwnedOnce /\ BoxesPlaced /\ RootsMade
  BY DEF IInv
<1>1. Unwrap(p) = p
  BY DEF Unwrap
<1>2. Live(p) /\ heap[pointer[p].addr] = p
  BY <1>t, <1>1 DEF ReleaseOwned, Accepts, OwnedOnce
<1>3. pointer[p].addr \in Addresses /\ pointer[p].kind \in Kinds
  BY <1>t, <1>2 DEF TypeOK, Live
<1>4. faults' = faults
  BY <1>2 DEF ReleaseOwned, FreeBox, Touch
<1>5. pointer' = [pointer EXCEPT ![p].tag = "dropped"]
  BY DEF ReleaseOwned
<1>6. \A q \in Pointers : q # p => pointer'[q] = pointer[q]
  BY <1>5, <1>t DEF TypeOK
<1>7. /\ pointer'[p].tag = "dropped"
      /\ pointer'[p].kind = pointer[p].kind
      /\ pointer'[p].addr = pointer[p].addr
  <2>1. pointer[p] \in PointerStates /\ pointer'[p] = [pointer[p] EXCEPT !.tag = "dropped"]
    BY <1>5, <1>t DEF TypeOK
  <2> QED BY <2>1 DEF PointerStates
<1>8. \A b \in Addresses : heap'[b] = IF b = pointer[p].addr THEN None ELSE heap[b]
  BY <1>t DEF ReleaseOwned, FreeBox, TypeOK
<1>9. \A q \in Pointers : releases'[q] = IF q = p THEN None ELSE releases[q]
  BY <1>t DEF ReleaseOwned, TypeOK
<1>10. TypeOK'
  <2>1. pointer' \in [Pointers -> PointerStates]
    <3>1. pointer[p] \in PointerStates /\ pointer \in [Pointers -> PointerStates]
      BY <1>t DEF TypeOK
    <3>2. [pointer[p] EXCEPT !.tag = "dropped"] \in PointerStates
      BY <3>1 DEF PointerStates
    <3> QED BY <1>5, <3>1, <3>2
  <2>2. ASSUME NEW q \in Pointers, pointer'[q].tag # "unmade"
        PROVE  pointer'[q].kind \in Kinds /\ pointer'[q].addr \in Addresses
    <3>1. CASE q = p
      BY <1>3, <1>7, <3>1
    <3>2. CASE q # p
      BY <1>t, <1>6, <2>2, <3>2 DEF TypeOK
    <3> QED BY <3>1, <3>2
  <2>3. /\ heap' \in [Addresses -> Pointers \cup {None}]
        /\ releases' \in [Pointers -> Kinds \cup {None}]
    BY <1>t DEF TypeOK, ReleaseOwned, FreeBox
  <2>4. dropCount' \in [Kinds -> Nat]
    <3>1. dropCount' = [dropCount EXCEPT ![pointer[p].kind] = @ + 1] /\ dropCount \in [Kinds -> Nat]
      BY <1>t DEF ReleaseOwned, FreeBox, TypeOK
    <3>2. dropCount[pointer[p].kind] + 1 \in Nat
      BY <1>3, <3>1
    <3> QED BY <1>3, <3>1, <3>2
  <2> QED BY <1>t, <1>4, <2>1, <2>2, <2>3, <2>4 DEF TypeOK
<1>11. \A b \in Addresses : heap[b] = p => b = pointer[p].addr
  BY <1>t DEF BoxesPlaced
<1>12. OwnedOnce'
  <2> SUFFICES ASSUME NEW q \in Pointers
               PROVE  /\ Live(q)' => heap'[pointer'[q].addr] = q /\ releases'[q] = pointer'[q].kind
                      /\ ~Live(q)' => releases'[q] = None /\ \A b \in Addresses : heap'[b] # q
    BY DEF OwnedOnce
  <2>1. CASE q = p
    BY <1>7, <1>8, <1>9, <1>11, <2>1 DEF Live
  <2>2. CASE q # p
    <3>1. Live(q)' = Live(q) /\ pointer'[q] = pointer[q] /\ releases'[q] = releases[q]
      BY <1>6, <1>9, <2>2 DEF Live
    <3>2. CASE Live(q)
      <4>1. pointer[q].addr \in Addresses /\ heap[pointer[q].addr] = q
        BY <1>t, <3>2 DEF OwnedOnce, TypeOK, Live
      <4>2. pointer[q].addr # pointer[p].addr
        BY <1>2, <2>2, <4>1
      <4> QED BY <1>t, <1>8, <3>1, <3>2, <4>1, <4>2 DEF OwnedOnce
    <3>3. CASE ~Live(q)
      <4>1. releases[q] = None /\ \A b \in Addresses : heap[b] # q
        BY <1>t, <3>3 DEF OwnedOnce
      <4>2. \A b \in Addresses : heap'[b] # q
        BY <1>8, <4>1
      <4> QED BY <3>1, <3>3, <4>1, <4>2
    <3> QED BY <3>2, <3>3
  <2> QED BY <2>1, <2>2
<1>13. BoxesPlaced'
  <2> SUFFICES ASSUME NEW b \in Addresses, heap'[b] # None
               PROVE  Live(heap[b])' /\ pointer'[heap'[b]].addr = b
    BY DEF BoxesPlaced
  <2>1. heap'[b] = heap[b] /\ heap[b] \in Pointers /\ heap[b] # p
    BY <1>t, <1>8, <1>11 DEF TypeOK
  <2> QED BY <1>t, <1>6, <2>1 DEF BoxesPlaced, Live
<1>14. \A q : Made(q) => (Made(q))'
  BY <1>6, <1>7 DEF Made
<1>15. RootsMade'
  BY <1>t, <1>14 DEF RootsMade, Unwrap
<1> QED
  BY <1>2, <1>4, <1>5, <1>10, <1>12, <1>13, <1>15

\* What a drop or the finalizer thread must see to before it releases.
LEMMA ReleaseKeepsIInv ==
  ASSUME IInv, NEW v \in Values, NEW k, Unwrap(v) \in Pointers, ReleaseOwned(v, k),
         UNCHANGED <<wrapped, held, callout>>,
         wills' \subseteq wills \ {Unwrap(v)},
         ~SharedDrops => \A t \in Threads : callout[t] # None => Unwrap(callout[t]) # Unwrap(v)
  PROVE  IInv'
<1> USE ConstantsAssumption
<1>t. TypeOK /\ RootsMade /\ CalloutsLive /\ CollectorSparesReachable /\ FaultsKnown
  BY DEF IInv
<1>1. /\ TypeOK' /\ OwnedOnce' /\ BoxesPlaced' /\ RootsMade' /\ faults' = faults
      /\ pointer' = [pointer EXCEPT ![Unwrap(v)].tag = "dropped"]
  BY ReleaseKeepsBoxes
<1>2. \A q \in Pointers : q # Unwrap(v) => pointer'[q] = pointer[q]
  BY <1>1, <1>t DEF TypeOK
<1>3. \A u : (Unwrap(u))' = Unwrap(u)
  BY DEF Unwrap
<1>4. CalloutsLive'
  BY <1>t, <1>2, <1>3 DEF CalloutsLive, RootsMade, Made, Live
<1>5. CollectorSparesReachable'
  BY <1>t, <1>2, <1>3 DEF CollectorSparesReachable, Reachable, Live, TypeOK
<1>6. FaultsKnown'
  BY <1>1, <1>t DEF FaultsKnown, OnlyStaleCallouts, NoMemoryFault
<1> QED
  BY <1>1, <1>4, <1>5, <1>6 DEF IInv

\* A step that moves references only, and makes nothing reachable that was not.
LEMMA RootsKeepIInv ==
  ASSUME IInv, TypeOK', RootsMade', CalloutsLive', FaultsKnown',
         UNCHANGED <<heap, pointer, releases, dropCount>>,
         \A p \in wills : Reachable(p)' => Reachable(p),
         wills' \subseteq wills
  PROVE  IInv'
<1>1. OwnedOnce' /\ BoxesPlaced'
  BY DEF IInv, OwnedOnce, BoxesPlaced, Live
<1>2. CollectorSparesReachable'
  BY DEF IInv, CollectorSparesReachable, Live
<1> QED
  BY <1>1, <1>2 DEF IInv

\* The values a thread holds or has converted are made and reachable.
LEMMA HeldReachable ==
  ASSUME IInv, NEW t \in Threads, NEW v \in held[t] \cup {callout[t]}, v # None
  PROVE  Unwrap(v) \in Pointers /\ Made(Unwrap(v)) /\ Reachable(Unwrap(v)) /\ v \in Values
BY DEF IInv, RootsMade, Made, Reachable, TypeOK

\* A dereference of a live pointer finds its box.
LEMMA TouchLive ==
  ASSUME IInv, NEW p \in Pointers, Live(p), NEW fault, Touch(p, fault)
  PROVE  faults' = faults
BY DEF IInv, OwnedOnce, Touch

\* Every action keeps the strengthened invariant: one step per action.
LEMMA NextIInv == IInv /\ [Next]_vars => IInv'
<1> USE ConstantsAssumption
<1> SUFFICES ASSUME IInv, [Next]_vars PROVE IInv'
  OBVIOUS
<1>t. TypeOK /\ RootsMade /\ CalloutsLive /\ CollectorSparesReachable /\ FaultsKnown
  BY DEF IInv
<1>n. \A t \in Threads : None \notin held[t]
  BY <1>t DEF TypeOK, Values
<1>1. ASSUME NEW t \in Threads, NEW k \in Kinds, Make(t, k)
      PROVE  IInv'
  BY <1>1, ProduceKeepsIInv DEF Make
<1>2. ASSUME NEW t \in Threads, NEW v \in Values, NEW k \in Kinds, Derive(t, v, k)
      PROVE  IInv'
  <2>1. Live(Unwrap(v)) /\ Unwrap(v) \in Pointers
    BY <1>2, <1>n, HeldReachable DEF Derive, Accepts, Unwrap
  <2>2. faults' = faults
    BY <1>2, <2>1, TouchLive DEF Derive
  <2> QED BY <1>2, <2>2, ProduceKeepsIInv DEF Derive
<1>3. ASSUME NEW t \in Threads, NEW v \in Values, NEW k \in Kinds, Convert(t, v, k)
      PROVE  IInv'
  <2>1. Made(Unwrap(v)) /\ Live(Unwrap(v))
    BY <1>3, <1>n, HeldReachable DEF Convert, Accepts, Unwrap
  <2>2. callout' = [callout EXCEPT ![t] = v]
    BY <1>3 DEF Convert
  <2>3. \A u \in Threads : callout'[u] = IF u = t THEN v ELSE callout[u]
    BY <1>t, <2>2 DEF TypeOK
  <2>4. UNCHANGED <<heap, pointer, releases, wrapped, held, wills, dropCount, faults>>
    BY <1>3 DEF Convert
  <2>5. TypeOK'
    BY <1>t, <2>2, <2>4 DEF TypeOK, PointerStates, Values
  <2>6. \A u : (Unwrap(u))' = Unwrap(u)
    BY <2>4 DEF Unwrap
  <2>7. \A q : (Made(q))' = Made(q) /\ (Live(q))' = Live(q)
    BY <2>4 DEF Made, Live
  <2>8. RootsMade' /\ CalloutsLive'
    BY <1>t, <2>1, <2>3, <2>4, <2>6, <2>7 DEF RootsMade, CalloutsLive
  <2>9. \A p \in wills : Reachable(p)' => Reachable(p)
    BY <1>3, <1>n, <2>3, <2>4, <2>6 DEF Reachable, Convert
  <2>10. FaultsKnown'
    BY <1>t, <2>4 DEF FaultsKnown, OnlyStaleCallouts, NoMemoryFault
  <2> QED BY <2>4, <2>5, <2>8, <2>9, <2>10, RootsKeepIInv
<1>4. ASSUME NEW t \in Threads, NEW v \in Values, NEW k \in Kinds, Drop(t, v, k)
      PROVE  IInv'
  <2>1. Unwrap(v) \in Pointers /\ Reachable(Unwrap(v))
    BY <1>4, <1>n, HeldReachable DEF Drop
  <2>2. Unwrap(v) \notin wills
    BY <1>t, <2>1 DEF CollectorSparesReachable
  <2>3. wills' \subseteq wills \ {Unwrap(v)}
    BY <1>4, <2>2 DEF Drop
  <2> QED BY <1>4, <2>1, <2>3, ReleaseKeepsIInv DEF Drop
<1>5. ASSUME NEW t \in Threads, NEW v \in Values, NEW w \in Wrappers, Wrap(t, w, v)
      PROVE  IInv'
  <2>1. Made(Unwrap(v)) /\ Unwrap(v) \in Pointers /\ v \in held[t]
    BY <1>5, <1>n, HeldReachable DEF Wrap
  <2>2. \A u \in Threads : w \notin held[u] /\ callout[u] # w
    <3> SUFFICES ASSUME NEW u \in Threads PROVE w \notin held[u] /\ callout[u] # w
      OBVIOUS
    <3>1. Unwrap(w) = None
      BY <1>5 DEF Wrap, Unwrap
    <3>2. w # None
      OBVIOUS
    <3> QED BY <1>t, <3>1, <3>2 DEF RootsMade, Made
  <2>3. /\ wrapped' = [wrapped EXCEPT ![w] = Unwrap(v)]
        /\ held' = [held EXCEPT ![t] = (@ \ {v}) \cup {w}]
        /\ UNCHANGED <<heap, pointer, releases, callout, wills, dropCount, faults>>
    BY <1>5 DEF Wrap
  <2>4. \A u \in Threads : held'[u] = IF u = t THEN (held[t] \ {v}) \cup {w} ELSE held[u]
    BY <1>t, <2>3 DEF TypeOK
  <2>5. \A u : u # w => (Unwrap(u))' = Unwrap(u)
    BY <1>t, <2>3 DEF Unwrap, TypeOK
  <2>6. (Unwrap(w))' = Unwrap(v)
    BY <1>t, <2>3 DEF Unwrap, TypeOK
  <2>7. TypeOK'
    <3>1. wrapped' \in [Wrappers -> Pointers \cup {None}] /\ held' \in [Threads -> SUBSET Values]
      BY <1>t, <2>1, <2>3 DEF TypeOK, Values
    <3> QED BY <1>t, <2>3, <3>1 DEF TypeOK
  <2>8. \A q : (Made(q))' = Made(q) /\ (Live(q))' = Live(q)
    BY <2>3 DEF Made, Live
  <2>9. RootsMade'
    BY <1>t, <2>1, <2>2, <2>3, <2>4, <2>5, <2>6, <2>8 DEF RootsMade
  <2>10. CalloutsLive'
    BY <1>t, <2>2, <2>3, <2>5, <2>8 DEF CalloutsLive
  <2>11. \A p \in wills : Reachable(p)' => Reachable(p)
    BY <1>t, <2>1, <2>2, <2>3, <2>4, <2>5, <2>6, <1>n DEF Reachable, TypeOK, Values
  <2>12. FaultsKnown'
    BY <1>t, <2>3 DEF FaultsKnown, OnlyStaleCallouts, NoMemoryFault
  <2> QED BY <2>3, <2>7, <2>9, <2>10, <2>11, <2>12, RootsKeepIInv
<1>6. ASSUME NEW t \in Threads, NEW u \in Threads, NEW v \in Values, Share(t, u, v)
      PROVE  IInv'
  <2>1. /\ held' = [held EXCEPT ![u] = @ \cup {v}] /\ v \in held[t]
        /\ UNCHANGED <<heap, pointer, releases, wrapped, callout, wills, dropCount, faults>>
    BY <1>6 DEF Share
  <2>2. \A x \in Threads : held'[x] \subseteq held[x] \cup {v}
    BY <1>t, <2>1 DEF TypeOK
  <2>3. TypeOK'
    BY <1>t, <2>1 DEF TypeOK, PointerStates
  <2>4. \A x : (Unwrap(x))' = Unwrap(x) /\ (Made(x))' = Made(x) /\ (Live(x))' = Live(x)
    BY <2>1 DEF Unwrap, Made, Live
  <2>5. RootsMade' /\ CalloutsLive'
    BY <1>t, <2>1, <2>2, <2>4 DEF RootsMade, CalloutsLive
  <2>6. \A p \in wills : Reachable(p)' => Reachable(p)
    BY <2>1, <2>2, <2>4 DEF Reachable
  <2>7. FaultsKnown'
    BY <1>t, <2>1 DEF FaultsKnown, OnlyStaleCallouts, NoMemoryFault
  <2> QED BY <2>1, <2>3, <2>5, <2>6, <2>7, RootsKeepIInv
<1>7. ASSUME NEW t \in Threads, NEW v \in Values, Forget(t, v)
      PROVE  IInv'
  <2>1. /\ held' = [held EXCEPT ![t] = @ \ {v}]
        /\ UNCHANGED <<heap, pointer, releases, wrapped, callout, wills, dropCount, faults>>
    BY <1>7 DEF Forget
  <2>2. \A x \in Threads : held'[x] \subseteq held[x]
    BY <1>t, <2>1 DEF TypeOK
  <2>3. TypeOK'
    BY <1>t, <2>1 DEF TypeOK, PointerStates
  <2>4. \A x : (Unwrap(x))' = Unwrap(x) /\ (Made(x))' = Made(x) /\ (Live(x))' = Live(x)
    BY <2>1 DEF Unwrap, Made, Live
  <2>5. RootsMade' /\ CalloutsLive'
    BY <1>t, <2>1, <2>2, <2>4 DEF RootsMade, CalloutsLive
  <2>6. \A p \in wills : Reachable(p)' => Reachable(p)
    BY <2>1, <2>2, <2>4 DEF Reachable
  <2>7. FaultsKnown'
    BY <1>t, <2>1 DEF FaultsKnown, OnlyStaleCallouts, NoMemoryFault
  <2> QED BY <2>1, <2>3, <2>5, <2>6, <2>7, RootsKeepIInv
<1>8. ASSUME NEW t \in Threads, Callout(t)
      PROVE  IInv'
  <2>1. /\ callout[t] # None /\ callout' = [callout EXCEPT ![t] = None]
        /\ Touch(Unwrap(callout[t]), "stale callout")
        /\ UNCHANGED <<heap, pointer, releases, wrapped, held, wills, dropCount>>
    BY <1>8 DEF Callout
  <2>2. \A x \in Threads : callout'[x] \in {callout[x], None}
    BY <1>t, <2>1 DEF TypeOK
  <2>3. faults' \subseteq faults \cup {"stale callout"}
    BY <2>1 DEF Touch
  <2>4. TypeOK'
    BY <1>t, <2>1, <2>3 DEF TypeOK, PointerStates
  <2>5. \A x : (Unwrap(x))' = Unwrap(x) /\ (Made(x))' = Made(x) /\ (Live(x))' = Live(x)
    BY <2>1 DEF Unwrap, Made, Live
  <2>6. RootsMade' /\ CalloutsLive'
    BY <1>t, <2>1, <2>2, <2>5 DEF RootsMade, CalloutsLive
  <2>7. \A p \in wills : Reachable(p)' => Reachable(p)
    BY <2>1, <2>2, <2>5 DEF Reachable
  <2>8. ~SharedDrops => faults' = faults
    <3>1. Unwrap(callout[t]) \in Pointers
      BY <1>t, <2>1 DEF RootsMade, Made
    <3> QED BY <1>t, <2>1, <3>1, TouchLive DEF CalloutsLive
  <2>9. FaultsKnown'
    BY <1>t, <2>3, <2>8 DEF FaultsKnown, OnlyStaleCallouts, NoMemoryFault
  <2> QED BY <2>1, <2>4, <2>6, <2>7, <2>9, RootsKeepIInv
<1>9. ASSUME NEW t \in Threads, Kill(t)
      PROVE  IInv'
  <2>1. /\ held' = [held EXCEPT ![t] = {}] /\ callout' = [callout EXCEPT ![t] = None]
        /\ UNCHANGED <<heap, pointer, releases, wrapped, wills, dropCount, faults>>
    BY <1>9 DEF Kill
  <2>2. \A x \in Threads : held'[x] \subseteq held[x] /\ callout'[x] \in {callout[x], None}
    BY <1>t, <2>1 DEF TypeOK
  <2>3. TypeOK'
    BY <1>t, <2>1 DEF TypeOK, PointerStates
  <2>4. \A x : (Unwrap(x))' = Unwrap(x) /\ (Made(x))' = Made(x) /\ (Live(x))' = Live(x)
    BY <2>1 DEF Unwrap, Made, Live
  <2>5. RootsMade' /\ CalloutsLive'
    BY <1>t, <2>2, <2>4 DEF RootsMade, CalloutsLive
  <2>6. \A p \in wills : Reachable(p)' => Reachable(p)
    BY <2>2, <2>4 DEF Reachable
  <2>7. FaultsKnown'
    BY <1>t, <2>1 DEF FaultsKnown, OnlyStaleCallouts, NoMemoryFault
  <2> QED BY <2>1, <2>3, <2>5, <2>6, <2>7, RootsKeepIInv
<1>10. ASSUME NEW p \in Pointers, Collect(p)
      PROVE  IInv'
  <2>1. /\ releases[p] # None /\ ~Reachable(p) /\ wills' = wills \cup {p}
        /\ UNCHANGED <<heap, pointer, releases, wrapped, held, callout, dropCount, faults>>
    BY <1>10 DEF Collect
  <2>2. \A x : (Unwrap(x))' = Unwrap(x) /\ (Made(x))' = Made(x) /\ (Live(x))' = Live(x)
    BY <2>1 DEF Unwrap, Made, Live
  <2>3. TypeOK'
    BY <1>t, <2>1 DEF TypeOK, PointerStates
  <2>4. Live(p)
    BY <2>1 DEF IInv, OwnedOnce
  <2>5. CollectorSparesReachable'
    BY <1>t, <2>1, <2>2, <2>4 DEF CollectorSparesReachable, Reachable
  <2>6. OwnedOnce' /\ BoxesPlaced'
    BY <2>1, <2>2 DEF IInv, OwnedOnce, BoxesPlaced
  <2>7. RootsMade' /\ CalloutsLive' /\ FaultsKnown'
    BY <1>t, <2>1, <2>2
       DEF RootsMade, CalloutsLive, FaultsKnown, OnlyStaleCallouts, NoMemoryFault
  <2> QED BY <2>3, <2>5, <2>6, <2>7 DEF IInv
<1>11. ASSUME NEW p \in Pointers, Finalize(p)
      PROVE  IInv'
  <2>1. p \in wills /\ ~Reachable(p) /\ Unwrap(p) = p /\ p \in Values
    BY <1>11, <1>t DEF Finalize, CollectorSparesReachable, Unwrap, Values
  <2>2. \A t \in Threads : callout[t] # None => Unwrap(callout[t]) # p
    BY <2>1 DEF Reachable
  <2> QED BY <1>11, <2>1, <2>2, ReleaseKeepsIInv DEF Finalize
<1>12. CASE UNCHANGED vars
  <2>1. \A x : (Unwrap(x))' = Unwrap(x) /\ (Made(x))' = Made(x) /\ (Live(x))' = Live(x)
    BY <1>12 DEF vars, Unwrap, Made, Live
  <2>2. TypeOK'
    BY <1>t, <1>12 DEF vars, TypeOK, PointerStates
  <2>3. RootsMade' /\ CalloutsLive' /\ FaultsKnown'
    BY <1>t, <1>12, <2>1
       DEF vars, RootsMade, CalloutsLive, FaultsKnown, OnlyStaleCallouts, NoMemoryFault
  <2>4. \A p \in wills : Reachable(p)' => Reachable(p)
    BY <1>12, <2>1 DEF vars, Reachable
  <2> QED BY <1>12, <2>2, <2>3, <2>4, RootsKeepIInv DEF vars
<1> QED
  BY <1>1, <1>2, <1>3, <1>4, <1>5, <1>6, <1>7, <1>8, <1>9, <1>10, <1>11, <1>12 DEF Next

\* The strengthened invariant holds in every reachable state; each theorem
\* below is a consequence of it.
THEOREM Invariance == Spec => []IInv
BY InitIInv, NextIInv, PTL DEF Spec

\* The state has its type.
THEOREM TypeCorrect == Spec => []TypeOK
<1>1. IInv => TypeOK
  BY DEF IInv
<1> QED BY Invariance, <1>1, PTL

\* Tag, registered release and box agree: no box has two owners or none.
THEOREM BoxesOwnedOnce == Spec => []OwnedOnce
<1>1. IInv => OwnedOnce
  BY DEF IInv
<1> QED BY Invariance, <1>1, PTL

\* No release waits for a value that a thread can still reach.
THEOREM ReachableSpared == Spec => []CollectorSparesReachable
<1>1. IInv => CollectorSparesReachable
  BY DEF IInv
<1> QED BY Invariance, <1>1, PTL

\* Without any rule for the program: no double free, and no atomic call on a
\* freed box.
THEOREM OnlyCalloutsGoStale == Spec => []OnlyStaleCallouts
<1>1. IInv => OnlyStaleCallouts
  BY DEF IInv, FaultsKnown
<1> QED BY Invariance, <1>1, PTL

\* With the manual's rule: no memory fault at all.
THEOREM MemorySafe == Spec => []NoMemoryFault
<1>1. IInv => NoMemoryFault
  BY DEF IInv, FaultsKnown
<1> QED BY Invariance, <1>1, PTL

\* A dropped pointer never answers again: the tag is written at production,
\* which wants an unmade pointer, and at release, which wants a live one.
THEOREM NeverRevived == Spec => DroppedForGood
<1> DEFINE A == \A p \in Pointers : Dropped(p) => pointer'[p] = pointer[p]
<1>1. IInv /\ [Next]_vars => [A]_vars
  <2> SUFFICES ASSUME IInv, Next, NEW p \in Pointers, Dropped(p)
               PROVE  pointer'[p] = pointer[p]
    OBVIOUS
  <2>t. TypeOK
    BY DEF IInv
  <2>1. ASSUME NEW t, NEW q \in Pointers, NEW a, NEW k, Produce(t, q, a, k)
        PROVE  pointer'[p] = pointer[p]
    BY <2>1, <2>t DEF Produce, Dropped, TypeOK
  <2>2. ASSUME NEW v, NEW k, ReleaseOwned(v, k)
        PROVE  pointer'[p] = pointer[p]
    BY <2>2, <2>t DEF ReleaseOwned, Dropped, TypeOK
  <2> QED
    BY ZenonT(60), <2>1, <2>2 DEF Next, Make, Derive, Convert, Callout, Drop, Wrap, Share, Forget, Kill,
                      Collect, Finalize
<1>2. DroppedForGood <=> [][A]_vars
  BY DEF DroppedForGood
<1> QED BY Invariance, <1>1, <1>2, PTL DEF Spec

\* A release adds its pointer, and no other, to the dropped ones of its kind.
LEMMA ReleaseCounts ==
  ASSUME IInv, CountsReleases, NEW v \in Values, NEW k, Unwrap(v) \in Pointers, ReleaseOwned(v, k)
  PROVE  CountsReleases'
<1> DEFINE p == Unwrap(v)
           Gone(j) == {q \in Pointers : Dropped(q) /\ pointer[q].kind = j}
<1> USE ConstantsAssumption
<1>t. TypeOK
  BY DEF IInv
<1>1. Live(p) /\ pointer[p].kind \in Kinds /\ pointer[p] \in PointerStates
  BY <1>t DEF ReleaseOwned, Accepts, Unwrap, Live, TypeOK
<1>2. /\ \A q \in Pointers : q # p => pointer'[q] = pointer[q]
      /\ pointer'[p].tag = "dropped" /\ pointer'[p].kind = pointer[p].kind
  <2>1. pointer' = [pointer EXCEPT ![p].tag = "dropped"]
    BY DEF ReleaseOwned
  <2>2. pointer'[p] = [pointer[p] EXCEPT !.tag = "dropped"]
    BY <1>t, <2>1 DEF TypeOK
  <2> QED BY <1>t, <1>1, <2>1, <2>2 DEF TypeOK, PointerStates
<1>3. \A j \in Kinds :
        dropCount'[j] = IF j = pointer[p].kind THEN dropCount[j] + 1 ELSE dropCount[j]
  BY <1>t DEF ReleaseOwned, FreeBox, TypeOK
<1> SUFFICES ASSUME NEW j \in Kinds PROVE dropCount'[j] = Cardinality(Gone(j)')
  BY DEF CountsReleases
<1>4. dropCount[j] = Cardinality(Gone(j)) /\ IsFiniteSet(Gone(j)) /\ p \notin Gone(j)
  <2>1. IsFiniteSet(Gone(j))
    BY FS_Subset
  <2> QED BY <1>1, <2>1 DEF CountsReleases, Dropped, Live
<1>5. CASE j = pointer[p].kind
  <2>1. Gone(j)' = Gone(j) \cup {p}
    BY <1>2, <1>5 DEF Dropped
  <2> HIDE DEF p, Gone
  <2>2. Cardinality(Gone(j) \cup {p}) = Cardinality(Gone(j)) + 1
    BY <1>4, FS_AddElement
  <2>3. Cardinality(Gone(j)') = Cardinality(Gone(j)) + 1
    BY <2>1, <2>2
  <2> QED BY <1>3, <1>4, <1>5, <2>3
<1>6. CASE j # pointer[p].kind
  <2>1. Gone(j)' = Gone(j)
    BY <1>2, <1>6 DEF Dropped
  <2> QED BY <1>3, <1>4, <1>6, <2>1
<1> QED BY <1>5, <1>6

\* The drop counters count each release once, the collector's included.
THEOREM ReleasesCounted == Spec => []CountsReleases
<1> USE ConstantsAssumption
<1>1. Init => CountsReleases
  <2> SUFFICES ASSUME Init, NEW k \in Kinds
               PROVE  dropCount[k] = Cardinality({p \in Pointers : Dropped(p) /\ pointer[p].kind = k})
    BY DEF CountsReleases
  <2>1. {p \in Pointers : Dropped(p) /\ pointer[p].kind = k} = {}
    BY DEF Init, Dropped
  <2> QED BY <2>1, FS_EmptySet DEF Init
<1>2. IInv /\ CountsReleases /\ [Next]_vars => CountsReleases'
  <2> SUFFICES ASSUME IInv, CountsReleases, [Next]_vars PROVE CountsReleases'
    OBVIOUS
  <2>t. TypeOK /\ \A t \in Threads : None \notin held[t]
    BY DEF IInv, TypeOK, Values
  <2>1. ASSUME NEW v \in Values, NEW k, Unwrap(v) \in Pointers, ReleaseOwned(v, k)
        PROVE  CountsReleases'
    BY <2>1, ReleaseCounts
  <2>2. ASSUME NEW t, NEW q \in Pointers, NEW a, NEW k, Produce(t, q, a, k), dropCount' = dropCount
        PROVE  CountsReleases'
    <3>1. \A p \in Pointers : p # q => pointer'[p] = pointer[p]
      BY <2>2, <2>t DEF Produce, TypeOK
    <3>2. pointer[q].tag = "unmade" /\ pointer'[q].tag = "live"
      BY <2>2, <2>t DEF Produce, TypeOK
    <3>3. \A p \in Pointers : Dropped(p)' = Dropped(p) /\ (Dropped(p) => pointer'[p] = pointer[p])
      BY <3>1, <3>2 DEF Dropped
    <3>4. ASSUME NEW j \in Kinds
          PROVE  {p \in Pointers : Dropped(p) /\ pointer[p].kind = j}' =
                 {p \in Pointers : Dropped(p) /\ pointer[p].kind = j}
      BY <3>3
    <3> QED BY <2>2, <3>4 DEF CountsReleases
  <2>3. ASSUME UNCHANGED <<pointer, dropCount>>
        PROVE  CountsReleases'
    BY <2>3 DEF CountsReleases, Dropped
  <2>4. ASSUME NEW t \in Threads, NEW v \in Values, NEW k \in Kinds, Drop(t, v, k)
        PROVE  CountsReleases'
    BY <2>1, <2>4, <2>t, HeldReachable DEF Drop
  <2>5. ASSUME NEW p \in Pointers, Finalize(p)
        PROVE  CountsReleases'
    <3>1. Unwrap(p) = p /\ p \in Values
      BY DEF Unwrap, Values
    <3> QED BY <2>1, <2>5, <3>1 DEF Finalize
  <2> QED
    BY ZenonT(60), <2>2, <2>3, <2>4, <2>5
       DEF vars, Next, Make, Derive, Convert, Callout, Wrap, Share, Forget, Kill, Collect
<1> QED BY Invariance, <1>1, <1>2, PTL DEF Spec
===============================================================================
