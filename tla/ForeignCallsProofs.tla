-------------------------- MODULE ForeignCallsProofs ---------------------------
(***************************************************************************)
(* For every number of places, threads, calls and nested guards: what      *)
(* `ForeignCalls` keeps true.  The inductive invariant adds that a place   *)
(* is held by just the thread whose call runs there, that the slot of a    *)
(* place holds the reason of the failed call that is about to read it, and *)
(* that ACTIVE_GUARDS counts the guards of all the places: it is the       *)
(* number of pairs of a place and a level of its nesting.                  *)
(***************************************************************************)
EXTENDS ForeignCalls, FiniteSetTheorems, TLAPS

\* A place is its holder's, and a call that is under way holds its place.
Holding ==
  /\ \A p \in Places : owner[p] # Nothing => home[owner[p]] = p /\ call[owner[p]].pc # "idle"
  /\ \A t \in Tasks : call[t].pc # "idle" => owner[home[t]] = t

\* Where in its course a call is under guards, and where it has failed.
Course ==
  \A t \in Tasks :
    /\ call[t].pc \in {"idle", "entered", "returned"} => call[t].guards = 0
    /\ call[t].pc = "panicking" => call[t].guards > 0
    /\ call[t].guards > 0 => call[t].entry = "guarded"
    /\ call[t].pc \in {"entered", "running", "panicking"} => call[t].ok
    /\ call[t].pc = "failing" => ~call[t].ok
    /\ call[t].pc = "returned" => call[t].entry \in Recording
    /\ call[t].pc # "idle" => call[t].reason = Nothing /\ call[t].number > 0

\* What a failed call is going to read is its own.
SlotIsOwn ==
  \A t \in Tasks :
    call[t].pc \in {"failing", "returned"} /\ ~call[t].ok /\ call[t].entry \in Recording
      => slot[home[t]] = Message(t)

Levels == {level \in Places \X (Nat \ {0}) : level[2] <= depth[level[1]]}
GuardsCounted == IsFiniteSet(Levels) /\ active = Cardinality(Levels)

CallsIInv ==
  /\ CallsTypeOK
  /\ Holding
  /\ Course
  /\ SlotIsOwn
  /\ ReasonIsOwn
  /\ DepthBalanced
  /\ GuardsCounted
  /\ HookTellsPanicsApart

LEMMA InitCallsIInv == CallsInit => CallsIInv
<1> SUFFICES ASSUME CallsInit PROVE CallsIInv
  OBVIOUS
<1>1. CallsTypeOK
  BY CallsAssumption DEF CallsInit, CallsTypeOK, CallStates, Entries, Reasons
<1>2. Levels = {}
  BY DEF CallsInit, Levels
<1>3. GuardsCounted
  BY <1>2, FS_EmptySet DEF CallsInit, GuardsCounted
<1>4. Holding /\ SlotIsOwn /\ ReasonIsOwn
  BY CallsAssumption DEF CallsInit, Holding, SlotIsOwn, ReasonIsOwn, Finished, Recording
<1>5. Course
  BY DEF CallsInit, Course
<1>6. DepthBalanced /\ HookTellsPanicsApart
  BY DEF CallsInit, DepthBalanced, HookTellsPanicsApart
<1> QED BY <1>1, <1>3, <1>4, <1>5, <1>6 DEF CallsIInv

\* A guard adds the next level of its place, and leaving it takes the last.
LEMMA GuardAddsLevel ==
  ASSUME CallsTypeOK, GuardsCounted, NEW p \in Places,
         depth' = [depth EXCEPT ![p] = @ + 1], active' = active + 1
  PROVE  GuardsCounted' /\ active' \in Nat
<1>1. /\ depth \in [Places -> Nat]
      /\ active \in Nat
  BY DEF CallsTypeOK
<1>2. depth[p] \in Nat
  BY <1>1
<1> DEFINE l == <<p, depth[p] + 1>>
<1>3. Levels' = Levels \cup {l}
  <2>1. ASSUME NEW q \in Places, NEW k \in Nat \ {0}
        PROVE  <<q, k>> \in Levels' <=> <<q, k>> \in Levels \/ <<q, k>> = l
    <3>1. <<q, k>> \in Levels' <=> k <= depth'[q]
      BY DEF Levels
    <3>2. <<q, k>> \in Levels <=> k <= depth[q]
      BY DEF Levels
    <3>3. depth'[q] = IF q = p THEN depth[p] + 1 ELSE depth[q]
      BY <1>1
    <3>4. <<q, k>> = l <=> q = p /\ k = depth[p] + 1
      OBVIOUS
    <3> HIDE DEF l
    <3> QED BY <1>2, <3>1, <3>2, <3>3, <3>4
  <2>2. /\ Levels \subseteq Places \X (Nat \ {0})
        /\ Levels' \subseteq Places \X (Nat \ {0})
        /\ l \in Places \X (Nat \ {0})
    BY <1>2 DEF Levels
  <2> HIDE DEF l
  <2> QED BY <2>1, <2>2
<1>4. l \notin Levels
  BY <1>2 DEF Levels
<1> HIDE DEF l
<1>5. IsFiniteSet(Levels \cup {l}) /\ Cardinality(Levels \cup {l}) = Cardinality(Levels) + 1
  BY <1>4, FS_AddElement DEF GuardsCounted
<1> QED BY <1>1, <1>3, <1>5 DEF GuardsCounted

LEMMA LeavingTakesLevel ==
  ASSUME CallsTypeOK, GuardsCounted, NEW p \in Places, depth[p] > 0,
         depth' = [depth EXCEPT ![p] = @ - 1], active' = active - 1
  PROVE  GuardsCounted' /\ active' \in Nat
<1>1. /\ depth \in [Places -> Nat]
      /\ active \in Nat
  BY DEF CallsTypeOK
<1>2. depth[p] \in Nat
  BY <1>1
<1> DEFINE l == <<p, depth[p]>>
<1>3. Levels' = Levels \ {l}
  <2>1. ASSUME NEW q \in Places, NEW k \in Nat \ {0}
        PROVE  <<q, k>> \in Levels' <=> <<q, k>> \in Levels /\ <<q, k>> # l
    <3>1. <<q, k>> \in Levels' <=> k <= depth'[q]
      BY DEF Levels
    <3>2. <<q, k>> \in Levels <=> k <= depth[q]
      BY DEF Levels
    <3>3. depth'[q] = IF q = p THEN depth[p] - 1 ELSE depth[q]
      BY <1>1
    <3>4. <<q, k>> = l <=> q = p /\ k = depth[p]
      OBVIOUS
    <3> HIDE DEF l
    <3> QED BY <1>2, <3>1, <3>2, <3>3, <3>4
  <2>2. /\ Levels \subseteq Places \X (Nat \ {0})
        /\ Levels' \subseteq Places \X (Nat \ {0})
    BY DEF Levels
  <2> HIDE DEF l
  <2> QED BY <2>1, <2>2
<1>4. l \in Levels
  BY <1>2 DEF Levels
<1> HIDE DEF l
<1>5. IsFiniteSet(Levels \ {l}) /\ Cardinality(Levels \ {l}) = Cardinality(Levels) - 1
  BY <1>4, FS_RemoveElement DEF GuardsCounted
<1>6. Cardinality(Levels \ {l}) \in Nat
  BY <1>5, FS_CardinalityType
<1> QED BY <1>1, <1>3, <1>5, <1>6 DEF GuardsCounted

\* While a call is under a guard, so is the process.
LEMMA GuardedIsActive ==
  ASSUME CallsTypeOK, GuardsCounted, NEW p \in Places, depth[p] > 0
  PROVE  active > 0
<1>1. depth \in [Places -> Nat] /\ active \in Nat
  BY DEF CallsTypeOK
<1>2. depth[p] \in Nat
  BY <1>1
<1>3. <<p, depth[p]>> \in Levels
  BY <1>2 DEF Levels
<1>4. Cardinality(Levels) # 0
  BY <1>3, FS_EmptySet DEF GuardsCounted
<1> QED BY <1>1, <1>4 DEF GuardsCounted

LEMMA ActiveIsGuarded ==
  ASSUME CallsTypeOK, GuardsCounted, active > 0
  PROVE  \E p \in Places : depth[p] > 0
<1>1. Levels # {}
  BY FS_EmptySet DEF GuardsCounted
<1>2. PICK level \in Levels : TRUE
  BY <1>1
<1>3. level[1] \in Places /\ level[2] \in Nat \ {0} /\ level[2] <= depth[level[1]]
  BY <1>2 DEF Levels
<1>4. depth[level[1]] \in Nat
  BY <1>3 DEF CallsTypeOK
<1> QED BY <1>3, <1>4

\* A call under way holds its place, so the other calls under way are elsewhere.
LEMMA OthersElsewhere ==
  ASSUME CallsIInv, NEW t \in Tasks, owner[home[t]] \in {t, Nothing},
         NEW u \in Tasks, u # t, call[u].pc # "idle"
  PROVE  home[u] # home[t]
BY CallsAssumption DEF CallsIInv, Holding

LEMMA CallsAreTyped ==
  ASSUME CallsIInv, NEW t \in Tasks
  PROVE  /\ home[t] \in Places
         /\ call \in [Tasks -> CallStates]
         /\ call[t] \in CallStates
         /\ slot \in [Places -> Reasons]
         /\ depth \in [Places -> Nat]
         /\ owner \in [Places -> Tasks \cup {Nothing}]
         /\ Message(t) \in Reasons
         /\ Nothing \in Reasons
BY CallsAssumption DEF CallsIInv, CallsTypeOK, CallStates, Message, Reasons

\* The thread takes a free place, where no call is under way.
LEMMA EnterKeeps ==
  ASSUME CallsIInv, NEW t \in Tasks, NEW e \in Entries, Enter(t, e)
  PROVE  CallsIInv'
<1>1. /\ home[t] \in Places /\ call \in [Tasks -> CallStates] /\ call[t] \in CallStates
      /\ slot \in [Places -> Reasons] /\ depth \in [Places -> Nat]
      /\ owner \in [Places -> Tasks \cup {Nothing}]
      /\ Message(t) \in Reasons /\ Nothing \in Reasons
  BY CallsAreTyped
<1>2. owner[home[t]] = Nothing
  BY <1>1 DEF CallsIInv, Holding, Enter
<1>3. \A u \in Tasks : u # t /\ call[u].pc # "idle" => home[u] # home[t]
  BY <1>2, OthersElsewhere
<1>4. \A u \in Tasks : u # t => call'[u] = call[u]
  BY <1>1 DEF Enter
<1>5. /\ call[t].pc = "idle" /\ call'[t].pc = "entered" /\ call'[t].guards = 0
      /\ call'[t].ok /\ call'[t].reason = Nothing /\ call'[t].entry = e
      /\ call'[t].number = call[t].number + 1 /\ call[t].number \in Nat
  BY <1>1 DEF Enter, CallStates
<1>6. GuardsCounted' /\ active' \in Nat
  BY DEF CallsIInv, CallsTypeOK, GuardsCounted, Levels, Enter
<1>7. HookTellsPanicsApart'
  BY DEF CallsIInv, HookTellsPanicsApart, Enter
<1>8. CallsTypeOK'
  <2>1. call' \in [Tasks -> CallStates]
    BY <1>1 DEF CallStates, Entries, Enter
  <2>2. slot' \in [Places -> Reasons]
    BY <1>1 DEF Enter
  <2>3. depth' \in [Places -> Nat]
    BY <1>1 DEF Enter
  <2>4. owner' \in [Places -> Tasks \cup {Nothing}]
    BY <1>1 DEF Enter
  <2>5. mishaps' \in SUBSET {"caught panic printed", "thread panic silenced",
                             "worker panic silenced", "worker panic silenced beside a guard"}
    BY <1>7 DEF HookTellsPanicsApart
  <2> QED BY <1>6, <2>1, <2>2, <2>3, <2>4, <2>5 DEF CallsTypeOK
<1>9. Holding'
  BY <1>1, <1>2, <1>3, <1>4, <1>5, CallsAssumption DEF CallsIInv, Holding, Enter
<1>10. Course'
  BY <1>1, <1>4, <1>5 DEF CallsIInv, Course, CallStates, Recording, Enter
<1>11. SlotIsOwn'
  <2>1. ASSUME NEW u \in Tasks, u # t, call[u].pc # "idle"
        PROVE  slot'[home[u]] = slot[home[u]] /\ Message(u)' = Message(u)
    BY <1>1, <1>3, <1>4, <2>1, CallsAssumption DEF Message, Enter
  <2>2. ASSUME call'[t].pc \in {"failing", "returned"}, ~call'[t].ok, call'[t].entry \in Recording
        PROVE  slot'[home[t]] = Message(t)'
    BY <1>1, <1>5, <2>2, CallsAssumption DEF CallsIInv, SlotIsOwn, Course, Message, Recording, Enter
  <2> QED BY <1>4, <2>1, <2>2 DEF CallsIInv, SlotIsOwn
<1>12. ReasonIsOwn'
  BY <1>1, <1>4, <1>5 DEF CallsIInv, ReasonIsOwn, SlotIsOwn, Course, Finished, Message, Recording, Enter
<1>13. DepthBalanced'
  BY <1>1, <1>2, <1>3, <1>4, <1>5, CallsAssumption DEF CallsIInv, DepthBalanced, Holding, Course, Enter
<1> QED BY <1>6, <1>7, <1>8, <1>9, <1>10, <1>11, <1>12, <1>13 DEF CallsIInv

\* The slot is cleared before the call can fail.
LEMMA BeginKeeps ==
  ASSUME CallsIInv, NEW t \in Tasks, Begin(t)
  PROVE  CallsIInv'
<1>1. /\ home[t] \in Places /\ call \in [Tasks -> CallStates] /\ call[t] \in CallStates
      /\ slot \in [Places -> Reasons] /\ depth \in [Places -> Nat]
      /\ owner \in [Places -> Tasks \cup {Nothing}]
      /\ Message(t) \in Reasons /\ Nothing \in Reasons
  BY CallsAreTyped
<1>2. owner[home[t]] = t
  BY <1>1 DEF CallsIInv, Holding, Begin
<1>3. \A u \in Tasks : u # t /\ call[u].pc # "idle" => home[u] # home[t]
  BY <1>2, OthersElsewhere
<1>4. \A u \in Tasks : u # t => call'[u] = call[u]
  BY <1>1 DEF Begin
<1>5. /\ call[t].pc = "entered" /\ call'[t].pc = "running"
      /\ call'[t].guards = call[t].guards
      /\ call'[t].ok = call[t].ok
      /\ call'[t].reason = call[t].reason
      /\ call'[t].entry = call[t].entry
      /\ call'[t].number = call[t].number
  BY <1>1 DEF Begin, CallStates
<1>6. GuardsCounted' /\ active' \in Nat
  BY DEF CallsIInv, CallsTypeOK, GuardsCounted, Levels, Begin
<1>7. HookTellsPanicsApart'
  BY DEF CallsIInv, HookTellsPanicsApart, Begin
<1>8. CallsTypeOK'
  <2>1. call' \in [Tasks -> CallStates]
    BY <1>1 DEF CallStates, Entries, Begin
  <2>2. slot' \in [Places -> Reasons]
    BY <1>1 DEF Begin
  <2>3. depth' \in [Places -> Nat]
    BY <1>1 DEF Begin
  <2>4. owner' \in [Places -> Tasks \cup {Nothing}]
    BY <1>1 DEF Begin
  <2>5. mishaps' \in SUBSET {"caught panic printed", "thread panic silenced",
                             "worker panic silenced", "worker panic silenced beside a guard"}
    BY <1>7 DEF HookTellsPanicsApart
  <2> QED BY <1>6, <2>1, <2>2, <2>3, <2>4, <2>5 DEF CallsTypeOK
<1>9. Holding'
  BY <1>1, <1>2, <1>3, <1>4, <1>5, CallsAssumption DEF CallsIInv, Holding, Begin
<1>10. Course'
  BY <1>1, <1>4, <1>5 DEF CallsIInv, Course, CallStates, Recording, Begin
<1>11. SlotIsOwn'
  <2>1. ASSUME NEW u \in Tasks, u # t, call[u].pc # "idle"
        PROVE  slot'[home[u]] = slot[home[u]] /\ Message(u)' = Message(u)
    BY <1>1, <1>3, <1>4, <2>1, CallsAssumption DEF Message, Begin
  <2>2. ASSUME call'[t].pc \in {"failing", "returned"}, ~call'[t].ok, call'[t].entry \in Recording
        PROVE  slot'[home[t]] = Message(t)'
    BY <1>1, <1>5, <2>2, CallsAssumption DEF CallsIInv, SlotIsOwn, Course, Message, Recording, Begin
  <2> QED BY <1>4, <2>1, <2>2 DEF CallsIInv, SlotIsOwn
<1>12. ReasonIsOwn'
  BY <1>1, <1>4, <1>5 DEF CallsIInv, ReasonIsOwn, SlotIsOwn, Course, Finished, Message, Recording, Begin
<1>13. DepthBalanced'
  BY <1>1, <1>2, <1>3, <1>4, <1>5, CallsAssumption DEF CallsIInv, DepthBalanced, Holding, Course, Begin
<1> QED BY <1>6, <1>7, <1>8, <1>9, <1>10, <1>11, <1>12, <1>13 DEF CallsIInv

\* A guard opens on the place and in the process at once.
LEMMA GuardKeeps ==
  ASSUME CallsIInv, NEW t \in Tasks, Guard(t)
  PROVE  CallsIInv'
<1>1. /\ home[t] \in Places /\ call \in [Tasks -> CallStates] /\ call[t] \in CallStates
      /\ slot \in [Places -> Reasons] /\ depth \in [Places -> Nat]
      /\ owner \in [Places -> Tasks \cup {Nothing}]
      /\ Message(t) \in Reasons /\ Nothing \in Reasons
  BY CallsAreTyped
<1>2. owner[home[t]] = t
  BY <1>1 DEF CallsIInv, Holding, Guard
<1>3. \A u \in Tasks : u # t /\ call[u].pc # "idle" => home[u] # home[t]
  BY <1>2, OthersElsewhere
<1>4. \A u \in Tasks : u # t => call'[u] = call[u]
  BY <1>1 DEF Guard
<1>5. /\ call[t].pc = "running" /\ call'[t].pc = "running"
      /\ call[t].entry = "guarded" /\ call'[t].guards = call[t].guards + 1
      /\ call'[t].ok = call[t].ok
      /\ call'[t].reason = call[t].reason
      /\ call'[t].entry = call[t].entry
      /\ call'[t].number = call[t].number
  BY <1>1 DEF Guard, CallStates
<1>6. depth[home[t]] = call[t].guards
  BY <1>1, <1>2, CallsAssumption DEF CallsIInv, DepthBalanced
<1>7. GuardsCounted' /\ active' \in Nat
  BY <1>1, GuardAddsLevel DEF CallsIInv, Guard
<1>8. HookTellsPanicsApart'
  BY DEF CallsIInv, HookTellsPanicsApart, Guard
<1>9. CallsTypeOK'
  <2>1. call' \in [Tasks -> CallStates]
    BY <1>1 DEF CallStates, Entries, Guard
  <2>2. slot' \in [Places -> Reasons]
    BY <1>1 DEF Guard
  <2>3. depth' \in [Places -> Nat]
    BY <1>1, <1>5, <1>6 DEF CallStates, Guard
  <2>4. owner' \in [Places -> Tasks \cup {Nothing}]
    BY <1>1 DEF Guard
  <2>5. mishaps' \in SUBSET {"caught panic printed", "thread panic silenced",
                             "worker panic silenced", "worker panic silenced beside a guard"}
    BY <1>8 DEF HookTellsPanicsApart
  <2> QED BY <1>7, <2>1, <2>2, <2>3, <2>4, <2>5 DEF CallsTypeOK
<1>10. Holding'
  BY <1>1, <1>2, <1>3, <1>4, <1>5, CallsAssumption DEF CallsIInv, Holding, Guard
<1>11. Course'
  BY <1>1, <1>4, <1>5 DEF CallsIInv, Course, CallStates, Recording, Guard
<1>12. SlotIsOwn'
  <2>1. ASSUME NEW u \in Tasks, u # t, call[u].pc # "idle"
        PROVE  slot'[home[u]] = slot[home[u]] /\ Message(u)' = Message(u)
    BY <1>1, <1>3, <1>4, <2>1, CallsAssumption DEF Message, Guard
  <2>2. ASSUME call'[t].pc \in {"failing", "returned"}, ~call'[t].ok, call'[t].entry \in Recording
        PROVE  slot'[home[t]] = Message(t)'
    BY <1>1, <1>5, <2>2, CallsAssumption DEF CallsIInv, SlotIsOwn, Course, Message, Recording, Guard
  <2> QED BY <1>4, <2>1, <2>2 DEF CallsIInv, SlotIsOwn
<1>13. ReasonIsOwn'
  BY <1>1, <1>4, <1>5 DEF CallsIInv, ReasonIsOwn, SlotIsOwn, Course, Finished, Message, Recording, Guard
<1>14. DepthBalanced'
  BY <1>1, <1>2, <1>3, <1>4, <1>5, CallsAssumption DEF CallsIInv, DepthBalanced, Holding, Course, Guard
<1> QED BY <1>7, <1>8, <1>9, <1>10, <1>11, <1>12, <1>13, <1>14 DEF CallsIInv

\* A guard closes on the place and in the process at once.
LEMMA UnguardKeeps ==
  ASSUME CallsIInv, NEW t \in Tasks, Unguard(t)
  PROVE  CallsIInv'
<1>1. /\ home[t] \in Places /\ call \in [Tasks -> CallStates] /\ call[t] \in CallStates
      /\ slot \in [Places -> Reasons] /\ depth \in [Places -> Nat]
      /\ owner \in [Places -> Tasks \cup {Nothing}]
      /\ Message(t) \in Reasons /\ Nothing \in Reasons
  BY CallsAreTyped
<1>2. owner[home[t]] = t
  BY <1>1 DEF CallsIInv, Holding, Unguard, LeaveGuard
<1>3. \A u \in Tasks : u # t /\ call[u].pc # "idle" => home[u] # home[t]
  BY <1>2, OthersElsewhere
<1>4. \A u \in Tasks : u # t => call'[u] = call[u]
  BY <1>1 DEF Unguard, LeaveGuard
<1>5. /\ call[t].pc \in {"running", "failing"} /\ call'[t].pc = call[t].pc
      /\ call[t].guards > 0 /\ call'[t].guards = call[t].guards - 1
      /\ call'[t].ok = call[t].ok
      /\ call'[t].reason = call[t].reason
      /\ call'[t].entry = call[t].entry
      /\ call'[t].number = call[t].number
  BY <1>1 DEF Unguard, LeaveGuard, CallStates
<1>6. depth[home[t]] = call[t].guards
  BY <1>1, <1>2, CallsAssumption DEF CallsIInv, DepthBalanced
<1>7. GuardsCounted' /\ active' \in Nat
  BY <1>1, <1>5, <1>6, LeavingTakesLevel DEF CallsIInv, Unguard, LeaveGuard
<1>8. HookTellsPanicsApart'
  BY DEF CallsIInv, HookTellsPanicsApart, Unguard, LeaveGuard
<1>9. CallsTypeOK'
  <2>1. call' \in [Tasks -> CallStates]
    BY <1>1 DEF CallStates, Entries, Unguard, LeaveGuard
  <2>2. slot' \in [Places -> Reasons]
    BY <1>1 DEF Unguard, LeaveGuard
  <2>3. depth' \in [Places -> Nat]
    BY <1>1, <1>5, <1>6 DEF CallStates, Unguard, LeaveGuard
  <2>4. owner' \in [Places -> Tasks \cup {Nothing}]
    BY <1>1 DEF Unguard, LeaveGuard
  <2>5. mishaps' \in SUBSET {"caught panic printed", "thread panic silenced",
                             "worker panic silenced", "worker panic silenced beside a guard"}
    BY <1>8 DEF HookTellsPanicsApart
  <2> QED BY <1>7, <2>1, <2>2, <2>3, <2>4, <2>5 DEF CallsTypeOK
<1>10. Holding'
  BY <1>1, <1>2, <1>3, <1>4, <1>5, CallsAssumption DEF CallsIInv, Holding, Unguard, LeaveGuard
<1>11. Course'
  BY <1>1, <1>4, <1>5 DEF CallsIInv, Course, CallStates, Recording, Unguard, LeaveGuard
<1>12. SlotIsOwn'
  <2>1. ASSUME NEW u \in Tasks, u # t, call[u].pc # "idle"
        PROVE  slot'[home[u]] = slot[home[u]] /\ Message(u)' = Message(u)
    BY <1>1, <1>3, <1>4, <2>1, CallsAssumption DEF Message, Unguard, LeaveGuard
  <2>2. ASSUME call'[t].pc \in {"failing", "returned"}, ~call'[t].ok, call'[t].entry \in Recording
        PROVE  slot'[home[t]] = Message(t)'
    BY <1>1, <1>5, <2>2, CallsAssumption DEF CallsIInv, SlotIsOwn, Course, Message, Recording, Unguard, LeaveGuard
  <2> QED BY <1>4, <2>1, <2>2 DEF CallsIInv, SlotIsOwn
<1>13. ReasonIsOwn'
  BY <1>1, <1>4, <1>5 DEF CallsIInv, ReasonIsOwn, SlotIsOwn, Course, Finished, Message, Recording, Unguard, LeaveGuard
<1>14. DepthBalanced'
  BY <1>1, <1>2, <1>3, <1>4, <1>5, CallsAssumption DEF CallsIInv, DepthBalanced, Holding, Course, Unguard, LeaveGuard
<1> QED BY <1>7, <1>8, <1>9, <1>10, <1>11, <1>12, <1>13, <1>14 DEF CallsIInv

\* The reason recorded is this call's.
LEMMA FailKeeps ==
  ASSUME CallsIInv, NEW t \in Tasks, Fail(t)
  PROVE  CallsIInv'
<1>1. /\ home[t] \in Places /\ call \in [Tasks -> CallStates] /\ call[t] \in CallStates
      /\ slot \in [Places -> Reasons] /\ depth \in [Places -> Nat]
      /\ owner \in [Places -> Tasks \cup {Nothing}]
      /\ Message(t) \in Reasons /\ Nothing \in Reasons
  BY CallsAreTyped
<1>2. owner[home[t]] = t
  BY <1>1 DEF CallsIInv, Holding, Fail
<1>3. \A u \in Tasks : u # t /\ call[u].pc # "idle" => home[u] # home[t]
  BY <1>2, OthersElsewhere
<1>4. \A u \in Tasks : u # t => call'[u] = call[u]
  BY <1>1 DEF Fail
<1>5. /\ call[t].pc = "running" /\ call'[t].pc = "failing" /\ ~call'[t].ok
      /\ call'[t].guards = call[t].guards
      /\ call'[t].reason = call[t].reason
      /\ call'[t].entry = call[t].entry
      /\ call'[t].number = call[t].number
  BY <1>1 DEF Fail, CallStates
<1>6. GuardsCounted' /\ active' \in Nat
  BY DEF CallsIInv, CallsTypeOK, GuardsCounted, Levels, Fail
<1>7. HookTellsPanicsApart'
  BY DEF CallsIInv, HookTellsPanicsApart, Fail
<1>8. CallsTypeOK'
  <2>1. call' \in [Tasks -> CallStates]
    BY <1>1 DEF CallStates, Entries, Fail
  <2>2. slot' \in [Places -> Reasons]
    BY <1>1 DEF Fail
  <2>3. depth' \in [Places -> Nat]
    BY <1>1 DEF Fail
  <2>4. owner' \in [Places -> Tasks \cup {Nothing}]
    BY <1>1 DEF Fail
  <2>5. mishaps' \in SUBSET {"caught panic printed", "thread panic silenced",
                             "worker panic silenced", "worker panic silenced beside a guard"}
    BY <1>7 DEF HookTellsPanicsApart
  <2> QED BY <1>6, <2>1, <2>2, <2>3, <2>4, <2>5 DEF CallsTypeOK
<1>9. Holding'
  BY <1>1, <1>2, <1>3, <1>4, <1>5, CallsAssumption DEF CallsIInv, Holding, Fail
<1>10. Course'
  BY <1>1, <1>4, <1>5 DEF CallsIInv, Course, CallStates, Recording, Fail
<1>11. SlotIsOwn'
  <2>1. ASSUME NEW u \in Tasks, u # t, call[u].pc # "idle"
        PROVE  slot'[home[u]] = slot[home[u]] /\ Message(u)' = Message(u)
    BY <1>1, <1>3, <1>4, <2>1, CallsAssumption DEF Message, Fail
  <2>2. ASSUME call'[t].pc \in {"failing", "returned"}, ~call'[t].ok, call'[t].entry \in Recording
        PROVE  slot'[home[t]] = Message(t)'
    BY <1>1, <1>5, <2>2, CallsAssumption DEF CallsIInv, SlotIsOwn, Course, Message, Recording, Fail
  <2> QED BY <1>4, <2>1, <2>2 DEF CallsIInv, SlotIsOwn
<1>12. ReasonIsOwn'
  BY <1>1, <1>4, <1>5 DEF CallsIInv, ReasonIsOwn, SlotIsOwn, Course, Finished, Message, Recording, Fail
<1>13. DepthBalanced'
  BY <1>1, <1>2, <1>3, <1>4, <1>5, CallsAssumption DEF CallsIInv, DepthBalanced, Holding, Course, Fail
<1> QED BY <1>6, <1>7, <1>8, <1>9, <1>10, <1>11, <1>12, <1>13 DEF CallsIInv

\* A panic under a guard is quiet: the depth of the place, or the count of the
\* process, is above zero.
LEMMA PanicKeeps ==
  ASSUME CallsIInv, NEW t \in Tasks, NEW onWorker \in BOOLEAN, Panic(t, onWorker)
  PROVE  CallsIInv'
<1>1. /\ home[t] \in Places /\ call \in [Tasks -> CallStates] /\ call[t] \in CallStates
      /\ slot \in [Places -> Reasons] /\ depth \in [Places -> Nat]
      /\ owner \in [Places -> Tasks \cup {Nothing}]
      /\ Message(t) \in Reasons /\ Nothing \in Reasons
  BY CallsAreTyped
<1>2. owner[home[t]] = t
  BY <1>1 DEF CallsIInv, Holding, Panic
<1>3. \A u \in Tasks : u # t /\ call[u].pc # "idle" => home[u] # home[t]
  BY <1>2, OthersElsewhere
<1>4. \A u \in Tasks : u # t => call'[u] = call[u]
  BY <1>1 DEF Panic
<1>5. /\ call[t].pc = "running" /\ call'[t].pc = "panicking" /\ call[t].guards > 0
      /\ call'[t].guards = call[t].guards
      /\ call'[t].ok = call[t].ok
      /\ call'[t].reason = call[t].reason
      /\ call'[t].entry = call[t].entry
      /\ call'[t].number = call[t].number
  BY <1>1 DEF Panic, CallStates
<1>6. depth[home[t]] = call[t].guards
  BY <1>1, <1>2, CallsAssumption DEF CallsIInv, DepthBalanced
<1>7. active > 0
  BY <1>1, <1>5, <1>6, GuardedIsActive DEF CallsIInv
<1>8. GuardsCounted' /\ active' \in Nat
  BY DEF CallsIInv, CallsTypeOK, GuardsCounted, Levels, Panic
<1>9. HookTellsPanicsApart'
  BY <1>5, <1>6, <1>7 DEF CallsIInv, HookTellsPanicsApart, Quiet, Panic
<1>10. CallsTypeOK'
  <2>1. call' \in [Tasks -> CallStates]
    BY <1>1 DEF CallStates, Entries, Panic
  <2>2. slot' \in [Places -> Reasons]
    BY <1>1 DEF Panic
  <2>3. depth' \in [Places -> Nat]
    BY <1>1 DEF Panic
  <2>4. owner' \in [Places -> Tasks \cup {Nothing}]
    BY <1>1 DEF Panic
  <2>5. mishaps' \in SUBSET {"caught panic printed", "thread panic silenced",
                             "worker panic silenced", "worker panic silenced beside a guard"}
    BY <1>9 DEF HookTellsPanicsApart
  <2> QED BY <1>8, <2>1, <2>2, <2>3, <2>4, <2>5 DEF CallsTypeOK
<1>11. Holding'
  BY <1>1, <1>2, <1>3, <1>4, <1>5, CallsAssumption DEF CallsIInv, Holding, Panic
<1>12. Course'
  BY <1>1, <1>4, <1>5 DEF CallsIInv, Course, CallStates, Recording, Panic
<1>13. SlotIsOwn'
  <2>1. ASSUME NEW u \in Tasks, u # t, call[u].pc # "idle"
        PROVE  slot'[home[u]] = slot[home[u]] /\ Message(u)' = Message(u)
    BY <1>1, <1>3, <1>4, <2>1, CallsAssumption DEF Message, Panic
  <2>2. ASSUME call'[t].pc \in {"failing", "returned"}, ~call'[t].ok, call'[t].entry \in Recording
        PROVE  slot'[home[t]] = Message(t)'
    BY <1>1, <1>5, <2>2, CallsAssumption DEF CallsIInv, SlotIsOwn, Course, Message, Recording, Panic
  <2> QED BY <1>4, <2>1, <2>2 DEF CallsIInv, SlotIsOwn
<1>14. ReasonIsOwn'
  BY <1>1, <1>4, <1>5 DEF CallsIInv, ReasonIsOwn, SlotIsOwn, Course, Finished, Message, Recording, Panic
<1>15. DepthBalanced'
  <2>1. \A u \in Tasks : call'[u].guards = call[u].guards
    BY <1>4, <1>5
  <2>2. \A p \in Places : owner[p] # Nothing => owner[p] \in Tasks
    BY <1>1
  <2> QED BY <2>1, <2>2 DEF CallsIInv, DepthBalanced, Panic
<1> QED BY <1>8, <1>9, <1>10, <1>11, <1>12, <1>13, <1>14, <1>15 DEF CallsIInv

\* A caught panic closes one guard and is this call's reason.
LEMMA CatchKeeps ==
  ASSUME CallsIInv, NEW t \in Tasks, Catch(t)
  PROVE  CallsIInv'
<1>1. /\ home[t] \in Places /\ call \in [Tasks -> CallStates] /\ call[t] \in CallStates
      /\ slot \in [Places -> Reasons] /\ depth \in [Places -> Nat]
      /\ owner \in [Places -> Tasks \cup {Nothing}]
      /\ Message(t) \in Reasons /\ Nothing \in Reasons
  BY CallsAreTyped
<1>2. owner[home[t]] = t
  BY <1>1 DEF CallsIInv, Holding, Catch, LeaveGuard
<1>3. \A u \in Tasks : u # t /\ call[u].pc # "idle" => home[u] # home[t]
  BY <1>2, OthersElsewhere
<1>4. \A u \in Tasks : u # t => call'[u] = call[u]
  BY <1>1 DEF Catch, LeaveGuard
<1>5. /\ call[t].pc = "panicking" /\ call'[t].pc = "failing" /\ ~call'[t].ok
      /\ call[t].guards > 0 /\ call'[t].guards = call[t].guards - 1
      /\ call'[t].reason = call[t].reason
      /\ call'[t].entry = call[t].entry
      /\ call'[t].number = call[t].number
  BY <1>1 DEF Catch, LeaveGuard, CallStates
<1>6. depth[home[t]] = call[t].guards
  BY <1>1, <1>2, CallsAssumption DEF CallsIInv, DepthBalanced
<1>7. GuardsCounted' /\ active' \in Nat
  BY <1>1, <1>5, <1>6, LeavingTakesLevel DEF CallsIInv, Catch, LeaveGuard
<1>8. HookTellsPanicsApart'
  BY DEF CallsIInv, HookTellsPanicsApart, Catch, LeaveGuard
<1>9. CallsTypeOK'
  <2>1. call' \in [Tasks -> CallStates]
    BY <1>1 DEF CallStates, Entries, Catch, LeaveGuard
  <2>2. slot' \in [Places -> Reasons]
    BY <1>1 DEF Catch, LeaveGuard
  <2>3. depth' \in [Places -> Nat]
    BY <1>1, <1>5, <1>6 DEF CallStates, Catch, LeaveGuard
  <2>4. owner' \in [Places -> Tasks \cup {Nothing}]
    BY <1>1 DEF Catch, LeaveGuard
  <2>5. mishaps' \in SUBSET {"caught panic printed", "thread panic silenced",
                             "worker panic silenced", "worker panic silenced beside a guard"}
    BY <1>8 DEF HookTellsPanicsApart
  <2> QED BY <1>7, <2>1, <2>2, <2>3, <2>4, <2>5 DEF CallsTypeOK
<1>10. Holding'
  BY <1>1, <1>2, <1>3, <1>4, <1>5, CallsAssumption DEF CallsIInv, Holding, Catch, LeaveGuard
<1>11. Course'
  BY <1>1, <1>4, <1>5 DEF CallsIInv, Course, CallStates, Recording, Catch, LeaveGuard
<1>12. SlotIsOwn'
  <2>1. ASSUME NEW u \in Tasks, u # t, call[u].pc # "idle"
        PROVE  slot'[home[u]] = slot[home[u]] /\ Message(u)' = Message(u)
    BY <1>1, <1>3, <1>4, <2>1, CallsAssumption DEF Message, Catch, LeaveGuard
  <2>2. ASSUME call'[t].pc \in {"failing", "returned"}, ~call'[t].ok, call'[t].entry \in Recording
        PROVE  slot'[home[t]] = Message(t)'
    BY <1>1, <1>5, <2>2, CallsAssumption DEF CallsIInv, SlotIsOwn, Course, Message, Recording, Catch, LeaveGuard
  <2> QED BY <1>4, <2>1, <2>2 DEF CallsIInv, SlotIsOwn
<1>13. ReasonIsOwn'
  BY <1>1, <1>4, <1>5 DEF CallsIInv, ReasonIsOwn, SlotIsOwn, Course, Finished, Message, Recording, Catch, LeaveGuard
<1>14. DepthBalanced'
  BY <1>1, <1>2, <1>3, <1>4, <1>5, CallsAssumption DEF CallsIInv, DepthBalanced, Holding, Course, Catch, LeaveGuard
<1> QED BY <1>7, <1>8, <1>9, <1>10, <1>11, <1>12, <1>13, <1>14 DEF CallsIInv

\* The place is kept when a reason may be read.
LEMMA ReturnKeeps ==
  ASSUME CallsIInv, NEW t \in Tasks, Return(t)
  PROVE  CallsIInv'
<1>1. /\ home[t] \in Places /\ call \in [Tasks -> CallStates] /\ call[t] \in CallStates
      /\ slot \in [Places -> Reasons] /\ depth \in [Places -> Nat]
      /\ owner \in [Places -> Tasks \cup {Nothing}]
      /\ Message(t) \in Reasons /\ Nothing \in Reasons
  BY CallsAreTyped
<1>2. owner[home[t]] = t
  BY <1>1 DEF CallsIInv, Holding, Return
<1>3. \A u \in Tasks : u # t /\ call[u].pc # "idle" => home[u] # home[t]
  BY <1>2, OthersElsewhere
<1>4. \A u \in Tasks : u # t => call'[u] = call[u]
  BY <1>1 DEF Return
<1>5. /\ call[t].pc \in {"running", "failing"} /\ call[t].guards = 0
      /\ call'[t].pc = IF call[t].entry \in Recording THEN "returned" ELSE "idle"
      /\ call'[t].guards = call[t].guards
      /\ call'[t].ok = call[t].ok
      /\ call'[t].reason = call[t].reason
      /\ call'[t].entry = call[t].entry
      /\ call'[t].number = call[t].number
  BY <1>1 DEF Return, CallStates
<1>6. GuardsCounted' /\ active' \in Nat
  BY DEF CallsIInv, CallsTypeOK, GuardsCounted, Levels, Return
<1>7. HookTellsPanicsApart'
  BY DEF CallsIInv, HookTellsPanicsApart, Return
<1>8. CallsTypeOK'
  <2>1. call' \in [Tasks -> CallStates]
    BY <1>1 DEF CallStates, Entries, Return
  <2>2. slot' \in [Places -> Reasons]
    BY <1>1 DEF Return
  <2>3. depth' \in [Places -> Nat]
    BY <1>1 DEF Return
  <2>4. owner' \in [Places -> Tasks \cup {Nothing}]
    BY <1>1 DEF Return
  <2>5. mishaps' \in SUBSET {"caught panic printed", "thread panic silenced",
                             "worker panic silenced", "worker panic silenced beside a guard"}
    BY <1>7 DEF HookTellsPanicsApart
  <2> QED BY <1>6, <2>1, <2>2, <2>3, <2>4, <2>5 DEF CallsTypeOK
<1>9. Holding'
  BY <1>1, <1>2, <1>3, <1>4, <1>5, CallsAssumption DEF CallsIInv, Holding, Return
<1>10. Course'
  BY <1>1, <1>4, <1>5 DEF CallsIInv, Course, CallStates, Recording, Return
<1>11. SlotIsOwn'
  <2>1. ASSUME NEW u \in Tasks, u # t, call[u].pc # "idle"
        PROVE  slot'[home[u]] = slot[home[u]] /\ Message(u)' = Message(u)
    BY <1>1, <1>3, <1>4, <2>1, CallsAssumption DEF Message, Return
  <2>2. ASSUME call'[t].pc \in {"failing", "returned"}, ~call'[t].ok, call'[t].entry \in Recording
        PROVE  slot'[home[t]] = Message(t)'
    BY <1>1, <1>5, <2>2, CallsAssumption DEF CallsIInv, SlotIsOwn, Course, Message, Recording, Return
  <2> QED BY <1>4, <2>1, <2>2 DEF CallsIInv, SlotIsOwn
<1>12. ReasonIsOwn'
  BY <1>1, <1>4, <1>5 DEF CallsIInv, ReasonIsOwn, SlotIsOwn, Course, Finished, Message, Recording, Return
<1>13. DepthBalanced'
  BY <1>1, <1>2, <1>3, <1>4, <1>5, CallsAssumption DEF CallsIInv, DepthBalanced, Holding, Course, Return
<1> QED BY <1>6, <1>7, <1>8, <1>9, <1>10, <1>11, <1>12, <1>13 DEF CallsIInv

\* What the slot holds when it is read is this call's reason.
LEMMA ReadReasonKeeps ==
  ASSUME CallsIInv, NEW t \in Tasks, ReadReason(t)
  PROVE  CallsIInv'
<1>1. /\ home[t] \in Places /\ call \in [Tasks -> CallStates] /\ call[t] \in CallStates
      /\ slot \in [Places -> Reasons] /\ depth \in [Places -> Nat]
      /\ owner \in [Places -> Tasks \cup {Nothing}]
      /\ Message(t) \in Reasons /\ Nothing \in Reasons
  BY CallsAreTyped
<1>2. owner[home[t]] = t
  BY <1>1 DEF CallsIInv, Holding, ReadReason
<1>3. \A u \in Tasks : u # t /\ call[u].pc # "idle" => home[u] # home[t]
  BY <1>2, OthersElsewhere
<1>4. \A u \in Tasks : u # t => call'[u] = call[u]
  BY <1>1 DEF ReadReason
<1>5. /\ call[t].pc = "returned" /\ call'[t].pc = "idle"
      /\ call'[t].reason = IF call[t].ok THEN Nothing ELSE slot[home[t]]
      /\ call'[t].guards = call[t].guards
      /\ call'[t].ok = call[t].ok
      /\ call'[t].entry = call[t].entry
      /\ call'[t].number = call[t].number
  BY <1>1 DEF ReadReason, CallStates
<1>6. GuardsCounted' /\ active' \in Nat
  BY DEF CallsIInv, CallsTypeOK, GuardsCounted, Levels, ReadReason
<1>7. HookTellsPanicsApart'
  BY DEF CallsIInv, HookTellsPanicsApart, ReadReason
<1>8. CallsTypeOK'
  <2>1. call' \in [Tasks -> CallStates]
    BY <1>1 DEF CallStates, Entries, ReadReason
  <2>2. slot' \in [Places -> Reasons]
    BY <1>1 DEF ReadReason
  <2>3. depth' \in [Places -> Nat]
    BY <1>1 DEF ReadReason
  <2>4. owner' \in [Places -> Tasks \cup {Nothing}]
    BY <1>1 DEF ReadReason
  <2>5. mishaps' \in SUBSET {"caught panic printed", "thread panic silenced",
                             "worker panic silenced", "worker panic silenced beside a guard"}
    BY <1>7 DEF HookTellsPanicsApart
  <2> QED BY <1>6, <2>1, <2>2, <2>3, <2>4, <2>5 DEF CallsTypeOK
<1>9. Holding'
  BY <1>1, <1>2, <1>3, <1>4, <1>5, CallsAssumption DEF CallsIInv, Holding, ReadReason
<1>10. Course'
  BY <1>1, <1>4, <1>5 DEF CallsIInv, Course, CallStates, Recording, ReadReason
<1>11. SlotIsOwn'
  <2>1. ASSUME NEW u \in Tasks, u # t, call[u].pc # "idle"
        PROVE  slot'[home[u]] = slot[home[u]] /\ Message(u)' = Message(u)
    BY <1>1, <1>3, <1>4, <2>1, CallsAssumption DEF Message, ReadReason
  <2>2. ASSUME call'[t].pc \in {"failing", "returned"}, ~call'[t].ok, call'[t].entry \in Recording
        PROVE  slot'[home[t]] = Message(t)'
    BY <1>1, <1>5, <2>2, CallsAssumption DEF CallsIInv, SlotIsOwn, Course, Message, Recording, ReadReason
  <2> QED BY <1>4, <2>1, <2>2 DEF CallsIInv, SlotIsOwn
<1>12. ReasonIsOwn'
  BY <1>1, <1>4, <1>5 DEF CallsIInv, ReasonIsOwn, SlotIsOwn, Course, Finished, Message, Recording, ReadReason
<1>13. DepthBalanced'
  BY <1>1, <1>2, <1>3, <1>4, <1>5, CallsAssumption DEF CallsIInv, DepthBalanced, Holding, Course, ReadReason
<1> QED BY <1>6, <1>7, <1>8, <1>9, <1>10, <1>11, <1>12, <1>13 DEF CallsIInv

\* A worker's panic is hidden by some guard that is open, whose call holds its
\* place; any other that nothing catches meets a depth of zero.
LEMMA ForeignPanicKeeps ==
  ASSUME CallsIInv, NEW onWorker \in BOOLEAN, ForeignPanic(onWorker)
  PROVE  CallsIInv'
<1>1. ASSUME active > 0 PROVE AnyGuard
  <2>1. PICK p \in Places : depth[p] > 0
    BY <1>1, ActiveIsGuarded DEF CallsIInv
  <2>2. owner[p] # Nothing /\ call[owner[p]].guards > 0
    BY <2>1 DEF CallsIInv, DepthBalanced
  <2>3. owner[p] \in Tasks
    BY <2>2 DEF CallsIInv, CallsTypeOK
  <2> QED BY <2>2, <2>3 DEF AnyGuard
<1>2. /\ mishaps \subseteq {"worker panic silenced beside a guard"}
      /\ mishaps' \subseteq mishaps \cup {"worker panic silenced beside a guard"}
  <2>1. ~(0 > 0)
    OBVIOUS
  <2>2. CASE ~Quiet(0, onWorker)
    BY <2>2 DEF CallsIInv, HookTellsPanicsApart, ForeignPanic
  <2>3. CASE Quiet(0, onWorker)
    <3>1. onWorker /\ AnyGuard
      BY <1>1, <2>1, <2>3, Zenon DEF Quiet
    <3>2. mishaps' = mishaps \cup {"worker panic silenced beside a guard"}
      BY <2>3, <3>1, Zenon DEF ForeignPanic
    <3> QED BY <3>2 DEF CallsIInv, HookTellsPanicsApart
  <2> QED BY <2>2, <2>3
<1>3. CallsTypeOK'
  BY <1>2 DEF CallsIInv, CallsTypeOK, ForeignPanic
<1>4. Holding' /\ Course' /\ SlotIsOwn' /\ ReasonIsOwn' /\ DepthBalanced'
  BY DEF CallsIInv, Holding, Course, SlotIsOwn, ReasonIsOwn, DepthBalanced, Finished, Message,
         ForeignPanic
<1>5. GuardsCounted' /\ HookTellsPanicsApart'
  BY <1>2 DEF CallsIInv, GuardsCounted, Levels, HookTellsPanicsApart, ForeignPanic
<1> QED BY <1>3, <1>4, <1>5 DEF CallsIInv

\* Every step keeps the inductive invariant.
LEMMA NextKeepsCallsIInv == CallsIInv /\ [CallsNext]_callVars => CallsIInv'
<1> SUFFICES ASSUME CallsIInv, [CallsNext]_callVars PROVE CallsIInv'
  OBVIOUS
<1>1. CASE UNCHANGED callVars
  BY <1>1 DEF CallsIInv, CallsTypeOK, Holding, Course, SlotIsOwn, ReasonIsOwn, DepthBalanced,
              GuardsCounted, Levels, HookTellsPanicsApart, Finished, Message, callVars
<1>2. ASSUME NEW t \in Tasks, Step(t) PROVE CallsIInv'
  <2>1. ASSUME NEW e \in Entries, Enter(t, e) PROVE CallsIInv'
    BY <2>1, EnterKeeps
  <2>2. ASSUME NEW onWorker \in BOOLEAN, Panic(t, onWorker) PROVE CallsIInv'
    BY <2>2, PanicKeeps
  <2>3. CASE Begin(t)
    BY <2>3, BeginKeeps
  <2>4. CASE Guard(t)
    BY <2>4, GuardKeeps
  <2>5. CASE Unguard(t)
    BY <2>5, UnguardKeeps
  <2>6. CASE Fail(t)
    BY <2>6, FailKeeps
  <2>7. CASE Catch(t)
    BY <2>7, CatchKeeps
  <2>8. CASE Return(t)
    BY <2>8, ReturnKeeps
  <2>9. CASE ReadReason(t)
    BY <2>9, ReadReasonKeeps
  <2> QED BY <1>2, <2>1, <2>2, <2>3, <2>4, <2>5, <2>6, <2>7, <2>8, <2>9 DEF Step
<1>3. ASSUME NEW onWorker \in BOOLEAN, ForeignPanic(onWorker) PROVE CallsIInv'
  BY <1>3, ForeignPanicKeeps
<1> QED BY <1>1, <1>2, <1>3 DEF CallsNext

LEMMA CallsIInvHolds == CallsSpec => []CallsIInv
BY InitCallsIInv, NextKeepsCallsIInv, PTL DEF CallsSpec

------------------------------------------------------------------------------

\* The state of the error channel and the panic guard is well typed.
THEOREM CallsAreWellTyped == CallsSpec => []CallsTypeOK
<1>1. CallsIInv => CallsTypeOK
  BY DEF CallsIInv
<1> QED BY <1>1, CallsIInvHolds, PTL

\* A failed `call/reason` reports the reason its own call recorded in
\* LAST_ERROR, and a call that succeeded reports none.
THEOREM FailuresReportTheirOwnReason == CallsSpec => []ReasonIsOwn
<1>1. CallsIInv => ReasonIsOwn
  BY DEF CallsIInv
<1> QED BY <1>1, CallsIInvHolds, PTL

\* GUARD_DEPTH of a place is the nesting of the call that holds it, and zero
\* when the place is free.
THEOREM GuardsUnwind == CallsSpec => []DepthBalanced
<1>1. CallsIInv => DepthBalanced
  BY DEF CallsIInv
<1> QED BY <1>1, CallsIInvHolds, PTL

\* The panic hook prints no panic that a guard catches and silences none that
\* nothing catches, but for a worker's while some guard is open.
THEOREM HookIsRight == CallsSpec => []HookTellsPanicsApart
<1>1. CallsIInv => HookTellsPanicsApart
  BY DEF CallsIInv
<1> QED BY <1>1, CallsIInvHolds, PTL

\* ACTIVE_GUARDS is above zero exactly while some place is under a guard.
THEOREM ActiveCountIsSound == CallsSpec => []ActiveWhileGuarded
<1>1. ASSUME CallsIInv PROVE ActiveWhileGuarded
  <2>1. ASSUME NEW p \in Places, depth[p] > 0 PROVE active > 0
    BY <1>1, <2>1, GuardedIsActive DEF CallsIInv
  <2>2. ASSUME active > 0 PROVE \E p \in Places : depth[p] > 0
    BY <1>1, <2>2, ActiveIsGuarded DEF CallsIInv
  <2> QED BY <2>1, <2>2 DEF ActiveWhileGuarded
<1> QED BY <1>1, CallsIInvHolds, PTL
==============================================================================
