----------------------------- MODULE ExtentProofs -----------------------------
(***************************************************************************)
(* For every number of clauses, elements or owned values: what `Extent`    *)
(* keeps true, and that every one of its behaviours is a behaviour of      *)
(* `Bracket`.  The inductive invariant says that the box holds just the    *)
(* values that are held, the latest first; that what was released came     *)
(* after whatever the box still holds; and that with-release never has a   *)
(* value that is neither in its box nor released once it has left.         *)
(***************************************************************************)
EXTENDS Extent, SequenceTheorems, TLAPS

\* The box holds what is held, the latest first.
BoxHolds ==
  /\ \A r \in Resources : state[r] = "held" <=> \E i \in 1..Len(box) : box[i] = r
  /\ \A i, j \in 1..Len(box) : i < j => box[i] > box[j]

\* Resources are acquired in order, and a stray one is the latest.
InTurn ==
  /\ \A r \in Resources : state[r] = "none" <=> r >= next
  /\ Inside => \A r \in Resources : state[r] = "made" => r = next - 1

\* What was released was acquired after all that is still held.
LaterFirst ==
  /\ ReverseOrder
  /\ \A i \in 1..Len(order) :
       /\ state[order[i]] = "released"
       /\ \A j \in 1..Len(box) : order[i] > box[j]
  /\ phase \in {"outside", "acquiring", "body"} => order = <<>>

\* Where the box is empty, and what with-release leaves to no one.
ByPhase ==
  /\ phase = "outside" => next = 1
  /\ phase \in {"outside", "done", "killed"} => box = <<>>
  /\ kind = "nested" /\ ~Inside => \A r \in Resources : state[r] # "made"
  /\ kind = "nested" /\ phase # "killed" => \A r \in Resources : state[r] # "collected"

ExtentIInv ==
  /\ TypeOK
  /\ BoxHolds
  /\ InTurn
  /\ LaterFirst
  /\ ByPhase
  /\ NamesAreHeld

LEMMA InitExtentIInv == Init => ExtentIInv
<1> SUFFICES ASSUME Init PROVE ExtentIInv
  OBVIOUS
<1>1. TypeOK
  BY NAssumption, EmptySeq DEF Init, TypeOK, Resources, States
<1>2. BoxHolds /\ InTurn /\ LaterFirst
  BY DEF Init, BoxHolds, InTurn, LaterFirst, ReverseOrder, Inside, Resources
<1>3. ByPhase /\ NamesAreHeld
  BY DEF Init, ByPhase, NamesAreHeld, Inside
<1> QED BY <1>1, <1>2, <1>3 DEF ExtentIInv

\* The first of a box that is not empty, and what is left without it.
LEMMA FirstOfBox ==
  ASSUME ExtentIInv, box # <<>>
  PROVE  /\ Len(box) \in Nat \ {0}
         /\ Head(box) = box[1] /\ Head(box) \in Resources
         /\ state[Head(box)] = "held"
         /\ Tail(box) \in Seq(Resources)
         /\ Len(Tail(box)) = Len(box) - 1
         /\ \A i \in 1..Len(Tail(box)) : Tail(box)[i] = box[i + 1]
<1>1. box \in Seq(Resources)
  BY DEF ExtentIInv, TypeOK
<1>2. Len(box) \in Nat \ {0}
  BY <1>1, EmptySeq
<1>3. /\ Head(box) \in Resources
      /\ Tail(box) \in Seq(Resources)
      /\ Len(Tail(box)) = Len(box) - 1
      /\ \A i \in 1..Len(Tail(box)) : Tail(box)[i] = box[i + 1]
  BY <1>1, HeadTailProperties
<1>4. Head(box) = box[1]
  BY <1>1, <1>2
<1>5. state[Head(box)] = "held"
  BY <1>2, <1>3, <1>4 DEF ExtentIInv, BoxHolds
<1> QED BY <1>2, <1>3, <1>4, <1>5

\* Nothing is acquired on the way in.
LEMMA EnterKeeps ==
  ASSUME ExtentIInv, Enter
  PROVE  ExtentIInv'
<1>1. /\ next \in 1..(N + 1) /\ state \in [Resources -> States] /\ N \in Nat
      /\ box \in Seq(Resources) /\ order \in Seq(Resources) /\ names \in SUBSET Resources
  BY NAssumption DEF ExtentIInv, TypeOK
<1>2. TypeOK'
  BY <1>1, EmptySeq DEF ExtentIInv, TypeOK, Resources, States, Enter
<1>3. BoxHolds'
  BY <1>1, LenProperties DEF ExtentIInv, BoxHolds, InTurn, Enter
<1>4. InTurn'
  BY <1>1 DEF ExtentIInv, InTurn, BoxHolds, ByPhase, Inside, Resources, Enter
<1>5. LaterFirst'
  BY <1>1, LenProperties DEF ExtentIInv, LaterFirst, ReverseOrder, InTurn, Enter
<1>6. ByPhase'
  BY <1>1 DEF ExtentIInv, ByPhase, Inside, Resources, Enter
<1>7. NamesAreHeld'
  BY <1>1 DEF ExtentIInv, NamesAreHeld, Enter
<1> QED BY <1>2, <1>3, <1>4, <1>5, <1>6, <1>7 DEF ExtentIInv

\* The next resource is made; nothing else is stray.
LEMMA AcquireKeeps ==
  ASSUME ExtentIInv, Acquire
  PROVE  ExtentIInv'
<1>1. /\ next \in 1..(N + 1) /\ state \in [Resources -> States] /\ N \in Nat
      /\ box \in Seq(Resources) /\ order \in Seq(Resources) /\ names \in SUBSET Resources
  BY NAssumption DEF ExtentIInv, TypeOK
<1>2. /\ next \in Resources /\ next' = next + 1
      /\ state' = [state EXCEPT ![next] = "made"]
      /\ state[next] = "none"
  BY <1>1 DEF ExtentIInv, InTurn, Acquire, Acquiring
<1>3. \A r \in Resources : state'[r] = IF r = next THEN "made" ELSE state[r]
  BY <1>1, <1>2
<1>4. TypeOK'
  <2>1. next' \in 1..(N + 1)
    BY <1>1, <1>2 DEF Resources
  <2>2. state' \in [Resources -> States]
    BY <1>1, <1>2 DEF States
  <2> QED BY <2>1, <2>2 DEF ExtentIInv, TypeOK, Acquire, Acquiring
<1>5. BoxHolds'
  BY <1>2, <1>3 DEF ExtentIInv, BoxHolds, Acquire, Acquiring
<1>6. InTurn'
  <2>1. \A r \in Resources : r \in Nat
    BY DEF Resources
  <2>2. Inside' => \A r \in Resources : state[r] # "made"
    BY DEF Acquire, Acquiring, Stray, Inside
  <2> QED BY <1>1, <1>2, <1>3, <2>1, <2>2 DEF ExtentIInv, InTurn
<1>7. LaterFirst'
  <2>1. \A i \in 1..Len(order) : order[i] \in Resources
    BY <1>1, LenProperties
  <2> QED BY <1>2, <1>3, <2>1 DEF ExtentIInv, LaterFirst, ReverseOrder, Acquire, Acquiring
<1>8. ByPhase'
  BY <1>1, <1>3 DEF ExtentIInv, ByPhase, Inside, Acquire, Acquiring
<1>9. NamesAreHeld'
  BY <1>1, <1>2, <1>3 DEF ExtentIInv, NamesAreHeld, Acquire, Acquiring
<1> QED BY <1>4, <1>5, <1>6, <1>7, <1>8, <1>9 DEF ExtentIInv

\* A clause that acquired nothing holds nothing.
LEMMA AcquireNothingKeeps ==
  ASSUME ExtentIInv, AcquireNothing
  PROVE  ExtentIInv'
<1>1. /\ next \in 1..(N + 1) /\ state \in [Resources -> States] /\ N \in Nat
      /\ box \in Seq(Resources) /\ order \in Seq(Resources) /\ names \in SUBSET Resources
  BY NAssumption DEF ExtentIInv, TypeOK
<1>2. /\ next \in Resources /\ next' = next + 1
      /\ state' = [state EXCEPT ![next] = "absent"]
      /\ state[next] = "none"
  BY <1>1 DEF ExtentIInv, InTurn, AcquireNothing
<1>3. \A r \in Resources : state'[r] = IF r = next THEN "absent" ELSE state[r]
  BY <1>1, <1>2
<1>4. TypeOK'
  <2>1. next' \in 1..(N + 1)
    BY <1>1, <1>2 DEF Resources
  <2>2. state' \in [Resources -> States]
    BY <1>1, <1>2 DEF States
  <2> QED BY <2>1, <2>2 DEF ExtentIInv, TypeOK, AcquireNothing
<1>5. BoxHolds'
  BY <1>2, <1>3 DEF ExtentIInv, BoxHolds, AcquireNothing
<1>6. InTurn'
  <2>1. \A r \in Resources : r \in Nat
    BY DEF Resources
  <2>2. Inside' => \A r \in Resources : state[r] # "made"
    BY DEF AcquireNothing, Stray, Inside
  <2> QED BY <1>1, <1>2, <1>3, <2>1, <2>2 DEF ExtentIInv, InTurn
<1>7. LaterFirst'
  <2>1. \A i \in 1..Len(order) : order[i] \in Resources
    BY <1>1, LenProperties
  <2> QED BY <1>2, <1>3, <2>1 DEF ExtentIInv, LaterFirst, ReverseOrder, AcquireNothing
<1>8. ByPhase'
  BY <1>1, <1>3 DEF ExtentIInv, ByPhase, Inside, AcquireNothing
<1>9. NamesAreHeld'
  BY <1>1, <1>2, <1>3 DEF ExtentIInv, NamesAreHeld, AcquireNothing
<1> QED BY <1>4, <1>5, <1>6, <1>7, <1>8, <1>9 DEF ExtentIInv

\* The stray value is later than all the box holds, and goes on top.
LEMMA StoreKeeps ==
  ASSUME ExtentIInv, Store
  PROVE  ExtentIInv'
<1>1. /\ next \in 1..(N + 1) /\ state \in [Resources -> States] /\ N \in Nat
      /\ box \in Seq(Resources) /\ order \in Seq(Resources) /\ names \in SUBSET Resources
  BY NAssumption DEF ExtentIInv, TypeOK
<1>2. PICK r \in Stray :
        /\ state' = [state EXCEPT ![r] = "held"]
        /\ box' = <<r>> \o box
        /\ names' = IF kind = "list" THEN names ELSE names \cup {r}
  BY DEF Store
<1>3. /\ r \in Resources /\ r \in Nat /\ state[r] = "made" /\ r = next - 1
      /\ \A q \in Resources : q \in Nat
  BY <1>1, <1>2 DEF ExtentIInv, InTurn, Stray, Store, Resources
<1>4. \A q \in Resources : state'[q] = IF q = r THEN "held" ELSE state[q]
  BY <1>1, <1>2, <1>3
<1>5. /\ box' \in Seq(Resources)
      /\ Len(box) \in Nat /\ Len(box') = Len(box) + 1
      /\ \A i \in 1..Len(box') : box'[i] = IF i = 1 THEN r ELSE box[i - 1]
      /\ \A i \in 1..Len(box) : box[i] \in Resources
  <2>1. <<r>> \in Seq(Resources) /\ Len(<<r>>) = 1 /\ <<r>>[1] = r
    BY <1>3
  <2>2. Len(box) \in Nat /\ \A i \in 1..Len(box) : box[i] \in Resources
    BY <1>1, LenProperties
  <2>3. /\ box' \in Seq(Resources)
        /\ Len(box') = 1 + Len(box)
        /\ \A i \in 1..(1 + Len(box)) : box'[i] = IF i <= 1 THEN <<r>>[i] ELSE box[i - 1]
    BY <1>1, <1>2, <2>1, ConcatProperties
  <2>4. ASSUME NEW i \in 1..Len(box') PROVE box'[i] = IF i = 1 THEN r ELSE box[i - 1]
    BY <2>1, <2>2, <2>3
  <2> QED BY <2>2, <2>3, <2>4
<1>6. \A i \in 1..Len(box) : box[i] < r
  <2> SUFFICES ASSUME NEW i \in 1..Len(box) PROVE box[i] < r
    OBVIOUS
  <2>1. box[i] \in Resources /\ state[box[i]] = "held"
    BY <1>5 DEF ExtentIInv, BoxHolds
  <2>2. ~(box[i] >= next)
    BY <2>1 DEF ExtentIInv, InTurn
  <2>3. box[i] \in Nat /\ box[i] # r
    BY <1>3, <2>1
  <2>4. next \in Nat
    BY <1>1
  <2> HIDE DEF Resources
  <2> QED BY <1>3, <2>2, <2>3, <2>4
<1>7. TypeOK'
  <2>1. state' \in [Resources -> States]
    BY <1>1, <1>2 DEF States
  <2>2. names' \in SUBSET Resources
    BY <1>1, <1>2, <1>3
  <2> QED BY <1>5, <2>1, <2>2 DEF ExtentIInv, TypeOK, Store
<1>8. BoxHolds'
  <2>1. ASSUME NEW q \in Resources
        PROVE  state'[q] = "held" <=> \E i \in 1..Len(box') : box'[i] = q
    <3>1. CASE q = r
      <4>1. 1 \in 1..Len(box') /\ box'[1] = r
        BY <1>5
      <4> QED BY <1>4, <3>1, <4>1
    <3>2. CASE q # r
      <4>1. state'[q] = "held" <=> \E i \in 1..Len(box) : box[i] = q
        BY <1>4, <3>2 DEF ExtentIInv, BoxHolds
      <4>2. ASSUME NEW i \in 1..Len(box) PROVE i + 1 \in 1..Len(box') /\ box'[i + 1] = box[i]
        <5>1. i + 1 \in 1..Len(box') /\ i + 1 # 1 /\ (i + 1) - 1 = i
          BY <1>5
        <5> QED BY <1>5, <5>1
      <4>3. ASSUME NEW i \in 1..Len(box'), i # 1 PROVE i - 1 \in 1..Len(box) /\ box'[i] = box[i - 1]
        BY <1>5, <4>3
      <4>4. ASSUME NEW i \in 1..Len(box'), box'[i] = q PROVE \E k \in 1..Len(box) : box[k] = q
        <5>1. i # 1
          BY <1>5, <3>2, <4>4
        <5> QED BY <4>3, <4>4, <5>1
      <4> QED BY <4>1, <4>2, <4>4
    <3> QED BY <3>1, <3>2
  <2>2. ASSUME NEW i \in 1..Len(box'), NEW j \in 1..Len(box'), i < j
        PROVE  box'[i] > box'[j]
    <3>1. j # 1 /\ j - 1 \in 1..Len(box) /\ box'[j] = box[j - 1]
      BY <1>5, <2>2
    <3>2. CASE i = 1
      BY <1>3, <1>5, <1>6, <3>1, <3>2
    <3>3. CASE i # 1
      <4>1. i - 1 \in 1..Len(box) /\ box'[i] = box[i - 1] /\ i - 1 < j - 1
        BY <1>5, <2>2, <3>3
      <4> QED BY <3>1, <4>1 DEF ExtentIInv, BoxHolds
    <3> QED BY <3>2, <3>3
  <2> QED BY <2>1, <2>2 DEF BoxHolds
<1>9. InTurn'
  BY <1>1, <1>3, <1>4 DEF ExtentIInv, InTurn, Inside, Store
<1>10. order' = <<>>
  BY DEF ExtentIInv, LaterFirst, Inside, Store
<1>11. LaterFirst'
  BY <1>10, EmptySeq DEF LaterFirst, ReverseOrder
<1>12. ByPhase'
  BY <1>1, <1>4 DEF ExtentIInv, ByPhase, Inside, Store
<1>13. NamesAreHeld'
  BY <1>1, <1>2, <1>3, <1>4 DEF ExtentIInv, NamesAreHeld
<1> QED BY <1>7, <1>8, <1>9, <1>11, <1>12, <1>13 DEF ExtentIInv

\* The names are those of what is held.
LEMMA StartBodyKeeps ==
  ASSUME ExtentIInv, StartBody
  PROVE  ExtentIInv'
<1>1. /\ next \in 1..(N + 1) /\ state \in [Resources -> States] /\ N \in Nat
      /\ box \in Seq(Resources) /\ order \in Seq(Resources) /\ names \in SUBSET Resources
  BY NAssumption DEF ExtentIInv, TypeOK
<1>2. TypeOK'
  BY <1>1, EmptySeq DEF ExtentIInv, TypeOK, Resources, States, StartBody, Stray
<1>3. BoxHolds'
  BY <1>1, LenProperties DEF ExtentIInv, BoxHolds, InTurn, StartBody, Stray
<1>4. InTurn'
  BY <1>1 DEF ExtentIInv, InTurn, BoxHolds, ByPhase, Inside, Resources, StartBody, Stray
<1>5. LaterFirst'
  BY <1>1, LenProperties DEF ExtentIInv, LaterFirst, ReverseOrder, InTurn, StartBody, Stray
<1>6. ByPhase'
  BY <1>1 DEF ExtentIInv, ByPhase, Inside, Resources, StartBody, Stray
<1>7. NamesAreHeld'
  BY <1>1 DEF ExtentIInv, NamesAreHeld, StartBody, Stray
<1> QED BY <1>2, <1>3, <1>4, <1>5, <1>6, <1>7 DEF ExtentIInv

\* with-release is left only when nothing is stray.
LEMMA LeaveKeeps ==
  ASSUME ExtentIInv, NEW how \in {"return", "raise", "break"}, Leave(how)
  PROVE  ExtentIInv'
<1>1. /\ next \in 1..(N + 1) /\ state \in [Resources -> States] /\ N \in Nat
      /\ box \in Seq(Resources) /\ order \in Seq(Resources) /\ names \in SUBSET Resources
  BY NAssumption DEF ExtentIInv, TypeOK
<1>2. TypeOK'
  BY <1>1, EmptySeq DEF ExtentIInv, TypeOK, Resources, States, Leave, Stray
<1>3. BoxHolds'
  BY <1>1, LenProperties DEF ExtentIInv, BoxHolds, InTurn, Leave, Stray
<1>4. InTurn'
  BY <1>1 DEF ExtentIInv, InTurn, BoxHolds, ByPhase, Inside, Resources, Leave, Stray
<1>5. LaterFirst'
  BY <1>1, LenProperties DEF ExtentIInv, LaterFirst, ReverseOrder, InTurn, Leave, Stray
<1>6. ByPhase'
  BY <1>1 DEF ExtentIInv, ByPhase, Inside, Resources, Leave, Stray
<1>7. NamesAreHeld'
  BY <1>1 DEF ExtentIInv, NamesAreHeld, Leave, Stray
<1> QED BY <1>2, <1>3, <1>4, <1>5, <1>6, <1>7 DEF ExtentIInv

\* What is released is the top of the box, earlier than all that went before.
LEMMA ReleaseKeeps ==
  ASSUME ExtentIInv, NEW raises \in BOOLEAN, Release(raises)
  PROVE  ExtentIInv'
<1>1. /\ next \in 1..(N + 1) /\ state \in [Resources -> States] /\ N \in Nat
      /\ box \in Seq(Resources) /\ order \in Seq(Resources) /\ names \in SUBSET Resources
  BY NAssumption DEF ExtentIInv, TypeOK
<1> DEFINE top == Head(box)
<1>2. /\ Len(box) \in Nat \ {0} /\ top = box[1] /\ top \in Resources /\ state[top] = "held"
      /\ box' \in Seq(Resources) /\ Len(box') = Len(box) - 1
      /\ \A i \in 1..Len(box') : box'[i] = box[i + 1]
  BY FirstOfBox DEF Release
<1>3. /\ phase = "unwinding" /\ state' = [state EXCEPT ![top] = "released"]
      /\ names' = names \ {top} /\ order' = Append(order, top)
      /\ phase' = phase /\ kind' = kind /\ next' = next
  BY DEF Release
<1>4. \A q \in Resources : q \in Nat /\ state'[q] = IF q = top THEN "released" ELSE state[q]
  BY <1>1, <1>2, <1>3 DEF Resources
<1>5. /\ Len(order) \in Nat /\ Len(order') = Len(order) + 1 /\ order' \in Seq(Resources)
      /\ \A i \in 1..Len(order') : order'[i] = IF i = Len(order) + 1 THEN top ELSE order[i]
      /\ \A i \in 1..Len(order) : order[i] \in Resources
  BY <1>1, <1>2, <1>3, AppendProperties, LenProperties
<1>6. \A j \in 1..Len(box') : j + 1 \in 1..Len(box) /\ box'[j] = box[j + 1] /\ box'[j] < top
                                /\ box'[j] \in Resources
  <2> SUFFICES ASSUME NEW j \in 1..Len(box')
               PROVE  j + 1 \in 1..Len(box) /\ box'[j] = box[j + 1] /\ box'[j] < top
                        /\ box'[j] \in Resources
    OBVIOUS
  <2>1. j + 1 \in 1..Len(box) /\ 1 \in 1..Len(box) /\ 1 < j + 1
    BY <1>2
  <2>2. box[1] > box[j + 1]
    BY <2>1 DEF ExtentIInv, BoxHolds
  <2>3. box'[j] \in Resources
    BY <1>2, LenProperties
  <2> HIDE DEF top
  <2> QED BY <1>2, <1>4, <2>1, <2>2, <2>3
<1> HIDE DEF top
<1>7. TypeOK'
  <2>1. state' \in [Resources -> States]
    BY <1>1, <1>3 DEF States
  <2>2. outcome' \in {"none", "return", "raise", "break", "re-entry refused", "own refused"}
    BY DEF ExtentIInv, TypeOK, Release
  <2> QED BY <1>1, <1>2, <1>3, <1>5, <2>1, <2>2 DEF ExtentIInv, TypeOK
<1>8. BoxHolds'
  <2>1. ASSUME NEW q \in Resources
        PROVE  state'[q] = "held" <=> \E i \in 1..Len(box') : box'[i] = q
    <3>1. CASE q = top
      BY <1>4, <1>6, <3>1
    <3>2. CASE q # top
      <4>1. state'[q] = "held" <=> \E i \in 1..Len(box) : box[i] = q
        BY <1>4, <3>2 DEF ExtentIInv, BoxHolds
      <4>2. ASSUME NEW i \in 1..Len(box), box[i] = q
            PROVE  i - 1 \in 1..Len(box') /\ box'[i - 1] = q
        <5>1. i # 1
          BY <1>2, <3>2, <4>2
        <5>2. i - 1 \in 1..Len(box') /\ (i - 1) + 1 = i
          BY <1>2, <5>1
        <5> QED BY <1>2, <4>2, <5>2
      <4> QED BY <1>6, <4>1, <4>2
    <3> QED BY <3>1, <3>2
  <2>2. ASSUME NEW i \in 1..Len(box'), NEW j \in 1..Len(box'), i < j
        PROVE  box'[i] > box'[j]
    <3>1. i + 1 < j + 1
      BY <2>2
    <3> QED BY <1>6, <3>1 DEF ExtentIInv, BoxHolds
  <2> QED BY <2>1, <2>2 DEF BoxHolds
<1>9. InTurn'
  BY <1>1, <1>2, <1>3, <1>4 DEF ExtentIInv, InTurn, Inside
<1>10. LaterFirst'
  <2>1. ASSUME NEW i \in 1..Len(order)
        PROVE  /\ order[i] > top /\ order[i] # top
               /\ state'[order[i]] = "released"
               /\ \A j \in 1..Len(box') : order[i] > box'[j]
    <3>1. 1 \in 1..Len(box) /\ order[i] > box[1]
      BY <1>2 DEF ExtentIInv, LaterFirst
    <3> QED BY <1>2, <1>4, <1>5, <1>6, <3>1 DEF ExtentIInv, LaterFirst
  <2>2. ASSUME NEW i \in 1..Len(order'), NEW j \in 1..Len(order'), i < j
        PROVE  order'[i] > order'[j]
    <3>1. i \in 1..Len(order) /\ order'[i] = order[i]
      BY <1>5, <2>2
    <3>2. CASE j = Len(order) + 1
      BY <1>5, <2>1, <3>1, <3>2
    <3>3. CASE j # Len(order) + 1
      <4>1. j \in 1..Len(order) /\ order'[j] = order[j]
        BY <1>5, <3>3
      <4>2. DOMAIN order = 1..Len(order)
        BY <1>1, LenProperties
      <4> QED BY <2>2, <3>1, <4>1, <4>2 DEF ExtentIInv, LaterFirst, ReverseOrder
    <3> QED BY <3>2, <3>3
  <2>3. DOMAIN order' = 1..Len(order')
    BY <1>5, LenProperties
  <2>4. ReverseOrder'
    BY <2>2, <2>3 DEF ReverseOrder
  <2>5. ASSUME NEW i \in 1..Len(order')
        PROVE  /\ state'[order'[i]] = "released"
               /\ \A j \in 1..Len(box') : order'[i] > box'[j]
    <3>1. CASE i = Len(order) + 1
      BY <1>2, <1>4, <1>5, <1>6, <3>1
    <3>2. CASE i # Len(order) + 1
      BY <1>5, <2>1, <3>2
    <3> QED BY <3>1, <3>2
  <2>6. phase' \notin {"outside", "acquiring", "body"}
    BY <1>3
  <2> QED BY <2>4, <2>5, <2>6 DEF LaterFirst
<1>11. ByPhase'
  BY <1>1, <1>3, <1>4 DEF ExtentIInv, ByPhase, Inside
<1>12. NamesAreHeld'
  BY <1>1, <1>3, <1>4 DEF ExtentIInv, NamesAreHeld
<1> QED BY <1>7, <1>8, <1>9, <1>10, <1>11, <1>12 DEF ExtentIInv

\* The last post thunk finds an empty box.
LEMMA FinishKeeps ==
  ASSUME ExtentIInv, Finish
  PROVE  ExtentIInv'
<1>1. /\ next \in 1..(N + 1) /\ state \in [Resources -> States] /\ N \in Nat
      /\ box \in Seq(Resources) /\ order \in Seq(Resources) /\ names \in SUBSET Resources
  BY NAssumption DEF ExtentIInv, TypeOK
<1>2. TypeOK'
  BY <1>1, EmptySeq DEF ExtentIInv, TypeOK, Resources, States, Finish
<1>3. BoxHolds'
  BY <1>1, LenProperties DEF ExtentIInv, BoxHolds, InTurn, Finish
<1>4. InTurn'
  BY <1>1 DEF ExtentIInv, InTurn, BoxHolds, ByPhase, Inside, Resources, Finish
<1>5. LaterFirst'
  BY <1>1, LenProperties DEF ExtentIInv, LaterFirst, ReverseOrder, InTurn, Finish
<1>6. ByPhase'
  BY <1>1 DEF ExtentIInv, ByPhase, Inside, Resources, Finish
<1>7. NamesAreHeld'
  BY <1>1 DEF ExtentIInv, NamesAreHeld, Finish
<1> QED BY <1>2, <1>3, <1>4, <1>5, <1>6, <1>7 DEF ExtentIInv

\* A refused entry changes nothing.
LEMMA ReEnterKeeps ==
  ASSUME ExtentIInv, ReEnter
  PROVE  ExtentIInv'
<1>1. /\ next \in 1..(N + 1) /\ state \in [Resources -> States] /\ N \in Nat
      /\ box \in Seq(Resources) /\ order \in Seq(Resources) /\ names \in SUBSET Resources
  BY NAssumption DEF ExtentIInv, TypeOK
<1>2. TypeOK'
  BY <1>1, EmptySeq DEF ExtentIInv, TypeOK, Resources, States, ReEnter
<1>3. BoxHolds'
  BY <1>1, LenProperties DEF ExtentIInv, BoxHolds, InTurn, ReEnter
<1>4. InTurn'
  BY <1>1 DEF ExtentIInv, InTurn, BoxHolds, ByPhase, Inside, Resources, ReEnter
<1>5. LaterFirst'
  BY <1>1, LenProperties DEF ExtentIInv, LaterFirst, ReverseOrder, InTurn, ReEnter
<1>6. ByPhase'
  BY <1>1 DEF ExtentIInv, ByPhase, Inside, Resources, ReEnter
<1>7. NamesAreHeld'
  BY <1>1 DEF ExtentIInv, NamesAreHeld, ReEnter
<1> QED BY <1>2, <1>3, <1>4, <1>5, <1>6, <1>7 DEF ExtentIInv

\* A value that a closed pool refuses is in no box.
LEMMA OwnLateKeeps ==
  ASSUME ExtentIInv, OwnLate
  PROVE  ExtentIInv'
<1>1. /\ next \in 1..(N + 1) /\ state \in [Resources -> States] /\ N \in Nat
      /\ box \in Seq(Resources) /\ order \in Seq(Resources) /\ names \in SUBSET Resources
  BY NAssumption DEF ExtentIInv, TypeOK
<1>2. /\ next \in Resources /\ next' = next + 1
      /\ state' = [state EXCEPT ![next] = "made"]
      /\ state[next] = "none"
  <2>1. next \in Resources /\ next >= next
    <3>1. next \in Resources
      BY DEF OwnLate
    <3> QED BY <1>1, <3>1
  <2>2. state[next] = "none"
    BY <2>1 DEF ExtentIInv, InTurn
  <2> QED BY <2>1, <2>2 DEF OwnLate
<1>3. \A r \in Resources : state'[r] = IF r = next THEN "made" ELSE state[r]
  BY <1>1, <1>2
<1>4. TypeOK'
  <2>1. next' \in 1..(N + 1)
    BY <1>1, <1>2 DEF Resources
  <2>2. state' \in [Resources -> States]
    BY <1>1, <1>2 DEF States
  <2> QED BY <2>1, <2>2 DEF ExtentIInv, TypeOK, OwnLate
<1>5. BoxHolds'
  BY <1>2, <1>3 DEF ExtentIInv, BoxHolds, OwnLate
<1>6. InTurn'
  <2>1. \A r \in Resources : r \in Nat
    BY DEF Resources
  <2>2. Inside' => \A r \in Resources : state[r] # "made"
    BY DEF OwnLate, Inside
  <2> QED BY <1>1, <1>2, <1>3, <2>1, <2>2 DEF ExtentIInv, InTurn
<1>7. LaterFirst'
  <2>1. \A i \in 1..Len(order) : order[i] \in Resources
    BY <1>1, LenProperties
  <2> QED BY <1>2, <1>3, <2>1 DEF ExtentIInv, LaterFirst, ReverseOrder, OwnLate
<1>8. ByPhase'
  BY <1>1, <1>3 DEF ExtentIInv, ByPhase, Inside, OwnLate
<1>9. NamesAreHeld'
  BY <1>1, <1>2, <1>3 DEF ExtentIInv, NamesAreHeld, OwnLate
<1> QED BY <1>4, <1>5, <1>6, <1>7, <1>8, <1>9 DEF ExtentIInv

\* A killed thread holds and names nothing.
LEMMA KillKeeps ==
  ASSUME ExtentIInv, Kill
  PROVE  ExtentIInv'
<1>1. /\ next \in 1..(N + 1) /\ state \in [Resources -> States] /\ N \in Nat
      /\ box \in Seq(Resources) /\ order \in Seq(Resources) /\ names \in SUBSET Resources
  BY NAssumption DEF ExtentIInv, TypeOK
<1>2. TypeOK'
  BY <1>1, EmptySeq DEF ExtentIInv, TypeOK, Resources, States, Kill
<1>3. BoxHolds'
  BY <1>1, LenProperties DEF ExtentIInv, BoxHolds, InTurn, Kill
<1>4. InTurn'
  BY <1>1 DEF ExtentIInv, InTurn, BoxHolds, ByPhase, Inside, Resources, Kill
<1>5. LaterFirst'
  BY <1>1, LenProperties DEF ExtentIInv, LaterFirst, ReverseOrder, InTurn, Kill
<1>6. ByPhase'
  BY <1>1 DEF ExtentIInv, ByPhase, Inside, Resources, Kill
<1>7. NamesAreHeld'
  BY <1>1 DEF ExtentIInv, NamesAreHeld, Kill
<1> QED BY <1>2, <1>3, <1>4, <1>5, <1>6, <1>7 DEF ExtentIInv

\* The collector takes only what no box holds.
LEMMA CollectStrayKeeps ==
  ASSUME ExtentIInv, CollectStray
  PROVE  ExtentIInv'
<1>1. /\ next \in 1..(N + 1) /\ state \in [Resources -> States] /\ N \in Nat
      /\ box \in Seq(Resources) /\ order \in Seq(Resources) /\ names \in SUBSET Resources
  BY NAssumption DEF ExtentIInv, TypeOK
<1>2. TypeOK'
  BY <1>1, EmptySeq DEF ExtentIInv, TypeOK, Resources, States, CollectStray, Stray
<1>3. BoxHolds'
  BY <1>1, LenProperties DEF ExtentIInv, BoxHolds, InTurn, CollectStray, Stray
<1>4. InTurn'
  BY <1>1 DEF ExtentIInv, InTurn, BoxHolds, ByPhase, Inside, Resources, CollectStray, Stray
<1>5. LaterFirst'
  BY <1>1, LenProperties DEF ExtentIInv, LaterFirst, ReverseOrder, InTurn, CollectStray, Stray
<1>6. ByPhase'
  BY <1>1 DEF ExtentIInv, ByPhase, Inside, Resources, CollectStray, Stray
<1>7. NamesAreHeld'
  BY <1>1 DEF ExtentIInv, NamesAreHeld, CollectStray, Stray
<1> QED BY <1>2, <1>3, <1>4, <1>5, <1>6, <1>7 DEF ExtentIInv

\* Every step keeps the inductive invariant.
LEMMA NextKeepsExtentIInv == ExtentIInv /\ [Next]_vars => ExtentIInv'
<1> SUFFICES ASSUME ExtentIInv, [Next]_vars PROVE ExtentIInv'
  OBVIOUS
<1>1. CASE UNCHANGED vars
  <2>1. TypeOK' /\ BoxHolds' /\ InTurn'
    BY <1>1 DEF ExtentIInv, TypeOK, BoxHolds, InTurn, Inside, vars
  <2>2. LaterFirst' /\ ByPhase' /\ NamesAreHeld'
    BY <1>1 DEF ExtentIInv, LaterFirst, ReverseOrder, ByPhase, NamesAreHeld, Inside, vars
  <2> QED BY <2>1, <2>2 DEF ExtentIInv
<1>2. CASE Enter \/ Acquire \/ AcquireNothing \/ Store \/ StartBody
  BY <1>2, EnterKeeps, AcquireKeeps, AcquireNothingKeeps, StoreKeeps, StartBodyKeeps
<1>3. ASSUME NEW how \in {"return", "raise", "break"}, Leave(how) PROVE ExtentIInv'
  BY <1>3, LeaveKeeps
<1>4. ASSUME NEW raises \in BOOLEAN, Release(raises) PROVE ExtentIInv'
  BY <1>4, ReleaseKeeps
<1>5. CASE Finish \/ ReEnter \/ OwnLate \/ Kill \/ CollectStray
  BY <1>5, FinishKeeps, ReEnterKeeps, OwnLateKeeps, KillKeeps, CollectStrayKeeps
<1> QED BY <1>1, <1>2, <1>3, <1>4, <1>5 DEF Next

LEMMA ExtentIInvHolds == Spec => []ExtentIInv
BY InitExtentIInv, NextKeepsExtentIInv, PTL DEF Spec

------------------------------------------------------------------------------

\* The state of an extent is well typed.
THEOREM ExtentIsTyped == Spec => []TypeOK
<1>1. ExtentIInv => TypeOK
  BY DEF ExtentIInv
<1> QED BY <1>1, ExtentIInvHolds, PTL

\* with-release, with-releases and with-release-pool release in the reverse of
\* the order of acquisition, however the extent is left.
THEOREM ReleasesReverse == Spec => []ReverseOrder
<1>1. ExtentIInv => ReverseOrder
  BY DEF ExtentIInv, LaterFirst
<1> QED BY <1>1, ExtentIInvHolds, PTL

\* An extent that is left, whatever raised in it or in its releases, holds
\* nothing, and with-release leaves nothing to the collector.
THEOREM LeftExtentsHoldNothing == Spec => []NothingHeldAfter
<1>1. ASSUME ExtentIInv PROVE NothingHeldAfter
  <2>1. ASSUME phase = "done", NEW r \in Resources PROVE state[r] # "held"
    <3>1. Len(box) = 0
      BY <1>1, <2>1, EmptySeq DEF ExtentIInv, ByPhase
    <3> QED BY <1>1, <3>1 DEF ExtentIInv, BoxHolds
  <2>2. ASSUME phase = "done", kind = "nested", NEW r \in Resources
        PROVE  state[r] \notin {"made", "collected"}
    BY <1>1, <2>2 DEF ExtentIInv, ByPhase, Inside
  <2> QED BY <2>1, <2>2 DEF NothingHeldAfter
<1> QED BY <1>1, ExtentIInvHolds, PTL

\* A name of the body is never bound to a released value.
THEOREM NamesStayHeld == Spec => []NamesAreHeld
<1>1. ExtentIInv => NamesAreHeld
  BY DEF ExtentIInv
<1> QED BY <1>1, ExtentIInvHolds, PTL

------------------------------------------------------------------------------

\* What `Bracket` is shown of the resources.
Shown == [r \in Resources |->
            CASE state[r] \in {"none", "absent"} -> "none"
              [] state[r] \in {"made", "held"} -> "owned"
              [] OTHER -> state[r]]

LEMMA BracketNext ==
  Bracketed!Next <=>
    \/ (\A r \in Resources : Shown[r] = "none") /\ Inside' /\ Shown' = Shown
    \/ ~Inside' /\ Shown' = Shown
    \/ \E r \in Resources :
         /\ Shown[r] = "none"
         /\ Shown' = [Shown EXCEPT ![r] = "owned"] /\ Inside' = Inside
    \/ \E r \in Resources :
         /\ ~Inside /\ Shown[r] = "owned"
         /\ Shown' = [Shown EXCEPT ![r] = "released"] /\ Inside' = Inside
    \/ \E R \in SUBSET Resources :
         /\ \A r \in R : Shown[r] = "owned"
         /\ Shown' = [r \in Resources |-> IF r \in R THEN "collected" ELSE Shown[r]]
         /\ ~Inside'
<1>1. Bracketed!Enter <=> (\A r \in Resources : Shown[r] = "none") /\ Inside' /\ Shown' = Shown
  BY DEF Bracketed!Enter, Shown, Inside
<1>2. Bracketed!Leave <=> ~Inside' /\ Shown' = Shown
  BY DEF Bracketed!Leave, Shown, Inside
<1>3. ASSUME NEW r \in Resources
      PROVE  Bracketed!Acquire(r) <=>
               /\ Shown[r] = "none"
               /\ Shown' = [Shown EXCEPT ![r] = "owned"] /\ Inside' = Inside
  BY DEF Bracketed!Acquire, Shown, Inside
<1>4. ASSUME NEW r \in Resources
      PROVE  Bracketed!Release(r) <=>
               /\ ~Inside /\ Shown[r] = "owned"
               /\ Shown' = [Shown EXCEPT ![r] = "released"] /\ Inside' = Inside
  BY DEF Bracketed!Release, Shown, Inside
<1>5. ASSUME NEW R \in SUBSET Resources
      PROVE  Bracketed!Abandon(R) <=>
               /\ \A r \in R : Shown[r] = "owned"
               /\ Shown' = [r \in Resources |-> IF r \in R THEN "collected" ELSE Shown[r]]
               /\ ~Inside'
  BY DEF Bracketed!Abandon, Shown, Inside
<1> QED BY <1>1, <1>2, <1>3, <1>4, <1>5 DEF Bracketed!Next

\* Every behaviour of an extent is one of `Bracket`: what is acquired is
\* released once, by the extent or by the collector, after the body is left.
THEOREM ExtentImplementsBracket == Spec => ImplementsBracket
<1>1. Init => Bracketed!Init
  BY DEF Init, Bracketed!Init, Inside
<1>2. ASSUME ExtentIInv, Next
      PROVE  Bracketed!Next \/ (Shown' = Shown /\ Inside' = Inside)
  <2>1. state \in [Resources -> States] /\ \A r \in Resources : r \in Nat
    <3>1. \A r \in Resources : r \in Nat
      BY DEF Resources
    <3> QED BY <1>2, <3>1 DEF ExtentIInv, TypeOK
  <2>2. CASE Enter
    <3>1. \A r \in Resources : state[r] = "none"
      BY <1>2, <2>1, <2>2 DEF ExtentIInv, ByPhase, InTurn, Enter, Resources
    <3>2. (\A r \in Resources : Shown[r] = "none") /\ Shown' = Shown /\ Inside'
      BY <2>2, <3>1 DEF Shown, Enter, Inside
    <3> QED BY <3>2, BracketNext
  <2>3. CASE Acquire \/ OwnLate
    <3>1. next \in Resources /\ state[next] = "none" /\ state' = [state EXCEPT ![next] = "made"]
      <4>1. next \in Resources /\ state' = [state EXCEPT ![next] = "made"]
        BY <2>3 DEF Acquire, OwnLate
      <4>2. next \in Nat
        BY <2>1, <4>1
      <4> QED BY <1>2, <4>1, <4>2 DEF ExtentIInv, InTurn
    <3>2. Shown[next] = "none" /\ Shown' = [Shown EXCEPT ![next] = "owned"]
      BY <2>1, <3>1 DEF Shown
    <3>3. Inside' = Inside
      BY <2>3 DEF Acquire, Acquiring, OwnLate, Inside
    <3> QED BY <3>1, <3>2, <3>3, BracketNext
  <2>4. CASE AcquireNothing
    <3>1. next \in Resources /\ state' = [state EXCEPT ![next] = "absent"]
      BY <2>4 DEF AcquireNothing
    <3>2. state[next] = "none"
      <4>1. next \in Nat
        BY <2>1, <3>1
      <4> QED BY <1>2, <3>1, <4>1 DEF ExtentIInv, InTurn
    <3> QED BY <2>1, <2>4, <3>1, <3>2 DEF AcquireNothing, Shown, Inside
  <2>5. CASE Store
    <3>1. PICK r \in Resources : state[r] = "made" /\ state' = [state EXCEPT ![r] = "held"]
      BY <2>5 DEF Store, Stray
    <3> QED BY <2>1, <2>5, <3>1 DEF Store, Shown, Inside
  <2>6. CASE StartBody \/ Finish \/ ReEnter
    <3>1. state' = state
      BY <2>6 DEF StartBody, Finish, ReEnter
    <3>2. Inside' = Inside
      <4>1. CASE StartBody
        BY <4>1 DEF StartBody, Inside
      <4>2. CASE Finish
        BY <4>2 DEF Finish, Inside
      <4>3. CASE ReEnter
        BY <4>3 DEF ReEnter, Inside
      <4> QED BY <2>6, <4>1, <4>2, <4>3
    <3> QED BY <3>1, <3>2 DEF Shown
  <2>7. ASSUME NEW how \in {"return", "raise", "break"}, Leave(how) PROVE Bracketed!Next
    <3>1. Shown' = Shown /\ ~Inside'
      BY <2>7 DEF Leave, Shown, Inside
    <3> QED BY <3>1, BracketNext
  <2>8. ASSUME NEW raises \in BOOLEAN, Release(raises) PROVE Bracketed!Next
    <3> DEFINE top == Head(box)
    <3>1. top \in Resources /\ state[top] = "held" /\ state' = [state EXCEPT ![top] = "released"]
      BY <1>2, <2>8, FirstOfBox DEF Release
    <3> HIDE DEF top
    <3>2. Shown[top] = "owned" /\ Shown' = [Shown EXCEPT ![top] = "released"]
      BY <2>1, <3>1 DEF Shown
    <3>3. ~Inside /\ Inside' = Inside
      BY <2>8 DEF Release, Inside
    <3> QED BY <3>1, <3>2, <3>3, BracketNext
  <2>9. CASE Kill
    <3> DEFINE R == {r \in Resources : state[r] \in {"made", "held"}}
    <3>1. /\ R \in SUBSET Resources
          /\ \A r \in R : Shown[r] = "owned"
          /\ Shown' = [r \in Resources |-> IF r \in R THEN "collected" ELSE Shown[r]]
      BY <2>1, <2>9 DEF Kill, Shown
    <3>2. ~Inside'
      BY <2>9 DEF Kill, Inside
    <3> HIDE DEF R
    <3> QED BY <3>1, <3>2, BracketNext
  <2>10. CASE CollectStray
    <3>1. /\ Stray \in SUBSET Resources
          /\ \A r \in Stray : Shown[r] = "owned"
          /\ Shown' = [r \in Resources |-> IF r \in Stray THEN "collected" ELSE Shown[r]]
      BY <2>1, <2>10 DEF CollectStray, Stray, Shown
    <3>2. ~Inside'
      BY <2>10 DEF CollectStray, Inside
    <3> QED BY <3>1, <3>2, BracketNext
  <2> QED BY <1>2, <2>2, <2>3, <2>4, <2>5, <2>6, <2>7, <2>8, <2>9, <2>10 DEF Next
<1>3. ASSUME ExtentIInv, [Next]_vars PROVE [Bracketed!Next]_(Bracketed!vars)
  <2>1. CASE Next
    BY <1>2, <1>3, <2>1 DEF Bracketed!vars, Shown
  <2>2. CASE UNCHANGED vars
    BY <2>2 DEF vars, Bracketed!vars, Inside
  <2> QED BY <1>3, <2>1, <2>2
<1> QED BY <1>1, <1>3, ExtentIInvHolds, PTL DEF Spec, ImplementsBracket, Bracketed!Spec
==============================================================================
