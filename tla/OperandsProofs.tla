--------------------------- MODULE OperandsProofs ----------------------------
(***************************************************************************)
(* For every number of series, expressions and arguments: what `Operands`  *)
(* keeps true.  The inductive invariant is two.  `HeapIInv` is about the   *)
(* values: a clause that releases a value made it or took it over, and     *)
(* lies below every other clause around that value, so that nothing is     *)
(* left bound when it is released; what an operator has made and not bound *)
(* is the value it returns.  `CourseIInv` is about the evaluation: which   *)
(* operands and results there are at which of its steps.                   *)
(***************************************************************************)
EXTENDS Operands, TLAPS

Clauses == [value : Values, released : BOOLEAN]
Calls   == [height : Nat, then : {"fold", "leave", "fitting", "verdict"}]

\* Values are the caller's or numbered in the order they were made.
Numbered ==
  \A v \in live : IF v.made THEN v.id <= made ELSE v \in Callers

\* A clause that releases lies below every other clause around its value.
ReleasedLast ==
  \A j \in DOMAIN frames : frames[j].released =>
    /\ frames[j].value.made
    /\ \A i \in DOMAIN frames : frames[i].value = frames[j].value => i <= j

\* No clause is around a new value before one takes it over.
Unbound ==
  value # NoValue /\ value.made => \A i \in DOMAIN frames : frames[i].value # value

\* What was made is what is returned, or some clause will release it.
Accounted ==
  op # "connective" /\ ending # "broken" =>
    \A v \in live : v \in Callers \/ v = value
                      \/ \E i \in DOMAIN frames : frames[i].released /\ frames[i].value = v

HeapIInv ==
  /\ frames \in Seq(Clauses) /\ live \in SUBSET Values /\ made \in Nat
  /\ value \in Values \cup {NoValue}
  /\ CallersKept /\ Numbered /\ ReleasedLast /\ BoundIsLive /\ Unbound /\ Accounted

InRound == {"dispatch", "left", "right", "combine", "operand", "self", "apply",
            "cast left", "cast right", "divide", "literal"}
Pcs == InRound \cup {"unary", "fold", "name", "floor", "build", "fitting", "verdict", "leave",
                     "unwinding", "done"}

CourseTyped ==
  /\ op \in {"fold", "divide", "compare", "connective"}
  /\ args \in Seq(Callers \cup {PlainValue}) /\ Len(args) >= 1
  /\ at \in Nat /\ at >= 2
  /\ stage \in Pcs
  /\ acc \in Values \cup {NoValue}
  /\ todo \in Seq(Calls)
  /\ plan \in Seq(Types)
  /\ ending \in {"none", "ok", "raised", "broken"}

\* In a round there are two operands, and nothing is returned yet.
RoundIInv ==
  /\ stage \in InRound =>
       /\ value = NoValue /\ at <= Len(args)
       /\ acc # NoValue /\ (IsPlain(acc) \/ acc \in live)
       /\ todo = <<[height |-> 0, then |-> "fold"]>>
  /\ stage \in {"dispatch", "operand"} => Len(frames) >= 1
  /\ stage = "self" => Len(frames) >= 2
  /\ stage = "cast left" => Len(frames) >= 3
  /\ stage = "cast right" => Len(frames) >= 4

\* What is returned where: only a result that was made is checked or renamed.
ResultIInv ==
  /\ stage \in {"unary", "fold", "leave"} => value # NoValue /\ (value.made \/ value \in {PlainValue, args[1]})
  /\ stage = "unary" => value = args[1] /\ todo = <<[height |-> 0, then |-> "fold"]>>
  /\ stage = "build" => value = NoValue \/ value.made
  /\ stage \in {"name", "floor", "fitting", "verdict"} => value # NoValue /\ value.made
  /\ \A k \in DOMAIN todo : todo[k].then \in {"fitting", "verdict"} => value = NoValue \/ value.made

\* The outermost call is a round of the fold, which leaves no clause.
CallsIInv ==
  /\ stage \notin {"fold", "unwinding", "done"} =>
       /\ Len(todo) >= 1
       /\ \A k \in DOMAIN todo : /\ todo[k].then = "fold" <=> k = Len(todo)
                                 /\ todo[k].then = "fold" => todo[k].height = 0
  /\ stage \in {"fold", "done"} => frames = <<>>
  /\ stage \notin {"unwinding", "done"} => ending = "none"

CourseIInv == CourseTyped /\ RoundIInv /\ ResultIInv /\ CallsIInv

------------------------------------------------------------------------------
(* Values and stacks.                                                         *)

LEMMA ValueKinds ==
  /\ NoValue \notin Values /\ PlainValue \in Values /\ ~PlainValue.made /\ IsPlain(PlainValue)
  /\ Callers \subseteq Values /\ \A v \in Callers : ~v.made /\ ~IsPlain(v)
  /\ \A v \in Values : v.made \in BOOLEAN /\ v.id \in Nat
  /\ \A v \in Values : ~v.made => v \in Callers \cup {PlainValue}
  /\ \A v \in Values : IsPlain(v) <=> v = PlainValue
  /\ \A v \in Values : v.made => ~IsPlain(v)
<1>1. /\ PlainValue \in Values /\ ~PlainValue.made /\ IsPlain(PlainValue)
      /\ Callers \subseteq Values /\ \A v \in Callers : ~v.made /\ ~IsPlain(v)
  BY OperandsAssumption DEF Values, Callers, PlainValue, IsPlain
<1>7. ASSUME NEW v \in Callers
      PROVE  v.made = FALSE /\ v.id \in Nat /\ v.type \in {"series", "expr"}
             /\ v = [type |-> v.type, made |-> v.made, id |-> v.id]
  <2>0. SeriesArgs \in Nat /\ ExprArgs \in Nat
    BY OperandsAssumption
  <2>1. CASE v \in [type : {"series"}, made : {FALSE}, id : 1..SeriesArgs]
    <3>1. v.made = FALSE /\ v.type = "series" /\ v.id \in 1..SeriesArgs
      BY <2>1
    <3>2. v = [type |-> v.type, made |-> v.made, id |-> v.id]
      BY <2>1
    <3> QED BY <2>0, <3>1, <3>2
  <2>2. CASE v \in [type : {"expr"}, made : {FALSE}, id : 1..ExprArgs]
    <3>1. v.made = FALSE /\ v.type = "expr" /\ v.id \in 1..ExprArgs
      BY <2>2
    <3>2. v = [type |-> v.type, made |-> v.made, id |-> v.id]
      BY <2>2
    <3> QED BY <2>0, <3>1, <3>2
  <2> QED BY <2>1, <2>2 DEF Callers
<1>8. ASSUME NEW v \in [type : {"series", "expr", "frame", "plan"}, made : {TRUE}, id : Nat]
      PROVE  v.made = TRUE /\ v.id \in Nat /\ v.type \in {"series", "expr", "frame", "plan"}
             /\ v = [type |-> v.type, made |-> v.made, id |-> v.id]
  OBVIOUS
<1>9. /\ PlainValue.made = FALSE /\ PlainValue.id = 0 /\ PlainValue.type = "plain"
      /\ PlainValue = [type |-> PlainValue.type, made |-> PlainValue.made, id |-> PlainValue.id]
  BY DEF PlainValue
<1>2. \A v \in Values : v.made \in BOOLEAN /\ v.id \in Nat
  <2> SUFFICES ASSUME NEW v \in Values PROVE v.made \in BOOLEAN /\ v.id \in Nat
    OBVIOUS
  <2>1. CASE v \in Callers
    BY <1>7, <2>1
  <2>2. CASE v = PlainValue
    BY <2>2 DEF PlainValue
  <2>3. CASE v \in [type : {"series", "expr", "frame", "plan"}, made : {TRUE}, id : Nat]
    BY <1>8, <2>3
  <2> QED BY <2>1, <2>2, <2>3 DEF Values
<1>3. \A v \in Values : v.made => ~IsPlain(v)
  BY <1>7, <1>8, <1>9 DEF Values, IsPlain
<1>4. \A v \in Values : ~v.made => v \in Callers \cup {PlainValue}
  BY DEF Values
<1>5. \A v \in Values : IsPlain(v) <=> v = PlainValue
  BY <1>1, <1>3, <1>4
<1>6. NoValue \notin Values
  <2>1. \A v \in Values : v \in [type : {"series", "expr", "frame", "plan", "plain"},
                                  made : BOOLEAN, id : Nat]
    <3>1. ASSUME NEW v \in Values
          PROVE  /\ v.type \in {"series", "expr", "frame", "plan", "plain"}
                 /\ v.made \in BOOLEAN /\ v.id \in Nat
                 /\ v = [type |-> v.type, made |-> v.made, id |-> v.id]
      <4>1. CASE v \in Callers
        BY <1>7, <4>1
      <4>2. CASE v = PlainValue
        BY <4>2 DEF PlainValue
      <4>3. CASE v \in [type : {"series", "expr", "frame", "plan"}, made : {TRUE}, id : Nat]
        BY <1>8, <4>3
      <4> QED BY <4>1, <4>2, <4>3 DEF Values
    <3> QED BY <3>1
  <2> QED BY <2>1, OperandsAssumption
<1> QED BY <1>1, <1>2, <1>3, <1>4, <1>5, <1>6

LEMMA FreshIsNew ==
  ASSUME HeapIInv, NEW type \in Types
  PROVE  /\ Fresh(type) \in Values /\ Fresh(type).made /\ Fresh(type).id = made + 1
         /\ ~IsPlain(Fresh(type))
         /\ Fresh(type) \notin live
         /\ \A i \in DOMAIN frames : frames[i].value # Fresh(type)
         /\ value # Fresh(type)
<1>1. Fresh(type) \in Values /\ Fresh(type).made /\ Fresh(type).id = made + 1
  BY DEF HeapIInv, Fresh, Values, Types
<1>2. ~IsPlain(Fresh(type))
  BY <1>1, ValueKinds
<1>3. Fresh(type) \notin live
  <2> SUFFICES ASSUME Fresh(type) \in live PROVE FALSE
    OBVIOUS
  <2>1. Fresh(type).id <= made /\ made \in Nat
    BY <1>1 DEF HeapIInv, Numbered
  <2> QED BY <1>1, <2>1
<1>4. \A i \in DOMAIN frames : frames[i].value # Fresh(type)
  BY <1>2, <1>3 DEF HeapIInv, BoundIsLive
<1>5. value # Fresh(type)
  BY <1>1, <1>2, <1>3, ValueKinds DEF HeapIInv, BoundIsLive
<1> QED BY <1>1, <1>2, <1>3, <1>4, <1>5

LEMMA StackHasLength == HeapIInv => Len(frames) \in Nat
BY DEF HeapIInv

LEMMA OneMore ==
  ASSUME NEW n \in Nat
  PROVE  /\ n >= 1 => n + 1 >= 2
         /\ n >= 2 => n + 1 >= 3
         /\ n >= 3 => n + 1 >= 4
OBVIOUS

LEMMA Pushed ==
  ASSUME NEW S, NEW s \in Seq(S), NEW e \in S
  PROVE  /\ <<e>> \o s \in Seq(S)
         /\ Len(<<e>> \o s) = Len(s) + 1
         /\ DOMAIN (<<e>> \o s) = 1 .. Len(s) + 1
         /\ (<<e>> \o s)[1] = e
         /\ \A i \in 1 .. Len(s) : (<<e>> \o s)[i + 1] = s[i]
         /\ \A i \in 2 .. Len(s) + 1 : i - 1 \in 1 .. Len(s) /\ (<<e>> \o s)[i] = s[i - 1]
OBVIOUS

LEMMA Popped ==
  ASSUME NEW S, NEW s \in Seq(S), Len(s) >= 1
  PROVE  /\ Head(s) = s[1] /\ s[1] \in S /\ Tail(s) \in Seq(S) /\ Len(Tail(s)) = Len(s) - 1
         /\ \A i \in 1 .. Len(s) - 1 : Tail(s)[i] = s[i + 1]
OBVIOUS

------------------------------------------------------------------------------
(* What an action does to the values.                                         *)

\* The clauses and the live values stay; what was a plain value or the
\* caller's is no longer returned.
LEMMA HeapStays ==
  ASSUME HeapIInv, UNCHANGED <<op, frames, live, made>>,
         ending' = "broken" \/ ending # "broken",
         value' = value \/ (value' \in {NoValue, PlainValue} /\ (value = NoValue \/ ~value.made))
  PROVE  HeapIInv'
<1>1. value' \in Values \cup {NoValue}
  BY ValueKinds DEF HeapIInv
<1>2. ReleasedLast' /\ CallersKept' /\ Numbered'
  BY DEF HeapIInv, ReleasedLast, CallersKept, Numbered
<1>3. BoundIsLive' /\ Unbound'
  BY ValueKinds DEF HeapIInv, BoundIsLive, Unbound
<1>4. Accounted'
  <2> SUFFICES ASSUME op # "connective", ending # "broken", NEW v \in live, v \notin Callers,
                      v # value'
               PROVE  \E i \in DOMAIN frames : frames[i].released /\ frames[i].value = v
    BY DEF Accounted
  <2>1. v.made /\ v \in Values
    BY DEF HeapIInv, Numbered
  <2>2. v # value
    BY <2>1, ValueKinds DEF HeapIInv
  <2> QED BY <2>2 DEF HeapIInv, Accounted
<1> QED BY <1>1, <1>2, <1>3, <1>4 DEF HeapIInv

\* A clause around a value that is there and will not be released by it.
LEMMA HeapBindsHeld ==
  ASSUME HeapIInv, NEW v \in Values, IsPlain(v) \/ v \in live,
         value = NoValue, UNCHANGED <<op, value, ending>>, Bind(v, FALSE)
  PROVE  /\ HeapIInv' /\ live' = live
         /\ Len(frames') = Len(frames) + 1
<1> DEFINE c == Clause(v, FALSE)
<1>1. c \in Clauses /\ frames \in Seq(Clauses) /\ c.value = v /\ ~c.released
  BY DEF Clause, Clauses, HeapIInv
<1>2. frames' = <<c>> \o frames
  BY DEF Bind
<1> HIDE DEF c
<1>3. /\ frames' \in Seq(Clauses) /\ Len(frames') = Len(frames) + 1
      /\ DOMAIN frames = 1 .. Len(frames) /\ DOMAIN frames' = 1 .. Len(frames) + 1
      /\ frames'[1] = c
      /\ \A i \in 1 .. Len(frames) : frames'[i + 1] = frames[i]
      /\ \A i \in 2 .. Len(frames) + 1 : i - 1 \in 1 .. Len(frames) /\ frames'[i] = frames[i - 1]
      /\ Len(frames) \in Nat
  BY <1>1, <1>2, Pushed
<1>4. live' = live /\ made' = made
  <2>1. v.made => v \in live /\ v.id <= made
    BY ValueKinds DEF HeapIInv, Numbered
  <2>2. made \in Nat /\ v.id \in Nat
    BY ValueKinds DEF HeapIInv
  <2> QED BY <2>1, <2>2 DEF Bind
<1>11. ASSUME NEW i \in DOMAIN frames'
       PROVE  i = 1 \/ (i - 1 \in DOMAIN frames /\ frames'[i] = frames[i - 1])
  BY <1>3
<1>5. ReleasedLast'
  <2> SUFFICES ASSUME NEW j \in DOMAIN frames', frames'[j].released
               PROVE  /\ frames'[j].value.made
                      /\ \A i \in DOMAIN frames' : frames'[i].value = frames'[j].value => i <= j
    BY DEF ReleasedLast
  <2>1. j \in 2 .. Len(frames) + 1 /\ j - 1 \in DOMAIN frames /\ frames'[j] = frames[j - 1]
    BY <1>1, <1>3
  <2>2. /\ frames[j - 1].value.made
        /\ \A i \in DOMAIN frames : frames[i].value = frames[j - 1].value => i <= j - 1
    BY <2>1 DEF HeapIInv, ReleasedLast
  <2>3. ASSUME NEW i \in DOMAIN frames', frames'[i].value = frames'[j].value PROVE i <= j
    <3>1. CASE i = 1
      BY <2>1, <3>1, <1>3
    <3>2. CASE i # 1
      <4>1. i - 1 \in DOMAIN frames /\ frames'[i] = frames[i - 1] /\ i \in Nat
        BY <1>3, <3>2
      <4>2. i - 1 <= j - 1
        BY <2>1, <2>2, <2>3, <4>1
      <4> QED BY <1>3, <2>1, <4>1, <4>2
    <3> QED BY <3>1, <3>2
  <2> QED BY <2>1, <2>2, <2>3
<1>6. BoundIsLive'
  <2>1. \A i \in DOMAIN frames' : ~IsPlain(frames'[i].value) => frames'[i].value \in live
    BY <1>1, <1>3, <1>11 DEF HeapIInv, BoundIsLive
  <2> QED BY <1>4, <2>1 DEF BoundIsLive
<1>7. Accounted'
  <2> SUFFICES ASSUME op # "connective", ending # "broken", NEW u \in live, u \notin Callers
               PROVE  \E i \in DOMAIN frames' : frames'[i].released /\ frames'[i].value = u
    BY <1>4 DEF Accounted
  <2>1. u # value
    BY ValueKinds DEF HeapIInv
  <2>2. PICK i \in DOMAIN frames : frames[i].released /\ frames[i].value = u
    BY <2>1 DEF HeapIInv, Accounted
  <2>3. i + 1 \in DOMAIN frames' /\ frames'[i + 1] = frames[i]
    BY <1>3
  <2> QED BY <2>2, <2>3
<1>8. CallersKept' /\ Numbered' /\ Unbound'
  BY <1>4 DEF HeapIInv, CallersKept, Numbered, Unbound
<1>9. value' \in Values \cup {NoValue} /\ live' \in SUBSET Values /\ made' \in Nat
  BY <1>4 DEF HeapIInv
<1> QED BY <1>3, <1>4, <1>5, <1>6, <1>7, <1>8, <1>9 DEF HeapIInv

\* A clause around a new value, which releases it but for a connective's.
LEMMA HeapBindsFresh ==
  ASSUME HeapIInv, NEW type \in Types, NEW released \in BOOLEAN,
         released \/ op = "connective",
         UNCHANGED <<op, value, ending>>, Bind(Fresh(type), released)
  PROVE  /\ HeapIInv' /\ live \subseteq live'
         /\ Len(frames') = Len(frames) + 1
<1> DEFINE v == Fresh(type)
<1> DEFINE c == Clause(v, released)
<1>1. /\ v \in Values /\ v.made /\ v.id = made + 1 /\ ~IsPlain(v) /\ v \notin live
      /\ \A i \in DOMAIN frames : frames[i].value # v
      /\ value # v
  BY FreshIsNew
<1>2. /\ c \in Clauses /\ frames \in Seq(Clauses) /\ c.value = v /\ c.released = released
      /\ made \in Nat
  BY <1>1 DEF Clause, Clauses, HeapIInv
<1>3. frames' = <<c>> \o frames /\ live' = live \cup {v} /\ made' = made + 1
  BY <1>1, <1>2 DEF Bind
<1> HIDE DEF c, v
<1>4. /\ frames' \in Seq(Clauses) /\ Len(frames') = Len(frames) + 1
      /\ DOMAIN frames = 1 .. Len(frames) /\ DOMAIN frames' = 1 .. Len(frames) + 1
      /\ frames'[1] = c
      /\ \A i \in 1 .. Len(frames) : frames'[i + 1] = frames[i]
      /\ \A i \in 2 .. Len(frames) + 1 : i - 1 \in 1 .. Len(frames) /\ frames'[i] = frames[i - 1]
      /\ Len(frames) \in Nat
  BY <1>2, <1>3, Pushed
<1>11. ASSUME NEW i \in DOMAIN frames'
       PROVE  i = 1 \/ (i - 1 \in DOMAIN frames /\ frames'[i] = frames[i - 1])
  BY <1>4
<1>5. ReleasedLast'
  <2> SUFFICES ASSUME NEW j \in DOMAIN frames', frames'[j].released
               PROVE  /\ frames'[j].value.made
                      /\ \A i \in DOMAIN frames' : frames'[i].value = frames'[j].value => i <= j
    BY DEF ReleasedLast
  <2>1. CASE j = 1
    <3>1. \A i \in DOMAIN frames' : frames'[i].value = v => i = 1
      BY <1>1, <1>11
    <3> QED BY <1>1, <1>2, <1>4, <2>1, <3>1
  <2>2. CASE j # 1
    <3>1. j \in 2 .. Len(frames) + 1 /\ j - 1 \in DOMAIN frames /\ frames'[j] = frames[j - 1]
      BY <1>4, <2>2
    <3>2. /\ frames[j - 1].value.made
          /\ \A i \in DOMAIN frames : frames[i].value = frames[j - 1].value => i <= j - 1
      BY <3>1 DEF HeapIInv, ReleasedLast
    <3>3. ASSUME NEW i \in DOMAIN frames', frames'[i].value = frames'[j].value PROVE i <= j
      <4>1. CASE i = 1
        BY <3>1, <4>1, <1>4
      <4>2. CASE i # 1
        <5>1. i - 1 \in DOMAIN frames /\ frames'[i] = frames[i - 1] /\ i \in Nat
          BY <1>4, <4>2
        <5>2. i - 1 <= j - 1
          BY <3>1, <3>2, <3>3, <5>1
        <5> QED BY <1>4, <3>1, <5>1, <5>2
      <4> QED BY <4>1, <4>2
    <3> QED BY <3>1, <3>2, <3>3
  <2> QED BY <2>1, <2>2
<1>6. BoundIsLive'
  <2>1. \A i \in DOMAIN frames' : ~IsPlain(frames'[i].value) => frames'[i].value \in live'
    BY <1>2, <1>3, <1>4, <1>11 DEF HeapIInv, BoundIsLive
  <2> QED BY <1>3, <2>1 DEF BoundIsLive, HeapIInv
<1>7. Accounted'
  <2> SUFFICES ASSUME op # "connective", ending # "broken", NEW u \in live', u \notin Callers,
                      u # value
               PROVE  \E i \in DOMAIN frames' : frames'[i].released /\ frames'[i].value = u
    BY DEF Accounted
  <2>1. CASE u = v
    <3>1. 1 \in DOMAIN frames' /\ frames'[1].released /\ frames'[1].value = u
      BY <1>2, <1>4, <2>1
    <3> QED BY <3>1
  <2>2. CASE u # v
    <3>1. PICK i \in DOMAIN frames : frames[i].released /\ frames[i].value = u
      BY <1>3, <2>2 DEF HeapIInv, Accounted
    <3>2. i + 1 \in DOMAIN frames' /\ frames'[i + 1] = frames[i]
      BY <1>4
    <3> QED BY <3>1, <3>2
  <2> QED BY <2>1, <2>2
<1>8. Unbound'
  BY SMTT(60), <1>1, <1>2, <1>4, <1>11 DEF HeapIInv, Unbound
<1>9. CallersKept' /\ live' \in SUBSET Values /\ made' \in Nat /\ value' \in Values \cup {NoValue}
  BY <1>1, <1>2, <1>3 DEF HeapIInv, CallersKept
<1>10. Numbered'
  <2> SUFFICES ASSUME NEW u \in live' PROVE IF u.made THEN u.id <= made + 1 ELSE u \in Callers
    BY <1>3 DEF Numbered
  <2>1. CASE u = v
    BY <1>1, <1>2, <2>1
  <2>2. CASE u # v
    <3>1. u \in live /\ u.id \in Nat /\ (IF u.made THEN u.id <= made ELSE u \in Callers)
      BY <1>3, <2>2, ValueKinds DEF HeapIInv, Numbered
    <3> QED BY <1>2, <3>1
  <2> QED BY <2>1, <2>2
<1> QED BY <1>3, <1>4, <1>5, <1>6, <1>7, <1>8, <1>9, <1>10 DEF HeapIInv

\* A clause takes over the value that was returned.
LEMMA HeapTakes ==
  ASSUME HeapIInv, value # NoValue, NEW released \in BOOLEAN, released <=> value.made,
         frames' = <<Clause(value, released)>> \o frames,
         value' = NoValue, UNCHANGED <<op, live, made>>,
         ending' = ending \/ ending # "broken"
  PROVE  /\ HeapIInv' /\ Len(frames') = Len(frames) + 1
<1> DEFINE c == Clause(value, released)
<1>1. /\ c \in Clauses /\ frames \in Seq(Clauses) /\ c.value = value /\ c.released = released
      /\ value \in Values
  BY DEF Clause, Clauses, HeapIInv
<1>2. frames' = <<c>> \o frames
  OBVIOUS
<1> HIDE DEF c
<1>3. /\ frames' \in Seq(Clauses) /\ Len(frames') = Len(frames) + 1
      /\ DOMAIN frames = 1 .. Len(frames) /\ DOMAIN frames' = 1 .. Len(frames) + 1
      /\ frames'[1] = c
      /\ \A i \in 1 .. Len(frames) : frames'[i + 1] = frames[i]
      /\ \A i \in 2 .. Len(frames) + 1 : i - 1 \in 1 .. Len(frames) /\ frames'[i] = frames[i - 1]
      /\ Len(frames) \in Nat
  BY <1>1, <1>2, Pushed
<1>4. ASSUME NEW i \in DOMAIN frames'
       PROVE  i = 1 \/ (i - 1 \in DOMAIN frames /\ frames'[i] = frames[i - 1])
  BY <1>3
<1>5. ReleasedLast'
  <2> SUFFICES ASSUME NEW j \in DOMAIN frames', frames'[j].released
               PROVE  /\ frames'[j].value.made
                      /\ \A i \in DOMAIN frames' : frames'[i].value = frames'[j].value => i <= j
    BY DEF ReleasedLast
  <2>1. CASE j = 1
    <3>1. \A i \in DOMAIN frames' : frames'[i].value = value => i = 1
      BY <1>1, <1>3, <1>4, <2>1 DEF HeapIInv, Unbound
    <3> QED BY <1>1, <1>3, <2>1, <3>1
  <2>2. CASE j # 1
    <3>1. j \in 2 .. Len(frames) + 1 /\ j - 1 \in DOMAIN frames /\ frames'[j] = frames[j - 1]
      BY <1>3, <2>2
    <3>2. /\ frames[j - 1].value.made
          /\ \A i \in DOMAIN frames : frames[i].value = frames[j - 1].value => i <= j - 1
      BY <3>1 DEF HeapIInv, ReleasedLast
    <3>3. ASSUME NEW i \in DOMAIN frames', frames'[i].value = frames'[j].value PROVE i <= j
      <4>1. CASE i = 1
        BY <3>1, <4>1, <1>3
      <4>2. CASE i # 1
        <5>1. i - 1 \in DOMAIN frames /\ frames'[i] = frames[i - 1] /\ i \in Nat
          BY <1>3, <4>2
        <5>2. i - 1 <= j - 1
          BY <3>1, <3>2, <3>3, <5>1
        <5> QED BY <1>3, <3>1, <5>1, <5>2
      <4> QED BY <4>1, <4>2
    <3> QED BY <3>1, <3>2, <3>3
  <2> QED BY <2>1, <2>2
<1>6. BoundIsLive'
  <2>1. \A i \in DOMAIN frames' : ~IsPlain(frames'[i].value) => frames'[i].value \in live
    BY <1>1, <1>3, <1>4 DEF HeapIInv, BoundIsLive
  <2> QED BY <2>1 DEF BoundIsLive
<1>7. Accounted'
  <2> SUFFICES ASSUME op # "connective", ending # "broken", NEW u \in live, u \notin Callers
               PROVE  \E i \in DOMAIN frames' : frames'[i].released /\ frames'[i].value = u
    BY DEF Accounted
  <2>1. u.made
    BY DEF HeapIInv, Numbered
  <2>2. CASE u = value
    <3>1. 1 \in DOMAIN frames' /\ frames'[1].released /\ frames'[1].value = u
      BY <1>1, <1>3, <2>1, <2>2
    <3> QED BY <3>1
  <2>3. CASE u # value
    <3>1. PICK i \in DOMAIN frames : frames[i].released /\ frames[i].value = u
      BY <2>3 DEF HeapIInv, Accounted
    <3>2. i + 1 \in DOMAIN frames' /\ frames'[i + 1] = frames[i]
      BY <1>3
    <3> QED BY <3>1, <3>2
  <2> QED BY <2>2, <2>3
<1>8. CallersKept' /\ Numbered' /\ Unbound'
  BY DEF HeapIInv, CallersKept, Numbered, Unbound
<1> QED BY <1>3, <1>5, <1>6, <1>7, <1>8 DEF HeapIInv

\* A native call returns a new value.
LEMMA HeapYields ==
  ASSUME HeapIInv, NEW type \in Types, value = NoValue \/ ~value.made,
         Yield(type), UNCHANGED <<op, frames, ending>>
  PROVE  /\ HeapIInv' /\ live \subseteq live' /\ value' # NoValue /\ value'.made
<1> DEFINE v == Fresh(type)
<1>1. /\ v \in Values /\ v.made /\ v.id = made + 1 /\ ~IsPlain(v) /\ v \notin live
      /\ \A i \in DOMAIN frames : frames[i].value # v
      /\ value # v
  BY FreshIsNew
<1>2. value' = v /\ live' = live \cup {v} /\ made' = made + 1 /\ made \in Nat
  BY DEF Yield, HeapIInv
<1> HIDE DEF v
<1>3. v # NoValue
  BY <1>1, ValueKinds
<1>4. ReleasedLast' /\ CallersKept'
  BY <1>2 DEF HeapIInv, ReleasedLast, CallersKept
<1>5. BoundIsLive' /\ Unbound'
  BY <1>1, <1>2 DEF HeapIInv, BoundIsLive, Unbound
<1>6. Numbered'
  <2> SUFFICES ASSUME NEW u \in live' PROVE IF u.made THEN u.id <= made + 1 ELSE u \in Callers
    BY <1>2 DEF Numbered
  <2>1. CASE u = v
    BY <1>1, <1>2, <2>1
  <2>2. CASE u # v
    <3>1. u \in live /\ u.id \in Nat /\ (IF u.made THEN u.id <= made ELSE u \in Callers)
      BY <1>2, <2>2, ValueKinds DEF HeapIInv, Numbered
    <3> QED BY <1>2, <3>1
  <2> QED BY <2>1, <2>2
<1>7. Accounted'
  <2> SUFFICES ASSUME op # "connective", ending # "broken", NEW u \in live', u \notin Callers,
                      u # v
               PROVE  \E i \in DOMAIN frames : frames[i].released /\ frames[i].value = u
    BY <1>2 DEF Accounted
  <2>1. u \in live /\ u.made
    BY <1>2 DEF HeapIInv, Numbered
  <2>2. u # value
    BY <2>1, ValueKinds DEF HeapIInv
  <2> QED BY <2>1, <2>2 DEF HeapIInv, Accounted
<1>8. value' \in Values /\ live' \in SUBSET Values /\ made' \in Nat
  BY <1>1, <1>2 DEF HeapIInv
<1> QED BY <1>1, <1>2, <1>3, <1>4, <1>5, <1>6, <1>7, <1>8 DEF HeapIInv

\* The innermost clause is left: what it releases nothing else is around.
LEMMA HeapPops ==
  ASSUME HeapIInv, Len(frames) >= 1, Pop, UNCHANGED <<op, value, made, ending>>
  PROVE  HeapIInv' /\ Len(frames') = Len(frames) - 1
<1>1. frames \in Seq(Clauses) /\ made \in Nat
  BY DEF HeapIInv
<1>2. /\ Head(frames) = frames[1] /\ frames[1] \in Clauses
      /\ frames' = Tail(frames) /\ frames' \in Seq(Clauses) /\ Len(frames') = Len(frames) - 1
      /\ \A i \in 1 .. Len(frames) - 1 : frames'[i] = frames[i + 1]
      /\ DOMAIN frames = 1 .. Len(frames) /\ Len(frames) \in Nat
      /\ DOMAIN frames' = 1 .. Len(frames) - 1
  BY <1>1, Popped DEF Pop
<1>3. ASSUME NEW i \in DOMAIN frames'
      PROVE  i \in Nat /\ i + 1 \in DOMAIN frames /\ frames'[i] = frames[i + 1]
  BY <1>2
<1>4. live' = IF frames[1].released THEN live \ {frames[1].value} ELSE live
  BY <1>2 DEF Pop
<1>5. frames[1].released =>
        /\ frames[1].value.made /\ value # frames[1].value
        /\ \A i \in DOMAIN frames' : frames'[i].value # frames[1].value
  <2> SUFFICES ASSUME frames[1].released
               PROVE  /\ frames[1].value.made /\ value # frames[1].value
                      /\ \A i \in DOMAIN frames' : frames'[i].value # frames[1].value
    OBVIOUS
  <2>1. 1 \in DOMAIN frames
    BY <1>2
  <2>2. /\ frames[1].value.made
        /\ \A i \in DOMAIN frames : frames[i].value = frames[1].value => i <= 1
    BY <2>1 DEF HeapIInv, ReleasedLast
  <2>3. value # frames[1].value
    <3>1. frames[1].value \in Values
      BY <1>2 DEF Clauses
    <3>2. frames[1].value # NoValue
      BY <3>1, ValueKinds
    <3> QED BY <2>1, <2>2, <3>2 DEF HeapIInv, Unbound
  <2>4. \A i \in DOMAIN frames' : frames'[i].value # frames[1].value
    BY <1>2, <1>3, <2>2
  <2> QED BY <2>2, <2>3, <2>4
<1>6. ReleasedLast'
  <2> SUFFICES ASSUME NEW j \in DOMAIN frames', frames'[j].released
               PROVE  /\ frames'[j].value.made
                      /\ \A i \in DOMAIN frames' : frames'[i].value = frames'[j].value => i <= j
    BY DEF ReleasedLast
  <2>1. j \in Nat /\ j + 1 \in DOMAIN frames /\ frames'[j] = frames[j + 1]
    BY <1>3
  <2>2. /\ frames[j + 1].value.made
        /\ \A i \in DOMAIN frames : frames[i].value = frames[j + 1].value => i <= j + 1
    BY <2>1 DEF HeapIInv, ReleasedLast
  <2>3. ASSUME NEW i \in DOMAIN frames', frames'[i].value = frames'[j].value PROVE i <= j
    <3>1. i \in Nat /\ i + 1 \in DOMAIN frames /\ frames'[i] = frames[i + 1]
      BY <1>3
    <3>2. i + 1 <= j + 1
      BY <2>1, <2>2, <2>3, <3>1
    <3> QED BY <2>1, <3>1, <3>2
  <2> QED BY <2>1, <2>2, <2>3
<1>7. BoundIsLive'
  <2>1. ASSUME NEW i \in DOMAIN frames', ~IsPlain(frames'[i].value) PROVE frames'[i].value \in live'
    <3>1. frames'[i].value \in live
      BY <1>3, <2>1 DEF HeapIInv, BoundIsLive
    <3> QED BY <1>4, <1>5, <3>1
  <2>2. value # NoValue /\ ~IsPlain(value) => value \in live'
    BY <1>4, <1>5 DEF HeapIInv, BoundIsLive
  <2> QED BY <2>1, <2>2 DEF BoundIsLive
<1>8. Unbound'
  BY <1>3 DEF HeapIInv, Unbound
<1>9. CallersKept'
  BY <1>4, <1>5, ValueKinds DEF HeapIInv, CallersKept
<1>10. Numbered'
  BY <1>4 DEF HeapIInv, Numbered
<1>11. Accounted'
  <2> SUFFICES ASSUME op # "connective", ending # "broken", NEW u \in live', u \notin Callers,
                      u # value
               PROVE  \E i \in DOMAIN frames' : frames'[i].released /\ frames'[i].value = u
    BY DEF Accounted
  <2>1. PICK i \in DOMAIN frames : frames[i].released /\ frames[i].value = u
    BY <1>4 DEF HeapIInv, Accounted
  <2>2. i # 1
    BY <1>4, <2>1
  <2>3. i - 1 \in DOMAIN frames' /\ frames'[i - 1] = frames[i]
    BY <1>2, <2>2
  <2> QED BY <2>1, <2>3
<1>12. live' \in SUBSET Values
  BY <1>4 DEF HeapIInv
<1> QED BY <1>2, <1>6, <1>7, <1>8, <1>9, <1>10, <1>11, <1>12 DEF HeapIInv

------------------------------------------------------------------------------
(* The steps.                                                                 *)

OperandsIInv == HeapIInv /\ CourseIInv

LEMMA ArgumentsAreCallers ==
  ASSUME CourseIInv
  PROVE  /\ args[1] \in Values /\ ~args[1].made
         /\ \A i \in 1 .. Len(args) : args[i] \in Callers \cup {PlainValue} /\ args[i] \in Values
<1>1. \A i \in 1 .. Len(args) : args[i] \in Callers \cup {PlainValue}
  BY DEF CourseIInv, CourseTyped
<1>2. 1 \in 1 .. Len(args)
  BY DEF CourseIInv, CourseTyped
<1> QED BY <1>1, <1>2, ValueKinds

LEMMA OperandsAreLive ==
  ASSUME OperandsIInv, stage \in InRound
  PROVE  /\ value = NoValue /\ at \in 1 .. Len(args)
         /\ acc \in Values /\ (IsPlain(acc) \/ acc \in live)
         /\ other \in Callers \cup {PlainValue} /\ other \in Values /\ (IsPlain(other) \/ other \in live)
         /\ self \in {acc, other} /\ aside \in {acc, other}
<1>1. /\ value = NoValue /\ at \in 1 .. Len(args)
      /\ acc \in Values /\ (IsPlain(acc) \/ acc \in live)
  <2>1. value = NoValue /\ at <= Len(args) /\ acc # NoValue /\ (IsPlain(acc) \/ acc \in live)
    BY DEF OperandsIInv, CourseIInv, RoundIInv
  <2>2. at \in Nat /\ at >= 2 /\ Len(args) \in Nat /\ acc \in Values \cup {NoValue}
    BY DEF OperandsIInv, CourseIInv, CourseTyped
  <2> QED BY <2>1, <2>2
<1>2. other \in Callers \cup {PlainValue} /\ other \in Values
  BY <1>1, ArgumentsAreCallers DEF OperandsIInv, other
<1>3. IsPlain(other) \/ other \in live
  BY <1>2, ValueKinds DEF OperandsIInv, HeapIInv, CallersKept
<1> QED BY <1>1, <1>2, <1>3 DEF self, aside

LEMMA InitOperandsIInv == OperandsInit => OperandsIInv
<1> SUFFICES ASSUME OperandsInit PROVE OperandsIInv
  OBVIOUS
<1>1. PICK n \in Nat : n >= 1 /\ args \in [1..n -> Callers \cup {PlainValue}]
  <2>1. PICK n \in (IF Arithmetic THEN 1..MaxArgs ELSE {2}) : args \in [1..n -> Callers \cup {PlainValue}]
    BY DEF OperandsInit
  <2>2. n \in Nat /\ n >= 1
    BY <2>1, OperandsAssumption
  <2> QED BY <2>1, <2>2
<1>2. args \in Seq(Callers \cup {PlainValue}) /\ Len(args) >= 1
  BY <1>1
<1>3. args[1] \in Callers \cup {PlainValue}
  BY <1>2
<1>4. value = args[1] /\ frames = <<>> /\ live = Callers /\ made = 0 /\ ending = "none"
  BY DEF OperandsInit
<1>5. HeapIInv
  <2>1. frames \in Seq(Clauses) /\ live \in SUBSET Values /\ made \in Nat /\ value \in Values
    BY <1>3, <1>4, ValueKinds
  <2>2. DOMAIN frames = {}
    BY <1>4
  <2>3. CallersKept /\ Numbered /\ ReleasedLast /\ Accounted
    BY <1>4, <2>2, ValueKinds DEF CallersKept, Numbered, ReleasedLast, Accounted
  <2>4. BoundIsLive /\ Unbound
    BY <1>3, <1>4, <2>2, ValueKinds DEF BoundIsLive, Unbound
  <2> QED BY <2>1, <2>3, <2>4 DEF HeapIInv
<1>6. CASE Len(args) = 1
  <2>1. stage = "unary" /\ todo = <<[height |-> 0, then |-> "fold"]>>
    BY <1>6 DEF OperandsInit
  <2>2. todo \in Seq(Calls) /\ Len(todo) = 1 /\ DOMAIN todo = {1} /\ todo[1].then = "fold"
        /\ todo[1].height = 0
    BY <2>1 DEF Calls
  <2>3. CourseTyped
    BY <1>2, <2>1, <2>2 DEF CourseTyped, OperandsInit, Pcs
  <2>4. RoundIInv /\ CallsIInv
    BY <1>4, <2>1, <2>2 DEF RoundIInv, CallsIInv, InRound
  <2>5. ResultIInv
    BY <1>3, <1>4, <2>1, <2>2, ValueKinds DEF ResultIInv
  <2> QED BY <1>5, <2>3, <2>4, <2>5 DEF OperandsIInv, CourseIInv
<1>7. CASE Len(args) # 1
  <2>1. stage = "fold" /\ todo = <<>>
    BY <1>7 DEF OperandsInit
  <2>2. todo \in Seq(Calls) /\ DOMAIN todo = {}
    BY <2>1
  <2>3. CourseTyped
    BY <1>2, <2>1, <2>2 DEF CourseTyped, OperandsInit, Pcs
  <2>4. RoundIInv /\ CallsIInv
    BY <1>4, <2>1, <2>2 DEF RoundIInv, CallsIInv, InRound
  <2>5. ResultIInv
    BY <1>3, <1>4, <2>1, <2>2, ValueKinds DEF ResultIInv
  <2> QED BY <1>5, <2>3, <2>4, <2>5 DEF OperandsIInv, CourseIInv
<1> QED BY <1>6, <1>7

\* A round takes over the result so far.
LEMMA FoldKeeps ==
  ASSUME OperandsIInv, Fold
  PROVE  OperandsIInv'
<1>1. /\ stage = "fold" /\ at <= Len(args) /\ frames = <<>>
      /\ value # NoValue /\ (value.made \/ value \in {PlainValue, args[1]})
      /\ value \in Values
  BY DEF Fold, OperandsIInv, CourseIInv, ResultIInv, CallsIInv, HeapIInv
<1> DEFINE released == value # args[1] /\ ~IsPlain(value)
<1>2. released \in BOOLEAN /\ (released <=> value.made)
  BY <1>1, ArgumentsAreCallers, ValueKinds DEF OperandsIInv
<1>3. frames' = <<Clause(value, released)>> \o frames
  BY <1>1 DEF Fold
<1> HIDE DEF released
<1>4. /\ acc' = value /\ value' = NoValue /\ todo' = <<[height |-> 0, then |-> "fold"]>>
      /\ stage' = "dispatch" /\ UNCHANGED <<op, args, at, plan, live, made, ending>>
  BY DEF Fold
<1>5. HeapIInv' /\ Len(frames') = Len(frames) + 1
  BY <1>1, <1>2, <1>3, <1>4, HeapTakes DEF OperandsIInv
<1>6. Len(frames') = 1
  BY <1>1, <1>5
<1>7. IsPlain(acc') \/ acc' \in live'
  BY <1>1, <1>4 DEF OperandsIInv, HeapIInv, BoundIsLive
<1>8. todo' \in Seq(Calls) /\ Len(todo') = 1 /\ DOMAIN todo' = {1} /\ todo'[1].then = "fold"
      /\ todo'[1].height = 0
  BY <1>4 DEF Calls
<1>9. CourseTyped'
  BY <1>1, <1>4, <1>8 DEF OperandsIInv, CourseIInv, CourseTyped, Pcs, InRound
<1>10. RoundIInv'
  BY <1>1, <1>4, <1>6, <1>7 DEF RoundIInv, InRound
<1>11. ResultIInv' /\ CallsIInv'
  BY <1>1, <1>4, <1>8 DEF OperandsIInv, CourseIInv, ResultIInv, CallsIInv
<1> QED BY <1>5, <1>9, <1>10, <1>11 DEF OperandsIInv, CourseIInv

LEMMA FinishKeeps ==
  ASSUME OperandsIInv, Finish
  PROVE  OperandsIInv'
<1>1. /\ stage = "fold" /\ stage' = "done" /\ ending' = "ok" /\ frames = <<>> /\ ending = "none"
      /\ UNCHANGED <<op, args, at, acc, value, frames, todo, plan, live, made>>
  BY DEF Finish, OperandsIInv, CourseIInv, CallsIInv
<1>2. HeapIInv'
  BY <1>1, HeapStays DEF OperandsIInv
<1>3. CourseTyped' /\ RoundIInv'
  BY <1>1 DEF OperandsIInv, CourseIInv, CourseTyped, RoundIInv, Pcs, InRound
<1>4. ResultIInv' /\ CallsIInv'
  BY <1>1 DEF OperandsIInv, CourseIInv, ResultIInv, CallsIInv
<1> QED BY <1>2, <1>3, <1>4 DEF OperandsIInv, CourseIInv

LEMMA DispatchKeeps ==
  ASSUME OperandsIInv, Dispatch
  PROVE  OperandsIInv'
<1>1. /\ stage = "dispatch" /\ value = NoValue
      /\ UNCHANGED <<frames, todo, plan, live, made, op, args, at, acc, ending>>
      /\ \/ stage' \in {"left", "operand", "literal"} /\ value' = NoValue
         \/ stage' = "leave" /\ value' = PlainValue
  BY OperandsAreLive DEF Dispatch, NoCall, InRound
<1>2. HeapIInv'
  BY <1>1, HeapStays DEF OperandsIInv, CourseIInv, CallsIInv
<1>3. CourseTyped' /\ CallsIInv'
  BY <1>1 DEF OperandsIInv, CourseIInv, CourseTyped, CallsIInv, Pcs, InRound
<1>4. RoundIInv'
  BY <1>1 DEF OperandsIInv, CourseIInv, RoundIInv, InRound
<1>5. ResultIInv'
  <2>1. todo = <<[height |-> 0, then |-> "fold"]>>
    BY <1>1 DEF OperandsIInv, CourseIInv, RoundIInv, InRound
  <2>2. DOMAIN todo = {1} /\ todo[1].then = "fold"
    BY <2>1
  <2> QED BY <1>1, <2>2, ValueKinds DEF ResultIInv
<1> QED BY <1>2, <1>3, <1>4, <1>5 DEF OperandsIInv, CourseIInv

\* One clause more in a round.
LEMMA RoundBinds ==
  ASSUME OperandsIInv, stage \in InRound, NoCall, UNCHANGED <<value, todo, plan>>,
         HeapIInv', live \subseteq live',
         stage' \in InRound \ {"dispatch", "operand"},
         stage' = "self" => Len(frames') >= 2,
         stage' = "cast left" => Len(frames') >= 3,
         stage' = "cast right" => Len(frames') >= 4
  PROVE  OperandsIInv'
<1>1. op' = op /\ args' = args /\ at' = at /\ acc' = acc /\ ending' = ending
  BY DEF NoCall
<1>2. CourseTyped'
  BY <1>1 DEF OperandsIInv, CourseIInv, CourseTyped, Pcs
<1>3. RoundIInv'
  <2>1. /\ value' = NoValue /\ at' <= Len(args')
        /\ acc' # NoValue /\ (IsPlain(acc') \/ acc' \in live')
        /\ todo' = <<[height |-> 0, then |-> "fold"]>>
    BY <1>1 DEF OperandsIInv, CourseIInv, RoundIInv
  <2>2. stage' \notin {"dispatch", "operand"}
    OBVIOUS
  <2> QED BY <2>1, <2>2 DEF RoundIInv
<1>4. ResultIInv'
  BY <1>1 DEF OperandsIInv, CourseIInv, ResultIInv, InRound
<1>5. CallsIInv'
  BY <1>1 DEF OperandsIInv, CourseIInv, CallsIInv, InRound
<1> QED BY <1>2, <1>3, <1>4, <1>5 DEF OperandsIInv, CourseIInv

\* An expression that is there is bound, and a plain value lifted.
LEMMA LiftKeeps ==
  ASSUME OperandsIInv, NEW v \in Values, IsPlain(v) \/ v \in live,
         NEW here \in {"left", "right"}, NEW next \in {"right", "combine"}, LiftOperand(v, here, next)
  PROVE  OperandsIInv'
<1>1. /\ stage = here /\ stage' = next /\ value = NoValue /\ UNCHANGED <<value, todo, plan>> /\ NoCall
      /\ UNCHANGED <<op, ending>>
  BY OperandsAreLive DEF LiftOperand, NoCall, InRound
<1>2. CASE IsExpr(v)
  <2>1. ~IsExpr(v) = FALSE
    BY <1>2
  <2>2. Bind(v, FALSE)
    BY <1>2, <2>1 DEF LiftOperand
  <2>3. HeapIInv' /\ live' = live /\ Len(frames') = Len(frames) + 1
    BY <1>1, <2>2, HeapBindsHeld DEF OperandsIInv
  <2> QED BY <1>1, <2>3, RoundBinds DEF InRound
<1>3. CASE ~IsExpr(v)
  <2> DEFINE released == ~IsExpr(v) /\ op # "connective"
  <2>1. Bind(Fresh("expr"), released)
    BY <1>3 DEF LiftOperand
  <2>2. released \in BOOLEAN /\ (released \/ op = "connective")
    BY <1>3
  <2> HIDE DEF released
  <2>3. "expr" \in Types
    BY DEF Types
  <2>4. HeapIInv' /\ live \subseteq live' /\ Len(frames') = Len(frames) + 1
    BY <1>1, <2>1, <2>2, <2>3, HeapBindsFresh DEF OperandsIInv
  <2> QED BY <1>1, <2>4, RoundBinds DEF InRound
<1> QED BY <1>2, <1>3

\* A clause around a value that is there, or around a new series.
LEMMA SideKeeps ==
  ASSUME OperandsIInv, stage \in InRound, NEW v \in Values, IsPlain(v) \/ v \in live,
         NEW type \in Types,
         Bind(v, FALSE) \/ Bind(Fresh(type), TRUE),
         NoCall, UNCHANGED <<value, todo, plan>>,
         stage' \in InRound \ {"dispatch", "operand"},
         stage' = "self" => Len(frames) >= 1,
         stage' = "cast left" => Len(frames) >= 2,
         stage' = "cast right" => Len(frames) >= 3
  PROVE  OperandsIInv'
<1>1. value = NoValue /\ UNCHANGED <<op, ending>>
  BY OperandsAreLive DEF NoCall
<1>2. HeapIInv' /\ live \subseteq live' /\ Len(frames') = Len(frames) + 1
  <2>1. CASE Bind(v, FALSE)
    BY <1>1, <2>1, HeapBindsHeld DEF OperandsIInv
  <2>2. CASE Bind(Fresh(type), TRUE)
    BY <1>1, <2>2, HeapBindsFresh DEF OperandsIInv
  <2> QED BY <2>1, <2>2
<1>3. /\ stage' = "self" => Len(frames') >= 2
      /\ stage' = "cast left" => Len(frames') >= 3
      /\ stage' = "cast right" => Len(frames') >= 4
  <2>1. /\ Len(frames) >= 1 => Len(frames') >= 2
        /\ Len(frames) >= 2 => Len(frames') >= 3
        /\ Len(frames) >= 3 => Len(frames') >= 4
    BY <1>2, StackHasLength, OneMore DEF OperandsIInv
  <2> QED BY <2>1
<1> QED BY <1>2, <1>3, RoundBinds

LEMMA OperandKeeps ==
  ASSUME OperandsIInv, Operand
  PROVE  OperandsIInv'
<1>1. stage = "operand" /\ NoCall /\ UNCHANGED <<value, todo, plan>>
      /\ stage' \in {"apply", "self"} /\ (Bind(aside, FALSE) \/ Bind(Fresh("series"), TRUE))
  BY DEF Operand
<1>2. Len(frames) >= 1
  BY <1>1 DEF OperandsIInv, CourseIInv, RoundIInv
<1>3. aside \in Values /\ (IsPlain(aside) \/ aside \in live)
  BY <1>1, OperandsAreLive DEF InRound
<1>4. "series" \in Types
  BY DEF Types
<1> QED BY <1>1, <1>2, <1>3, <1>4, SideKeeps DEF InRound

LEMMA SelfKeeps ==
  ASSUME OperandsIInv, Self
  PROVE  OperandsIInv'
<1>1. stage = "self" /\ NoCall /\ UNCHANGED <<value, todo, plan>>
      /\ stage' \in {"apply", "cast left"} /\ (Bind(self, FALSE) \/ Bind(Fresh("series"), TRUE))
  BY DEF Self
<1>2. Len(frames) >= 2
  BY <1>1 DEF OperandsIInv, CourseIInv, RoundIInv
<1>3. self \in Values /\ (IsPlain(self) \/ self \in live)
  BY <1>1, OperandsAreLive DEF InRound
<1>4. "series" \in Types
  BY DEF Types
<1> QED BY <1>1, <1>2, <1>3, <1>4, SideKeeps DEF InRound

LEMMA BoundAreLive ==
  ASSUME HeapIInv, NEW i \in 1 .. Len(frames)
  PROVE  frames[i].value \in Values /\ (IsPlain(frames[i].value) \/ frames[i].value \in live)
<1>1. i \in DOMAIN frames /\ frames[i] \in Clauses
  BY DEF HeapIInv
<1> QED BY <1>1 DEF HeapIInv, BoundIsLive, Clauses

LEMMA CastKeeps ==
  ASSUME OperandsIInv, NEW i \in 1 .. Len(frames), NEW mayCast \in BOOLEAN,
         NEW here \in {"cast left", "cast right"}, NEW next \in {"cast right", "divide"},
         next = "cast right" => Len(frames) >= 3,
         CastOperand(frames[i].value, mayCast, here, next)
  PROVE  OperandsIInv'
<1>1. /\ stage = here /\ stage' = next /\ NoCall /\ UNCHANGED <<value, todo, plan>>
      /\ Bind(frames[i].value, FALSE) \/ Bind(Fresh("series"), TRUE)
  BY DEF CastOperand
<1>2. frames[i].value \in Values /\ (IsPlain(frames[i].value) \/ frames[i].value \in live)
  BY BoundAreLive DEF OperandsIInv
<1>3. "series" \in Types
  BY DEF Types
<1> QED BY <1>1, <1>2, <1>3, SideKeeps DEF InRound

LEMMA CastsKeep ==
  ASSUME OperandsIInv, CastLeft \/ CastRight
  PROVE  OperandsIInv'
<1>0. Len(frames) \in Nat
  BY StackHasLength DEF OperandsIInv
<1>1. CASE CastLeft
  <2> DEFINE i == IF IsSeries(acc) THEN 1 ELSE 2
  <2>1. CastOperand(frames[i].value, TRUE, "cast left", "cast right")
    BY <1>1 DEF CastLeft
  <2>2. Len(frames) >= 3
    BY <2>1 DEF CastOperand, OperandsIInv, CourseIInv, RoundIInv
  <2>3. i \in 1 .. Len(frames)
    BY <1>0, <2>2
  <2> HIDE DEF i
  <2> QED BY <2>1, <2>2, <2>3, CastKeeps
<1>2. CASE CastRight
  <2> DEFINE i == IF IsSeries(acc) THEN 3 ELSE 2
             mayCast == ~IsSeries(acc)
  <2>1. CastOperand(frames[i].value, mayCast, "cast right", "divide")
    BY <1>2 DEF CastRight
  <2>2. Len(frames) >= 4
    BY <2>1 DEF CastOperand, OperandsIInv, CourseIInv, RoundIInv
  <2>3. i \in 1 .. Len(frames) /\ mayCast \in BOOLEAN
    BY <1>0, <2>2
  <2> HIDE DEF i, mayCast
  <2> QED BY <2>1, <2>2, <2>3, CastKeeps
<1> QED BY <1>1, <1>2

\* A round has its result, which a comparison may rename and a division floor.
LEMMA RoundReturns ==
  ASSUME OperandsIInv, stage \in InRound, NEW type \in Types, Yield(type),
         NoCall, UNCHANGED <<frames, todo, plan>>, stage' \in {"leave", "name", "floor"}
  PROVE  OperandsIInv'
<1>1. value = NoValue /\ op' = op /\ args' = args /\ at' = at /\ acc' = acc /\ ending' = ending
  BY OperandsAreLive DEF NoCall
<1>2. HeapIInv' /\ value' # NoValue /\ value'.made
  BY <1>1, HeapYields DEF OperandsIInv
<1>3. CourseTyped'
  BY <1>1 DEF OperandsIInv, CourseIInv, CourseTyped, Pcs
<1>4. RoundIInv'
  BY DEF RoundIInv, InRound
<1>5. ResultIInv'
  BY <1>2 DEF ResultIInv
<1>6. CallsIInv'
  BY <1>1 DEF OperandsIInv, CourseIInv, CallsIInv, InRound
<1> QED BY <1>2, <1>3, <1>4, <1>5, <1>6 DEF OperandsIInv, CourseIInv

LEMMA ResultKeeps ==
  ASSUME OperandsIInv, CombineExprs \/ ApplyOperator \/ DivideSeries
  PROVE  OperandsIInv'
<1>1. "expr" \in Types /\ "series" \in Types
  BY DEF Types
<1>2. CASE CombineExprs
  BY <1>1, <1>2, RoundReturns DEF CombineExprs, InRound
<1>3. CASE ApplyOperator
  BY <1>1, <1>3, RoundReturns DEF ApplyOperator, InRound
<1>4. CASE DivideSeries
  BY <1>1, <1>4, RoundReturns DEF DivideSeries, InRound
<1> QED BY <1>2, <1>3, <1>4

LEMMA NameKeeps ==
  ASSUME OperandsIInv, NameResult
  PROVE  OperandsIInv'
<1>1. /\ stage = "name" /\ stage' = "leave" /\ UNCHANGED <<value, frames, todo, plan, live, made>>
      /\ op' = op /\ args' = args /\ at' = at /\ acc' = acc /\ ending' = ending
  BY DEF NameResult, NoCall
<1>2. HeapIInv' /\ ending # "broken"
  BY <1>1, HeapStays DEF OperandsIInv, CourseIInv, CallsIInv
<1>3. CourseTyped'
  BY <1>1 DEF OperandsIInv, CourseIInv, CourseTyped, Pcs
<1>4. RoundIInv' /\ ResultIInv'
  BY <1>1 DEF OperandsIInv, CourseIInv, RoundIInv, ResultIInv, InRound
<1>5. CallsIInv'
  BY <1>1 DEF OperandsIInv, CourseIInv, CallsIInv
<1> QED BY <1>2, <1>3, <1>4, <1>5 DEF OperandsIInv, CourseIInv

\* A call lies above the calls that wait for it; the outermost stays the round.
LEMMA CallsNest ==
  ASSUME CourseIInv, stage \notin {"fold", "unwinding", "done"},
         NEW h \in Nat, NEW then \in {"leave", "fitting", "verdict"}, Call(h, then)
  PROVE  /\ todo' \in Seq(Calls) /\ Len(todo') >= 1
         /\ \A k \in DOMAIN todo' : /\ todo'[k].then = "fold" <=> k = Len(todo')
                                    /\ todo'[k].then = "fold" => todo'[k].height = 0
<1> DEFINE c == [height |-> h, then |-> then]
<1>1. c \in Calls /\ c.then # "fold" /\ todo' = <<c>> \o todo
  BY DEF Calls, Call
<1>2. /\ todo \in Seq(Calls) /\ Len(todo) >= 1
      /\ \A k \in DOMAIN todo : /\ todo[k].then = "fold" <=> k = Len(todo)
                                /\ todo[k].then = "fold" => todo[k].height = 0
  BY DEF CourseIInv, CourseTyped, CallsIInv
<1> HIDE DEF c
<1>3. /\ todo' \in Seq(Calls) /\ Len(todo') = Len(todo) + 1 /\ Len(todo) \in Nat
      /\ DOMAIN todo = 1 .. Len(todo) /\ DOMAIN todo' = 1 .. Len(todo) + 1 /\ todo'[1] = c
      /\ \A k \in 2 .. Len(todo) + 1 : k - 1 \in 1 .. Len(todo) /\ todo'[k] = todo[k - 1]
  BY <1>1, <1>2, Pushed
<1>4. ASSUME NEW k \in DOMAIN todo'
      PROVE  /\ todo'[k].then = "fold" <=> k = Len(todo')
             /\ todo'[k].then = "fold" => todo'[k].height = 0
  <2>1. CASE k = 1
    BY <1>1, <1>2, <1>3, <2>1
  <2>2. CASE k # 1
    <3>1. k - 1 \in DOMAIN todo /\ todo'[k] = todo[k - 1] /\ k \in Nat
      BY <1>3, <2>2
    <3>2. k - 1 = Len(todo) <=> k = Len(todo')
      BY <1>3, <3>1
    <3> QED BY <1>2, <3>1, <3>2
  <2> QED BY <2>1, <2>2
<1> QED BY <1>2, <1>3, <1>4

\* A series goes through an expression, or is read once more.
LEMMA BuildStarts ==
  ASSUME OperandsIInv, stage \notin {"fold", "unwinding", "done"}, HeapIInv', NoCall,
         NEW h \in Nat, NEW then \in {"leave", "fitting", "verdict"}, Call(h, then),
         plan' \in {ThroughExpr, Scalars}, stage' = "build", value' = NoValue \/ value'.made
  PROVE  OperandsIInv'
<1>1. op' = op /\ args' = args /\ at' = at /\ acc' = acc /\ ending' = ending
  BY DEF NoCall
<1>2. /\ todo' \in Seq(Calls) /\ Len(todo') >= 1
      /\ \A k \in DOMAIN todo' : /\ todo'[k].then = "fold" <=> k = Len(todo')
                                 /\ todo'[k].then = "fold" => todo'[k].height = 0
  BY CallsNest DEF OperandsIInv
<1>3. plan' \in Seq(Types)
  <2>1. ThroughExpr \in Seq(Types)
    BY DEF ThroughExpr, Types
  <2>2. Scalars \in Seq(Types)
    BY DEF Scalars, Types
  <2> QED BY <2>1, <2>2
<1>4. CourseTyped'
  BY <1>1, <1>2, <1>3 DEF OperandsIInv, CourseIInv, CourseTyped, Pcs
<1>5. RoundIInv' /\ ResultIInv'
  BY DEF RoundIInv, ResultIInv, InRound
<1>6. CallsIInv'
  BY <1>1, <1>2 DEF OperandsIInv, CourseIInv, CallsIInv
<1> QED BY <1>4, <1>5, <1>6 DEF OperandsIInv, CourseIInv

LEMMA FloorKeeps ==
  ASSUME OperandsIInv, Floor
  PROVE  OperandsIInv'
<1>1. /\ stage = "floor" /\ stage' = "build" /\ Bind(value, TRUE) /\ value' = NoValue
      /\ plan' = ThroughExpr /\ Call(Len(frames) + 1, "leave") /\ NoCall
      /\ op' = op /\ ending' = ending
  BY DEF Floor, NoCall
<1>2. value # NoValue /\ value.made /\ Len(frames) \in Nat
  BY <1>1, StackHasLength DEF OperandsIInv, CourseIInv, ResultIInv
<1>3. value \in live /\ value.id <= made /\ value.id \in Nat /\ made \in Nat
  BY <1>2, ValueKinds DEF OperandsIInv, HeapIInv, BoundIsLive, Numbered
<1>4. frames' = <<Clause(value, TRUE)>> \o frames /\ live' = live /\ made' = made
  BY <1>1, <1>2, <1>3 DEF Bind
<1>5. HeapIInv'
  BY <1>1, <1>2, <1>4, HeapTakes DEF OperandsIInv
<1> QED BY <1>1, <1>2, <1>5, BuildStarts

LEMMA LiteralKeeps ==
  ASSUME OperandsIInv, Literal
  PROVE  OperandsIInv'
<1>1. /\ stage = "literal" /\ stage' = "build" /\ Bind(Fresh("expr"), TRUE) /\ value' = value
      /\ plan' = ThroughExpr /\ Call(Len(frames) + 1, "fitting") /\ NoCall
      /\ op' = op /\ ending' = ending
  BY DEF Literal, NoCall
<1>2. value = NoValue /\ Len(frames) \in Nat /\ "expr" \in Types
  BY <1>1, OperandsAreLive, StackHasLength DEF OperandsIInv, InRound, Types
<1>3. HeapIInv'
  BY <1>1, <1>2, HeapBindsFresh DEF OperandsIInv
<1> QED BY <1>1, <1>2, <1>3, BuildStarts

\* A step of the evaluation outside a round, in which calls stay as they are.
LEMMA CourseGoesOn ==
  ASSUME OperandsIInv, stage \notin {"fold", "unwinding", "done"}, HeapIInv', NoCall,
         UNCHANGED todo, plan' \in Seq(Types),
         \/ stage' = "build" /\ (value' = NoValue \/ value'.made)
         \/ stage' = "leave" /\ value' # NoValue /\ value'.made
         \/ stage' = "leave" /\ value' = value /\ stage \in {"unary", "leave"}
  PROVE  OperandsIInv'
<1>1. op' = op /\ args' = args /\ at' = at /\ acc' = acc /\ ending' = ending
  BY DEF NoCall
<1>2. CourseTyped'
  BY <1>1 DEF OperandsIInv, CourseIInv, CourseTyped, Pcs
<1>3. RoundIInv'
  BY DEF RoundIInv, InRound
<1>4. ResultIInv'
  BY <1>1 DEF OperandsIInv, CourseIInv, ResultIInv
<1>5. CallsIInv'
  BY <1>1 DEF OperandsIInv, CourseIInv, CallsIInv
<1> QED BY <1>2, <1>3, <1>4, <1>5 DEF OperandsIInv, CourseIInv

LEMMA BuildKeeps ==
  ASSUME OperandsIInv, Build
  PROVE  OperandsIInv'
<1>1. /\ stage = "build" /\ stage' = "build" /\ plan # <<>> /\ Bind(Fresh(Head(plan)), TRUE)
      /\ plan' = Tail(plan) /\ UNCHANGED <<value, todo>> /\ NoCall
      /\ op' = op /\ ending' = ending
  BY DEF Build, NoCall
<1>2. plan \in Seq(Types)
  BY DEF OperandsIInv, CourseIInv, CourseTyped
<1>3. Head(plan) \in Types /\ Tail(plan) \in Seq(Types)
  BY <1>1, <1>2
<1>4. HeapIInv'
  BY <1>1, <1>3, HeapBindsFresh DEF OperandsIInv
<1>5. value' = NoValue \/ value'.made
  BY <1>1 DEF OperandsIInv, CourseIInv, ResultIInv
<1> QED BY <1>1, <1>3, <1>4, <1>5, CourseGoesOn

LEMMA ColumnKeeps ==
  ASSUME OperandsIInv, OutputColumn
  PROVE  OperandsIInv'
<1>1. /\ stage = "build" /\ stage' = "leave" /\ UNCHANGED <<frames, todo, plan>> /\ NoCall
      /\ IF value = NoValue THEN Yield("series") ELSE UNCHANGED <<value, live, made>>
      /\ op' = op /\ ending' = ending
  BY DEF OutputColumn, NoCall
<1>2. "series" \in Types /\ plan' \in Seq(Types) /\ ending # "broken"
      /\ (value = NoValue \/ value.made)
  BY <1>1 DEF Types, OperandsIInv, CourseIInv, CourseTyped, CallsIInv, ResultIInv
<1>3. HeapIInv' /\ value' # NoValue /\ value'.made
  <2>1. CASE value = NoValue
    BY <1>1, <1>2, <2>1, HeapYields DEF OperandsIInv
  <2>2. CASE value # NoValue
    BY <1>1, <1>2, <2>2, HeapStays DEF OperandsIInv
  <2> QED BY <2>1, <2>2
<1> QED BY <1>1, <1>2, <1>3, CourseGoesOn

LEMMA FittingKeeps ==
  ASSUME OperandsIInv, Fitting
  PROVE  OperandsIInv'
<1>1. /\ stage = "fitting" /\ UNCHANGED <<value, frames, live, made>> /\ NoCall
      /\ op' = op /\ ending' = ending
      /\ \/ stage' = "leave" /\ UNCHANGED <<todo, plan>>
         \/ plan' = Scalars /\ Call(Len(frames), "verdict") /\ stage' = "build"
  BY DEF Fitting, NoCall
<1>2. /\ ending # "broken" /\ value # NoValue /\ value.made /\ plan \in Seq(Types)
      /\ Len(frames) \in Nat
  BY <1>1, StackHasLength DEF OperandsIInv, CourseIInv, CourseTyped, CallsIInv, ResultIInv
<1>3. HeapIInv'
  BY <1>1, <1>2, HeapStays DEF OperandsIInv
<1>4. CASE stage' = "leave" /\ UNCHANGED <<todo, plan>>
  BY <1>1, <1>2, <1>3, <1>4, CourseGoesOn
<1>5. CASE plan' = Scalars /\ Call(Len(frames), "verdict") /\ stage' = "build"
  BY <1>1, <1>2, <1>3, <1>5, BuildStarts
<1> QED BY <1>1, <1>4, <1>5

\* The evaluation stops: what it was about to do, no step does any more.
LEMMA CourseStops ==
  ASSUME OperandsIInv, HeapIInv', UNCHANGED <<op, args, at, acc, todo, plan>>,
         value' \in {NoValue, value}, ending' \in {"none", "ok", "raised", "broken"},
         stage' = "unwinding" \/ (stage' = "done" /\ frames' = <<>>)
  PROVE  OperandsIInv'
<1>1. CourseTyped'
  BY DEF OperandsIInv, CourseIInv, CourseTyped, Pcs
<1>2. RoundIInv' /\ CallsIInv'
  BY DEF RoundIInv, CallsIInv, InRound
<1>3. ResultIInv'
  BY DEF OperandsIInv, CourseIInv, ResultIInv
<1> QED BY <1>1, <1>2, <1>3 DEF OperandsIInv, CourseIInv

LEMMA VerdictKeeps ==
  ASSUME OperandsIInv, Verdict
  PROVE  OperandsIInv'
<1>1. /\ stage = "verdict" /\ UNCHANGED <<op, args, at, acc, todo, plan, live, made>>
      /\ \/ stage' = "leave" /\ UNCHANGED <<value, frames, ending>>
         \/ /\ frames' = <<Clause(value, TRUE)>> \o frames
            /\ value' = NoValue /\ stage' = "unwinding" /\ ending' = "raised"
  BY DEF Verdict
<1>2. ending = "none" /\ value # NoValue /\ value.made /\ plan \in Seq(Types)
  BY <1>1 DEF OperandsIInv, CourseIInv, CourseTyped, CallsIInv, ResultIInv
<1>3. CASE stage' = "leave" /\ UNCHANGED <<value, frames, ending>>
  <2>1. HeapIInv'
    BY <1>1, <1>2, <1>3, HeapStays DEF OperandsIInv
  <2> QED BY <1>1, <1>2, <1>3, <2>1, CourseGoesOn DEF NoCall
<1>4. CASE /\ frames' = <<Clause(value, TRUE)>> \o frames
           /\ value' = NoValue /\ stage' = "unwinding" /\ ending' = "raised"
  <2>1. HeapIInv'
    BY <1>1, <1>2, <1>4, HeapTakes DEF OperandsIInv
  <2> QED BY <1>1, <1>4, <2>1, CourseStops
<1> QED BY <1>1, <1>3, <1>4

LEMMA UnaryKeeps ==
  ASSUME OperandsIInv, Unary
  PROVE  OperandsIInv'
<1>1. /\ stage = "unary" /\ UNCHANGED frames /\ NoCall /\ op' = op /\ ending' = ending
      /\ \/ stage' = "leave" /\ UNCHANGED <<value, live, made, plan, todo>>
         \/ stage' = "leave" /\ Yield("expr") /\ UNCHANGED <<plan, todo>>
         \/ /\ value' = NoValue /\ plan' = ThroughExpr /\ Call(0, "leave") /\ stage' = "build"
            /\ UNCHANGED <<live, made>>
  BY DEF Unary, NoCall
<1>2. ending = "none" /\ value # NoValue /\ ~value.made /\ plan \in Seq(Types) /\ "expr" \in Types
  BY <1>1, ArgumentsAreCallers
     DEF OperandsIInv, CourseIInv, CourseTyped, CallsIInv, ResultIInv, Types
<1>3. CASE stage' = "leave" /\ UNCHANGED <<value, live, made, plan, todo>>
  <2>1. HeapIInv'
    BY <1>1, <1>2, <1>3, HeapStays DEF OperandsIInv
  <2> QED BY <1>1, <1>2, <1>3, <2>1, CourseGoesOn
<1>4. CASE stage' = "leave" /\ Yield("expr") /\ UNCHANGED <<plan, todo>>
  <2>1. HeapIInv' /\ value' # NoValue /\ value'.made
    BY <1>1, <1>2, <1>4, HeapYields DEF OperandsIInv
  <2> QED BY <1>1, <1>2, <1>4, <2>1, CourseGoesOn
<1>5. CASE /\ value' = NoValue /\ plan' = ThroughExpr /\ Call(0, "leave") /\ stage' = "build"
           /\ UNCHANGED <<live, made>>
  <2>1. HeapIInv'
    BY <1>1, <1>2, <1>5, HeapStays DEF OperandsIInv
  <2> QED BY <1>1, <1>5, <2>1, BuildStarts
<1> QED BY <1>1, <1>3, <1>4, <1>5

LEMMA LiftsKeep ==
  ASSUME OperandsIInv, LiftLeft \/ LiftRight
  PROVE  OperandsIInv'
<1>1. CASE LiftLeft
  <2>1. stage \in InRound
    BY <1>1 DEF LiftLeft, LiftOperand, InRound
  <2>2. acc \in Values /\ (IsPlain(acc) \/ acc \in live)
    BY <2>1, OperandsAreLive
  <2> QED BY <1>1, <2>2, LiftKeeps DEF LiftLeft
<1>2. CASE LiftRight
  <2>1. stage \in InRound
    BY <1>2 DEF LiftRight, LiftOperand, InRound
  <2>2. other \in Values /\ (IsPlain(other) \/ other \in live)
    BY <2>1, OperandsAreLive
  <2> QED BY <1>2, <2>2, LiftKeeps DEF LiftRight
<1> QED BY <1>1, <1>2

LEMMA LeaveKeeps ==
  ASSUME OperandsIInv, Leave
  PROVE  OperandsIInv'
<1>1. /\ stage = "leave" /\ stage' = "leave" /\ Len(frames) > Head(todo).height /\ Pop
      /\ UNCHANGED <<value, todo, plan, made>> /\ NoCall /\ op' = op /\ ending' = ending
  BY DEF Leave, NoCall
<1>2. todo \in Seq(Calls) /\ Len(todo) >= 1 /\ plan \in Seq(Types)
  BY <1>1 DEF OperandsIInv, CourseIInv, CourseTyped, CallsIInv
<1>3. Head(todo).height \in Nat
  <2>1. Head(todo) \in Calls
    BY <1>2, Popped
  <2> QED BY <2>1 DEF Calls
<1>4. Len(frames) >= 1
  BY <1>1, <1>3, StackHasLength DEF OperandsIInv
<1>5. HeapIInv'
  BY <1>1, <1>4, HeapPops DEF OperandsIInv
<1> QED BY <1>1, <1>2, <1>5, CourseGoesOn

LEMMA ReturnKeeps ==
  ASSUME OperandsIInv, ReturnToCaller
  PROVE  OperandsIInv'
<1>1. /\ stage = "leave" /\ stage' = Head(todo).then /\ todo' = Tail(todo)
      /\ Len(frames) = Head(todo).height
      /\ at' = (IF Head(todo).then = "fold" THEN at + 1 ELSE at)
      /\ UNCHANGED <<op, args, acc, value, frames, plan, live, made, ending>>
  BY DEF ReturnToCaller
<1>2. /\ todo \in Seq(Calls) /\ Len(todo) >= 1 /\ ending = "none"
      /\ \A k \in DOMAIN todo : /\ todo[k].then = "fold" <=> k = Len(todo)
                                /\ todo[k].then = "fold" => todo[k].height = 0
      /\ \A k \in DOMAIN todo : todo[k].then \in {"fitting", "verdict"} => value = NoValue \/ value.made
      /\ value # NoValue /\ (value.made \/ value \in {PlainValue, args[1]})
  BY <1>1 DEF OperandsIInv, CourseIInv, CourseTyped, CallsIInv, ResultIInv
<1>3. /\ Head(todo) = todo[1] /\ todo[1] \in Calls /\ todo' \in Seq(Calls)
      /\ Len(todo') = Len(todo) - 1 /\ DOMAIN todo = 1 .. Len(todo) /\ Len(todo) \in Nat
      /\ DOMAIN todo' = 1 .. Len(todo) - 1
      /\ \A k \in 1 .. Len(todo) - 1 : todo'[k] = todo[k + 1]
  BY <1>1, <1>2, Popped
<1>4. ASSUME NEW k \in DOMAIN todo'
      PROVE  k \in Nat /\ k + 1 \in DOMAIN todo /\ todo'[k] = todo[k + 1]
  BY <1>3
<1>5. 1 \in DOMAIN todo /\ stage' = todo[1].then /\ stage' \in {"fold", "leave", "fitting", "verdict"}
  BY <1>1, <1>2, <1>3 DEF Calls
<1>6. HeapIInv'
  BY <1>1, <1>2, HeapStays DEF OperandsIInv
<1>7. CourseTyped'
  <2>1. at \in Nat /\ at >= 2
    BY DEF OperandsIInv, CourseIInv, CourseTyped
  <2>2. at' \in Nat /\ at' >= 2
    BY <1>1, <2>1
  <2> QED BY <1>1, <1>3, <1>5, <2>2 DEF OperandsIInv, CourseIInv, CourseTyped, Pcs
<1>8. RoundIInv'
  BY <1>5 DEF RoundIInv, InRound
<1>9. ResultIInv'
  <2>1. \A k \in DOMAIN todo' : todo'[k].then \in {"fitting", "verdict"} => value = NoValue \/ value.made
    BY <1>2, <1>4
  <2>2. stage' \in {"fitting", "verdict"} => value.made
    BY <1>2, <1>5
  <2> QED BY <1>1, <1>2, <1>5, <2>1, <2>2 DEF ResultIInv
<1>10. \A k \in DOMAIN todo' : /\ todo'[k].then = "fold" <=> k = Len(todo')
                               /\ todo'[k].then = "fold" => todo'[k].height = 0
  <2> SUFFICES ASSUME NEW k \in DOMAIN todo'
               PROVE  /\ todo'[k].then = "fold" <=> k = Len(todo')
                      /\ todo'[k].then = "fold" => todo'[k].height = 0
    OBVIOUS
  <2>1. k \in Nat /\ k + 1 \in DOMAIN todo /\ todo'[k] = todo[k + 1]
    BY <1>4
  <2>2. k + 1 = Len(todo) <=> k = Len(todo')
    BY <1>3, <2>1
  <2> QED BY <1>2, <2>1, <2>2
<1>11. CASE stage' = "fold"
  <2>1. Len(frames) = 0
    BY <1>1, <1>2, <1>3, <1>5, <1>11
  <2>2. frames' = <<>>
    BY <1>1, <2>1 DEF OperandsIInv, HeapIInv
  <2>3. CallsIInv'
    BY <1>1, <1>2, <1>11, <2>2 DEF CallsIInv
  <2> QED BY <1>6, <1>7, <1>8, <1>9, <2>3 DEF OperandsIInv, CourseIInv
<1>12. CASE stage' # "fold"
  <2>1. 1 # Len(todo)
    BY <1>2, <1>5, <1>12
  <2>2. Len(todo') >= 1
    BY <1>2, <1>3, <2>1
  <2>3. CallsIInv'
    BY <1>1, <1>2, <1>5, <1>10, <1>12, <2>2 DEF CallsIInv
  <2> QED BY <1>6, <1>7, <1>8, <1>9, <2>3 DEF OperandsIInv, CourseIInv
<1> QED BY <1>11, <1>12

LEMMA StopsKeep ==
  ASSUME OperandsIInv, Raise \/ Break
  PROVE  OperandsIInv'
<1>1. /\ stage \notin {"unwinding", "done"} /\ stage' = "unwinding" /\ ending' \in {"raised", "broken"}
      /\ UNCHANGED <<op, args, at, acc, value, frames, todo, plan, live, made>>
  BY DEF Raise, Break
<1>2. ending = "none"
  BY <1>1 DEF OperandsIInv, CourseIInv, CallsIInv
<1>3. HeapIInv'
  BY <1>1, <1>2, HeapStays DEF OperandsIInv
<1> QED BY <1>1, <1>3, CourseStops

LEMMA UnwindKeeps ==
  ASSUME OperandsIInv, Unwind
  PROVE  OperandsIInv'
<1>1. /\ stage = "unwinding" /\ UNCHANGED <<value, todo, plan, made>>
      /\ IF frames = <<>> THEN stage' = "done" /\ UNCHANGED <<frames, live>> ELSE Pop /\ UNCHANGED stage
      /\ UNCHANGED <<op, args, at, acc, ending>>
  BY DEF Unwind, NoCall
<1>2. ending \in {"none", "ok", "raised", "broken"} /\ frames \in Seq(Clauses)
  BY DEF OperandsIInv, CourseIInv, CourseTyped, HeapIInv
<1>3. CASE frames = <<>>
  <2>1. HeapIInv'
    BY <1>1, <1>3 DEF OperandsIInv, HeapIInv, CallersKept, Numbered, ReleasedLast, BoundIsLive,
                       Unbound, Accounted
  <2> QED BY <1>1, <1>2, <1>3, <2>1, CourseStops
<1>4. CASE frames # <<>>
  <2>1. Len(frames) >= 1
    BY <1>2, <1>4
  <2>2. HeapIInv'
    BY <1>1, <1>4, <2>1, HeapPops DEF OperandsIInv
  <2> QED BY <1>1, <1>2, <1>4, <2>2, CourseStops
<1> QED BY <1>3, <1>4

LEMMA NextKeepsOperandsIInv == OperandsIInv /\ [OperandsNext]_operandVars => OperandsIInv'
<1> SUFFICES ASSUME OperandsIInv, [OperandsNext]_operandVars PROVE OperandsIInv'
  OBVIOUS
<1>1. CASE Fold \/ Finish \/ Dispatch \/ LiftLeft \/ LiftRight \/ CombineExprs
  BY <1>1, FoldKeeps, FinishKeeps, DispatchKeeps, LiftsKeep, ResultKeeps
<1>2. CASE Operand \/ Self \/ ApplyOperator \/ NameResult \/ CastLeft \/ CastRight \/ DivideSeries \/ Floor
  BY <1>2, OperandKeeps, SelfKeeps, ResultKeeps, NameKeeps, CastsKeep, FloorKeeps
<1>3. CASE Literal \/ Build \/ OutputColumn \/ Fitting \/ Verdict \/ Unary
  BY <1>3, LiteralKeeps, BuildKeeps, ColumnKeeps, FittingKeeps, VerdictKeeps, UnaryKeeps
<1>4. CASE Leave \/ ReturnToCaller \/ Raise \/ Break \/ Unwind
  BY <1>4, LeaveKeeps, ReturnKeeps, StopsKeep, UnwindKeeps
<1>5. CASE UNCHANGED operandVars
  <2>1. /\ op' = op /\ args' = args /\ at' = at /\ stage' = stage /\ acc' = acc /\ value' = value
        /\ frames' = frames /\ todo' = todo /\ plan' = plan /\ live' = live /\ made' = made
        /\ ending' = ending
    BY <1>5 DEF operandVars
  <2>2. HeapIInv'
    BY <2>1 DEF OperandsIInv, HeapIInv, CallersKept, Numbered, ReleasedLast, BoundIsLive,
                Unbound, Accounted
  <2>3. CourseIInv'
    <3>1. CourseTyped' /\ RoundIInv'
      BY <2>1 DEF OperandsIInv, CourseIInv, CourseTyped, RoundIInv
    <3>2. ResultIInv'
      BY <2>1 DEF OperandsIInv, CourseIInv, ResultIInv
    <3>3. CallsIInv'
      BY <2>1 DEF OperandsIInv, CourseIInv, CallsIInv
    <3> QED BY <3>1, <3>2, <3>3 DEF CourseIInv
  <2> QED BY <2>2, <2>3 DEF OperandsIInv
<1> QED BY <1>1, <1>2, <1>3, <1>4, <1>5 DEF OperandsNext

LEMMA OperandsIInvHolds == OperandsSpec => []OperandsIInv
BY InitOperandsIInv, NextKeepsOperandsIInv, PTL DEF OperandsSpec

------------------------------------------------------------------------------
(* The theorems.                                                              *)

\* Clauses, calls, values and outcomes are always of their kinds, in whatever
\* order an operator binds, casts, calls, raises and unwinds (operators.rkt,
\* operands.rkt, logical.rkt).
THEOREM OperandsAreTyped == OperandsSpec => []OperandsTypeOK
<1>1. OperandsIInv => OperandsTypeOK
  <2> SUFFICES ASSUME OperandsIInv PROVE OperandsTypeOK
    OBVIOUS
  <2>1. /\ frames \in Seq([value : Values, released : BOOLEAN]) /\ live \in SUBSET Values
        /\ made \in Nat /\ value \in Values \cup {NoValue}
    BY DEF OperandsIInv, HeapIInv, Clauses
  <2>2. /\ op \in {"fold", "divide", "compare", "connective"}
        /\ args \in Seq(Callers \cup {PlainValue}) /\ at \in Nat /\ stage \in Pcs
        /\ acc \in Values \cup {NoValue}
        /\ todo \in Seq([height : Nat, then : {"fold", "leave", "fitting", "verdict"}])
        /\ plan \in Seq(Types) /\ ending \in {"none", "ok", "raised", "broken"}
    BY DEF OperandsIInv, CourseIInv, CourseTyped, Calls
  <2> QED BY <2>1, <2>2 DEF OperandsTypeOK, Pcs, InRound
<1> QED BY <1>1, OperandsIInvHolds, PTL

\* However many series, expressions and plain values are combined, and wherever
\* the evaluation raises or is broken, a value of the caller is not released:
\* only what was made is ever bound with a release (operands.rkt, `eq?` tests).
THEOREM CallersAreKept == OperandsSpec => []CallersKept
<1>1. OperandsIInv => CallersKept
  BY DEF OperandsIInv, HeapIInv
<1> QED BY <1>1, OperandsIInvHolds, PTL

\* A value that an operator made is released by one clause, and is live until
\* that clause is left: no series, expression, plan or frame is freed twice.
THEOREM OneClauseOwns == OperandsSpec => []OwnedByOneClause
<1>1. OperandsIInv => OwnedByOneClause
  <2> SUFFICES ASSUME OperandsIInv, NEW i \in DOMAIN frames, frames[i].released
               PROVE  /\ frames[i].value \in live
                      /\ \A j \in DOMAIN frames :
                           j # i /\ frames[j].released => frames[j].value # frames[i].value
    BY DEF OwnedByOneClause
  <2>1. frames \in Seq(Clauses) /\ ReleasedLast /\ BoundIsLive
    BY DEF OperandsIInv, HeapIInv
  <2>2. frames[i].value.made /\ frames[i].value \in Values
    <3>1. frames[i] \in Clauses
      BY <2>1
    <3>2. frames[i].value \in Values
      BY <3>1 DEF Clauses
    <3> QED BY <2>1, <3>2 DEF ReleasedLast
  <2>3. frames[i].value \in live
    BY <2>1, <2>2, ValueKinds DEF BoundIsLive
  <2>4. ASSUME NEW j \in DOMAIN frames, j # i, frames[j].released,
               frames[j].value = frames[i].value
        PROVE  FALSE
    <3>1. i <= j /\ j <= i
      BY <2>1, <2>4 DEF ReleasedLast
    <3>2. i \in Nat /\ j \in Nat
      BY <2>1
    <3> QED BY <2>4, <3>1, <3>2
  <2> QED BY <2>3, <2>4
<1> QED BY <1>1, OperandsIInvHolds, PTL

\* What a clause is around, and what is returned, is live: no native operator
\* reads an operand that an inner clause has released.
THEOREM BoundStayLive == OperandsSpec => []BoundIsLive
<1>1. OperandsIInv => BoundIsLive
  BY DEF OperandsIInv, HeapIInv
<1> QED BY <1>1, OperandsIInvHolds, PTL

\* An operator that was not broken has released all that it made but at most
\* its result, whether it returned or raised.
THEOREM NothingElseIsLeft == OperandsSpec => []NothingLeft
<1>1. OperandsIInv => NothingLeft
  <2> SUFFICES ASSUME OperandsIInv, stage = "done", ending # "broken", op # "connective",
                      NEW v \in live, v \notin Callers
               PROVE  v = value
    BY DEF NothingLeft
  <2>1. DOMAIN frames = {}
    BY DEF OperandsIInv, CourseIInv, CallsIInv
  <2> QED BY <2>1 DEF OperandsIInv, HeapIInv, Accounted
<1> QED BY <1>1, OperandsIInvHolds, PTL
==============================================================================
