------------------------------- MODULE Operands -------------------------------
(***************************************************************************)
(* Who releases what when an operator is applied: one evaluation of an     *)
(* arithmetic operator (a fold over its arguments), of a comparison or of  *)
(* a connective, over the caller's series and expressions and plain        *)
(* values (polars/private/generic/operators.rkt, operands.rkt and          *)
(* logical.rkt).                                                           *)
(*                                                                         *)
(* On its way an operator lifts, casts and combines: it makes series,      *)
(* expressions, frames and plans that the caller never sees, and passes    *)
(* the caller's own values through the same variables.  Each is bound by   *)
(* a with-release clause whose release is decided by identity (`eq?`) or   *)
(* by a flag, and every native step may raise, and every place between two *)
(* clauses may be broken.  `frames` is the stack of those clauses: the     *)
(* `Extent` module shows that leaving one runs its release once.           *)
(*                                                                         *)
(* Which action `operand-rules` picks, and whether polars refuses, is any  *)
(* choice the shapes of the operands allow.                                *)
(***************************************************************************)
EXTENDS Naturals, Sequences

CONSTANTS
  SeriesArgs,   \* series the caller has
  ExprArgs,     \* expressions the caller has
  MaxArgs,      \* bound: arguments of one application
  NoValue

ASSUME OperandsAssumption ==
  /\ SeriesArgs \in Nat /\ ExprArgs \in Nat
  /\ MaxArgs \in Nat \ {0, 1}
  /\ NoValue \notin [type : {"series", "expr", "frame", "plan", "plain"}, made : BOOLEAN, id : Nat]

VARIABLES
  op,       \* which operator
  args,     \* its arguments
  at,       \* the argument to combine next
  stage,    \* what is evaluated next
  acc,      \* the left operand: `consumed` of the fold
  value,    \* what the last expression returned, owned by no clause
  frames,   \* clauses whose extent is entered, the innermost first
  todo,     \* calls that have not returned: their clauses lie above `height`
  plan,     \* types that the current series-through-expr has yet to make
  live,     \* native values that are not released
  made,     \* number of values made so far
  ending    \* how the evaluation ended

operandVars == <<op, args, at, stage, acc, value, frames, todo, plan, live, made, ending>>

PlainValue == [type |-> "plain", made |-> FALSE, id |-> 0]
Callers == [type : {"series"}, made : {FALSE}, id : 1..SeriesArgs]
             \cup [type : {"expr"}, made : {FALSE}, id : 1..ExprArgs]

IsSeries(v) == v.type = "series"
IsExpr(v)   == v.type = "expr"
IsPlain(v)  == v.type = "plain"
Fresh(type) == [type |-> type, made |-> TRUE, id |-> made + 1]

other == args[at]

\* The series that decides the operand action, and what stands beside it.
self  == IF IsSeries(acc) THEN acc ELSE other
aside == IF IsSeries(acc) THEN other ELSE acc

Arithmetic == op \in {"fold", "divide"}

OperandsInit ==
  /\ op \in {"fold", "divide", "compare", "connective"}
  /\ args \in UNION {[1..n -> Callers \cup {PlainValue}] :
                       n \in IF Arithmetic THEN 1..MaxArgs ELSE {2}}
  /\ at = 2
  /\ stage = IF Len(args) = 1 THEN "unary" ELSE "fold"
  /\ acc = NoValue
  /\ value = args[1]
  /\ frames = <<>>
  /\ todo = IF Len(args) = 1 THEN <<[height |-> 0, then |-> "fold"]>> ELSE <<>>
  /\ plan = <<>>
  /\ live = Callers
  /\ made = 0
  /\ ending = "none"

------------------------------------------------------------------------------

Clause(v, released) == [value |-> v, released |-> released]

\* Enters the extent of a clause around v, which is new if it was not there.
Bind(v, released) ==
  /\ frames' = <<Clause(v, released)>> \o frames
  /\ live' = IF v.made THEN live \cup {v} ELSE live
  /\ made' = IF v.made /\ v.id = made + 1 THEN made + 1 ELSE made

\* A native call that returns a new value to no clause.
Yield(type) ==
  /\ value' = Fresh(type)
  /\ live' = live \cup {Fresh(type)}
  /\ made' = made + 1

Call(height, then) == todo' = <<[height |-> height, then |-> then]>> \o todo

\* `series-through-expr/raw`: frame, all, built, named, the plan's source, the
\* plan and its output.  `series-scalars` for two reducers: all, two named
\* reductions, frame, source, plan, output and a column at a time.  (What the
\* making of one value makes and releases within its own clause, such as the
\* bare reduction that is named, is not told apart from that one step.)
ThroughExpr == <<"frame", "expr", "expr", "expr", "plan", "plan", "frame">>
Scalars     == <<"expr", "expr", "expr", "frame", "plan", "plan", "frame", "series">>

NoCall == UNCHANGED <<op, args, at, acc, ending>>

\* Fault: the fold releases whatever it consumes.
FoldAll ==
  /\ stage = "fold" /\ at <= Len(args)
  /\ acc' = value /\ value' = NoValue
  /\ frames' = <<Clause(value, ~IsPlain(value))>>
  /\ todo' = <<[height |-> 0, then |-> "fold"]>>
  /\ stage' = "dispatch"
  /\ UNCHANGED <<op, args, at, plan, live, made, ending>>

\* One round of the fold: the result so far is consumed, unless it is the first
\* argument.  (A comparison or connective is one round with nothing to consume.)
Fold ==
  /\ stage = "fold" /\ at <= Len(args)
  /\ acc' = value /\ value' = NoValue
  /\ frames' = <<Clause(value, value # args[1] /\ ~IsPlain(value))>>
  /\ todo' = <<[height |-> 0, then |-> "fold"]>>
  /\ stage' = "dispatch"
  /\ UNCHANGED <<op, args, at, plan, live, made, ending>>

\* The fold returns its last accumulator.
Finish ==
  /\ stage = "fold" /\ at > Len(args)
  /\ stage' = "done" /\ ending' = "ok"
  /\ UNCHANGED <<op, args, at, acc, value, frames, todo, plan, live, made>>

\* `binary-arith`, `define-cmp` and `combine` choose by the operands' types.
Dispatch ==
  /\ stage = "dispatch"
  /\ LET types == {acc.type, other.type} IN
       \/ "expr" \in types /\ stage' = "left" /\ UNCHANGED value
       \/ "expr" \notin types /\ "series" \in types /\ stage' = "operand" /\ UNCHANGED value
       \/ types = {"series", "plain"} /\ op # "connective" /\ stage' = "literal" /\ UNCHANGED value
       \/ types = {"plain"} /\ stage' = "leave" /\ value' = PlainValue
  /\ UNCHANGED <<frames, todo, plan, live, made>> /\ NoCall

\* `call-with-exprs`: an operand that is an expression is the caller's or the
\* fold's; a plain one is lifted and released; a series is refused.  `combine`
\* lifts without a clause, and leaves the literal to the collector.
LiftOperand(v, here, next) ==
  /\ stage = here
  /\ ~IsSeries(v)
  /\ Bind(IF IsExpr(v) THEN v ELSE Fresh("expr"), ~IsExpr(v) /\ op # "connective")
  /\ stage' = next
  /\ UNCHANGED <<value, todo, plan>> /\ NoCall

LiftLeft  == LiftOperand(acc, "left", "right")
LiftRight == LiftOperand(other, "right", "combine")

CombineExprs ==
  /\ stage = "combine"
  /\ Yield("expr")
  /\ stage' = "leave"
  /\ UNCHANGED <<frames, todo, plan>> /\ NoCall

\* Fault: an operand is released whether or not it is the caller's.
OperandAlways ==
  /\ stage = "operand"
  /\ Bind(IF IsSeries(aside) THEN aside ELSE Fresh("series"), TRUE)
  /\ stage' = IF op = "connective" THEN "apply" ELSE "self"
  /\ UNCHANGED <<value, todo, plan>> /\ NoCall

\* `operand-series` and `logical-operand`: the other series itself, a cast of
\* it (sums and differences only), or a series made from a plain value.
Operand ==
  /\ stage = "operand"
  /\ \/ IsSeries(aside) /\ Bind(aside, FALSE)
     \/ (IsSeries(aside) => op = "fold") /\ Bind(Fresh("series"), TRUE)
  /\ stage' = IF op = "connective" THEN "apply" ELSE "self"
  /\ UNCHANGED <<value, todo, plan>> /\ NoCall

\* `self-series`: the series itself or, in sums and differences, a cast of it
\* when the operand is not one; then `check-same-zone` may refuse the pair.
Self ==
  /\ stage = "self"
  /\ \/ Bind(self, FALSE)
     \/ op = "fold" /\ (IsSeries(aside) => frames[1].value = aside) /\ Bind(Fresh("series"), TRUE)
  /\ stage' = IF op = "divide" THEN "cast left" ELSE "apply"
  /\ UNCHANGED <<value, todo, plan>> /\ NoCall

\* The native operator; a comparison with a plain value then takes the name of
\* its series, which may fail.
ApplyOperator ==
  /\ stage = "apply"
  /\ Yield("series")
  /\ stage' = IF op = "compare" /\ IsPlain(aside) THEN "name" ELSE "leave"
  /\ UNCHANGED <<frames, todo, plan>> /\ NoCall

NameResult ==
  /\ stage = "name"
  /\ stage' = "leave"
  /\ UNCHANGED <<value, frames, todo, plan, live, made>> /\ NoCall

\* `series-true-div` binds each side, or a cast of it with a release.  On
\* either side stands the operand or the series; the right one is cast only
\* where a series divides a plain value.
CastOperand(side, mayCast, here, next) ==
  /\ stage = here
  /\ \E cast \in IF mayCast THEN BOOLEAN ELSE {FALSE} :
       Bind(IF cast THEN Fresh("series") ELSE side, cast)
  /\ stage' = next
  /\ UNCHANGED <<value, todo, plan>> /\ NoCall

CastLeft ==
  CastOperand(frames[IF IsSeries(acc) THEN 1 ELSE 2].value, TRUE, "cast left", "cast right")
CastRight ==
  CastOperand(frames[IF IsSeries(acc) THEN 3 ELSE 2].value, ~IsSeries(acc), "cast right", "divide")

\* The quotient is floored only when neither side was cast.
DivideSeries ==
  /\ stage = "divide"
  /\ Yield("series")
  /\ stage' \in {"leave"} \cup (IF frames[1].released \/ frames[2].released THEN {} ELSE {"floor"})
  /\ UNCHANGED <<frames, todo, plan>> /\ NoCall

\* Fault: the quotient that was floored is not released.
FloorBare ==
  /\ stage = "floor"
  /\ Bind(value, FALSE)
  /\ value' = NoValue
  /\ plan' = ThroughExpr
  /\ Call(Len(frames) + 1, "leave")
  /\ stage' = "build"
  /\ NoCall

\* The quotient is bound as `unfloored`, and what is returned is its floor.
Floor ==
  /\ stage = "floor"
  /\ Bind(value, TRUE)
  /\ value' = NoValue
  /\ plan' = ThroughExpr
  /\ Call(Len(frames) + 1, "leave")
  /\ stage' = "build"
  /\ NoCall

\* `expression-form-op`: a plain value becomes a literal beside the series.
Literal ==
  /\ stage = "literal"
  /\ Bind(Fresh("expr"), TRUE)
  /\ plan' = ThroughExpr
  /\ Call(Len(frames) + 1, "fitting")
  /\ stage' = "build"
  /\ UNCHANGED value /\ NoCall

\* One clause after another, then the column of the output.
Build ==
  /\ stage = "build"
  /\ plan # <<>>
  /\ Bind(Fresh(Head(plan)), TRUE)
  /\ plan' = Tail(plan)
  /\ UNCHANGED <<stage, value, todo>> /\ NoCall

\* What series-scalars reads are plain values, and its caller keeps `out`.
OutputColumn ==
  /\ stage = "build"
  /\ plan = <<>>
  /\ IF value = NoValue THEN Yield("series") ELSE UNCHANGED <<value, live, made>>
  /\ stage' = "leave"
  /\ UNCHANGED <<frames, todo, plan>> /\ NoCall

\* `fitting-result`: only checked arithmetic reads the series again.
Fitting ==
  /\ stage = "fitting"
  /\ \/ stage' = "leave" /\ UNCHANGED <<todo, plan>>
     \/ /\ Arithmetic
        /\ plan' = Scalars
        /\ Call(Len(frames), "verdict")
        /\ stage' = "build"
  /\ UNCHANGED <<value, frames, live, made>> /\ NoCall

\* Fault: an overflow releases the result and returns it.
VerdictQuiet ==
  /\ stage = "verdict"
  /\ stage' = "leave"
  /\ \/ UNCHANGED frames
     \/ frames' = <<Clause(value, TRUE)>> \o frames
  /\ UNCHANGED <<op, args, at, acc, value, todo, plan, live, made, ending>>

\* A result that does not fit is bound with a release, and the operator raises.
Verdict ==
  /\ stage = "verdict"
  /\ \/ stage' = "leave" /\ UNCHANGED <<value, frames, ending>>
     \/ /\ frames' = <<Clause(value, TRUE)>> \o frames
        /\ value' = NoValue
        /\ stage' = "unwinding" /\ ending' = "raised"
  /\ UNCHANGED <<op, args, at, acc, todo, plan, live, made>>

\* The one-argument cases: the argument itself (also a null series negated), a
\* new expression, or the series through an expression.
Unary ==
  /\ stage = "unary"
  /\ \/ stage' = "leave" /\ UNCHANGED <<value, live, made, plan, todo>>
     \/ IsExpr(value) /\ stage' = "leave" /\ Yield("expr") /\ UNCHANGED <<plan, todo>>
     \/ /\ IsSeries(value)
        /\ value' = NoValue
        /\ plan' = ThroughExpr
        /\ Call(0, "leave")
        /\ stage' = "build"
        /\ UNCHANGED <<live, made>>
  /\ UNCHANGED frames /\ NoCall

Pop ==
  /\ frames' = Tail(frames)
  /\ live' = IF Head(frames).released THEN live \ {Head(frames).value} ELSE live

\* A call that returned leaves its clauses, the innermost first.
Leave ==
  /\ stage = "leave"
  /\ Len(frames) > Head(todo).height
  /\ Pop
  /\ UNCHANGED <<stage, value, todo, plan, made>> /\ NoCall

ReturnToCaller ==
  /\ stage = "leave"
  /\ Len(frames) = Head(todo).height
  /\ stage' = Head(todo).then
  /\ todo' = Tail(todo)
  /\ at' = IF Head(todo).then = "fold" THEN at + 1 ELSE at
  /\ UNCHANGED <<op, args, acc, value, frames, plan, live, made, ending>>

\* A native call or a check fails before it has made anything.
Raise ==
  /\ stage \notin {"fold", "leave", "floor", "fitting", "verdict", "unwinding", "done"}
  /\ stage' = "unwinding" /\ ending' = "raised"
  /\ UNCHANGED <<op, args, at, acc, value, frames, todo, plan, live, made>>

\* A break; what no clause has bound yet is left to the collector.
Break ==
  /\ stage \notin {"unwinding", "done"}
  /\ stage' = "unwinding" /\ ending' = "broken"
  /\ UNCHANGED <<op, args, at, acc, value, frames, todo, plan, live, made>>

Unwind ==
  /\ stage = "unwinding"
  /\ IF frames = <<>> THEN stage' = "done" /\ UNCHANGED <<frames, live>>
                      ELSE Pop /\ UNCHANGED stage
  /\ UNCHANGED <<value, todo, plan, made>> /\ NoCall

OperandsNext ==
  \/ Fold \/ Finish \/ Dispatch \/ LiftLeft \/ LiftRight \/ CombineExprs
  \/ Operand \/ Self \/ ApplyOperator \/ NameResult
  \/ CastLeft \/ CastRight \/ DivideSeries \/ Floor
  \/ Literal \/ Build \/ OutputColumn \/ Fitting \/ Verdict \/ Unary
  \/ Leave \/ ReturnToCaller \/ Raise \/ Break \/ Unwind

OperandsSpec == OperandsInit /\ [][OperandsNext]_operandVars

------------------------------------------------------------------------------

Values ==
  Callers \cup {PlainValue}
    \cup [type : {"series", "expr", "frame", "plan"}, made : {TRUE}, id : Nat]
Types  == {"series", "expr", "frame", "plan"}

\* The type invariant of the module's state.
OperandsTypeOK ==
  /\ op \in {"fold", "divide", "compare", "connective"}
  /\ args \in Seq(Callers \cup {PlainValue})
  /\ at \in Nat
  /\ stage \in {"unary", "fold", "dispatch", "left", "right", "combine", "operand", "self", "apply",
             "name", "cast left", "cast right", "divide", "floor", "literal", "build", "fitting",
             "verdict", "leave", "unwinding", "done"}
  /\ acc \in Values \cup {NoValue}
  /\ value \in Values \cup {NoValue}
  /\ frames \in Seq([value : Values, released : BOOLEAN])
  /\ todo \in Seq([height : Nat, then : {"fold", "leave", "fitting", "verdict"}])
  /\ plan \in Seq(Types)
  /\ live \in SUBSET Values
  /\ made \in Nat
  /\ ending \in {"none", "ok", "raised", "broken"}

\* No operator releases a value of its caller, although its own values and the
\* caller's go through the same variables and may be the same object twice.
CallersKept == Callers \subseteq live

\* A value is bound with a release by at most one clause, which made it or took
\* it over, and is live until that clause is left: nothing is released twice.
OwnedByOneClause ==
  \A i \in DOMAIN frames : frames[i].released =>
    /\ frames[i].value \in live
    /\ \A j \in DOMAIN frames : j # i /\ frames[j].released => frames[j].value # frames[i].value

\* What is bound, consumed or returned is live: an operand is never released
\* before the last native call that reads it, nor is the result.
BoundIsLive ==
  /\ \A i \in DOMAIN frames : ~IsPlain(frames[i].value) => frames[i].value \in live
  /\ value # NoValue /\ ~IsPlain(value) => value \in live

\* Unless it is broken, an operator leaves at most its result: when it raises,
\* at most the result whose overflow check or renaming failed.  (A connective
\* leaves the literals it lifted to the collector.)
NothingLeft ==
  stage = "done" /\ ending # "broken" /\ op # "connective" => live \ Callers \subseteq {value}
==============================================================================
