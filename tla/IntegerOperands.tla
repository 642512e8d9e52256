-------------------------- MODULE IntegerOperands --------------------------
(***************************************************************************)
(* An integer of Racket beside a series of integers, in an operator.  One  *)
(* within the series' range becomes a series of its dtype.  One past it is *)
(* a literal of the operator's expression form, whose dtype polars widens  *)
(* by the literal and whose arithmetic wraps, so the result is only given  *)
(* out when it did not.  That is told by the least and the greatest        *)
(* element of the series, and for a quotient by whether a -1 is among them *)
(* (polars/private/generic/operands.rkt).                                  *)
(***************************************************************************)
EXTENDS Integers, SequencesExt

CONSTANTS
  IntBits,  \* the widths of integers
  LitBits,  \* the greatest of them
  Half,     \* by width, half as many as its values: 2 ^ (bits - 1)
  MaxInts,  \* elements of a series
  Missing   \* a null element

ASSUME IntsAssumption ==
  /\ IntBits \subseteq Nat \ {0} /\ LitBits \in IntBits /\ \A b \in IntBits : b <= LitBits
  /\ Half \in [IntBits -> Nat \ {0}]
  /\ \A b, c \in IntBits : b < c => 2 * Half[b] <= Half[c]
  /\ MaxInts \in Nat /\ Missing \notin Int

VARIABLES
  ints,    \* the series: its dtype and its cells
  applied, \* the operator, the integer, and the side it is on
  answer   \* what the operator gave

intVars == <<ints, applied, answer>>

IntType(signed, bits) == [signed |-> signed, bits |-> bits]
IntTypes == {IntType(signed, bits) : signed \in BOOLEAN, bits \in IntBits}
Int64 == IntType(TRUE, LitBits)
UInt64 == IntType(FALSE, LitBits)

\* `integer-ranges`.
IntRange(t) ==
  IF t.signed THEN -Half[t.bits] .. Half[t.bits] - 1 ELSE 0 .. 2 * Half[t.bits] - 1
Lowest(t) == IF t.signed THEN -Half[t.bits] ELSE 0

IntOps == {"add", "sub", "mul", "div", "mod"}
Given(is, t, cells) == [is |-> is, dtype |-> t, cells |-> cells]
TooBig(t) == Given("too big", t, <<>>)

\* The type invariant of the module's state.
IntsTypeOK ==
  /\ ints.dtype \in IntTypes
  /\ ints.cells \in SeqOf(IntRange(ints.dtype) \cup {Missing}, MaxInts)
  /\ applied.op \in IntOps \cup {"none"} /\ applied.side \in {"left", "right"}
  /\ answer.is \in {"none", "operand", "series", "too big", "refused", "unsaid"}
  /\ answer.is \in {"operand", "series"} => ToSet(answer.cells) \subseteq IntRange(answer.dtype) \cup {Missing}

-----------------------------------------------------------------------------
(* polars.                                                                 *)

FloorDiv(x, y) == IF y > 0 THEN x \div y ELSE (-x) \div (-y)
\* The exact result; there is none of a division by zero.
Exact(op, x, y) ==
  CASE op = "add"                      -> x + y
    [] op = "sub"                      -> x - y
    [] op = "mul"                      -> x * y
    [] op \in {"div", "mod"} /\ y = 0  -> Missing
    [] op = "div" /\ y # 0             -> FloorDiv(x, y)
    [] op = "mod" /\ y # 0             -> x - y * FloorDiv(x, y)

WrapInto(t, n) ==
  IF n = Missing THEN n ELSE Lowest(t) + ((n - Lowest(t)) % (2 * Half[t.bits]))

\* The dtype of the expression form: the narrowest for the series and the literal.
Wide(t, v) ==
  {w \in IntTypes : w.signed = (t.signed \/ v < 0) /\ IntRange(t) \cup {v} \subseteq IntRange(w)}
Widened(t, v) == CHOOSE w \in Wide(t, v) : \A u \in Wide(t, v) : w.bits <= u.bits

-----------------------------------------------------------------------------
(* The library.                                                            *)

\* `operand-class`, of an exact integer.
IntegerClass(t, v) ==
  CASE v \in IntRange(t)                                           -> "integer"
    [] v \in IntRange(Int64) \ IntRange(t) /\ (t.signed \/ v >= 0) -> "wide-integer"
    [] v \in IntRange(Int64) /\ ~t.signed /\ v < 0                 -> "negative-integer"
    [] v \in IntRange(UInt64) \ (IntRange(Int64) \cup IntRange(t)) -> "past-int64"
    [] OTHER                                                       -> "other"

\* `operand-action`, by the rules of `operand-rules` for a series of integers.
IntegerAction(op, class, side) ==
  CASE class = "integer"                                          -> "same"
    [] class = "wide-integer" /\ op \in {"add", "sub", "mul"}      -> "checked-expression"
    [] class = "wide-integer" /\ op = "div" /\ side = "left"       -> "checked-quotient"
    [] class = "wide-integer" /\ (op = "mod" \/ (op = "div" /\ side = "right")) -> "expression"
    [] class = "negative-integer" /\ op = "div"                    -> "expression"
    [] OTHER                                                       -> "refuse"

OnSide(side, op, x, v) ==
  IF x = Missing THEN x ELSE IF side = "right" THEN Exact(op, x, v) ELSE Exact(op, v, x)
Rows(op, v, side, into) ==
  [i \in DOMAIN ints.cells |-> WrapInto(into, OnSide(side, op, ints.cells[i], v))]

\* `const-series`: what the operator of two series is given.
ConstSeries(v) == [i \in DOMAIN ints.cells |-> v]

\* `series-extremes`: nulls of a series that has no element that is not one.
SeriesExtremes ==
  LET present == ToSet(ints.cells) \ {Missing} IN
  IF present = {} THEN {} ELSE {Min(present), Max(present)}
HoldsMinusOne == -1 \in ToSet(ints.cells) \ {Missing}

\* Fault: the greatest element alone is looked at.
OverflowsByMax(action, op, v, side, t) ==
  CASE action = "checked-expression" ->
         \E x \in SeriesExtremes : (\A y \in SeriesExtremes : y <= x) /\ OnSide(side, op, x, v) \notin IntRange(t)
    [] action = "checked-quotient" -> v = Lowest(t) /\ HoldsMinusOne
    [] OTHER -> FALSE
\* Fault: a quotient is taken never to leave the dtype.
OverflowsNoQuotient(action, op, v, side, t) ==
  /\ action = "checked-expression"
  /\ \E x \in SeriesExtremes : OnSide(side, op, x, v) \notin IntRange(t)
\* `fitting-result`.
Overflows(action, op, v, side, t) ==
  CASE action = "checked-expression" ->
         \E x \in SeriesExtremes : OnSide(side, op, x, v) \notin IntRange(t)
    [] action = "checked-quotient" -> v = Lowest(t) /\ HoldsMinusOne
    [] OTHER -> FALSE

\* `expression-form-op`.  What polars casts a UInt64 to beside a negative literal,
\* which no dtype holds with it, is left unsaid.
ExpressionForm(action, op, v, side) ==
  LET t == Widened(ints.dtype, v) IN
  IF Wide(ints.dtype, v) = {} THEN Given("unsaid", Int64, <<>>)
  ELSE IF Overflows(action, op, v, side, t) THEN TooBig(t)
  ELSE Given("series", t, Rows(op, v, side, t))

-----------------------------------------------------------------------------
IntsInit ==
  /\ \E t \in IntTypes : \E cells \in SeqOf(IntRange(t) \cup {Missing}, MaxInts) :
       ints = [dtype |-> t, cells |-> cells]
  /\ applied = [op |-> "none", value |-> 0, side |-> "right"]
  /\ answer = Given("none", ints.dtype, <<>>)

\* An operator with the integer on either side.
ApplyInteger(op, v, side) ==
  LET action == IntegerAction(op, IntegerClass(ints.dtype, v), side) IN
  /\ applied' = [op |-> op, value |-> v, side |-> side]
  /\ answer' =
       CASE action = "refuse" -> Given("refused", ints.dtype, <<>>)
         [] action = "same"   -> Given("operand", ints.dtype, ConstSeries(v))
         [] OTHER             -> ExpressionForm(action, op, v, side)
  /\ UNCHANGED ints

IntsNext ==
  \E op \in IntOps, side \in {"left", "right"}, v \in Lowest(Int64) - 1 .. 2 * Half[LitBits] :
    applied.op = "none" /\ ApplyInteger(op, v, side)

IntsSpec == IntsInit /\ [][IntsNext]_intVars

-----------------------------------------------------------------------------
\* Beside an integer past its dtype's range a series is answered with the exact
\* result of every row, or refused when one of them is outside the dtype of the
\* expression form, and in no other case: a row that wrapped is never given out,
\* nor a request refused for what no row needs (operands.rkt:371-407,
\* scribblings/reference.scrbl:2285-2289).
IntegersFit ==
  applied.op # "none" /\ IntegerClass(ints.dtype, applied.value) = "wide-integer" =>
    LET t == Widened(ints.dtype, applied.value)
        exact == [i \in DOMAIN ints.cells |->
                    OnSide(applied.side, applied.op, ints.cells[i], applied.value)] IN
    answer = IF \E i \in DOMAIN exact : exact[i] \notin IntRange(t) \cup {Missing}
             THEN TooBig(t) ELSE Given("series", t, exact)
=============================================================================
