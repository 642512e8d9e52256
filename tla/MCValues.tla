------------------------------ MODULE MCValues ------------------------------
(***************************************************************************)
(* The parts of the library that turn values into other values, with the   *)
(* operators that apply them and the channel by which their native calls   *)
(* fail, checked beside each other: they share no state, so a behaviour    *)
(* runs one of them, and the others stay where they start.                 *)
(***************************************************************************)
EXTENDS SortExprs, RowRanges, StrBlocks, DTypes, Reductions, IntegerOperands,
        ForeignCalls, Operands, TLC

CONSTANTS main, elsewhere, finalizer, worker, side

VARIABLE part

\* Two threads that share one place and a third in a place of its own.
MCPlaces == {main, elsewhere}
MCTasks == {worker, finalizer, side}
MCHome == (worker :> main) @@ (finalizer :> main) @@ (side :> elsewhere)

\* Three characters, of one byte, of the byte that pads, and of two bytes; the
\* strings of at most two of them, and the lists of at most two strings.
MCChars == {<<0>>, <<1>>, <<2, 3>>}
MCStrings == {<<>>} \cup MCChars \cup {c \o d : c, d \in MCChars}
MCTexts == {<<>>} \cup {<<s>> : s \in MCStrings} \cup {<<s, t>> : s, t \in MCStrings}

MCSpellings == {"UTC", "+01:00", "Etc/GMT-1", "Mars"}
MCZones == {"UTC", "Etc/GMT-1"}
MCCanonical == [name \in MCSpellings \ {"Mars"} |-> IF name = "UTC" THEN name ELSE "Etc/GMT-1"]

MCHalf == [bits \in IntBits |-> 2 ^ (bits - 1)]

SortIdle == SortInit
RangesIdle == RangesInit /\ height = 0
BlocksIdle == BlocksInit /\ kind = "list" /\ said = <<>>
DTypesIdle == DTypesInit /\ dtype = Plain("null")
ReductionsIdle ==
  /\ series = [kind |-> "null", cells |-> <<>>] /\ reduction = [op |-> "none", ddof |-> 0]
  /\ told = PolarsNull /\ failed = FALSE

IntsIdle == IntsInit /\ ints = [dtype |-> Int64, cells |-> <<>>]

CallsIdle == CallsInit
OperatorsIdle == OperandsInit /\ op = "connective" /\ args = <<PlainValue, PlainValue>>

Parts == {"sort", "ranges", "blocks", "dtypes", "reductions", "integers", "calls", "operators"}

ValuesInit ==
  /\ part \in Parts
  /\ IF part = "sort" THEN SortInit ELSE SortIdle
  /\ IF part = "ranges" THEN RangesInit ELSE RangesIdle
  /\ IF part = "blocks" THEN BlocksInit ELSE BlocksIdle
  /\ IF part = "dtypes" THEN DTypesInit ELSE DTypesIdle
  /\ IF part = "reductions" THEN ReductionsInit ELSE ReductionsIdle
  /\ IF part = "integers" THEN IntsInit ELSE IntsIdle
  /\ IF part = "calls" THEN CallsInit ELSE CallsIdle
  /\ IF part = "operators" THEN OperandsInit ELSE OperatorsIdle

\* The parts that a behaviour does not run stay where they start.
OthersStill ==
  /\ UNCHANGED part
  /\ IF part = "sort" THEN TRUE ELSE UNCHANGED sortVars
  /\ IF part = "ranges" THEN TRUE ELSE UNCHANGED rangeVars
  /\ IF part = "blocks" THEN TRUE ELSE UNCHANGED blockVars
  /\ IF part = "dtypes" THEN TRUE ELSE UNCHANGED dtypeVars
  /\ IF part = "reductions" THEN TRUE ELSE UNCHANGED redVars
  /\ IF part = "integers" THEN TRUE ELSE UNCHANGED intVars
  /\ IF part = "calls" THEN TRUE ELSE UNCHANGED callVars
  /\ IF part = "operators" THEN TRUE ELSE UNCHANGED operandVars

ValuesNext ==
  /\ OthersStill
  /\ \/ part = "sort" /\ SortNext
     \/ part = "ranges" /\ RangesNext
     \/ part = "blocks" /\ BlocksNext
     \/ part = "dtypes" /\ DTypesNext
     \/ part = "reductions" /\ ReductionsNext
     \/ part = "integers" /\ IntsNext
     \/ part = "calls" /\ CallsNext
     \/ part = "operators" /\ OperandsNext

\* The type invariants of the parts.
ValuesTypeOK ==
  /\ SortTypeOK /\ RangesTypeOK /\ BlocksTypeOK /\ DTypesTypeOK
  /\ ReductionsTypeOK /\ IntsTypeOK /\ CallsTypeOK

ValuesSpec ==
  /\ ValuesInit
  /\ [][ValuesNext]_<<part, sortVars, rangeVars, blockVars, dtypeVars, redVars, intVars,
                     callVars, operandVars>>
=============================================================================
