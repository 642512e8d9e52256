------------------------------- MODULE DTypes -------------------------------
(***************************************************************************)
(* A dtype crosses between Racket and Rust as four numbers, which lose the *)
(* name of a zone, the categories of an Enum and the inside of a nested    *)
(* dtype; Racket asks for the first two separately and passes them through *)
(* entry points of their own (rust/src/types/dtype.rs,                     *)
(* polars/private/foreign.rkt:340-387 and 637-699).                        *)
(*                                                                         *)
(* A program holds one series.  It is shown the series' dtype, or writes   *)
(* one itself, and casts, selects, reads or makes a literal with it.       *)
(***************************************************************************)
EXTENDS Naturals, Sequences, SequencesExt

CONSTANTS
  Spellings,  \* what a program may write for a zone
  Zones,      \* the zones of the database, by their canonical names
  Canonical,  \* the zone a spelling names
  NoZone

ASSUME ZonesAssumption ==
  /\ Zones \subseteq DOMAIN Canonical /\ DOMAIN Canonical \subseteq Spellings
  /\ \A name \in DOMAIN Canonical : Canonical[name] \in Zones
  /\ \A zone \in Zones : Canonical[zone] = zone
  /\ NoZone \notin Spellings

VARIABLES
  dtype,  \* of the series
  datum,  \* the dtype the program was shown last, or wrote
  meant,  \* what that dtype is
  done    \* what the program did with it

dtypeVars == <<dtype, datum, meant, done>>

\* `CompatDTypeTag`, in the order of its codes; 0 is Unknown.
Tags == <<"boolean", "uint8", "uint16", "uint32", "uint64", "int8", "int16", "int32", "int64",
          "float32", "float64", "string", "binary", "binary-offset", "date", "datetime",
          "duration", "time", "null", "list", "array", "struct", "categorical", "enum",
          "decimal", "object">>
\* `CompatTimeUnit`; 0 is None.
Units == <<"nanoseconds", "microseconds", "milliseconds">>
Code(names, name) ==
  IF Contains(names, name) THEN CHOOSE code \in DOMAIN names : names[code] = name ELSE 0
Name(names, code, other) == IF code \in DOMAIN names THEN names[code] ELSE other

Nested == {"list", "array", "struct"}
Parameterized == {"datetime", "duration", "enum", "decimal", "array"}
Lifted == ToSet(Tags) \ (Nested \cup {"binary-offset", "enum", "decimal", "object"})

\* A dtype: its constructor, and the unit, the zone, the categories or the
\* numbers of it.  "wide" stands for the integers and floats of 128 and 16 bits.
DType(kind, unit, zone, of) == [kind |-> kind, unit |-> unit, zone |-> zone, of |-> of]
Plain(kind) == DType(kind, "none", NoZone, <<>>)
Datetime(unit, zone) == DType("datetime", unit, zone, <<>>)
Duration(unit) == DType("duration", unit, NoZone, <<>>)
Enum(categories) == DType("enum", "none", NoZone, categories)
Decimal(precision, scale) == DType("decimal", "none", NoZone, <<precision, scale>>)
Array(width) == DType("array", "none", NoZone, <<width>>)
Refused == Plain("refused")

Categories == {<<>>, <<"x">>, <<"x", "y">>, <<"y", "x">>}
PolarsDTypes ==
  {Plain(kind) : kind \in (ToSet(Tags) \ (Parameterized \cup {"object"})) \cup {"wide"}}
    \cup {Datetime(unit, zone) : unit \in ToSet(Units), zone \in Zones \cup {NoZone}}
    \cup {Duration(unit) : unit \in ToSet(Units)}
    \cup {Enum(categories) : categories \in Categories}
    \cup {Decimal(precision, scale) : precision \in {3, 9}, scale \in 0..3}
    \cup {Array(width) : width \in 0..2}

\* What a program may write itself: a unit may be left out, a zone misspelled
\* and a category repeated.
Written ==
  {Plain(kind) : kind \in ToSet(Tags)}
    \cup {Datetime(unit, zone) : unit \in ToSet(Units) \cup {"none"},
                                 zone \in Spellings \cup {NoZone}}
    \cup {Duration(unit) : unit \in ToSet(Units) \cup {"none"}}
    \cup {Enum(categories) : categories \in Categories \cup {<<"x", "x">>}}

\* The type invariant of the module's state.
DTypesTypeOK ==
  /\ dtype \in PolarsDTypes
  /\ datum.kind \in ToSet(Tags) \cup {"unknown"}
  /\ done \in {"nothing", "cast", "read", "literal", "refused", "selected", "passed over"}

-----------------------------------------------------------------------------
(* Rust.                                                                   *)

Compat(tag, unit, zoned, width) ==
  [tag |-> tag, unit |-> unit, zoned |-> zoned, width |-> width]

CompatTemporal(d) == Compat(Code(Tags, d.kind), Code(Units, d.unit), d.zone # NoZone, 0)

\* `compat_dtype_from_polars`.
FromPolars(d) ==
  CASE d.kind \in {"datetime", "duration"} -> CompatTemporal(d)
    [] d.kind = "decimal" -> Compat(Code(Tags, d.kind), d.of[2], FALSE, d.of[1])
    [] d.kind = "array"   -> Compat(Code(Tags, d.kind), 0, FALSE, d.of[1])
    [] OTHER              -> Compat(Code(Tags, d.kind), 0, FALSE, 0)

\* `polars_dtype_from_compat`.
FromCompat(c) ==
  LET kind == Name(Tags, c.tag, "unknown")
      unit == Name(Units, c.unit, "microseconds") IN
  CASE kind = "datetime"        -> Datetime(unit, NoZone)
    [] kind = "duration"        -> Duration(unit)
    [] kind \notin Lifted       -> Refused
    [] OTHER                    -> Plain(kind)

\* Fault: the zone keeps the spelling the program gave.
DatetimeTzSpelled(unit, name) ==
  IF unit \in ToSet(Units) /\ name \in DOMAIN Canonical THEN Datetime(unit, name) ELSE Refused
\* `named_time_zone` and `datetime_tz_dtype`.
DatetimeTz(unit, name) ==
  IF unit \in ToSet(Units) /\ name \in DOMAIN Canonical
  THEN Datetime(unit, Canonical[name]) ELSE Refused

\* `enum_dtype`.
EnumOf(names) == IF IsInjective(names) THEN Enum(names) ELSE Refused

-----------------------------------------------------------------------------
(* Racket.                                                                 *)

\* `compat-dtype->datum`, and `series-dtype`, which asks the series for what
\* the numbers leave out.
Shown(c, series) ==
  LET kind == Name(Tags, c.tag, "unknown") IN
  CASE kind = "datetime" -> Datetime(Name(Units, c.unit, "none"),
                                     IF c.zoned THEN series.zone ELSE NoZone)
    [] kind = "duration" -> Duration(Name(Units, c.unit, "none"))
    [] kind = "enum"     -> Enum(series.of)
    [] kind = "decimal"  -> Decimal(c.width, c.unit)
    [] kind = "array"    -> Array(c.width)
    [] OTHER             -> Plain(kind)

\* Fault: a zoned datetime is taken for a naive one.
ToCompatNaive(d) ==
  IF d.kind \in Lifted \/ d.kind = "datetime" \/ d.kind = "duration"
  THEN Compat(Code(Tags, d.kind), Code(Units, d.unit), FALSE, 0) ELSE Refused
\* `->compat-dtype`: "refused" is an error.  A symbol datetime or duration is
\* one of no unit, in microseconds.
ToCompat(d) ==
  IF d.kind \in Lifted /\ d.zone = NoZone
  THEN Compat(Code(Tags, d.kind), Code(Units, d.unit), FALSE, 0) ELSE Refused

Lift(d) == LET c == ToCompat(d) IN IF c = Refused THEN Refused ELSE FromCompat(c)

IsZoned(d) == d.kind = "datetime" /\ d.unit \in ToSet(Units) /\ d.zone # NoZone

\* `series-cast-to`, `expr-cast-to` and `dtype-col`.
Target(d) ==
  IF d.kind = "enum" /\ IsInjective(d.of) THEN EnumOf(d.of)
  ELSE IF IsZoned(d) THEN DatetimeTz(d.unit, d.zone)
  ELSE Lift(d)

\* A schema override of a reader takes no Enum and no zone.
OverrideTarget(d) == Lift(d)

\* `expr_lit_temporal` and `expr_lit_datetime_tz`.
LiteralTarget(d) ==
  LET target == IF d.zone # NoZone THEN DatetimeTz(d.unit, d.zone) ELSE Lift(d) IN
  IF target.kind \in {"date", "datetime", "duration", "time"} THEN target ELSE Refused

-----------------------------------------------------------------------------
DTypesInit ==
  /\ dtype \in PolarsDTypes
  /\ datum = Shown(FromPolars(dtype), dtype)
  /\ meant = dtype
  /\ done = "nothing"

Show ==
  /\ datum' = Shown(FromPolars(dtype), dtype)
  /\ meant' = dtype
  /\ done' = "nothing" /\ UNCHANGED dtype

\* A written dtype is polars' own default where it leaves something out.
WriteDType ==
  /\ \E d \in Written :
       /\ datum' = d
       /\ meant' = [d EXCEPT !.unit = IF d.kind \in {"datetime", "duration"} /\ @ = "none"
                                      THEN "microseconds" ELSE @,
                             !.zone = IF @ \in DOMAIN Canonical THEN Canonical[@] ELSE @]
  /\ done' = "nothing" /\ UNCHANGED dtype

\* The series afterwards is the result; a refusal leaves the one there was.
Become(target, how) ==
  \/ /\ target # Refused
     /\ dtype' = target /\ done' = how /\ UNCHANGED <<datum, meant>>
  \/ /\ target = Refused
     /\ done' = "refused" /\ UNCHANGED <<dtype, datum, meant>>

CastSeries == Become(Target(datum), "cast")
ReadOverriding == Become(OverrideTarget(datum), "read")
MakeTemporalLiteral == Become(LiteralTarget(datum), "literal")

\* `expr_dtype_col` selects the columns of a dtype: is the series one?
SelectDType ==
  /\ Target(datum) # Refused
  /\ done' = IF dtype = Target(datum) THEN "selected" ELSE "passed over"
  /\ UNCHANGED <<dtype, datum, meant>>

\* `dt.convert_time_zone` and `dt.replace_time_zone`, of a Datetime only; no
\* zone unsets it.
SetZone ==
  /\ dtype.kind = "datetime"
  /\ \E name \in DOMAIN Canonical \cup {NoZone} :
       dtype' = [dtype EXCEPT !.zone = IF name = NoZone THEN NoZone ELSE Canonical[name]]
  /\ done' = "nothing" /\ UNCHANGED <<datum, meant>>

DTypesNext ==
  \/ Show \/ WriteDType
  \/ CastSeries \/ ReadOverriding \/ MakeTemporalLiteral \/ SelectDType \/ SetZone

DTypesSpec == DTypesInit /\ [][DTypesNext]_dtypeVars

-----------------------------------------------------------------------------
\* A dtype a program was shown, or wrote, is the dtype it gets: a cast, an
\* override, a literal and a selection use that dtype, with its unit, zone and
\* categories, or are refused; none of them uses another one
\* (types/dtype.rs:67-280, foreign.rkt:679-699).
DTypesSurvive ==
  /\ done \in {"cast", "read", "literal", "selected"} => dtype = meant
  /\ done = "passed over" => dtype # meant
=============================================================================
