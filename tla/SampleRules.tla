----------------------------- MODULE SampleRules -----------------------------
(***************************************************************************)
(* The pure rules the ingest consumer applies to one sample                *)
(* (app/ingest/pipeline.py): type coercion, alarm conditions and the       *)
(* deadband.                                                               *)
(*                                                                         *)
(* A value is a record [kind, n].  Numbers are kept in tenths, so that     *)
(* truncation to an integer is visible:                                    *)
(*   "number"  a Python number or bool (True is 10 tenths)                 *)
(*   "nan", "inf"  the float values JSON and registers can also hold       *)
(*   "digits"  text that parses as the number n                            *)
(*   "text"    text (or another object) that does not parse                *)
(*   "null"    None                                                        *)
(***************************************************************************)
EXTENDS Integers

CONSTANT DefaultDeadband   \* retention.default_deadband_percent

ASSUME DefaultDeadbandAssumption == DefaultDeadband \in Int

Kinds == {"number", "nan", "inf", "digits", "text", "null"}
Value == [kind : Kinds, n : Int]
Null == [kind |-> "null", n |-> 0]
Number(n) == [kind |-> "number", n |-> n]

DataType == {"float", "int", "bool", "string"}
Condition == {"high", "high_high", "low", "low_low",
              "digital_true", "digital_false", "bad_quality"}
Quality == {"good", "uncertain", "bad"}

\* A tag's definition.  span is max_value - min_value, 0 when either is missing;
\* a deadband the tag does not set is Unset.
Unset == -1
TagMeta == [type : DataType, span : Int, deadband : Int, archive : BOOLEAN]
AlarmDef == [tag : STRING, condition : Condition, setpoint : Value]

-----------------------------------------------------------------------------
(* Coercion to the tag's declared type.                                     *)

Truncated(n) == IF n >= 0 THEN 10 * (n \div 10) ELSE -10 * ((-n) \div 10)

\* float(value) succeeds
ParsesAsFloat(v) == v.kind \in {"number", "nan", "inf", "digits"}

\* int(value) succeeds; int("2.5") is a ValueError, int(2.5) is not
ParsesAsInt(v) == v.kind = "number" \/ (v.kind = "digits" /\ v.n % 10 = 0)

\* int(inf) is an OverflowError, which _coerce does not catch
CoerceRaises(v, type) == type = "int" /\ v.kind = "inf"

\* value_float
FloatOf(v, type) ==
  IF type = "float" /\ ParsesAsFloat(v)
  THEN [kind |-> IF v.kind = "digits" THEN "number" ELSE v.kind, n |-> v.n]
  ELSE IF type = "int" /\ ParsesAsInt(v) THEN Number(Truncated(v.n)) ELSE Null

-----------------------------------------------------------------------------
(* Alarm conditions over the coerced value.                                 *)

Above(x, limit) == x.kind = "inf" \/ (x.kind = "number" /\ x.n > limit.n)
Below(x, limit) == x.kind = "number" /\ x.n < limit.n
Truthy(x) == x.kind # "number" \/ x.n # 0

AlarmConditionMet(def, float, quality) ==
  \/ /\ def.condition = "bad_quality"
     /\ quality = "bad"
  \/ /\ float # Null
     /\ def.setpoint # Null
     /\ \/ def.condition \in {"high", "high_high"} /\ Above(float, def.setpoint)
        \/ def.condition \in {"low", "low_low"} /\ Below(float, def.setpoint)
        \/ def.condition = "digital_true" /\ Truthy(float)
        \/ def.condition = "digital_false" /\ ~ Truthy(float)

-----------------------------------------------------------------------------
(* The deadband: a value closer than deadband % of the engineering range to *)
(* the last archived one is not archived.                                   *)

Distance(x, y) == IF x >= y THEN x - y ELSE y - x
Percent(meta) == IF meta.deadband = Unset THEN DefaultDeadband ELSE meta.deadband

\* _within_deadband gets as far as the subtraction
Compares(meta, float, last) ==
  /\ float # Null
  /\ meta.span > 0
  /\ Percent(meta) # 0
  /\ last # Null

\* float - str is a TypeError
DeadbandRaises(meta, float, last) ==
  Compares(meta, float, last) /\ last.kind \in {"text", "digits"}

WithinDeadband(meta, float, last) ==
  /\ Compares(meta, float, last)
  /\ float.kind = "number" /\ last.kind = "number"
  /\ 100 * Distance(float.n, last.n) < meta.span * Percent(meta)

\* What _last_value keeps of an archived sample.
Remembered(v, float) == IF float # Null THEN float ELSE v

=============================================================================
