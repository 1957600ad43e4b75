------------------------------- MODULE MCIngest -------------------------------
(* Values for the constants of IngestPipeline. *)
EXTENDS IngestPipeline

\* One analogue tag, range 0..10, 10 % deadband: a threshold of one unit.
Analogue == [type |-> "float", span |-> 100, deadband |-> 10, archive |-> TRUE]
High(limit) == [tag |-> "t", condition |-> "high", setpoint |-> Number(limit)]
BadQuality == [tag |-> "t", condition |-> "bad_quality", setpoint |-> Null]

Reading(v, q) == [tag |-> "t", value |-> v, quality |-> q]

MCTags == {"t"}
MCAlarms == {1, 2}

\* Readings 0.6 apart: the second is inside the deadband of the first, the third is
\* not, and it is over the limit; one is bad, and one is of a tag nobody configured.
MCInputs == {Reading(Number(0), "good"), Reading(Number(6), "good"),
             Reading(Number(12), "good"), Reading(Number(12), "bad"),
             [tag |-> "x", value |-> Number(0), quality |-> "good"]}

OneTag == [tags |-> [t \in {"t"} |-> Analogue],
           alarms |-> [a \in {1, 2} |-> IF a = 1 THEN High(8) ELSE BadQuality]]

\* The same connectors reporting a device that answers text now and then.
TextInputs == {Reading(Number(0), "good"), Reading([kind |-> "text", n |-> 0], "good")}

\* A second tag, of text, that is not archived: archive_enabled is a column no file sets.
Text == [type |-> "string", span |-> 0, deadband |-> Unset, archive |-> FALSE]
TwoTags == [OneTag EXCEPT !.tags = [t \in {"t", "u"} |-> IF t = "t" THEN Analogue ELSE Text]]

\* Edited files: another limit for alarm 1; or no deadband, another type for the second
\* tag and an alarm on it.
NewLimit == [OneTag EXCEPT !.alarms = [a \in {1} |-> High(-4)]]
NewType == [tags |-> [t \in {"t", "u"} |-> IF t = "t" THEN [Analogue EXCEPT !.deadband = 0]
                                          ELSE [Text EXCEPT !.type = "int"]],
            alarms |-> [a \in {3} |-> [BadQuality EXCEPT !.tag = "u"]]]
Edits == {NewLimit, NewType}

ReloadTags == {"t", "u"}
ReloadAlarms == {1, 2, 3}
Infinity == [kind |-> "inf", n |-> 0]
ReloadInputs == {Reading(Number(0), "good"), Reading(Number(12), "bad"),
                 Reading([kind |-> "text", n |-> 0], "good"),
                 [Reading(Infinity, "bad") EXCEPT !.tag = "u"]}
=============================================================================
