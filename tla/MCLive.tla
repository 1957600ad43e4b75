-------------------------------- MODULE MCLive --------------------------------
(* Values for the constants of LiveBus. *)
EXTENDS LiveBus

MCSockets == {"browser"}
MCOpcUa == {"opcua"}
MCModbus == {"modbus"}

\* Two tags in neighbouring registers.
MCTags == {"t", "u"}
MCType == [t \in MCTags |-> IF t = "t" THEN "float" ELSE "int"]
MCPosition == [t \in MCTags |-> IF t = "t" THEN 1 ELSE 2]
=============================================================================
