----------------------------- MODULE MCConnectors -----------------------------
(* A connection with three tags; over HTTP two of them share a path.          *)
EXTENDS Connectors

ThreeTags == <<"t1", "t2", "t3">>
OpcUaOnly == {"opcua"}
TwoPaths == <<{"t1", "t3"}, {"t2"}>>
=============================================================================
