-------------------------- MODULE MCRuntimeStream --------------------------
(***************************************************************************)
(* Streams of up to two frames with two bodies that redaction makes equal, *)
(* one controller, two lost answers of the store and one new broker.       *)
(***************************************************************************)
EXTENDS RuntimeStream

MCBodies   == {"plain", "secret"}
MCRedacted == [b \in MCBodies |-> "plain"]
MCSent     == {f \in Frame : IF f.kind \in Terminal THEN f.body = "plain" ELSE f.seq < MaxSeq}
=============================================================================
