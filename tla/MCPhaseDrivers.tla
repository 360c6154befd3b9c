--------------------------- MODULE MCPhaseDrivers ---------------------------
(***************************************************************************)
(* An overlapping pair of leaders, with and without critic and attester.   *)
(***************************************************************************)
EXTENDS PhaseDrivers

MCConfigs == {[critic |-> FALSE, attester |-> TRUE], [critic |-> TRUE, attester |-> FALSE]}

MCPlain == {[critic |-> FALSE, attester |-> FALSE]}

MCForeign == {"captureJob", "capturePolicy", "verifyChild", "criticPolicy", "criticJob"}
=============================================================================
