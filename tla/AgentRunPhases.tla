-------------------------- MODULE AgentRunPhases --------------------------
(***************************************************************************)
(* What an AgentRun promises whoever watches its status, whatever the      *)
(* controller does underneath: the phase moves only along the table of     *)
(* v3/internal/fsm/agentrun.go, a terminal phase is never left, and the    *)
(* digest of the resolved execution contract is chosen at most once.       *)
(***************************************************************************)
CONSTANTS Digests, NoDigest

VARIABLES phase, digest

pvars == <<phase, digest>>

Active == {"Pending", "Cloning", "Working", "Capturing", "Verifying", "Gated", "Publishing"}

Terminal == {"Succeeded", "Rejected", "Failed", "Cancelled", "UnknownEffect"}

Phases == Active \cup Terminal \cup {""}

(***************************************************************************)
(* The transition table.  An active phase may always end as Failed,        *)
(* Cancelled or UnknownEffect.                                             *)
(***************************************************************************)
Pipeline ==
    [ Pending    |-> {"Cloning"},
      Cloning    |-> {"Working"},
      Working    |-> {"Capturing"},
      Capturing  |-> {"Verifying"},
      Verifying  |-> {"Gated", "Rejected"},
      Gated      |-> {"Publishing", "Rejected", "Succeeded"},
      Publishing |-> {"Succeeded", "Rejected"} ]

Transitions(p) ==
    IF p \in Active THEN Pipeline[p] \cup {"Failed", "Cancelled", "UnknownEffect"} ELSE {}

(***************************************************************************)
(* A run without a phase first becomes Pending; the same status write may  *)
(* already fail or cancel it.                                              *)
(***************************************************************************)
Successors(p) == IF p = "" THEN {"Pending", "Failed", "Cancelled"} ELSE Transitions(p)

Init == phase = "" /\ digest = NoDigest

\* The execution lock: one resolution is chosen while the run is Pending.
Lock ==
    /\ digest = NoDigest
    /\ phase \in {"", "Pending"}
    /\ phase' = "Pending"
    /\ digest' \in Digests

Advance ==
    /\ phase' \in Successors(phase)
    /\ phase' \in {"Pending"} \cup Terminal \/ digest # NoDigest
    /\ UNCHANGED digest

Next == Lock \/ Advance

Spec == Init /\ [][Next]_pvars
============================================================================
