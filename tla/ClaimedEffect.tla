--------------------------- MODULE ClaimedEffect ---------------------------
(***************************************************************************)
(* What an external effect guarded by a ledger claim promises, whoever     *)
(* performs it.  It takes place at most once and only under a claim, a     *)
(* claim has one outcome at most, and success is recorded only of an       *)
(* effect that took place.  An effect whose outcome is unknown may still   *)
(* take place; one that is recorded as failed may not.                     *)
(***************************************************************************)
VARIABLES
    ledger,  \* "none", "claimed" or the recorded outcome
    done     \* the effect has taken place

vars == <<ledger, done>>

Init == ledger = "none" /\ ~done

Claim ==
    /\ ledger = "none"
    /\ ledger' = "claimed"
    /\ UNCHANGED done

Perform ==
    /\ ledger \in {"claimed", "unknown"} /\ ~done
    /\ done' = TRUE
    /\ UNCHANGED ledger

Record(outcome) ==
    /\ ledger = "claimed"
    /\ outcome = "succeeded" => done
    /\ ledger' = outcome
    /\ UNCHANGED done

Next ==
    \/ Claim
    \/ Perform
    \/ \E outcome \in {"succeeded", "failed", "unknown"} : Record(outcome)

Spec == Init /\ [][Next]_vars
=============================================================================
