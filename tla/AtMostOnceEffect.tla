-------------------------- MODULE AtMostOnceEffect --------------------------
(***************************************************************************)
(* What the effect ledger promises about one external mutation: one        *)
(* attempt at most is ever told to execute it, one definite verdict at     *)
(* most is ever recorded about it, only after that, and once the record is *)
(* retired nobody is told to execute it any more.                          *)
(***************************************************************************)
CONSTANTS Attempts, Verdicts

VARIABLES executor, verdict, retired

vars == <<executor, verdict, retired>>

Init == executor = {} /\ verdict = {} /\ retired = FALSE

Grant(a) ==
    /\ executor = {} /\ ~retired
    /\ executor' = {a}
    /\ UNCHANGED <<verdict, retired>>

Record(v) ==
    /\ executor # {} /\ verdict = {}
    /\ verdict' = {v}
    /\ UNCHANGED <<executor, retired>>

Retire ==
    /\ verdict # {} /\ ~retired
    /\ retired' = TRUE
    /\ UNCHANGED <<executor, verdict>>

Next ==
    \/ \E a \in Attempts : Grant(a)
    \/ \E v \in Verdicts : Record(v)
    \/ Retire

Spec == Init /\ [][Next]_vars
=============================================================================
