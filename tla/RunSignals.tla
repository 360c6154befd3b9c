------------------------------ MODULE RunSignals ------------------------------
(***************************************************************************)
(* v2 control plane: cancel, approval and reply commands of one run.  A    *)
(* command is claimed under its idempotency key for the length of a lease, *)
(* handed to the engine and then acknowledged; callers send theirs again   *)
(* until the answer is final.  A handler may stop between any two calls.   *)
(*                                                                         *)
(* Both stores behave alike here: a claim is one transaction.  A           *)
(* fingerprint stands for all fields of a command.  The claim token is     *)
(* fresh in every attempt; it is the caller and whether this is its        *)
(* current attempt.  The events of a command are left out, except that     *)
(* failing to write one ends the attempt.                                  *)
(***************************************************************************)
EXTENDS Integers, FiniteSets

CONSTANTS
    Callers,
    Keys,               \* idempotency keys
    MaxFaults,          \* bound: attempts that are cut off
    MaxExpiries         \* bound: leases that run out while somebody still holds them

VARIABLES
    engine,     \* "local" or "temporal"
    status,     \* of the run: "Running", "Cancelled" or "Succeeded"
    claim,      \* run_signal_claims, by key
    caller,     \* per caller: its command and how far the attempt got
    delivered,  \* history: what the engine took, per key and fingerprint
    expired,    \* history: leases that ran out, per key
    faults

vars == <<engine, status, claim, caller, delivered, expired, faults>>

\* Fingerprints: of a cancel command and of another command.
Cancel == 1
Prints == {Cancel, 2}
NoClaim == [state |-> "none", print |-> 0, owner |-> "", live |-> FALSE]
Stages == {"idle", "owner", "delivered", "accepted", "done", "refused"}

TypeOK ==
    /\ engine \in {"local", "temporal"}
    /\ status \in {"Running", "Cancelled", "Succeeded"}
    /\ claim \in [Keys -> [state : {"none", "pending", "accepted"}, print : Prints \cup {0},
                           owner : Callers \cup {""}, live : BOOLEAN]]
    /\ caller \in [Callers -> [key : Keys, print : Prints, at : Stages]]
    /\ delivered \in [Keys -> [Prints -> Nat]]
    /\ expired \in [Keys -> Nat] /\ faults \in 0..MaxFaults

----------------------------------------------------------------------------
Key(c) == caller[c].key
Goes(c, stage) == caller' = [caller EXCEPT ![c].at = stage]
Pending(c) == [state |-> "pending", print |-> caller[c].print, owner |-> c, live |-> TRUE]

\* The key was used for another command.
Conflicts(k, print) == claim[k].state # "none" /\ claim[k].print # print

\* A claim can be taken when there is none, or when its lease has run out.
Claimable(k) == claim[k].state = "none" \/ (claim[k].state = "pending" /\ ~claim[k].live)

\* handleRunSignal up to the claim: a run that is over takes no command, except that
\* cancelling a cancelled run is confirmed; an accepted command is confirmed; a command in
\* flight is refused for now and changes nothing.
ClaimRunSignal(c) ==
    LET k == Key(c) IN
    /\ caller[c].at = "idle"
    /\ \/ /\ status # "Running" /\ UNCHANGED claim
          /\ Goes(c, IF status = "Cancelled" /\ caller[c].print = Cancel THEN "done" ELSE "refused")
       \/ /\ status = "Running" /\ Conflicts(k, caller[c].print)
          /\ Goes(c, "refused") /\ UNCHANGED claim
       \/ /\ status = "Running" /\ ~Conflicts(k, caller[c].print) /\ claim[k].state = "accepted"
          /\ Goes(c, "done") /\ UNCHANGED claim
       \/ /\ status = "Running" /\ ~Conflicts(k, caller[c].print) /\ Claimable(k)
          /\ claim' = [claim EXCEPT ![k] = Pending(c)]
          /\ Goes(c, "owner")
    /\ UNCHANGED <<engine, status, delivered, expired, faults>>

Total(k) == delivered[k][1] + delivered[k][2]

\* What the engine keeps: the local one stores a key once, Temporal appends every signal.
Takes(k, print) ==
    delivered' = IF engine = "local" /\ Total(k) > 0 THEN delivered
                 ELSE [delivered EXCEPT ![k][print] = @ + 1]

\* SignalRun of the engine.  Temporal has no execution to signal once the run is over; a
\* key the local engine stored with another payload is a conflict.  Both are errors.
SignalRun(c) ==
    LET k == Key(c)
        gone == engine = "temporal" /\ status # "Running"
        reused == engine = "local" /\ Total(k) > 0 /\ delivered[k][caller[c].print] = 0 IN
    /\ caller[c].at = "owner"
    /\ \/ /\ gone /\ Goes(c, "refused") /\ UNCHANGED delivered
       \/ /\ ~gone /\ reused /\ Goes(c, "idle") /\ UNCHANGED delivered
       \/ /\ ~gone /\ ~reused /\ Goes(c, "delivered") /\ Takes(k, caller[c].print)
    /\ UNCHANGED <<engine, status, claim, expired, faults>>

MutantMayAccept(c) == TRUE

\* Only the owner of the claim, or anyone after it was accepted.
MayAccept(c) == claim[Key(c)].state = "accepted" \/ claim[Key(c)].owner = c

AcceptRunSignal(c) ==
    /\ caller[c].at = "delivered"
    /\ \/ /\ MayAccept(c)
          /\ claim' = [claim EXCEPT ![Key(c)].state = "accepted"]
          /\ Goes(c, "accepted")
       \/ /\ ~MayAccept(c) /\ Goes(c, "idle") /\ UNCHANGED claim
    /\ UNCHANGED <<engine, status, delivered, expired, faults>>

\* The last event is written and the caller told (202).
Answer(c) ==
    /\ caller[c].at = "accepted" /\ Goes(c, "done")
    /\ UNCHANGED <<engine, status, claim, delivered, expired, faults>>

\* An attempt ends early: a failed call or event, a lost connection, a server that stops.
\* The engine may have taken the command and the store the acknowledgement all the same.
\* Nobody holds the token of that attempt any more.
CutOff(c) ==
    LET k == Key(c)
        orphaned(s) == [claim EXCEPT ![k] = IF @.owner = c THEN [@ EXCEPT !.owner = "", !.state = s] ELSE @] IN
    /\ caller[c].at \in {"owner", "delivered", "accepted"} /\ faults < MaxFaults
    /\ faults' = faults + 1
    /\ Goes(c, "idle")
    /\ \/ claim' = orphaned(claim[k].state) /\ UNCHANGED delivered
       \/ /\ caller[c].at = "owner" /\ ~(engine = "temporal" /\ status # "Running")
          /\ Takes(k, caller[c].print) /\ claim' = orphaned(claim[k].state)
       \/ /\ caller[c].at = "delivered" /\ claim[k].owner = c
          /\ claim' = orphaned("accepted") /\ UNCHANGED delivered
    /\ UNCHANGED <<engine, status, expired>>

\* Thirty seconds pass.  A lease whose attempt has ended runs out in any case.
LeaseExpires(k) ==
    /\ claim[k].state = "pending" /\ claim[k].live
    /\ (claim[k].owner # "" /\ caller[claim[k].owner].at \in {"owner", "delivered"})
           => expired[k] < MaxExpiries
    /\ claim' = [claim EXCEPT ![k].live = FALSE]
    /\ expired' = [expired EXCEPT ![k] = @ + 1]
    /\ UNCHANGED <<engine, status, caller, delivered, faults>>

\* The engine ends the run; a cancelled run has taken a cancel command.
RunEnds ==
    /\ status = "Running"
    /\ \/ status' = "Succeeded"
       \/ (\E k \in Keys : delivered[k][Cancel] > 0) /\ status' = "Cancelled"
    /\ UNCHANGED <<engine, claim, caller, delivered, expired, faults>>

Init ==
    /\ engine \in {"local", "temporal"} /\ status = "Running"
    /\ claim = [k \in Keys |-> NoClaim]
    /\ caller \in [Callers -> [key : Keys, print : Prints, at : {"idle"}]]
    /\ delivered = [k \in Keys |-> [p \in Prints |-> 0]]
    /\ expired = [k \in Keys |-> 0] /\ faults = 0

Attempt(c) == ClaimRunSignal(c) \/ SignalRun(c) \/ AcceptRunSignal(c) \/ Answer(c)

Next ==
    \/ \E c \in Callers : Attempt(c) \/ CutOff(c)
    \/ \E k \in Keys : LeaseExpires(k)
    \/ RunEnds

----------------------------------------------------------------------------
\* One key means one command: whatever is sent again or at the same time, the engine takes
\* a single fingerprint under a key.
OneMeaningPerKey ==
    \A k \in Keys : Cardinality({p \in Prints : delivered[k][p] > 0}) <= 1

\* A caller is told 2xx only when its command reached the engine under its key, or the run
\* it wanted cancelled is cancelled.
ToldIsDelivered ==
    \A c \in Callers : caller[c].at = "done" =>
        \/ delivered[Key(c)][caller[c].print] > 0
        \/ status = "Cancelled" /\ caller[c].print = Cancel

\* The engine takes a command again only after a lease ran out in the meantime, and the
\* local engine never does.
RepeatsAreBounded ==
    \A k \in Keys : Total(k) <= IF engine = "local" THEN 1 ELSE 1 + expired[k]

\* An attempt that lost its claim to another one does not acknowledge for it: while a
\* caller owns a live claim, only that caller's delivery turns it into an accepted one.
OwnerAcceptsStep ==
    \A k \in Keys : claim[k].state = "pending" /\ claim'[k].state = "accepted" =>
        claim[k].owner # "" /\ caller[claim[k].owner].at = "delivered"

\* A caller with its final answer.
Answered(c) == caller[c].at \in {"done", "refused"}
=============================================================================
