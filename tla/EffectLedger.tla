---------------------------- MODULE EffectLedger ----------------------------
(***************************************************************************)
(* The durable effect ledger of v3/internal/effects/ledger.go together     *)
(* with the retirement of a ledger pair by v3/internal/retention.          *)
(*                                                                         *)
(* One effect key is modelled; keys never share an object.  The ledger     *)
(* lives in three objects of the object store, claims/<key>,               *)
(* outcomes/<key> and tombstones/<key>.  Claim and Commit are sequences of *)
(* separate object-store requests, so each request is a step of its own    *)
(* and the requests of all callers and reapers interleave.                 *)
(*                                                                         *)
(* A caller is one goroutine that goes through Claim and, if it is granted *)
(* execution, through Commit: publish.Publisher.Publish or                 *)
(* broker.CallTool.  Callers crash at any step and start over with a new   *)
(* attempt.  A request that fails is ambiguous: it had an effect, or none, *)
(* or it is still under way and takes effect later.                        *)
(***************************************************************************)
EXTENDS Naturals, FiniteSets

CONSTANTS
    Callers,      \* goroutines that use the ledger
    Digests,      \* request digests a caller may present for this key
    Reapers,      \* retention controllers (leader election may overlap)
    MaxAttempts,  \* bound: ledger transactions one caller starts
    MaxLate,      \* bound: requests under way after their sender gave up
    Absent        \* no object under the key

Definite == {"succeeded", "failed"}
States   == Definite \cup {"unknown"}

\* An attempt is one ledger transaction of one caller.
Attempts == Callers \X (1..MaxAttempts)

\* Object bodies.  CreatedAt and RecordedAt make the body, hence the ETag, of
\* every attempt distinct; "by" stands for them.
ClaimBody   == [digest : Digests, by : Attempts]
OutcomeBody == [digest : Digests, state : States, by : Attempts]
Fence       == [digest : Digests, state : Definite]

ASSUME BoundsAssumption == MaxAttempts \in Nat \ {0} /\ MaxLate \in Nat
ASSUME AbsentAssumption == Absent \notin ClaimBody \cup OutcomeBody \cup Fence

VARIABLES
    claim, outcome, tomb,   \* the three objects
    late,                   \* requests that may still take effect
    pc, att, req,           \* per caller: step, attempt number, digest
    saw, wr, ret,           \* per caller: outcome read, outcome to record, answer
    rpc, rlist, rfence, rsaw, \* per reaper: step, listed ETags, fence, TombstoneExists
    granted,                \* history: attempts told Execute
    recorded                \* history: outcome bodies that became durable

store   == <<claim, outcome, tomb, late>>
caller  == <<pc, att, req, saw, wr, ret>>
reaper  == <<rpc, rlist, rfence, rsaw>>
history == <<granted, recorded>>
vars    == <<claim, outcome, tomb, late, pc, att, req, saw, wr, ret,
             rpc, rlist, rfence, rsaw, granted, recorded>>

TombReads   == {"claim.tomb1", "claim.tomb2", "claim.tomb3", "claim.tomb4"}
ClaimReads  == TombReads \cup {"claim.read", "claim.outcome"}
CommitTombs == {"commit.tomb1", "commit.tomb2", "commit.tomb3"}
CommitReads == CommitTombs \cup {"commit.claim", "commit.compare"}
CommitSteps == CommitReads \cup {"commit.create"}
Steps       == {"idle", "claim.create", "decided", "granted", "committed"}
                 \cup ClaimReads \cup CommitSteps
Answers     == {"none", "unknown", "conflict", "error", "replay", "ok"}
ReapSteps   == {"idle", "read", "fence", "delOutcome", "delClaim"}

Late == [claims : SUBSET ClaimBody, outcomes : SUBSET OutcomeBody,
         tombs : SUBSET Fence, claimDels : SUBSET ClaimBody,
         outcomeDels : SUBSET OutcomeBody]

Attempt(c) == <<c, att[c]>>
MyClaim(c) == [digest |-> req[c], by |-> Attempt(c)]
MyOutcome(c) == [digest |-> req[c], state |-> wr[c], by |-> Attempt(c)]

LateRoom ==
    Cardinality(late.claims) + Cardinality(late.outcomes)
      + Cardinality(late.tombs) + Cardinality(late.claimDels)
      + Cardinality(late.outcomeDels) < MaxLate

Init ==
    /\ claim = Absent /\ outcome = Absent /\ tomb = Absent
    /\ late = [claims |-> {}, outcomes |-> {}, tombs |-> {},
               claimDels |-> {}, outcomeDels |-> {}]
    /\ pc = [c \in Callers |-> "idle"]
    /\ att = [c \in Callers |-> 0]
    /\ req \in [Callers -> Digests]
    /\ saw = [c \in Callers |-> "unknown"]
    /\ wr = [c \in Callers |-> "unknown"]
    /\ ret = [c \in Callers |-> "none"]
    /\ rpc = [r \in Reapers |-> "idle"]
    /\ rlist = [r \in Reapers |-> [claim |-> Absent, outcome |-> Absent]]
    /\ rfence = [r \in Reapers |-> Absent]
    /\ rsaw = [r \in Reapers |-> FALSE]
    /\ granted = {} /\ recorded = {}

-----------------------------------------------------------------------------
(* Ledger.Claim *)

Goto(c, step) == pc' = [pc EXCEPT ![c] = step] /\ UNCHANGED <<att, req, saw, wr, ret>>

\* The call returns to its caller with an answer.
Return(c, step, answer) ==
    /\ pc' = [pc EXCEPT ![c] = step]
    /\ ret' = [ret EXCEPT ![c] = answer]
    /\ UNCHANGED <<att, req, saw, wr>>

StartClaim(c, d) ==
    /\ pc[c] = "idle" /\ att[c] < MaxAttempts
    /\ pc' = [pc EXCEPT ![c] = "claim.tomb1"]
    /\ att' = [att EXCEPT ![c] = @ + 1]
    /\ req' = [req EXCEPT ![c] = d]
    /\ ret' = [ret EXCEPT ![c] = "none"]
    /\ UNCHANGED <<saw, wr, store, reaper, history>>

\* Every tombstone check that finds the fence ends the call in ErrUnknown.
ClaimFenced(c) ==
    /\ pc[c] \in TombReads /\ tomb # Absent
    /\ Return(c, "decided", "unknown")
    /\ UNCHANGED <<store, reaper, history>>

\* A failed or corrupt read is returned as an error.
ClaimReadFails(c) ==
    /\ pc[c] \in ClaimReads
    /\ Return(c, "decided", "error")
    /\ UNCHANGED <<store, reaper, history>>

ClaimPreCheck(c) ==
    /\ pc[c] = "claim.tomb1" /\ tomb = Absent
    /\ Goto(c, "claim.create")
    /\ UNCHANGED <<store, reaper, history>>

\* Conditional create (If-None-Match: *) of the claim object.
ClaimCreated(c) ==
    /\ pc[c] = "claim.create" /\ claim = Absent
    /\ claim' = MyClaim(c)
    /\ Goto(c, "claim.tomb2")
    /\ UNCHANGED <<outcome, tomb, late, reaper, history>>

ClaimExists(c) ==
    /\ pc[c] = "claim.create" /\ claim # Absent
    /\ Goto(c, "claim.read")
    /\ UNCHANGED <<store, reaper, history>>

\* The create ends in an error: nothing was written, the object was written,
\* or the request is still under way.
ClaimCreateFails(c) ==
    /\ pc[c] = "claim.create"
    /\ Return(c, "decided", "error")
    /\ \/ UNCHANGED <<claim, late>>
       \/ claim = Absent /\ claim' = MyClaim(c) /\ UNCHANGED late
       \/ LateRoom /\ late' = [late EXCEPT !.claims = @ \cup {MyClaim(c)}]
            /\ UNCHANGED claim
    /\ UNCHANGED <<outcome, tomb, reaper, history>>

\* The SDK repeats a create whose response was lost; the second request finds
\* the object the first one wrote and reports that it existed.
ClaimCreatedThenRetried(c) ==
    /\ pc[c] = "claim.create" /\ claim = Absent
    /\ claim' = MyClaim(c)
    /\ Goto(c, "claim.read")
    /\ UNCHANGED <<outcome, tomb, late, reaper, history>>

\* Mutant: execution is granted without the second look at the fence.
MutantGrantNoRecheck(c) ==
    /\ pc[c] = "claim.tomb2"
    /\ granted' = granted \cup {Attempt(c)}
    /\ Goto(c, "granted")
    /\ UNCHANGED <<store, reaper, recorded>>

\* The re-check after a successful create; only here is execution granted.
ClaimGrant(c) ==
    /\ pc[c] = "claim.tomb2" /\ tomb = Absent
    /\ granted' = granted \cup {Attempt(c)}
    /\ Goto(c, "granted")
    /\ UNCHANGED <<store, reaper, recorded>>

ClaimInspect(c) ==
    /\ pc[c] = "claim.read"
    /\ \/ claim = Absent /\ Return(c, "decided", "error")
       \/ claim # Absent /\ claim.digest # req[c] /\ Return(c, "decided", "conflict")
       \/ claim # Absent /\ claim.digest = req[c] /\ Goto(c, "claim.tomb3")
    /\ UNCHANGED <<store, reaper, history>>

ClaimReplayCheck(c) ==
    /\ pc[c] = "claim.tomb3" /\ tomb = Absent
    /\ Goto(c, "claim.outcome")
    /\ UNCHANGED <<store, reaper, history>>

\* No outcome: the earlier attempt may have acted, so the answer is Unknown.
ClaimReadOutcome(c) ==
    /\ pc[c] = "claim.outcome"
    /\ \/ outcome = Absent /\ Return(c, "decided", "unknown")
       \/ outcome # Absent /\ outcome.digest # req[c] /\ Return(c, "decided", "error")
       \/ /\ outcome # Absent /\ outcome.digest = req[c]
          /\ pc' = [pc EXCEPT ![c] = "claim.tomb4"]
          /\ saw' = [saw EXCEPT ![c] = outcome.state]
          /\ UNCHANGED <<att, req, wr, ret>>
    /\ UNCHANGED <<store, reaper, history>>

\* Mutant: the outcome that was read is replayed without another look at the fence.
MutantReplayNoRecheck(c) ==
    /\ pc[c] = "claim.tomb4"
    /\ Return(c, "decided", IF saw[c] = "unknown" THEN "unknown" ELSE "replay")
    /\ UNCHANGED <<store, reaper, history>>

ClaimReplay(c) ==
    /\ pc[c] = "claim.tomb4" /\ tomb = Absent
    /\ Return(c, "decided", IF saw[c] = "unknown" THEN "unknown" ELSE "replay")
    /\ UNCHANGED <<store, reaper, history>>

-----------------------------------------------------------------------------
(* Ledger.Commit *)

\* Mutant: a failed commit is repeated with whatever state.
MutantRecommit(c, s) ==
    /\ pc[c] = "granted" \/ (pc[c] = "committed" /\ ret[c] = "error")
    /\ pc' = [pc EXCEPT ![c] = "commit.tomb1"]
    /\ wr' = [wr EXCEPT ![c] = s]
    /\ ret' = [ret EXCEPT ![c] = "none"]
    /\ UNCHANGED <<att, req, saw, store, reaper, history>>

\* Only the attempt that was granted execution commits.  The broker commits
\* once more, with state unknown, when its first commit returned an error.
StartCommit(c, s) ==
    /\ \/ pc[c] = "granted"
       \/ pc[c] = "committed" /\ ret[c] = "error" /\ s = "unknown"
    /\ pc' = [pc EXCEPT ![c] = "commit.tomb1"]
    /\ wr' = [wr EXCEPT ![c] = s]
    /\ ret' = [ret EXCEPT ![c] = "none"]
    /\ UNCHANGED <<att, req, saw, store, reaper, history>>

CommitReadFails(c) ==
    /\ pc[c] \in CommitReads
    /\ Return(c, "committed", "error")
    /\ UNCHANGED <<store, reaper, history>>

CommitFenced(c) ==
    /\ pc[c] \in CommitTombs /\ tomb # Absent
    /\ Return(c, "committed", "error")
    /\ UNCHANGED <<store, reaper, history>>

CommitPreCheck(c) ==
    /\ pc[c] = "commit.tomb1" /\ tomb = Absent
    /\ Goto(c, "commit.claim")
    /\ UNCHANGED <<store, reaper, history>>

CommitReadClaim(c) ==
    /\ pc[c] = "commit.claim"
    /\ IF claim # Absent /\ claim.digest = req[c]
         THEN Goto(c, "commit.create")
         ELSE Return(c, "committed", "error")
    /\ UNCHANGED <<store, reaper, history>>

\* Mutant: the outcome is stored with an unconditional put.
MutantPutOutcome(c) ==
    /\ pc[c] = "commit.create"
    /\ outcome' = MyOutcome(c)
    /\ recorded' = recorded \cup {MyOutcome(c)}
    /\ Goto(c, "commit.tomb2")
    /\ UNCHANGED <<claim, tomb, late, reaper, granted>>

CommitCreated(c) ==
    /\ pc[c] = "commit.create" /\ outcome = Absent
    /\ outcome' = MyOutcome(c)
    /\ recorded' = recorded \cup {MyOutcome(c)}
    /\ Goto(c, "commit.tomb2")
    /\ UNCHANGED <<claim, tomb, late, reaper, granted>>

CommitExists(c) ==
    /\ pc[c] = "commit.create" /\ outcome # Absent
    /\ Goto(c, "commit.compare")
    /\ UNCHANGED <<store, reaper, history>>

CommitCreateFails(c) ==
    /\ pc[c] = "commit.create"
    /\ Return(c, "committed", "error")
    /\ \/ UNCHANGED <<outcome, late, recorded>>
       \/ /\ outcome = Absent
          /\ outcome' = MyOutcome(c)
          /\ recorded' = recorded \cup {MyOutcome(c)}
          /\ UNCHANGED late
       \/ /\ LateRoom
          /\ late' = [late EXCEPT !.outcomes = @ \cup {MyOutcome(c)}]
          /\ UNCHANGED <<outcome, recorded>>
    /\ UNCHANGED <<claim, tomb, reaper, granted>>

\* As for the claim: the SDK repeats a create that had succeeded.
CommitCreatedThenRetried(c) ==
    /\ pc[c] = "commit.create" /\ outcome = Absent
    /\ outcome' = MyOutcome(c)
    /\ recorded' = recorded \cup {MyOutcome(c)}
    /\ Goto(c, "commit.compare")
    /\ UNCHANGED <<claim, tomb, late, reaper, granted>>

\* State, ResultDigest and ResultRef must be those of the existing outcome.
\* An unknown outcome carries no result, any other one its attempt's result.
SameOutcome(a, b) ==
    a.digest = b.digest /\ a.state = b.state /\ (a.state = "unknown" \/ a.by = b.by)

CommitCompare(c) ==
    /\ pc[c] = "commit.compare"
    /\ IF outcome # Absent /\ SameOutcome(outcome, MyOutcome(c))
         THEN Goto(c, "commit.tomb3")
         ELSE Return(c, "committed", "error")
    /\ UNCHANGED <<store, reaper, history>>

CommitDone(c) ==
    /\ pc[c] \in {"commit.tomb2", "commit.tomb3"} /\ tomb = Absent
    /\ Return(c, "committed", "ok")
    /\ UNCHANGED <<store, reaper, history>>

\* The caller is finished with the transaction, or its process dies.
Leave(c) ==
    /\ pc[c] # "idle"
    /\ Return(c, "idle", "none")
    /\ UNCHANGED <<store, reaper, history>>

-----------------------------------------------------------------------------
(* Requests whose sender gave up, arriving at the store. *)

LandClaim(b) ==
    /\ b \in late.claims
    /\ late' = [late EXCEPT !.claims = @ \ {b}]
    /\ claim' = IF claim = Absent THEN b ELSE claim
    /\ UNCHANGED <<outcome, tomb, caller, reaper, history>>

LandOutcome(b) ==
    /\ b \in late.outcomes
    /\ late' = [late EXCEPT !.outcomes = @ \ {b}]
    /\ IF outcome = Absent
         THEN outcome' = b /\ recorded' = recorded \cup {b}
         ELSE UNCHANGED <<outcome, recorded>>
    /\ UNCHANGED <<claim, tomb, caller, reaper, granted>>

LandTomb(b) ==
    /\ b \in late.tombs
    /\ late' = [late EXCEPT !.tombs = @ \ {b}]
    /\ tomb' = IF tomb = Absent THEN b ELSE tomb
    /\ UNCHANGED <<claim, outcome, caller, reaper, history>>

LandOutcomeDelete(b) ==
    /\ b \in late.outcomeDels
    /\ late' = [late EXCEPT !.outcomeDels = @ \ {b}]
    /\ outcome' = IF outcome = b THEN Absent ELSE outcome
    /\ UNCHANGED <<claim, tomb, caller, reaper, history>>

LandClaimDelete(b) ==
    /\ b \in late.claimDels
    /\ late' = [late EXCEPT !.claimDels = @ \ {b}]
    /\ claim' = IF claim = b THEN Absent ELSE claim
    /\ UNCHANGED <<outcome, tomb, caller, reaper, history>>

-----------------------------------------------------------------------------
(* Retirement of the pair by the retention controller. *)

RGoto(r, step) == rpc' = [rpc EXCEPT ![r] = step] /\ UNCHANGED <<rlist, rfence, rsaw>>

\* The listing yields the ETags and whether there is a tombstone.
ReapList(r) ==
    /\ rpc[r] = "idle" /\ claim # Absent /\ outcome # Absent
    /\ rpc' = [rpc EXCEPT ![r] = "read"]
    /\ rlist' = [rlist EXCEPT ![r] = [claim |-> claim, outcome |-> outcome]]
    /\ rsaw' = [rsaw EXCEPT ![r] = tomb # Absent]
    /\ UNCHANGED <<rfence, store, caller, history>>

\* The bodies are read by later requests.  A pair is planned when both records
\* are there, the outcome is definite, the two agree, and a listed tombstone
\* has the identity the plan would give it.
Retirable(r) ==
    /\ claim # Absent /\ outcome # Absent
    /\ outcome.state \in Definite /\ claim.digest = outcome.digest
    /\ rsaw[r] => tomb = [digest |-> claim.digest, state |-> outcome.state]

ReapPlan(r) ==
    /\ rpc[r] = "read"
    /\ IF Retirable(r)
         THEN /\ rpc' = [rpc EXCEPT ![r] = "fence"]
              /\ rfence' = [rfence EXCEPT ![r] =
                              [digest |-> claim.digest, state |-> outcome.state]]
              /\ UNCHANGED <<rlist, rsaw>>
         ELSE RGoto(r, "idle")
    /\ UNCHANGED <<store, caller, history>>

\* Mutant: the records are deleted without a fence.
MutantNoFence(r) ==
    /\ rpc[r] = "fence"
    /\ RGoto(r, "delOutcome")
    /\ UNCHANGED <<store, caller, history>>

\* Create the fence, or prove that the one that is there has its identity.
ReapFence(r) ==
    /\ rpc[r] = "fence"
    /\ tomb' = IF tomb = Absent /\ ~rsaw[r] THEN rfence[r] ELSE tomb
    /\ RGoto(r, IF tomb' = rfence[r] THEN "delOutcome" ELSE "idle")
    /\ UNCHANGED <<claim, outcome, late, caller, history>>

ReapFenceFails(r) ==
    /\ rpc[r] = "fence"
    /\ RGoto(r, "idle")
    /\ \/ UNCHANGED <<tomb, late>>
       \/ ~rsaw[r] /\ tomb = Absent /\ tomb' = rfence[r] /\ UNCHANGED late
       \/ /\ ~rsaw[r] /\ LateRoom
          /\ late' = [late EXCEPT !.tombs = @ \cup {rfence[r]}]
          /\ UNCHANGED tomb
    /\ UNCHANGED <<claim, outcome, caller, history>>

\* If-Match delete; an object that is gone counts as deleted, a different one
\* is a fence conflict and ends the retirement.
ReapDeleteOutcome(r) ==
    /\ rpc[r] = "delOutcome"
    /\ IF outcome \in {Absent, rlist[r].outcome}
         THEN outcome' = Absent /\ RGoto(r, "delClaim")
         ELSE UNCHANGED outcome /\ RGoto(r, "idle")
    /\ UNCHANGED <<claim, tomb, late, caller, history>>

ReapDeleteClaim(r) ==
    /\ rpc[r] = "delClaim"
    /\ claim' = IF claim = rlist[r].claim THEN Absent ELSE claim
    /\ RGoto(r, "idle")
    /\ UNCHANGED <<outcome, tomb, late, caller, history>>

\* A delete that fails may have been applied, or may be applied later.
ReapDeleteOutcomeFails(r) ==
    /\ rpc[r] = "delOutcome"
    /\ RGoto(r, "idle")
    /\ \/ outcome = rlist[r].outcome /\ outcome' = Absent /\ UNCHANGED late
       \/ /\ LateRoom
          /\ late' = [late EXCEPT !.outcomeDels = @ \cup {rlist[r].outcome}]
          /\ UNCHANGED outcome
    /\ UNCHANGED <<claim, tomb, caller, history>>

ReapDeleteClaimFails(r) ==
    /\ rpc[r] = "delClaim"
    /\ RGoto(r, "idle")
    /\ LateRoom
    /\ late' = [late EXCEPT !.claimDels = @ \cup {rlist[r].claim}]
    /\ UNCHANGED <<claim, outcome, tomb, caller, history>>

\* A cycle is cut short by an error, a lost lease or a crash.
ReapStop(r) ==
    /\ rpc[r] # "idle"
    /\ RGoto(r, "idle")
    /\ UNCHANGED <<store, caller, history>>

-----------------------------------------------------------------------------
ClaimStep(c) ==
    \/ \E d \in Digests : StartClaim(c, d)
    \/ ClaimFenced(c) \/ ClaimReadFails(c) \/ ClaimPreCheck(c)
    \/ ClaimCreated(c) \/ ClaimExists(c) \/ ClaimCreateFails(c)
    \/ ClaimCreatedThenRetried(c) \/ ClaimGrant(c) \/ ClaimInspect(c)
    \/ ClaimReplayCheck(c) \/ ClaimReadOutcome(c) \/ ClaimReplay(c)

CommitStep(c) ==
    \/ \E s \in States : StartCommit(c, s)
    \/ CommitReadFails(c) \/ CommitFenced(c) \/ CommitPreCheck(c)
    \/ CommitReadClaim(c) \/ CommitCreated(c) \/ CommitExists(c)
    \/ CommitCreateFails(c) \/ CommitCreatedThenRetried(c)
    \/ CommitCompare(c) \/ CommitDone(c)

LateStep ==
    \/ \E b \in late.claims : LandClaim(b)
    \/ \E b \in late.outcomes : LandOutcome(b)
    \/ \E b \in late.tombs : LandTomb(b)
    \/ \E b \in late.outcomeDels : LandOutcomeDelete(b)
    \/ \E b \in late.claimDels : LandClaimDelete(b)

ReapStep(r) ==
    \/ ReapList(r) \/ ReapPlan(r) \/ ReapFence(r) \/ ReapFenceFails(r)
    \/ ReapDeleteOutcome(r) \/ ReapDeleteClaim(r)
    \/ ReapDeleteOutcomeFails(r) \/ ReapDeleteClaimFails(r) \/ ReapStop(r)

Next ==
    \/ \E c \in Callers : ClaimStep(c) \/ CommitStep(c) \/ Leave(c)
    \/ LateStep
    \/ \E r \in Reapers : ReapStep(r)

Spec == Init /\ [][Next]_vars

-----------------------------------------------------------------------------
(* Properties *)

Verdict == {o.state : o \in {p \in recorded : p.state \in Definite}}

\* The three-object protocol implements the effect that is granted at most once.
Abstract == INSTANCE AtMostOnceEffect
              WITH Verdicts <- Definite, executor <- granted,
                   verdict <- Verdict, retired <- tomb # Absent

\* Every step of the ledger, of a late request and of the retention controller
\* is a step of the at-most-once effect or leaves it alone.
ImplementsAtMostOnce == Abstract!Spec

\* Every variable keeps the shape the Go types give it.
TypeOK ==
    /\ claim \in ClaimBody \cup {Absent}
    /\ outcome \in OutcomeBody \cup {Absent}
    /\ tomb \in Fence \cup {Absent}
    /\ late \in Late
    /\ pc \in [Callers -> Steps]
    /\ att \in [Callers -> 0..MaxAttempts]
    /\ req \in [Callers -> Digests]
    /\ saw \in [Callers -> States]
    /\ wr \in [Callers -> States]
    /\ ret \in [Callers -> Answers]
    /\ rpc \in [Reapers -> ReapSteps]
    /\ rlist \in [Reapers -> [claim : ClaimBody \cup {Absent},
                              outcome : OutcomeBody \cup {Absent}]]
    /\ rfence \in [Reapers -> Fence \cup {Absent}]
    /\ rsaw \in [Reapers -> BOOLEAN]
    /\ granted \in SUBSET Attempts
    /\ recorded \in SUBSET OutcomeBody

\* Claim answers Execute to one attempt at most, in the whole life of the key:
\* not to a second caller, not after a crash and not after the retention
\* controller removed the claim.
AtMostOneGrant == \A a, b \in granted : a = b

\* Outcomes that ever became durable come from the attempt that was granted
\* execution, and no two of them report different definite states: a late
\* Commit cannot turn a recorded failure into a success.
DefiniteOutcomesAgree ==
    /\ \A o \in recorded : o.by \in granted
    /\ \A o, p \in recorded :
         o.state \in Definite /\ p.state \in Definite => o.state = p.state

\* Retention leaves the permanent fence behind whenever it has removed a record
\* of an effect that was granted, and the fence tells the state that was recorded.
RetirementFenced ==
    /\ granted # {} /\ claim = Absent => tomb # Absent
    /\ recorded # {} /\ outcome = Absent => tomb # Absent
    /\ tomb # Absent => \E o \in recorded : o.state = tomb.state /\ o.digest = tomb.digest

\* When Claim answers a replay (neither Execute nor Unknown), the outcome it
\* read some requests ago is still the durable one, is definite and belongs to
\* the digest the caller presented: a retirement that began in between is never
\* reported as an ordinary replay.
ReplayTruth ==
    [][\A c \in Callers :
         pc[c] # "decided" /\ pc'[c] = "decided" /\ ret'[c] = "replay" =>
           /\ outcome # Absent /\ outcome.state = saw[c] /\ outcome.digest = req[c]
           /\ saw[c] \in Definite]_vars

\* Commit never overwrites: an outcome object is only created and, under the
\* fence that repeats its state, deleted.
OutcomeNeverOverwritten ==
    [][outcome' # outcome =>
         \/ outcome = Absent
         \/ outcome' = Absent /\ tomb # Absent /\ tomb.state = outcome.state]_vars
=============================================================================
