------------------------ MODULE EffectLedgerProofs --------------------------
(***************************************************************************)
(* The theorems about the effect ledger, for any number of callers,        *)
(* digests, reapers and attempts: type correctness, the safety properties, *)
(* the action property and the refinement of AtMostOnceEffect.             *)
(*                                                                         *)
(* Most steps of a caller only move its program counter; they are summed   *)
(* up as Quiet.  Execution is granted once because, as long as there is no *)
(* fence, the claim object is the grantee's, and nothing deletes a record  *)
(* before the fence exists.  A fence repeats an outcome that was recorded, *)
(* and an unknown outcome is never deleted.                                *)
(***************************************************************************)
EXTENDS EffectLedger, TLAPS

ClaimSteps  == ClaimReads \cup {"claim.create"}
Executing   == {"granted", "committed"} \cup CommitSteps
Written     == recorded \cup late.outcomes   \* durable or still under way

LEMMA InitTypeOK == Init => TypeOK
BY BoundsAssumption
DEF Init, TypeOK, Late, Steps, ClaimReads, TombReads, CommitSteps, CommitReads,
    CommitTombs, Answers, ReapSteps, States, Definite

\* The bodies a caller builds are well formed while it is in a transaction.
LEMMA BodyType ==
    ASSUME TypeOK, NEW c \in Callers, att[c] # 0
    PROVE  Attempt(c) \in Attempts /\ MyClaim(c) \in ClaimBody /\ MyOutcome(c) \in OutcomeBody
BY BoundsAssumption
DEF TypeOK, Attempt, Attempts, MyClaim, MyOutcome, ClaimBody, OutcomeBody

\* Beyond TypeOK: a caller inside a transaction has an attempt number, and a
\* reaper that has listed (planned) a pair holds its records (its fence).
TypeInv ==
    /\ TypeOK
    /\ \A c \in Callers : pc[c] # "idle" => att[c] # 0
    /\ \A r \in Reapers :
         /\ rpc[r] # "idle" =>
              rlist[r] \in [claim : ClaimBody, outcome : OutcomeBody]
         /\ rpc[r] \in {"fence", "delOutcome", "delClaim"} => rfence[r] \in Fence

-----------------------------------------------------------------------------
(* The kinds of steps *)

\* The moves of a caller that neither start, grant nor commit anything.
Allowed(from, to) ==
    /\ to \in Steps \ {"claim.tomb2", "granted"}
    /\ to = "idle" \/ from # "idle"
    /\ to \in ClaimSteps => from \in ClaimSteps
    /\ to \in Executing => from \in Executing
    /\ to \in CommitSteps => from \in CommitSteps

\* A step of caller c that changes nothing but its own program counter, what
\* it read and its answer.
Quiet(c) ==
    /\ UNCHANGED <<claim, outcome, tomb, late, att, req, wr, rpc, rlist, rfence, rsaw,
                   granted, recorded>>
    /\ saw' \in [Callers -> States] /\ ret' \in [Callers -> Answers]
    /\ \E step \in Steps : Allowed(pc[c], step) /\ pc' = [pc EXCEPT ![c] = step]

LEMMA AllowedMoves ==
    /\ \A from \in Steps \ {"idle"} : Allowed(from, "idle") /\ Allowed(from, "decided")
    /\ \A from \in CommitSteps : Allowed(from, "committed")
    /\ Allowed("claim.tomb1", "claim.create") /\ Allowed("claim.create", "claim.read")
    /\ Allowed("claim.read", "claim.tomb3") /\ Allowed("claim.tomb3", "claim.outcome")
    /\ Allowed("claim.outcome", "claim.tomb4")
    /\ Allowed("commit.tomb1", "commit.claim") /\ Allowed("commit.claim", "commit.create")
    /\ Allowed("commit.create", "commit.compare") /\ Allowed("commit.compare", "commit.tomb3")
BY Zenon DEF Allowed, Steps, ClaimSteps, ClaimReads, TombReads, Executing, CommitSteps, CommitReads,
       CommitTombs

LEMMA MoveIsQuiet ==
    ASSUME TypeOK, NEW c \in Callers, NEW step, Allowed(pc[c], step),
           NEW answer \in Answers, Goto(c, step) \/ Return(c, step, answer),
           UNCHANGED <<store, reaper, history>>
    PROVE  Quiet(c)
BY Zenon DEF TypeOK, Quiet, Allowed, Goto, Return, store, reaper, history

LEMMA QuietClaim ==
    ASSUME TypeOK, NEW c \in Callers,
           \/ ClaimFenced(c) \/ ClaimReadFails(c) \/ ClaimPreCheck(c) \/ ClaimExists(c)
           \/ ClaimInspect(c) \/ ClaimReplayCheck(c) \/ ClaimReadOutcome(c) \/ ClaimReplay(c)
    PROVE  Quiet(c)
<1> USE AllowedMoves, MoveIsQuiet DEF Answers
<1>1. CASE ClaimFenced(c) \/ ClaimReadFails(c) \/ ClaimReplay(c)
  <2>1. pc[c] \in Steps \ {"idle"}
      BY Zenon, <1>1 DEF ClaimFenced, ClaimReadFails, ClaimReplay, Steps, ClaimReads, TombReads
  <2> QED BY Zenon, <1>1, <2>1 DEF ClaimFenced, ClaimReadFails, ClaimReplay
<1>2. CASE ClaimPreCheck(c) \/ ClaimExists(c) \/ ClaimReplayCheck(c)
    BY Zenon, <1>2 DEF ClaimPreCheck, ClaimExists, ClaimReplayCheck
<1>3. CASE ClaimInspect(c)
    BY Zenon, <1>3 DEF ClaimInspect, Steps, ClaimReads
<1>4. CASE ClaimReadOutcome(c)
  <2>1. pc[c] = "claim.outcome" /\ pc[c] \in Steps \ {"idle"}
      BY Zenon, <1>4 DEF ClaimReadOutcome, Steps, ClaimReads
  <2>2. CASE Return(c, "decided", "unknown") \/ Return(c, "decided", "error")
      BY Zenon, <1>4, <2>1, <2>2 DEF ClaimReadOutcome
  <2>3. CASE ~(Return(c, "decided", "unknown") \/ Return(c, "decided", "error"))
    <3>1. outcome # Absent => outcome.state \in States
        BY Zenon DEF TypeOK, OutcomeBody
    <3>2. /\ pc' = [pc EXCEPT ![c] = "claim.tomb4"] /\ UNCHANGED <<att, req, wr, ret>>
          /\ saw' = [saw EXCEPT ![c] = outcome.state] /\ outcome # Absent
          /\ UNCHANGED <<store, reaper, history>>
        BY Zenon, <1>4, <2>3 DEF ClaimReadOutcome
    <3>3. saw' \in [Callers -> States] /\ ret' \in [Callers -> Answers]
        BY Zenon, <3>1, <3>2 DEF TypeOK
    <3>4. Allowed(pc[c], "claim.tomb4") /\ "claim.tomb4" \in Steps
        BY Zenon, <2>1 DEF Allowed
    <3> QED BY <3>2, <3>3, <3>4, Zenon DEF Quiet, store, reaper, history
  <2> QED BY Zenon, <2>2, <2>3
<1> QED BY Zenon, <1>1, <1>2, <1>3, <1>4

LEMMA QuietCommit ==
    ASSUME TypeOK, NEW c \in Callers,
           \/ CommitReadFails(c) \/ CommitFenced(c) \/ CommitPreCheck(c) \/ CommitReadClaim(c)
           \/ CommitExists(c) \/ CommitCompare(c) \/ CommitDone(c) \/ Leave(c)
    PROVE  Quiet(c)
<1> USE AllowedMoves, MoveIsQuiet DEF Answers
<1>1. CASE CommitReadFails(c) \/ CommitFenced(c) \/ CommitDone(c)
  <2>1. pc[c] \in CommitSteps
      BY Zenon, <1>1 DEF CommitReadFails, CommitFenced, CommitDone, CommitSteps, CommitReads, CommitTombs
  <2> QED BY Zenon, <1>1, <2>1 DEF CommitReadFails, CommitFenced, CommitDone
<1>2. CASE CommitPreCheck(c) \/ CommitExists(c)
    BY Zenon, <1>2 DEF CommitPreCheck, CommitExists
<1>3. CASE CommitReadClaim(c) \/ CommitCompare(c)
  <2>1. pc[c] \in CommitSteps
      BY Zenon, <1>3 DEF CommitReadClaim, CommitCompare, CommitSteps, CommitReads
  <2> QED BY Zenon, <1>3, <2>1 DEF CommitReadClaim, CommitCompare
<1>4. CASE Leave(c)
  <2>1. pc[c] \in Steps \ {"idle"}
      BY Zenon, <1>4 DEF Leave, TypeOK
  <2> QED BY Zenon, <1>4, <2>1 DEF Leave
<1> QED BY Zenon, <1>1, <1>2, <1>3, <1>4

\* The steps of a caller that write to the store, begin or grant.
Busy(c) ==
    \/ \E d \in Digests : StartClaim(c, d)
    \/ ClaimCreated(c) \/ ClaimCreateFails(c) \/ ClaimCreatedThenRetried(c) \/ ClaimGrant(c)
    \/ \E s \in States : StartCommit(c, s)
    \/ CommitCreated(c) \/ CommitCreateFails(c) \/ CommitCreatedThenRetried(c)

LEMMA StepKinds ==
    ASSUME TypeOK, [Next]_vars
    PROVE  \/ \E c \in Callers : Quiet(c) \/ Busy(c)
           \/ LateStep
           \/ \E r \in Reapers : ReapStep(r)
           \/ UNCHANGED vars
BY Zenon, QuietClaim, QuietCommit DEF Next, ClaimStep, CommitStep, Busy

-----------------------------------------------------------------------------
(* Type correctness *)

LEMMA TypeInvStep == TypeInv /\ [Next]_vars => TypeInv'
<1> SUFFICES ASSUME TypeInv, [Next]_vars PROVE TypeInv'
    BY Zenon
<1> USE AbsentAssumption, BoundsAssumption DEF TypeInv, TypeOK
<1>1. ASSUME NEW c \in Callers, Quiet(c) PROVE TypeInv'
    BY <1>1 DEF Quiet, Allowed, Steps
<1>2. ASSUME NEW c \in Callers, Busy(c) PROVE TypeInv'
  <2> USE DEF Steps, ClaimReads, TombReads, CommitSteps, CommitReads, CommitTombs, Answers
  <2>b. pc[c] # "idle" =>
          Attempt(c) \in Attempts /\ MyClaim(c) \in ClaimBody /\ MyOutcome(c) \in OutcomeBody
      BY Zenon, BodyType
  <2>1. ASSUME NEW d \in Digests, StartClaim(c, d) PROVE TypeInv'
      BY <2>1 DEF StartClaim, store, reaper, history
  <2>2. CASE ClaimCreated(c)
      BY Zenon, <2>b, <2>2 DEF ClaimCreated, Goto, Return, reaper, history
  <2>3. CASE ClaimCreateFails(c)
      BY <2>b, <2>3 DEF ClaimCreateFails, Goto, Return, reaper, history, Late
  <2>4. CASE ClaimCreatedThenRetried(c)
      BY Zenon, <2>b, <2>4 DEF ClaimCreatedThenRetried, Goto, Return, reaper, history
  <2>5. CASE ClaimGrant(c)
      BY Zenon, <2>b, <2>5 DEF ClaimGrant, Goto, store, reaper
  <2>6. ASSUME NEW s \in States, StartCommit(c, s) PROVE TypeInv'
      BY Zenon, <2>6 DEF StartCommit, store, reaper, history
  <2>7. CASE CommitCreated(c)
      BY Zenon, <2>b, <2>7 DEF CommitCreated, Goto, Return, reaper, history
  <2>8. CASE CommitCreateFails(c)
      BY <2>b, <2>8 DEF CommitCreateFails, Goto, Return, reaper, history, Late
  <2>9. CASE CommitCreatedThenRetried(c)
      BY Zenon, <2>b, <2>9 DEF CommitCreatedThenRetried, Goto, Return, reaper, history
  <2> HIDE DEF TypeInv
  <2> QED BY Zenon, <1>2, <2>1, <2>2, <2>3, <2>4, <2>5, <2>6, <2>7, <2>8, <2>9 DEF Busy
<1>3. CASE LateStep
  <2>1. ASSUME NEW b \in late.claims, LandClaim(b) PROVE TypeInv'
      BY Zenon, <2>1 DEF LandClaim, Late, caller, reaper, history
  <2>2. ASSUME NEW b \in late.outcomes, LandOutcome(b) PROVE TypeInv'
      BY Zenon, <2>2 DEF LandOutcome, Late, caller, reaper, history
  <2>3. ASSUME NEW b \in late.tombs, LandTomb(b) PROVE TypeInv'
      BY Zenon, <2>3 DEF LandTomb, Late, caller, reaper, history
  <2>4. ASSUME NEW b \in late.outcomeDels, LandOutcomeDelete(b) PROVE TypeInv'
      BY Zenon, <2>4 DEF LandOutcomeDelete, Late, caller, reaper, history
  <2>5. ASSUME NEW b \in late.claimDels, LandClaimDelete(b) PROVE TypeInv'
      BY Zenon, <2>5 DEF LandClaimDelete, Late, caller, reaper, history
  <2> HIDE DEF TypeInv
  <2> QED BY Zenon, <1>3, <2>1, <2>2, <2>3, <2>4, <2>5 DEF LateStep
<1>4. ASSUME NEW r \in Reapers, ReapStep(r) PROVE TypeInv'
  <2>1. CASE ReapList(r)
      BY Zenon, <2>1 DEF ReapList, RGoto, store, caller, history, ReapSteps, Late
  <2>2. CASE ReapPlan(r)
    <3> DEFINE f == [digest |-> claim.digest, state |-> outcome.state]
    <3>1. Retirable(r) => f \in Fence
        BY Zenon DEF Retirable, ClaimBody, OutcomeBody, Fence
    <3>2. CASE Retirable(r)
      <4>1. /\ rpc' = [rpc EXCEPT ![r] = "fence"]
            /\ rfence' = [rfence EXCEPT ![r] = f]
            /\ UNCHANGED <<rlist, rsaw, store, caller, history>>
          BY Zenon, <2>2, <3>2 DEF ReapPlan
      <4> HIDE DEF f
      <4> QED BY Zenon, <2>2, <3>1, <3>2, <4>1 DEF ReapPlan, store, caller, history, ReapSteps
    <3>3. CASE ~Retirable(r)
        BY Zenon, <2>2, <3>3 DEF ReapPlan, RGoto, store, caller, history, ReapSteps
    <3> QED BY Zenon, <3>2, <3>3
  <2>3. CASE ReapFence(r)
      BY Zenon, <2>3 DEF ReapFence, RGoto, store, caller, history, ReapSteps, Late
  <2>4. CASE ReapFenceFails(r)
    <3>1. rfence[r] \in Fence
        BY Zenon, <2>4 DEF ReapFenceFails
    <3>2. late' = late \/ late' = [late EXCEPT !.tombs = late.tombs \cup {rfence[r]}]
        BY Zenon, <2>4 DEF ReapFenceFails
    <3>3. late' \in Late
        BY <3>1, <3>2 DEF Late
    <3> QED BY Zenon, <2>4, <3>3 DEF ReapFenceFails, RGoto, caller, history, ReapSteps
  <2>5. CASE ReapDeleteOutcome(r)
      BY Zenon, <2>5 DEF ReapDeleteOutcome, RGoto, store, caller, history, ReapSteps, Late
  <2>6. CASE ReapDeleteClaim(r)
      BY Zenon, <2>6 DEF ReapDeleteClaim, RGoto, store, caller, history, ReapSteps, Late
  <2>7. CASE ReapDeleteOutcomeFails(r)
    <3>1. late' \in Late
        BY <2>7 DEF ReapDeleteOutcomeFails, Late
    <3> QED BY Zenon, <2>7, <3>1 DEF ReapDeleteOutcomeFails, RGoto, caller, history, ReapSteps
  <2>8. CASE ReapDeleteClaimFails(r)
      BY Zenon, <2>8 DEF ReapDeleteClaimFails, RGoto, store, caller, history, ReapSteps, Late
  <2>9. CASE ReapStop(r)
      BY Zenon, <2>9 DEF ReapStop, RGoto, store, caller, history, ReapSteps, Late
  <2> HIDE DEF TypeInv
  <2> QED BY Zenon, <1>4, <2>1, <2>2, <2>3, <2>4, <2>5, <2>6, <2>7, <2>8, <2>9 DEF ReapStep
<1>5. CASE UNCHANGED vars
    BY Zenon, <1>5 DEF vars
<1> HIDE DEF TypeInv
<1> QED BY Zenon, <1>1, <1>2, <1>3, <1>4, <1>5, StepKinds DEF TypeInv

\* Every reachable state of the ledger, its callers and reapers is well typed.
THEOREM TypeCorrect == Spec => []TypeOK
<1>1. Init => TypeInv
    BY InitTypeOK DEF Init, TypeInv
<1>2. TypeInv => TypeOK
    BY Zenon DEF TypeInv
<1> QED BY <1>1, <1>2, TypeInvStep, PTL DEF Spec

-----------------------------------------------------------------------------
(* Grants and outcomes *)

\* While there is no fence, the claim object is the claim of the attempt that
\* was granted, and of the one that is about to be.
ClaimHeld ==
    tomb = Absent =>
      /\ \A a \in granted : claim # Absent /\ claim.by = a
      /\ \A c \in Callers :
           pc[c] = "claim.tomb2" => claim # Absent /\ claim.by = Attempt(c)

\* Nothing is deleted, now or by a late request, before the fence exists.
DeletesFenced ==
    /\ \A r \in Reapers : rpc[r] \in {"delOutcome", "delClaim"} => tomb # Absent
    /\ late.claimDels # {} \/ late.outcomeDels # {} => tomb # Absent

\* Attempts are numbered in order and granted once; only a granted attempt
\* executes.
GrantOrder ==
    /\ \A a \in granted : a[2] <= att[a[1]]
    /\ \A c \in Callers : pc[c] \in ClaimSteps => Attempt(c) \notin granted
    /\ \A c \in Callers : pc[c] \in Executing => Attempt(c) \in granted

\* Outcomes come from granted attempts; one attempt commits one definite state.
OutcomeOrder ==
    /\ \A o \in Written : o.by \in granted
    /\ \A o, p \in Written :
         o.by = p.by /\ o.state \in Definite /\ p.state \in Definite => o.state = p.state
    /\ \A c \in Callers : pc[c] = "granted" => \A o \in Written : o.by # Attempt(c)
    /\ \A c \in Callers :
         pc[c] \in CommitSteps /\ wr[c] \in Definite =>
           \A o \in Written : o.by = Attempt(c) /\ o.state \in Definite => o.state = wr[c]

\* A fence, in whatever stage, repeats a definite outcome that was recorded.
Backed(f) == \E o \in recorded : o.state = f.state /\ o.digest = f.digest

FenceBacked ==
    /\ outcome # Absent => outcome \in recorded
    /\ recorded # {} /\ outcome = Absent => tomb # Absent
    /\ tomb # Absent => Backed(tomb)
    /\ \A f \in late.tombs : Backed(f)
    /\ \A r \in Reapers : rpc[r] = "fence" => Backed(rfence[r])

\* An unknown outcome stays; only definite ones are listed for deletion.
UnknownStays ==
    /\ \A o \in recorded : o.state = "unknown" => outcome = o
    /\ \A o \in late.outcomeDels : o \in recorded /\ o.state \in Definite
    /\ \A r \in Reapers :
         /\ rpc[r] # "idle" => rlist[r].outcome \in recorded
         /\ rpc[r] \in {"fence", "delOutcome"} => rlist[r].outcome.state \in Definite

IInv == /\ TypeInv /\ AtMostOneGrant /\ ClaimHeld /\ DeletesFenced
        /\ GrantOrder /\ OutcomeOrder /\ FenceBacked /\ UnknownStays

\* Execution is granted once: the grant needs the fence to be absent, and then
\* the claim object is the grantee's.
GrantInv == AtMostOneGrant /\ ClaimHeld /\ DeletesFenced

LEMMA GrantInvStep == TypeInv /\ GrantInv /\ [Next]_vars => GrantInv'
<1> SUFFICES ASSUME TypeInv /\ GrantInv, [Next]_vars PROVE GrantInv'
    BY Zenon
<1> USE AbsentAssumption DEF TypeInv, TypeOK, GrantInv, AtMostOneGrant, ClaimHeld, DeletesFenced
<1>1. ASSUME NEW c \in Callers, Quiet(c) PROVE GrantInv'
    BY Zenon, <1>1 DEF Quiet, Allowed, Attempt
<1>2. ASSUME NEW c \in Callers, Busy(c) PROVE GrantInv'
  <2>1. ASSUME NEW d \in Digests, StartClaim(c, d) PROVE GrantInv'
      BY Zenon, <2>1 DEF StartClaim, store, reaper, history, Attempt
  <2>2. CASE ClaimCreated(c)
    <3>1. MyClaim(c) \in ClaimBody /\ MyClaim(c).by = Attempt(c) /\ MyClaim(c) # Absent
        BY <2>2, BodyType DEF ClaimCreated, MyClaim
    <3>2. tomb = Absent => granted = {} /\ \A x \in Callers : pc[x] # "claim.tomb2"
        BY Zenon, <2>2 DEF ClaimCreated
    <3> QED BY Zenon, <2>2, <3>1, <3>2 DEF ClaimCreated, Goto, reaper, history, Attempt
  <2>3. CASE ClaimCreateFails(c)
    <3>1. late'.claimDels = late.claimDels /\ late'.outcomeDels = late.outcomeDels
        BY Zenon, <2>3 DEF ClaimCreateFails, Late
    <3>2. claim # Absent => claim' = claim
        BY Zenon, <2>3 DEF ClaimCreateFails
    <3>3. tomb = Absent => granted = {} \/ claim # Absent
        BY Zenon
    <3> QED BY Zenon, <2>3, <3>1, <3>2, <3>3 DEF ClaimCreateFails, Return, reaper, history, Attempt
  <2>4. CASE ClaimCreatedThenRetried(c)
      BY Zenon, <2>4 DEF ClaimCreatedThenRetried, Goto, Return, store, reaper, history, Attempt
  <2>5. CASE ClaimGrant(c)
    <3>1. claim # Absent /\ claim.by = Attempt(c) /\ tomb = Absent
        BY Zenon, <2>5 DEF ClaimGrant, Goto, store, reaper, Attempt
    <3>2. /\ granted' = granted \cup {Attempt(c)} /\ UNCHANGED <<claim, tomb, late, rpc>>
          /\ \A x \in Callers : Attempt(x)' = Attempt(x)
          /\ \A x \in Callers : pc'[x] = "claim.tomb2" => pc[x] = "claim.tomb2"
        BY Zenon, <2>5 DEF ClaimGrant, Goto, store, reaper, Attempt
    <3> HIDE DEF Attempt
    <3>3. \A a \in granted : a = Attempt(c)
        BY Zenon, <3>1
    <3>4. ClaimHeld'
        BY Zenon, <3>1, <3>2, <3>3
    <3>5. AtMostOneGrant'
        BY Zenon, <3>2, <3>3
    <3>6. DeletesFenced'
        BY Zenon, <3>2
    <3> HIDE DEF ClaimHeld, AtMostOneGrant, DeletesFenced
    <3> QED BY Zenon, <3>4, <3>5, <3>6
  <2>6. ASSUME NEW s \in States, StartCommit(c, s) PROVE GrantInv'
      BY Zenon, <2>6 DEF StartCommit, store, reaper, history, Attempt
  <2>7. CASE CommitCreated(c)
      BY Zenon, <2>7 DEF CommitCreated, Goto, Return, store, reaper, history, Attempt
  <2>8. CASE CommitCreateFails(c)
    <3>1. late'.claimDels = late.claimDels /\ late'.outcomeDels = late.outcomeDels
        BY Zenon, <2>8 DEF CommitCreateFails, Late
    <3> QED BY Zenon, <2>8, <3>1 DEF CommitCreateFails, Return, reaper, Attempt
  <2>9. CASE CommitCreatedThenRetried(c)
      BY Zenon, <2>9 DEF CommitCreatedThenRetried, Goto, Return, store, reaper, history, Attempt
  <2> HIDE DEF GrantInv
  <2> QED BY Zenon, <1>2, <2>1, <2>2, <2>3, <2>4, <2>5, <2>6, <2>7, <2>8, <2>9 DEF Busy
<1>3. CASE LateStep
  <2>1. ASSUME NEW b \in late.claims, LandClaim(b) PROVE GrantInv'
      BY Zenon, <2>1 DEF LandClaim, Late, caller, reaper, history, Attempt
  <2>2. ASSUME NEW b \in late.outcomes, LandOutcome(b) PROVE GrantInv'
      BY Zenon, <2>2 DEF LandOutcome, Late, caller, reaper, history, Attempt
  <2>3. ASSUME NEW b \in late.tombs, LandTomb(b) PROVE GrantInv'
      BY Zenon, <2>3 DEF LandTomb, Late, caller, reaper, history, Attempt
  <2>4. ASSUME NEW b \in late.outcomeDels, LandOutcomeDelete(b) PROVE GrantInv'
      BY Zenon, <2>4 DEF LandOutcomeDelete, Late, caller, reaper, history, Attempt
  <2>5. ASSUME NEW b \in late.claimDels, LandClaimDelete(b) PROVE GrantInv'
      BY Zenon, <2>5 DEF LandClaimDelete, Late, caller, reaper, history, Attempt
  <2> HIDE DEF GrantInv
  <2> QED BY Zenon, <1>3, <2>1, <2>2, <2>3, <2>4, <2>5 DEF LateStep
<1>4. ASSUME NEW r \in Reapers, ReapStep(r) PROVE GrantInv'
  <2>1. CASE ReapList(r)
      BY Zenon, <2>1 DEF ReapList, RGoto, Late, store, caller, history, Attempt
  <2>2. CASE ReapPlan(r)
      BY <2>2 DEF ReapPlan, RGoto, Late, store, caller, history, Attempt
  <2>3. CASE ReapFence(r)
      BY <2>3 DEF ReapFence, RGoto, Late, store, caller, history, Attempt
  <2>4. CASE ReapFenceFails(r)
    <3>1. late'.claimDels = late.claimDels /\ late'.outcomeDels = late.outcomeDels
        BY Zenon, <2>4 DEF ReapFenceFails, Late
    <3> QED BY Zenon, <2>4, <3>1 DEF ReapFenceFails, RGoto, caller, history, Attempt
  <2>5. CASE ReapDeleteOutcome(r)
      BY Zenon, <2>5 DEF ReapDeleteOutcome, RGoto, Late, store, caller, history, Attempt
  <2>6. CASE ReapDeleteClaim(r)
      BY Zenon, <2>6 DEF ReapDeleteClaim, RGoto, Late, store, caller, history, Attempt
  <2>7. CASE ReapDeleteOutcomeFails(r)
      BY Zenon, <2>7 DEF ReapDeleteOutcomeFails, RGoto, Late, store, caller, history, Attempt
  <2>8. CASE ReapDeleteClaimFails(r)
      BY Zenon, <2>8 DEF ReapDeleteClaimFails, RGoto, Late, store, caller, history, Attempt
  <2>9. CASE ReapStop(r)
      BY Zenon, <2>9 DEF ReapStop, RGoto, Late, store, caller, history, Attempt
  <2> HIDE DEF GrantInv
  <2> QED BY Zenon, <1>4, <2>1, <2>2, <2>3, <2>4, <2>5, <2>6, <2>7, <2>8, <2>9 DEF ReapStep
<1>5. CASE UNCHANGED vars
    BY Zenon, <1>5 DEF vars, Attempt
<1> HIDE DEF GrantInv
<1> QED BY Zenon, <1>1, <1>2, <1>3, <1>4, <1>5, StepKinds DEF TypeInv

LEMMA GrantOrderStep == TypeInv /\ GrantOrder /\ [Next]_vars => GrantOrder'
<1> SUFFICES ASSUME TypeInv /\ GrantOrder, [Next]_vars PROVE GrantOrder'
    BY Zenon
<1> USE DEF TypeInv, TypeOK, GrantOrder, Attempt
<1>1. ASSUME NEW c \in Callers, Quiet(c) PROVE GrantOrder'
    BY Zenon, <1>1 DEF Quiet, Allowed
<1>2. ASSUME NEW c \in Callers, Busy(c) PROVE GrantOrder'
  <2>1. ASSUME NEW d \in Digests, StartClaim(c, d) PROVE GrantOrder'
    <3>1. \A a \in granted : a = <<a[1], a[2]>> /\ a[1] \in Callers /\ a[2] \in Nat
        BY DEF Attempts
    <3>2. \A a \in granted : a[1] = c => a[2] < att'[c]
        BY <2>1, <3>1 DEF StartClaim
    <3>3. <<c, att'[c]>> \notin granted
        BY <2>1, <3>1, <3>2 DEF StartClaim
    <3> QED BY <2>1, <3>1, <3>2, <3>3 DEF StartClaim, history, ClaimSteps, ClaimReads, TombReads, Executing, CommitSteps, CommitReads, CommitTombs
  <2>2. CASE ClaimCreated(c)
      BY Zenon, <2>2 DEF ClaimCreated, Goto, Return, history, ClaimSteps, ClaimReads, TombReads, Executing, CommitSteps, CommitReads, CommitTombs
  <2>3. CASE ClaimCreateFails(c)
      BY Zenon, <2>3 DEF ClaimCreateFails, Goto, Return, history, ClaimSteps, ClaimReads, TombReads, Executing, CommitSteps, CommitReads, CommitTombs
  <2>4. CASE ClaimCreatedThenRetried(c)
      BY Zenon, <2>4 DEF ClaimCreatedThenRetried, Goto, Return, history, ClaimSteps, ClaimReads, TombReads, Executing, CommitSteps, CommitReads, CommitTombs
  <2>5. CASE ClaimGrant(c)
    <3>1. \A a \in granted' : a[2] <= att'[a[1]]
        BY <2>5 DEF ClaimGrant, Goto
    <3>2. \A x \in Callers : x # c => Attempt(x) # Attempt(c)
        BY Zenon
    <3> QED BY Zenon, <2>5, <3>1, <3>2 DEF ClaimGrant, Goto, ClaimSteps, ClaimReads, TombReads, Executing, CommitSteps, CommitReads, CommitTombs
  <2>6. ASSUME NEW s \in States, StartCommit(c, s) PROVE GrantOrder'
      BY Zenon, <2>6 DEF StartCommit, Goto, Return, history, ClaimSteps, ClaimReads, TombReads, Executing, CommitSteps, CommitReads, CommitTombs
  <2>7. CASE CommitCreated(c)
      BY Zenon, <2>7 DEF CommitCreated, Goto, Return, history, ClaimSteps, ClaimReads, TombReads, Executing, CommitSteps, CommitReads, CommitTombs
  <2>8. CASE CommitCreateFails(c)
      BY Zenon, <2>8 DEF CommitCreateFails, Goto, Return, history, ClaimSteps, ClaimReads, TombReads, Executing, CommitSteps, CommitReads, CommitTombs
  <2>9. CASE CommitCreatedThenRetried(c)
      BY Zenon, <2>9 DEF CommitCreatedThenRetried, Goto, Return, history, ClaimSteps, ClaimReads, TombReads, Executing, CommitSteps, CommitReads, CommitTombs
  <2> HIDE DEF GrantOrder
  <2> QED BY Zenon, <1>2, <2>1, <2>2, <2>3, <2>4, <2>5, <2>6, <2>7, <2>8, <2>9 DEF Busy
<1>3. CASE LateStep
  <2>1. ASSUME NEW b \in late.claims, LandClaim(b) PROVE GrantOrder'
      BY Zenon, <2>1 DEF LandClaim, caller, reaper, history
  <2>2. ASSUME NEW b \in late.outcomes, LandOutcome(b) PROVE GrantOrder'
      BY Zenon, <2>2 DEF LandOutcome, caller, reaper, history
  <2>3. ASSUME NEW b \in late.tombs, LandTomb(b) PROVE GrantOrder'
      BY Zenon, <2>3 DEF LandTomb, caller, reaper, history
  <2>4. ASSUME NEW b \in late.outcomeDels, LandOutcomeDelete(b) PROVE GrantOrder'
      BY Zenon, <2>4 DEF LandOutcomeDelete, caller, reaper, history
  <2>5. ASSUME NEW b \in late.claimDels, LandClaimDelete(b) PROVE GrantOrder'
      BY Zenon, <2>5 DEF LandClaimDelete, caller, reaper, history
  <2> HIDE DEF GrantOrder
  <2> QED BY Zenon, <1>3, <2>1, <2>2, <2>3, <2>4, <2>5 DEF LateStep
<1>4. ASSUME NEW r \in Reapers, ReapStep(r) PROVE GrantOrder'
  <2>1. CASE ReapList(r)
      BY Zenon, <2>1 DEF ReapList, RGoto, store, caller, history
  <2>2. CASE ReapPlan(r)
      BY Zenon, <2>2 DEF ReapPlan, RGoto, store, caller, history
  <2>3. CASE ReapFence(r)
      BY Zenon, <2>3 DEF ReapFence, RGoto, store, caller, history
  <2>4. CASE ReapFenceFails(r)
      BY Zenon, <2>4 DEF ReapFenceFails, RGoto, store, caller, history
  <2>5. CASE ReapDeleteOutcome(r)
      BY Zenon, <2>5 DEF ReapDeleteOutcome, RGoto, store, caller, history
  <2>6. CASE ReapDeleteClaim(r)
      BY Zenon, <2>6 DEF ReapDeleteClaim, RGoto, store, caller, history
  <2>7. CASE ReapDeleteOutcomeFails(r)
      BY Zenon, <2>7 DEF ReapDeleteOutcomeFails, RGoto, store, caller, history
  <2>8. CASE ReapDeleteClaimFails(r)
      BY Zenon, <2>8 DEF ReapDeleteClaimFails, RGoto, store, caller, history
  <2>9. CASE ReapStop(r)
      BY Zenon, <2>9 DEF ReapStop, RGoto, store, caller, history
  <2> HIDE DEF GrantOrder
  <2> QED BY Zenon, <1>4, <2>1, <2>2, <2>3, <2>4, <2>5, <2>6, <2>7, <2>8, <2>9 DEF ReapStep
<1>5. CASE UNCHANGED vars
    BY Zenon, <1>5 DEF vars
<1> HIDE DEF GrantOrder
<1> QED BY Zenon, <1>1, <1>2, <1>3, <1>4, <1>5, StepKinds DEF TypeInv

\* An attempt that writes the outcome it is committing keeps the order: what it
\* wrote before, if definite, has the same state.
LEMMA WriteKeepsOrder ==
    ASSUME TypeInv, GrantOrder, OutcomeOrder, NEW c \in Callers, pc[c] = "commit.create",
           Written' \subseteq Written \cup {MyOutcome(c)}, UNCHANGED <<granted, wr, att>>,
           pc' = [pc EXCEPT ![c] = pc'[c]], pc'[c] # "granted"
    PROVE  OutcomeOrder'
<1> USE DEF TypeInv, TypeOK, OutcomeOrder
<1>1. /\ MyOutcome(c).by = Attempt(c) /\ MyOutcome(c).state = wr[c]
      /\ Attempt(c) \in granted /\ pc[c] \in CommitSteps
    BY Zenon DEF MyOutcome, GrantOrder, Executing, CommitSteps
<1>2. \A x \in Callers : Attempt(x)' = Attempt(x) /\ (Attempt(x) = Attempt(c) => x = c)
    BY Zenon DEF Attempt
<1>3. \A o \in Written' : o.by \in granted'
    BY Zenon, <1>1
<1>4. ASSUME NEW o \in Written', NEW p \in Written', o.by = p.by,
             o.state \in Definite, p.state \in Definite
      PROVE  o.state = p.state
    BY <1>1, <1>4
<1>5. ASSUME NEW x \in Callers, pc'[x] = "granted", NEW o \in Written'
      PROVE  o.by # Attempt(x)'
    BY <1>1, <1>2, <1>5
<1>6. ASSUME NEW x \in Callers, pc'[x] \in CommitSteps, wr'[x] \in Definite,
             NEW o \in Written', o.by = Attempt(x)', o.state \in Definite
      PROVE  o.state = wr'[x]
  <2>1. CASE x = c
      BY <1>1, <1>2, <1>6, <2>1
  <2>2. CASE x # c
      BY <1>1, <1>2, <1>6, <2>2
  <2> QED BY Zenon, <2>1, <2>2
<1> QED BY Zenon, <1>3, <1>4, <1>5, <1>6

LEMMA OutcomeOrderStep == TypeInv /\ GrantOrder /\ OutcomeOrder /\ [Next]_vars => OutcomeOrder'
<1> SUFFICES ASSUME TypeInv /\ GrantOrder /\ OutcomeOrder, [Next]_vars PROVE OutcomeOrder'
    BY Zenon
<1> USE DEF TypeInv, TypeOK, OutcomeOrder
<1>1. ASSUME NEW c \in Callers, Quiet(c) PROVE OutcomeOrder'
    BY Zenon, <1>1 DEF Quiet, Allowed, Attempt, Written
<1>2. ASSUME NEW c \in Callers, Busy(c) PROVE OutcomeOrder'
  <2>1. ASSUME NEW d \in Digests, StartClaim(c, d) PROVE OutcomeOrder'
      BY Zenon, <2>1 DEF StartClaim, Goto, Return, store, history, Attempt, Written, CommitSteps, CommitReads, CommitTombs
  <2>2. CASE ClaimCreated(c)
      BY Zenon, <2>2 DEF ClaimCreated, Goto, Return, store, history, Attempt, Written, CommitSteps, CommitReads, CommitTombs
  <2>3. CASE ClaimCreateFails(c)
    <3>1. UNCHANGED <<recorded, granted>> /\ late'.outcomes = late.outcomes
        BY Zenon, <2>3 DEF ClaimCreateFails, Late, history
    <3> QED BY <2>3, <3>1 DEF ClaimCreateFails, Return, CommitSteps, CommitReads, CommitTombs, Attempt, Written
  <2>4. CASE ClaimCreatedThenRetried(c)
      BY Zenon, <2>4 DEF ClaimCreatedThenRetried, Goto, Return, store, history, Attempt, Written, CommitSteps, CommitReads, CommitTombs
  <2>5. CASE ClaimGrant(c)
    <3>1. Attempt(c) \notin granted
        BY Zenon, <2>5 DEF ClaimGrant, GrantOrder, ClaimSteps, ClaimReads, TombReads
    <3>2. \A o \in Written : o.by # Attempt(c)
        BY Zenon, <3>1
    <3> QED BY Zenon, <2>5, <3>2 DEF ClaimGrant, Goto, store, Attempt, Written, CommitSteps, CommitReads, CommitTombs
  <2>6. ASSUME NEW s \in States, StartCommit(c, s) PROVE OutcomeOrder'
      BY Zenon, <2>6 DEF StartCommit, store, history, Attempt, Written, Definite, CommitSteps, CommitReads, CommitTombs
  <2>7. CASE CommitCreated(c)
    <3>1. Written' \subseteq Written \cup {MyOutcome(c)}
        BY Zenon, <2>7 DEF CommitCreated, Late, Written
    <3>2. /\ pc[c] = "commit.create" /\ UNCHANGED <<granted, wr, att>>
          /\ pc' = [pc EXCEPT ![c] = pc'[c]] /\ pc'[c] # "granted"
        BY Zenon, <2>7 DEF CommitCreated, Goto, Return
    <3> QED BY Zenon, <3>1, <3>2, WriteKeepsOrder
  <2>8. CASE CommitCreateFails(c)
    <3>1. Written' \subseteq Written \cup {MyOutcome(c)}
        BY Zenon, <2>8 DEF CommitCreateFails, Late, Written
    <3>2. /\ pc[c] = "commit.create" /\ UNCHANGED <<granted, wr, att>>
          /\ pc' = [pc EXCEPT ![c] = pc'[c]] /\ pc'[c] # "granted"
        BY Zenon, <2>8 DEF CommitCreateFails, Goto, Return
    <3> QED BY Zenon, <3>1, <3>2, WriteKeepsOrder
  <2>9. CASE CommitCreatedThenRetried(c)
    <3>1. Written' \subseteq Written \cup {MyOutcome(c)}
        BY Zenon, <2>9 DEF CommitCreatedThenRetried, Late, Written
    <3>2. /\ pc[c] = "commit.create" /\ UNCHANGED <<granted, wr, att>>
          /\ pc' = [pc EXCEPT ![c] = pc'[c]] /\ pc'[c] # "granted"
        BY Zenon, <2>9 DEF CommitCreatedThenRetried, Goto, Return
    <3> QED BY Zenon, <3>1, <3>2, WriteKeepsOrder
  <2> HIDE DEF OutcomeOrder
  <2> QED BY Zenon, <1>2, <2>1, <2>2, <2>3, <2>4, <2>5, <2>6, <2>7, <2>8, <2>9 DEF Busy
<1>3. CASE LateStep
  <2>1. ASSUME NEW b \in late.claims, LandClaim(b) PROVE OutcomeOrder'
    <3>1. Written' \subseteq Written
        BY Zenon, <2>1 DEF LandClaim, Late, history, Written
    <3> QED BY Zenon, <2>1, <3>1 DEF LandClaim, caller, history, Attempt
  <2>2. ASSUME NEW b \in late.outcomes, LandOutcome(b) PROVE OutcomeOrder'
    <3>1. Written' \subseteq Written
        BY Zenon, <2>2 DEF LandOutcome, Late, history, Written
    <3> QED BY Zenon, <2>2, <3>1 DEF LandOutcome, caller, history, Attempt
  <2>3. ASSUME NEW b \in late.tombs, LandTomb(b) PROVE OutcomeOrder'
    <3>1. Written' \subseteq Written
        BY Zenon, <2>3 DEF LandTomb, Late, history, Written
    <3> QED BY Zenon, <2>3, <3>1 DEF LandTomb, caller, history, Attempt
  <2>4. ASSUME NEW b \in late.outcomeDels, LandOutcomeDelete(b) PROVE OutcomeOrder'
    <3>1. Written' \subseteq Written
        BY Zenon, <2>4 DEF LandOutcomeDelete, Late, history, Written
    <3> QED BY Zenon, <2>4, <3>1 DEF LandOutcomeDelete, caller, history, Attempt
  <2>5. ASSUME NEW b \in late.claimDels, LandClaimDelete(b) PROVE OutcomeOrder'
    <3>1. Written' \subseteq Written
        BY Zenon, <2>5 DEF LandClaimDelete, Late, history, Written
    <3> QED BY Zenon, <2>5, <3>1 DEF LandClaimDelete, caller, history, Attempt
  <2> HIDE DEF OutcomeOrder
  <2> QED BY Zenon, <1>3, <2>1, <2>2, <2>3, <2>4, <2>5 DEF LateStep
<1>4. ASSUME NEW r \in Reapers, ReapStep(r) PROVE OutcomeOrder'
  <2>1. CASE ReapList(r)
      BY Zenon, <2>1 DEF ReapList, RGoto, store, caller, history, Attempt, Written
  <2>2. CASE ReapPlan(r)
      BY Zenon, <2>2 DEF ReapPlan, RGoto, store, caller, history, Attempt, Written
  <2>3. CASE ReapFence(r)
      BY Zenon, <2>3 DEF ReapFence, RGoto, store, caller, history, Attempt, Written
  <2>4. CASE ReapFenceFails(r)
    <3>1. UNCHANGED <<recorded, granted>> /\ late'.outcomes = late.outcomes
        BY Zenon, <2>4 DEF ReapFenceFails, Late, history
    <3> QED BY <2>4, <3>1 DEF ReapFenceFails, RGoto, caller, Attempt, Written
  <2>5. CASE ReapDeleteOutcome(r)
      BY Zenon, <2>5 DEF ReapDeleteOutcome, RGoto, store, caller, history, Attempt, Written
  <2>6. CASE ReapDeleteClaim(r)
      BY Zenon, <2>6 DEF ReapDeleteClaim, RGoto, store, caller, history, Attempt, Written
  <2>7. CASE ReapDeleteOutcomeFails(r)
    <3>1. UNCHANGED <<recorded, granted>> /\ late'.outcomes = late.outcomes
        BY Zenon, <2>7 DEF ReapDeleteOutcomeFails, Late, history
    <3> QED BY Zenon, <2>7, <3>1 DEF ReapDeleteOutcomeFails, RGoto, caller, Attempt, Written
  <2>8. CASE ReapDeleteClaimFails(r)
    <3>1. UNCHANGED <<recorded, granted>> /\ late'.outcomes = late.outcomes
        BY Zenon, <2>8 DEF ReapDeleteClaimFails, Late, history
    <3> QED BY <2>8, <3>1 DEF ReapDeleteClaimFails, RGoto, caller, Attempt, Written
  <2>9. CASE ReapStop(r)
      BY Zenon, <2>9 DEF ReapStop, RGoto, store, caller, history, Attempt, Written
  <2> HIDE DEF OutcomeOrder
  <2> QED BY Zenon, <1>4, <2>1, <2>2, <2>3, <2>4, <2>5, <2>6, <2>7, <2>8, <2>9 DEF ReapStep
<1>5. CASE UNCHANGED vars
    BY Zenon, <1>5 DEF vars, Attempt, Written
<1> HIDE DEF OutcomeOrder
<1> QED BY Zenon, <1>1, <1>2, <1>3, <1>4, <1>5, StepKinds DEF TypeInv

-----------------------------------------------------------------------------
(* Fences and unknown outcomes *)

\* The fence and the deletions speak of definite outcomes that were recorded.
FenceInv == FenceBacked /\ UnknownStays

LEMMA FenceInvStep == TypeInv /\ DeletesFenced /\ FenceInv /\ [Next]_vars => FenceInv'
<1> SUFFICES ASSUME TypeInv /\ DeletesFenced /\ FenceInv, [Next]_vars PROVE FenceInv'
    BY Zenon
<1> USE AbsentAssumption DEF TypeInv, TypeOK, FenceInv, FenceBacked, UnknownStays
<1>1. ASSUME NEW c \in Callers, Quiet(c) PROVE FenceInv'
    BY Zenon, <1>1 DEF Quiet, Allowed, Backed
<1>2. ASSUME NEW c \in Callers, Busy(c) PROVE FenceInv'
  <2>1. ASSUME NEW d \in Digests, StartClaim(c, d) PROVE FenceInv'
      BY Zenon, <2>1 DEF StartClaim, store, reaper, history, Backed
  <2>2. CASE ClaimCreated(c)
      BY Zenon, <2>2 DEF ClaimCreated, store, reaper, history, Backed
  <2>3. CASE ClaimCreateFails(c)
    <3>1. UNCHANGED recorded /\ late'.tombs = late.tombs /\ late'.outcomeDels = late.outcomeDels
        BY Zenon, <2>3 DEF ClaimCreateFails, Late, history
    <3> QED BY Zenon, <2>3, <3>1 DEF ClaimCreateFails, reaper, history, Backed
  <2>4. CASE ClaimCreatedThenRetried(c)
      BY Zenon, <2>4 DEF ClaimCreatedThenRetried, store, reaper, history, Backed
  <2>5. CASE ClaimGrant(c)
      BY Zenon, <2>5 DEF ClaimGrant, store, reaper, history, Backed
  <2>6. ASSUME NEW s \in States, StartCommit(c, s) PROVE FenceInv'
      BY Zenon, <2>6 DEF StartCommit, store, reaper, history, Backed
  <2>7. CASE CommitCreated(c)
    <3>1. MyOutcome(c) \in OutcomeBody
        BY Zenon, <2>7, BodyType DEF CommitCreated
    <3>2. late'.tombs = late.tombs /\ late'.outcomeDels = late.outcomeDels
        BY Zenon, <2>7 DEF CommitCreated, Late
    <3>3. outcome = Absent => \A o \in recorded : o.state # "unknown"
        BY Zenon
    <3>4. \A f : Backed(f) => Backed(f)'
        BY Zenon, <2>7 DEF CommitCreated, Backed
    <3> QED BY Zenon, <2>7, <3>1, <3>2, <3>3, <3>4 DEF CommitCreated, reaper
  <2>8. CASE CommitCreateFails(c)
    <3>1. MyOutcome(c) \in OutcomeBody
        BY Zenon, <2>8, BodyType DEF CommitCreateFails
    <3>2. late'.tombs = late.tombs /\ late'.outcomeDels = late.outcomeDels
        BY Zenon, <2>8 DEF CommitCreateFails, Late
    <3>3. outcome = Absent => \A o \in recorded : o.state # "unknown"
        BY Zenon
    <3>4. \A f : Backed(f) => Backed(f)'
        BY Zenon, <2>8 DEF CommitCreateFails, Backed
    <3> QED BY Zenon, <2>8, <3>1, <3>2, <3>3, <3>4 DEF CommitCreateFails, reaper
  <2>9. CASE CommitCreatedThenRetried(c)
    <3>1. MyOutcome(c) \in OutcomeBody
        BY Zenon, <2>9, BodyType DEF CommitCreatedThenRetried
    <3>2. late'.tombs = late.tombs /\ late'.outcomeDels = late.outcomeDels
        BY Zenon, <2>9 DEF CommitCreatedThenRetried, Late
    <3>3. outcome = Absent => \A o \in recorded : o.state # "unknown"
        BY Zenon
    <3>4. \A f : Backed(f) => Backed(f)'
        BY Zenon, <2>9 DEF CommitCreatedThenRetried, Backed
    <3> QED BY Zenon, <2>9, <3>1, <3>2, <3>3, <3>4 DEF CommitCreatedThenRetried, reaper
  <2> HIDE DEF FenceInv
  <2> QED BY Zenon, <1>2, <2>1, <2>2, <2>3, <2>4, <2>5, <2>6, <2>7, <2>8, <2>9 DEF Busy
<1>3. CASE LateStep
  <2>1. ASSUME NEW b \in late.claims, LandClaim(b) PROVE FenceInv'
      BY Zenon, <2>1 DEF LandClaim, Late, Backed, DeletesFenced, reaper, history
  <2>2. ASSUME NEW b \in late.outcomes, LandOutcome(b) PROVE FenceInv'
      BY <2>2 DEF LandOutcome, Late, Backed, DeletesFenced, reaper, history
  <2>3. ASSUME NEW b \in late.tombs, LandTomb(b) PROVE FenceInv'
      BY Zenon, <2>3 DEF LandTomb, Late, Backed, DeletesFenced, reaper, history
  <2>4. ASSUME NEW b \in late.outcomeDels, LandOutcomeDelete(b) PROVE FenceInv'
    <3>1. late'.tombs = late.tombs /\ late'.outcomeDels \subseteq late.outcomeDels
        BY Zenon, <2>4 DEF LandOutcomeDelete, Late
    <3>2. b \in recorded /\ b.state # "unknown" /\ tomb # Absent
        BY Zenon DEF DeletesFenced, Definite
    <3>3. outcome' = outcome \/ (outcome = b /\ outcome' = Absent)
        BY Zenon, <2>4 DEF LandOutcomeDelete
    <3> QED BY Zenon, <2>4, <3>1, <3>2, <3>3 DEF LandOutcomeDelete, Backed, reaper, history
  <2>5. ASSUME NEW b \in late.claimDels, LandClaimDelete(b) PROVE FenceInv'
      BY Zenon, <2>5 DEF LandClaimDelete, Late, Backed, DeletesFenced, reaper, history
  <2> HIDE DEF FenceInv
  <2> QED BY Zenon, <1>3, <2>1, <2>2, <2>3, <2>4, <2>5 DEF LateStep
<1>4. ASSUME NEW r \in Reapers, ReapStep(r) PROVE FenceInv'
  <2>1. CASE ReapList(r)
      BY Zenon, <2>1 DEF ReapList, RGoto, store, history, Backed, DeletesFenced
  <2>2. CASE ReapPlan(r)
    <3> DEFINE f == [digest |-> claim.digest, state |-> outcome.state]
    <3>1. CASE Retirable(r)
      <4>1. /\ rpc' = [rpc EXCEPT ![r] = "fence"]
            /\ rfence' = [rfence EXCEPT ![r] = f]
            /\ UNCHANGED <<rlist, rsaw, store, caller, history>>
          BY Zenon, <2>2, <3>1 DEF ReapPlan
      <4>2. Backed(f)
          BY Zenon, <3>1 DEF Retirable, Backed
      <4>3. rlist[r].outcome \in recorded /\ rlist[r].outcome \in OutcomeBody
          BY Zenon, <2>2 DEF ReapPlan
      <4>4. rlist[r].outcome.state \in Definite
        <5>1. rlist[r].outcome.state # "unknown"
            BY Zenon, <3>1, <4>3 DEF Retirable, Definite
        <5> QED BY Zenon, <4>3, <5>1 DEF OutcomeBody, States
      <4> HIDE DEF f
      <4> QED BY Zenon, <2>2, <4>1, <4>2, <4>3, <4>4 DEF ReapPlan, Backed, store, history
    <3>2. CASE ~Retirable(r)
      <4>1. /\ rpc' = [rpc EXCEPT ![r] = "idle"]
            /\ UNCHANGED <<recorded, rfence, rlist, outcome, tomb, late>>
          BY Zenon, <2>2, <3>2 DEF ReapPlan, RGoto, store, history
      <4> QED BY Zenon, <4>1 DEF Backed
    <3> QED BY Zenon, <3>1, <3>2
  <2>3. CASE ReapFence(r)
      BY Zenon, <2>3 DEF ReapFence, RGoto, store, history, Backed, DeletesFenced
  <2>4. CASE ReapFenceFails(r)
    <3>1. late'.outcomeDels = late.outcomeDels /\ late'.tombs \subseteq late.tombs \cup {rfence[r]}
        BY Zenon, <2>4 DEF ReapFenceFails, Late
    <3>2. tomb' = tomb \/ tomb' = rfence[r]
        BY Zenon, <2>4 DEF ReapFenceFails
    <3>3. Backed(rfence[r]) /\ rfence[r] # Absent
        BY Zenon, <2>4 DEF ReapFenceFails
    <3>4. UNCHANGED <<recorded, rfence, rlist, outcome>> /\ rpc' = [rpc EXCEPT ![r] = "idle"]
        BY Zenon, <2>4 DEF ReapFenceFails, RGoto, history
    <3>5. \A f : Backed(f)' <=> Backed(f)
        BY Zenon, <3>4 DEF Backed
    <3> QED BY Zenon, <3>1, <3>2, <3>3, <3>4, <3>5
  <2>5. CASE ReapDeleteOutcome(r)
    <3>1. rlist[r].outcome.state # "unknown" /\ tomb # Absent
        BY Zenon, <2>5 DEF ReapDeleteOutcome, DeletesFenced, Definite
    <3>2. outcome' = outcome \/ (outcome = rlist[r].outcome /\ outcome' = Absent)
        BY Zenon, <2>5 DEF ReapDeleteOutcome
    <3>3. \A x \in Reapers : /\ rpc'[x] # "idle" => rpc[x] # "idle"
                             /\ rpc'[x] \in {"fence", "delOutcome"} => rpc'[x] = rpc[x]
        BY Zenon, <2>5 DEF ReapDeleteOutcome, RGoto
    <3>4. UNCHANGED <<recorded, rfence, rlist, tomb, late>>
        BY Zenon, <2>5 DEF ReapDeleteOutcome, RGoto, history
    <3>5. \A f : Backed(f)' <=> Backed(f)
        BY Zenon, <3>4 DEF Backed
    <3>6. FenceBacked'
        BY Zenon, <3>1, <3>2, <3>3, <3>4, <3>5
    <3>7. UnknownStays'
        BY Zenon, <3>1, <3>2, <3>3, <3>4
    <3> HIDE DEF FenceBacked, UnknownStays
    <3> QED BY Zenon, <3>6, <3>7
  <2>6. CASE ReapDeleteClaim(r)
      BY Zenon, <2>6 DEF ReapDeleteClaim, RGoto, store, history, Backed, DeletesFenced
  <2>7. CASE ReapDeleteOutcomeFails(r)
    <3>1. /\ rlist[r].outcome.state # "unknown" /\ tomb # Absent
          /\ rlist[r].outcome \in recorded /\ rlist[r].outcome.state \in Definite
        BY Zenon, <2>7 DEF ReapDeleteOutcomeFails, DeletesFenced, Definite
    <3>2. outcome' = outcome \/ (outcome = rlist[r].outcome /\ outcome' = Absent)
        BY Zenon, <2>7 DEF ReapDeleteOutcomeFails
    <3>3. /\ late'.tombs = late.tombs
          /\ late'.outcomeDels \subseteq late.outcomeDels \cup {rlist[r].outcome}
        BY Zenon, <2>7 DEF ReapDeleteOutcomeFails, Late
    <3>4. UNCHANGED <<recorded, rfence, rlist, tomb>> /\ rpc' = [rpc EXCEPT ![r] = "idle"]
        BY Zenon, <2>7 DEF ReapDeleteOutcomeFails, RGoto, history
    <3>5. \A f : Backed(f)' <=> Backed(f)
        BY Zenon, <3>4 DEF Backed
    <3> QED BY Zenon, <3>1, <3>2, <3>3, <3>4, <3>5
  <2>8. CASE ReapDeleteClaimFails(r)
    <3>1. UNCHANGED recorded /\ late'.tombs = late.tombs /\ late'.outcomeDels = late.outcomeDels
        BY Zenon, <2>8 DEF ReapDeleteClaimFails, Late, history
    <3> QED BY Zenon, <2>8, <3>1 DEF ReapDeleteClaimFails, RGoto, history, Backed
  <2>9. CASE ReapStop(r)
      BY Zenon, <2>9 DEF ReapStop, RGoto, store, history, Backed, DeletesFenced
  <2> HIDE DEF FenceInv
  <2> QED BY Zenon, <1>4, <2>1, <2>2, <2>3, <2>4, <2>5, <2>6, <2>7, <2>8, <2>9 DEF ReapStep
<1>5. CASE UNCHANGED vars
    BY Zenon, <1>5 DEF vars, Backed
<1> HIDE DEF FenceInv
<1> QED BY Zenon, <1>1, <1>2, <1>3, <1>4, <1>5, StepKinds DEF TypeInv

LEMMA InductiveInvariant == Spec => []IInv
<1>1. Init => IInv
  <2> SUFFICES ASSUME Init PROVE IInv
      BY Zenon
  <2>1. TypeInv
      BY Zenon, InitTypeOK DEF Init, TypeInv
  <2>2. AtMostOneGrant /\ ClaimHeld /\ DeletesFenced
      BY Zenon DEF Init, AtMostOneGrant, ClaimHeld, DeletesFenced
  <2>3. GrantOrder /\ OutcomeOrder
      BY Zenon DEF Init, GrantOrder, OutcomeOrder, Written, ClaimSteps, ClaimReads, TombReads,
             Executing, CommitSteps, CommitReads, CommitTombs
  <2>4. FenceBacked /\ UnknownStays
      BY Zenon DEF Init, FenceBacked, UnknownStays
  <2> QED BY Zenon, <2>1, <2>2, <2>3, <2>4 DEF IInv
<1>2. IInv /\ [Next]_vars => IInv'
    BY Zenon, TypeInvStep, GrantInvStep, GrantOrderStep, OutcomeOrderStep, FenceInvStep
    DEF IInv, GrantInv, FenceInv
<1> QED BY <1>1, <1>2, PTL DEF Spec

\* Ledger.Claim grants execution of an effect to one attempt at most, whatever
\* the callers, crashes, lost responses, late requests and retirements.
THEOREM GrantedAtMostOnce == Spec => []AtMostOneGrant
<1>1. IInv => AtMostOneGrant
    BY Zenon DEF IInv
<1> QED BY <1>1, InductiveInvariant, PTL

LEMMA RecordedAgree == IInv => DefiniteOutcomesAgree
<1> SUFFICES ASSUME IInv PROVE DefiniteOutcomesAgree
    BY Zenon
<1>1. recorded \subseteq Written
    BY Zenon DEF Written
<1>2. \A o \in Written : o.by \in granted
    BY Zenon DEF IInv, OutcomeOrder
<1>3. \A o, p \in Written :
        o.by = p.by /\ o.state \in Definite /\ p.state \in Definite => o.state = p.state
    BY Zenon DEF IInv, OutcomeOrder
<1>4. \A a, b \in granted : a = b
    BY Zenon DEF IInv, AtMostOneGrant
<1> QED BY Zenon, <1>1, <1>2, <1>3, <1>4 DEF DefiniteOutcomesAgree

\* Ledger.Commit: durable outcomes are the granted attempt's and never disagree.
THEOREM OutcomesAgree == Spec => []DefiniteOutcomesAgree
BY RecordedAgree, InductiveInvariant, PTL

\* Retention never removes a record of a granted effect without leaving the
\* tombstone that keeps Claim from granting it again.
THEOREM RetirementIsFenced == Spec => []RetirementFenced
<1>1. IInv => RetirementFenced
    BY Zenon DEF IInv, ClaimHeld, FenceBacked, Backed, RetirementFenced
<1> QED BY <1>1, InductiveInvariant, PTL

-----------------------------------------------------------------------------
(* Action properties and refinement *)

\* What one step may do to the outcome object.
LEMMA OutcomeStep ==
    ASSUME IInv, [Next]_vars, outcome' # outcome, outcome # Absent
    PROVE  /\ outcome' = Absent /\ tomb # Absent
           /\ outcome \in recorded /\ outcome.state \in Definite
<1> USE DEF IInv, TypeInv, TypeOK, FenceBacked, UnknownStays, DeletesFenced
<1>1. ASSUME NEW c \in Callers, Quiet(c) \/ Busy(c)
      PROVE  FALSE
    BY Zenon, <1>1 DEF Quiet, Allowed, Busy, StartClaim, ClaimCreated, ClaimCreateFails,
        ClaimCreatedThenRetried, ClaimGrant, StartCommit, CommitCreated, CommitCreateFails,
        CommitCreatedThenRetried, store
<1>2. CASE LateStep
  <2>1. \E b \in late.outcomeDels : outcome = b /\ outcome' = Absent
      BY Zenon, <1>2 DEF LateStep, LandClaim, LandOutcome, LandTomb, LandOutcomeDelete, LandClaimDelete
  <2> QED BY Zenon, <2>1
<1>3. ASSUME NEW r \in Reapers, ReapStep(r)
      PROVE  /\ outcome' = Absent /\ tomb # Absent
             /\ outcome \in recorded /\ outcome.state \in Definite
  <2>1. outcome' = Absent /\ outcome = rlist[r].outcome /\ rpc[r] = "delOutcome"
      BY Zenon, <1>3 DEF ReapStep, ReapList, ReapPlan, ReapFence, ReapFenceFails, ReapDeleteOutcome,
          ReapDeleteClaim, ReapDeleteOutcomeFails, ReapDeleteClaimFails, ReapStop, store
  <2> QED BY Zenon, <2>1
<1>4. CASE UNCHANGED vars
    BY Zenon, <1>4 DEF vars
<1>5. TypeOK
    BY Zenon
<1> HIDE DEF IInv
<1> QED BY Zenon, <1>1, <1>2, <1>3, <1>4, <1>5, StepKinds

\* An outcome object is created once and removed only under the fence that
\* repeats its state; Commit never replaces one.
THEOREM OutcomeIsImmutable == Spec => OutcomeNeverOverwritten
<1>1. ASSUME IInv, [Next]_vars, outcome' # outcome, outcome # Absent
      PROVE  outcome' = Absent /\ tomb # Absent /\ tomb.state = outcome.state
  <2>1. outcome' = Absent /\ tomb # Absent /\ outcome \in recorded /\ outcome.state \in Definite
      BY Zenon, <1>1, OutcomeStep
  <2>2. PICK o \in recorded : o.state = tomb.state
      BY Zenon, <1>1, <2>1 DEF IInv, FenceBacked, Backed
  <2>3. tomb.state \in Definite
      BY Zenon, <1>1, <2>1 DEF IInv, TypeInv, TypeOK, Fence
  <2> QED BY Zenon, <1>1, <2>1, <2>2, <2>3, RecordedAgree DEF DefiniteOutcomesAgree
<1>2. IInv /\ [Next]_vars => [outcome' # outcome =>
         \/ outcome = Absent
         \/ outcome' = Absent /\ tomb # Absent /\ tomb.state = outcome.state]_vars
    BY Zenon, <1>1
<1> QED BY <1>2, InductiveInvariant, PTL DEF Spec, OutcomeNeverOverwritten

\* A step grants, or records, or fences, or does none of the three.
LEMMA HistoryStep ==
    ASSUME IInv, [Next]_vars
    PROVE  \/ UNCHANGED <<granted, recorded, tomb>>
           \/ (\E c \in Callers : ClaimGrant(c)) /\ UNCHANGED <<recorded, tomb>>
           \/ recorded \subseteq recorded' /\ UNCHANGED <<granted, tomb>>
           \/ tomb = Absent /\ tomb' # Absent /\ UNCHANGED <<granted, recorded>>
<1> USE AbsentAssumption DEF IInv, TypeInv, TypeOK, store, history
<1>1. ASSUME NEW c \in Callers, ClaimStep(c)
      PROVE  UNCHANGED <<recorded, tomb>> /\ (ClaimGrant(c) \/ UNCHANGED granted)
    BY Zenon, <1>1 DEF ClaimStep, StartClaim, ClaimFenced, ClaimReadFails, ClaimPreCheck,
        ClaimCreated, ClaimExists, ClaimCreateFails, ClaimCreatedThenRetried, ClaimGrant,
        ClaimInspect, ClaimReplayCheck, ClaimReadOutcome, ClaimReplay
<1>2. ASSUME NEW c \in Callers, CommitStep(c) \/ Leave(c)
      PROVE  recorded \subseteq recorded' /\ UNCHANGED <<granted, tomb>>
    BY Zenon, <1>2 DEF CommitStep, StartCommit, CommitReadFails, CommitFenced, CommitPreCheck,
        CommitReadClaim, CommitCreated, CommitExists, CommitCreateFails,
        CommitCreatedThenRetried, CommitCompare, CommitDone, Leave
<1>3. CASE LateStep
    BY Zenon, <1>3 DEF LateStep, LandClaim, LandOutcome, LandTomb, LandOutcomeDelete,
        LandClaimDelete, Late
<1>4. ASSUME NEW r \in Reapers, ReapStep(r)
      PROVE  /\ UNCHANGED <<granted, recorded>>
             /\ tomb' = tomb \/ (tomb = Absent /\ tomb' # Absent)
    BY Zenon, <1>4 DEF ReapStep, ReapList, ReapPlan, ReapFence, ReapFenceFails, ReapDeleteOutcome,
        ReapDeleteClaim, ReapDeleteOutcomeFails, ReapDeleteClaimFails, ReapStop
<1>5. CASE UNCHANGED vars
    BY Zenon, <1>5 DEF vars
<1> QED BY Zenon, <1>1, <1>2, <1>3, <1>4, <1>5 DEF Next

\* As long as there is no fence, the outcome a caller read is the durable one.
ReplayInv ==
    \A c \in Callers :
      pc[c] = "claim.tomb4" /\ tomb = Absent =>
        outcome # Absent /\ outcome.state = saw[c] /\ outcome.digest = req[c]

\* What c holds is not touched, and it is not told to replay.
Apart(c) ==
    /\ pc'[c] = "claim.tomb4" => pc[c] = "claim.tomb4" /\ saw'[c] = saw[c] /\ req'[c] = req[c]
    /\ pc'[c] = "decided" /\ ret'[c] = "replay" => pc[c] = "decided"

LEMMA OnlyReadersReplay ==
    ASSUME TypeOK, [Next]_vars, NEW c \in Callers
    PROVE  Apart(c) \/ ClaimReadOutcome(c) \/ ClaimReplay(c)
<1> USE DEF TypeOK, Apart
<1>1. ASSUME NEW x \in Callers, ClaimStep(x) PROVE Apart(c) \/ ClaimReadOutcome(c) \/ ClaimReplay(c)
  <2>1. CASE \/ \E d \in Digests : StartClaim(x, d)
             \/ ClaimFenced(x) \/ ClaimReadFails(x) \/ ClaimPreCheck(x)
             \/ ClaimCreated(x) \/ ClaimExists(x) \/ ClaimCreateFails(x)
      BY Zenon, <2>1 DEF StartClaim, ClaimFenced, ClaimReadFails, ClaimPreCheck, ClaimCreated, ClaimExists,
          ClaimCreateFails, Goto, Return
  <2>2. CASE \/ ClaimCreatedThenRetried(x) \/ ClaimGrant(x) \/ ClaimInspect(x) \/ ClaimReplayCheck(x)
      BY Zenon, <2>2 DEF ClaimCreatedThenRetried, ClaimGrant, ClaimInspect, ClaimReplayCheck, Goto, Return
  <2>3. CASE x # c /\ (ClaimReadOutcome(x) \/ ClaimReplay(x))
      BY Zenon, <2>3 DEF ClaimReadOutcome, ClaimReplay, Goto, Return
  <2> QED BY Zenon, <1>1, <2>1, <2>2, <2>3 DEF ClaimStep
<1>2. ASSUME NEW x \in Callers, CommitStep(x) \/ Leave(x) PROVE Apart(c)
    BY Zenon, <1>2 DEF CommitStep, StartCommit, CommitReadFails, CommitFenced, CommitPreCheck,
        CommitReadClaim, CommitCreated, CommitExists, CommitCreateFails,
        CommitCreatedThenRetried, CommitCompare, CommitDone, Leave, Goto, Return
<1>3. ASSUME UNCHANGED caller PROVE Apart(c)
    BY Zenon, <1>3 DEF caller
<1>4. CASE LateStep
    BY Zenon, <1>3, <1>4 DEF LateStep, LandClaim, LandOutcome, LandTomb, LandOutcomeDelete, LandClaimDelete
<1>5. ASSUME NEW r \in Reapers, ReapStep(r) PROVE Apart(c)
    BY Zenon, <1>3, <1>5 DEF ReapStep, ReapList, ReapPlan, ReapFence, ReapFenceFails, ReapDeleteOutcome,
        ReapDeleteClaim, ReapDeleteOutcomeFails, ReapDeleteClaimFails, ReapStop
<1>6. CASE UNCHANGED vars
    BY Zenon, <1>3, <1>6 DEF vars, caller
<1> QED BY Zenon, <1>1, <1>2, <1>4, <1>5, <1>6 DEF Next

LEMMA ReplayInvStep ==
    ASSUME IInv, ReplayInv, [Next]_vars
    PROVE  ReplayInv'
<1> SUFFICES ASSUME NEW c \in Callers, pc'[c] = "claim.tomb4", tomb' = Absent
             PROVE  outcome' # Absent /\ outcome'.state = saw'[c] /\ outcome'.digest = req'[c]
    BY Zenon DEF ReplayInv
<1>1. TypeOK /\ tomb = Absent
    BY Zenon, HistoryStep DEF IInv, TypeInv
<1>2. outcome # Absent => outcome' = outcome
    BY Zenon, <1>1, OutcomeStep
<1>3. CASE Apart(c)
    BY Zenon, <1>1, <1>2, <1>3 DEF ReplayInv, Apart
<1>4. CASE ClaimReadOutcome(c)
    BY Zenon, <1>1, <1>4 DEF ClaimReadOutcome, Return, TypeOK, store
<1>5. CASE ClaimReplay(c)
    BY Zenon, <1>1, <1>5 DEF ClaimReplay, Return, TypeOK
<1> QED BY Zenon, <1>1, <1>3, <1>4, <1>5, OnlyReadersReplay

(***************************************************************************)
(* When Claim answers a replay, the outcome it read before its last look   *)
(* at the fence is still durable, definite and of the caller's digest: the *)
(* fence precedes every deletion, so finding none means that the outcome   *)
(* has not been touched since it was read (ledger.go, Claim).              *)
(***************************************************************************)
THEOREM ReplayIsTrue == Spec => ReplayTruth
<1>1. Init => ReplayInv
    BY Zenon DEF Init, ReplayInv
<1>2. IInv /\ ReplayInv /\ [Next]_vars => ReplayInv'
    BY Zenon, ReplayInvStep
<1>3. ASSUME IInv, ReplayInv, [Next]_vars, NEW c \in Callers,
             pc[c] # "decided", pc'[c] = "decided", ret'[c] = "replay"
      PROVE  /\ outcome # Absent /\ outcome.state = saw[c] /\ outcome.digest = req[c]
             /\ saw[c] \in Definite
  <2>1. TypeOK
      BY Zenon, <1>3 DEF IInv, TypeInv
  <2>2. ClaimReplay(c)
    <3>1. ~Apart(c)
        BY Zenon, <1>3 DEF Apart
    <3>2. ~ClaimReadOutcome(c)
        BY Zenon, <1>3, <2>1 DEF ClaimReadOutcome, Return, TypeOK
    <3> QED BY Zenon, <1>3, <2>1, <3>1, <3>2, OnlyReadersReplay
  <2>3. pc[c] = "claim.tomb4" /\ tomb = Absent /\ saw[c] # "unknown"
      BY Zenon, <1>3, <2>1, <2>2 DEF ClaimReplay, Return, TypeOK
  <2>4. saw[c] \in Definite
      BY Zenon, <2>1, <2>3 DEF TypeOK, States
  <2> QED BY Zenon, <1>3, <2>3, <2>4 DEF ReplayInv
<1>4. IInv /\ ReplayInv /\ [Next]_vars =>
        [\A c \in Callers :
           pc[c] # "decided" /\ pc'[c] = "decided" /\ ret'[c] = "replay" =>
             /\ outcome # Absent /\ outcome.state = saw[c] /\ outcome.digest = req[c]
             /\ saw[c] \in Definite]_vars
    BY Zenon, <1>3
<1> QED BY <1>1, <1>2, <1>4, InductiveInvariant, PTL DEF Spec, ReplayTruth

\* The ledger of three objects and interleaved requests implements the effect
\* that is granted at most once.
THEOREM LedgerImplementsAtMostOnce == Spec => ImplementsAtMostOnce
<1>1. Init => Abstract!Init
    BY Zenon DEF Init, Abstract!Init, Verdict
<1>2. ASSUME IInv, IInv', [Next]_vars PROVE [Abstract!Next]_Abstract!vars
  <2> USE DEF Abstract!Next, Abstract!vars
  <2>1. CASE UNCHANGED <<granted, recorded, tomb>>
      BY Zenon, <2>1 DEF Verdict
  <2>2. CASE (\E c \in Callers : ClaimGrant(c)) /\ UNCHANGED <<recorded, tomb>>
    <3>1. PICK c \in Callers : ClaimGrant(c)
        BY Zenon, <2>2
    <3>2. tomb = Absent /\ granted' = granted \cup {Attempt(c)}
        BY Zenon, <3>1 DEF ClaimGrant
    <3>3. Attempt(c) \in Attempts
        BY Zenon, <1>2, <3>2 DEF IInv, TypeInv, TypeOK
    <3>4. granted = {}
        BY Zenon, <1>2, <3>1, <3>2
        DEF IInv, ClaimHeld, GrantOrder, ClaimGrant, ClaimSteps, ClaimReads, TombReads
    <3>5. Abstract!Grant(Attempt(c))
        BY Zenon, <2>2, <3>2, <3>4 DEF Abstract!Grant, Verdict
    <3> QED BY Zenon, <3>3, <3>5
  <2>3. CASE recorded \subseteq recorded' /\ UNCHANGED <<granted, tomb>>
    <3>1. CASE Verdict' = Verdict
        BY Zenon, <2>3, <3>1
    <3>2. CASE Verdict' # Verdict
      <4>1. Verdict \subseteq Verdict'
          BY Zenon, <2>3 DEF Verdict
      <4>2. PICK v \in Verdict' : v \notin Verdict
          BY Zenon, <3>2, <4>1
      <4>3. \A u, w \in Verdict' : u = w
          BY <1>2 DEF Verdict, IInv, AtMostOneGrant, OutcomeOrder, Written
      <4>4. Verdict = {} /\ Verdict' = {v} /\ v \in Definite
          BY Zenon, <4>1, <4>2, <4>3 DEF Verdict
      <4>5. granted # {}
          BY Zenon, <1>2, <2>3, <4>2 DEF Verdict, IInv, OutcomeOrder, Written
      <4>6. Abstract!Record(v)
          BY Zenon, <2>3, <4>4, <4>5 DEF Abstract!Record
      <4> QED BY Zenon, <4>4, <4>6
    <3> QED BY Zenon, <3>1, <3>2
  <2>4. CASE tomb = Absent /\ tomb' # Absent /\ UNCHANGED <<granted, recorded>>
    <3>1. PICK o \in recorded : o.state = tomb'.state
        BY Zenon, <1>2, <2>4 DEF IInv, FenceBacked, Backed
    <3>2. tomb'.state \in Definite
        BY Zenon, <1>2, <2>4 DEF IInv, TypeInv, TypeOK, Fence
    <3>3. Verdict # {}
        BY Zenon, <3>1, <3>2 DEF Verdict
    <3>4. Abstract!Retire
        BY Zenon, <2>4, <3>3 DEF Abstract!Retire, Verdict
    <3> QED BY Zenon, <3>4
  <2> QED BY Zenon, <1>2, <2>1, <2>2, <2>3, <2>4, HistoryStep
<1> QED BY <1>1, <1>2, InductiveInvariant, PTL DEF Spec, ImplementsAtMostOnce, Abstract!Spec

=============================================================================
