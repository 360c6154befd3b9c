------------------------------ MODULE Retention ------------------------------
(***************************************************************************)
(* The retention controller of v3/internal/retention in its enforcing,     *)
(* attested mode, beside the AgentRuns whose leftovers it removes.  A      *)
(* cycle reads the clock, lists runs, Secrets, workspaces and objects one  *)
(* request after the other, plans from these listings and then deletes     *)
(* one item per request, while runs go on and another operator process may *)
(* be in the middle of a cycle of its own.                                 *)
(*                                                                         *)
(* A run stands for its UID: child names and object keys contain it, so    *)
(* runs share no item.  Ownership, label, child, prefix and ETag checks    *)
(* hold of every item here; the ledger's own races are in EffectLedger.    *)
(***************************************************************************)
EXTENDS Integers, FiniteSets

CONSTANTS Runs, Controllers,
          Kinds,          \* kinds of artifacts, "stream" the terminal event stream
          Effects,        \* operations of ledger pairs: "publish", "findings", "mcp"
          ArtifactDays, WorktreeDays, LedgerDays, MaxActions,
          MaxClock, MaxFaults

ASSUME WindowAssumption == {ArtifactDays, WorktreeDays, LedgerDays} \subseteq Nat \ {0}
ASSUME KindAssumption == "stream" \in Kinds
ASSUME BoundAssumption == {MaxActions, MaxFaults} \subseteq Nat /\ MaxClock \in Nat \ {0}

VARIABLES
    clock,      \* days
    run,        \* the AgentRun objects
    objects,    \* day each artifact was stored, 0 if it is not in the store
    uploaded,   \* artifacts ever stored: an upload is not repeated
    secrets,    \* runs whose credentials Secret exists
    pvc,        \* workspace claim of each run
    claims,     \* ledger claims, by run and operation
    outcomes,   \* ledger outcome of each claim
    tombs,      \* permanent replay fences
    pc,         \* the next request of each controller
    now,        \* clock reading of its cycle
    inv,        \* what its cycle has listed
    plan,       \* what its cycle has still to delete
    faults      \* failed requests and restarts so far

cluster == <<run, objects, uploaded, secrets, pvc, claims, outcomes, tombs>>
vars == <<clock, cluster, pc, now, inv, plan, faults>>

Days == 0 .. MaxClock
RunStatus ==
    [there: BOOLEAN, phase: {"active", "ended", "unknown"}, digest: BOOLEAN,
     completed: Days, refs: SUBSET Kinds, effect: {"none", "settled", "open"}]
NewRun ==
    [there |-> TRUE, phase |-> "active", digest |-> FALSE,
     completed |-> 0, refs |-> {}, effect |-> "none"]
Claims == {"absent", "bound", "deleting"}
Outcome == [state: {"none", "unknown", "definite"}, at: Days]
NoOutcome == [state |-> "none", at |-> 0]

Inventory ==
    [runs: [Runs -> RunStatus], secrets: SUBSET Runs, pvc: [Runs -> Claims],
     objects: [Runs -> [Kinds -> Days]], claims: SUBSET (Runs \X Effects),
     outcomes: [Runs -> [Effects -> Outcome]]]
EmptyInventory ==
    [runs |-> [r \in Runs |-> [NewRun EXCEPT !.there = FALSE]], secrets |-> {},
     pvc |-> [r \in Runs |-> "absent"],
     objects |-> [r \in Runs |-> [k \in Kinds |-> 0]],
     claims |-> {},
     outcomes |-> [r \in Runs |-> [e \in Effects |-> NoOutcome]]]
Plans ==
    [pvcs: SUBSET Runs, secrets: SUBSET Runs, artifacts: SUBSET (Runs \X Kinds),
     pairs: SUBSET (Runs \X Effects), hand: SUBSET (Runs \X Effects)]
EmptyPlan == [pvcs |-> {}, secrets |-> {}, artifacts |-> {}, pairs |-> {}, hand |-> {}]

Init ==
    /\ clock = 1
    /\ run = [r \in Runs |-> NewRun]
    /\ objects = EmptyInventory.objects
    /\ uploaded = {}
    /\ secrets = {}
    /\ pvc = EmptyInventory.pvc
    /\ claims = EmptyInventory.claims
    /\ outcomes = EmptyInventory.outcomes
    /\ tombs = {}
    /\ pc = [c \in Controllers |-> "idle"]
    /\ now = [c \in Controllers |-> 0]
    /\ inv = [c \in Controllers |-> EmptyInventory]
    /\ plan = [c \in Controllers |-> EmptyPlan]
    /\ faults = 0

-----------------------------------------------------------------------------
(***************************************************************************)
(* What a listing i allows to be deleted for run r on day t.               *)
(***************************************************************************)

MutantTerminalEligible(status, t) ==
    /\ status.there
    /\ status.phase # "active"
    /\ status.completed \in 1 .. t

TerminalEligible(status, t) ==
    /\ status.there
    /\ status.phase = "ended"
    /\ status.completed \in 1 .. t

\* Every reference in status is in the listing, and so is the pair of a settled effect.
EvidenceEligible(i, r) ==
    /\ "stream" \in i.runs[r].refs
    /\ i.runs[r].effect # "open"
    /\ \A k \in i.runs[r].refs : i.objects[r][k] # 0
    /\ i.runs[r].effect = "settled" =>
          <<r, "publish">> \in i.claims /\ i.outcomes[r]["publish"].state # "none"

SecretDue(i, t, r) == r \in i.secrets /\ TerminalEligible(i.runs[r], t)

WorkspaceDue(i, t, r) ==
    /\ i.pvc[r] = "bound"
    /\ TerminalEligible(i.runs[r], t)
    /\ EvidenceEligible(i, r)
    /\ i.runs[r].completed + WorktreeDays <= t

ArtifactDue(i, t, r, k) ==
    /\ i.objects[r][k] # 0
    /\ TerminalEligible(i.runs[r], t)
    /\ EvidenceEligible(i, r)
    /\ i.objects[r][k] + ArtifactDays <= t

\* The request digest in a claim: a publication claims with the digest of its whole operation.
RequestDigest(e) == IF e = "publish" THEN "operation" ELSE "call"

LedgerEffectKeyMatches(e) ==
    \/ e = "publish" /\ RequestDigest(e) = "patch"
    \/ e = "mcp"

HasRetainedArtifact(i, r) == \E k \in Kinds : i.objects[r][k] # 0

MutantHasRetainedWorkspace(i, r) == i.pvc[r] = "bound"

HasRetainedWorkspace(i, r) == i.pvc[r] # "absent"

MutantPairDueEvidence(i, t, r, e) ==
    /\ <<r, e>> \in i.claims
    /\ i.outcomes[r][e].state = "definite"
    /\ i.runs[r].effect = "settled" => e = "publish"
    /\ TerminalEligible(i.runs[r], t)
    /\ i.runs[r].effect # "open"
    /\ EvidenceEligible(i, r)
    /\ i.runs[r].completed + LedgerDays <= t
    /\ i.outcomes[r][e].at + LedgerDays <= t
    /\ LedgerEffectKeyMatches(e)
    /\ ~HasRetainedArtifact(i, r)
    /\ ~HasRetainedWorkspace(i, r)

PairDue(i, t, r, e) ==
    /\ <<r, e>> \in i.claims
    /\ i.outcomes[r][e].state = "definite"
    /\ i.runs[r].effect = "settled" => e = "publish"
    /\ TerminalEligible(i.runs[r], t)
    /\ i.runs[r].effect # "open"
    /\ "stream" \in i.runs[r].refs
    /\ i.runs[r].completed + LedgerDays <= t
    /\ i.outcomes[r][e].at + LedgerDays <= t
    /\ LedgerEffectKeyMatches(e)
    /\ ~HasRetainedArtifact(i, r)
    /\ ~HasRetainedWorkspace(i, r)

PlanOf(i, t) ==
    [pvcs      |-> {r \in Runs : WorkspaceDue(i, t, r)},
     secrets   |-> {r \in Runs : SecretDue(i, t, r)},
     artifacts |-> {a \in Runs \X Kinds : ArtifactDue(i, t, a[1], a[2])},
     pairs     |-> {p \in Runs \X Effects : PairDue(i, t, p[1], p[2])},
     hand      |-> {}]

\* A pair is two actions: its outcome and its claim.
Size(p) ==
    Cardinality(p.pvcs) + Cardinality(p.secrets) + Cardinality(p.artifacts)
        + 2 * Cardinality(p.pairs)

-----------------------------------------------------------------------------
(***************************************************************************)
(* A cycle.  Whatever goes wrong while listing or planning ends it without *)
(* a delete; the next tick starts again from nothing.                      *)
(***************************************************************************)

Goto(c, step) == pc' = [pc EXCEPT ![c] = step]

EndCycle(c) ==
    /\ Goto(c, "idle")
    /\ now' = [now EXCEPT ![c] = 0]
    /\ inv' = [inv EXCEPT ![c] = EmptyInventory]
    /\ plan' = [plan EXCEPT ![c] = EmptyPlan]

RunOnce(c) ==
    /\ pc[c] = "idle"
    /\ Goto(c, "runs")
    /\ now' = [now EXCEPT ![c] = clock]
    /\ UNCHANGED <<clock, cluster, inv, plan, faults>>

\* Plan skips all that belongs to a run that is not eligible: its listings are not kept.
Kept(c, listing, nothing) ==
    [r \in Runs |-> IF inv[c].runs[r].there THEN listing[r] ELSE nothing[r]]

EligibleRuns(t) ==
    [r \in Runs |-> IF TerminalEligible(run[r], t) THEN run[r] ELSE EmptyInventory.runs[r]]

\* A run has an identity once its resolved contract has a digest (validateRunIdentity).
Unidentified(r) == run[r].there /\ ~run[r].digest

ListRuns(c) ==
    /\ pc[c] = "runs"
    /\ \/ /\ \A r \in Runs : ~Unidentified(r)
          /\ Goto(c, "secrets")
          /\ inv' = [inv EXCEPT ![c].runs = EligibleRuns(now[c])]
          /\ UNCHANGED <<now, plan>>
       \/ /\ \E r \in Runs : Unidentified(r)
          /\ EndCycle(c)
    /\ UNCHANGED <<clock, cluster, faults>>

ListSecrets(c) ==
    /\ pc[c] = "secrets"
    /\ Goto(c, "pvcs")
    /\ inv' = [inv EXCEPT ![c].secrets = {r \in secrets : inv[c].runs[r].there}]
    /\ UNCHANGED <<clock, cluster, now, plan, faults>>

ListPVCs(c) ==
    /\ pc[c] = "pvcs"
    /\ Goto(c, "objects")
    /\ inv' = [inv EXCEPT ![c].pvc = Kept(c, pvc, EmptyInventory.pvc)]
    /\ UNCHANGED <<clock, cluster, now, plan, faults>>

ListObjects(c) ==
    /\ pc[c] = "objects"
    /\ Goto(c, "bodies")
    /\ inv' = [inv EXCEPT ![c].objects = Kept(c, objects, EmptyInventory.objects),
                          ![c].claims = {p \in claims : inv[c].runs[p[1]].there},
                          ![c].outcomes = Kept(c, outcomes, EmptyInventory.outcomes)]
    /\ UNCHANGED <<clock, cluster, now, plan, faults>>

\* The listed ledger objects are still there to be read.
Readable(i) ==
    \A r \in Runs, e \in Effects :
        /\ <<r, e>> \in i.claims => <<r, e>> \in claims
        /\ i.outcomes[r][e].state # "none" => outcomes[r][e] = i.outcomes[r][e]

\* Reads the ledger bodies, then plans; a plan above the limit is refused as a whole.
ReadBodies(c) ==
    /\ pc[c] = "bodies"
    /\ LET p == PlanOf(inv[c], now[c]) IN
       \/ /\ Readable(inv[c]) /\ Size(p) <= MaxActions
          /\ Goto(c, "apply")
          /\ plan' = [plan EXCEPT ![c] = p]
          /\ inv' = [inv EXCEPT ![c] = EmptyInventory]
          /\ UNCHANGED now
       \/ /\ ~Readable(inv[c]) \/ Size(p) > MaxActions
          /\ EndCycle(c)
    /\ UNCHANGED <<clock, cluster, faults>>

\* A request fails, or the operator restarts.
Fail(c) ==
    /\ faults < MaxFaults
    /\ pc[c] # "idle"
    /\ faults' = faults + 1
    /\ EndCycle(c)
    /\ UNCHANGED <<clock, cluster>>

-----------------------------------------------------------------------------
(***************************************************************************)
(* Apply.  Actions are sorted: workspaces, Secrets, artifacts, then ledger *)
(* pairs.  A delete takes effect or fails, the pass goes on either way;    *)
(* one whose answer is lost is one that takes effect here.  An item that   *)
(* is gone already counts as deleted.                                      *)
(***************************************************************************)

Faulty == faults < MaxFaults /\ faults' = faults + 1

DeletePVC(c) ==
    /\ pc[c] = "apply"
    /\ \E r \in plan[c].pvcs :
          /\ plan' = [plan EXCEPT ![c].pvcs = @ \ {r}]
          /\ \/ /\ pvc' = [pvc EXCEPT ![r] = IF @ = "bound" THEN "deleting" ELSE @]
                /\ UNCHANGED faults
             \/ Faulty /\ UNCHANGED pvc
    /\ UNCHANGED <<clock, run, objects, uploaded, secrets, claims, outcomes, tombs, pc, now, inv>>

DeleteSecret(c) ==
    /\ pc[c] = "apply" /\ plan[c].pvcs = {}
    /\ \E r \in plan[c].secrets :
          /\ plan' = [plan EXCEPT ![c].secrets = @ \ {r}]
          /\ \/ secrets' = secrets \ {r} /\ UNCHANGED faults
             \/ Faulty /\ UNCHANGED secrets
    /\ UNCHANGED <<clock, run, objects, uploaded, pvc, claims, outcomes, tombs, pc, now, inv>>

DeleteArtifact(c) ==
    /\ pc[c] = "apply" /\ plan[c].pvcs = {} /\ plan[c].secrets = {}
    /\ \E a \in plan[c].artifacts :
          /\ plan' = [plan EXCEPT ![c].artifacts = @ \ {a}]
          /\ \/ objects' = [objects EXCEPT ![a[1]][a[2]] = 0] /\ UNCHANGED faults
             \/ Faulty /\ UNCHANGED objects
    /\ UNCHANGED <<clock, run, uploaded, secrets, pvc, claims, outcomes, tombs, pc, now, inv>>

ApplyingPairs(c) ==
    /\ pc[c] = "apply"
    /\ plan[c].pvcs = {} /\ plan[c].secrets = {} /\ plan[c].artifacts = {}

EnsureTombstone(c) ==
    /\ ApplyingPairs(c)
    /\ \E p \in plan[c].pairs :
          /\ \/ /\ tombs' = tombs \cup {p}
                /\ plan' = [plan EXCEPT ![c].pairs = @ \ {p}, ![c].hand = {p}]
                /\ Goto(c, "outcome")
                /\ UNCHANGED faults
             \/ /\ Faulty
                /\ tombs' \in {tombs, tombs \cup {p}}
                /\ plan' = [plan EXCEPT ![c].pairs = @ \ {p}]
                /\ UNCHANGED pc
    /\ UNCHANGED <<clock, run, objects, uploaded, secrets, pvc, claims, outcomes, now, inv>>

WithoutOutcome(p) == [outcomes EXCEPT ![p[1]][p[2]] = NoOutcome]

\* The claim of a pair is deleted only after its outcome.
DeleteOutcome(c) ==
    /\ pc[c] = "outcome"
    /\ \E p \in plan[c].hand :
          \/ /\ outcomes' = WithoutOutcome(p)
             /\ Goto(c, "claim")
             /\ UNCHANGED <<plan, faults>>
          \/ /\ Faulty
             /\ outcomes' \in {outcomes, WithoutOutcome(p)}
             /\ plan' = [plan EXCEPT ![c].hand = {}]
             /\ Goto(c, "apply")
    /\ UNCHANGED <<clock, run, objects, uploaded, secrets, pvc, claims, tombs, now, inv>>

DeleteClaim(c) ==
    /\ pc[c] = "claim"
    /\ \E p \in plan[c].hand :
          \/ claims' = claims \ {p} /\ UNCHANGED faults
          \/ Faulty /\ UNCHANGED claims
    /\ plan' = [plan EXCEPT ![c].hand = {}]
    /\ Goto(c, "apply")
    /\ UNCHANGED <<clock, run, objects, uploaded, secrets, pvc, outcomes, tombs, now, inv>>

Finish(c) ==
    /\ ApplyingPairs(c) /\ plan[c].pairs = {}
    /\ EndCycle(c)
    /\ UNCHANGED <<clock, cluster, faults>>

Cycle(c) ==
    \/ RunOnce(c) \/ ListRuns(c) \/ ListSecrets(c) \/ ListPVCs(c) \/ ListObjects(c)
    \/ ReadBodies(c) \/ DeletePVC(c) \/ DeleteSecret(c) \/ DeleteArtifact(c)
    \/ EnsureTombstone(c) \/ DeleteOutcome(c) \/ DeleteClaim(c) \/ Finish(c)

-----------------------------------------------------------------------------
(***************************************************************************)
(* The runs, as far as retention can see them.                             *)
(***************************************************************************)

controllers == <<pc, now, inv, plan, faults>>

Live(r) == run[r].there /\ run[r].phase = "active"

\* The resolved contract is locked; the run gets its credentials and its workspace.
Admit(r) ==
    /\ Live(r) /\ ~run[r].digest
    /\ run' = [run EXCEPT ![r].digest = TRUE]
    /\ secrets' = secrets \cup {r}
    /\ pvc' = [pvc EXCEPT ![r] = "bound"]
    /\ UNCHANGED <<clock, objects, uploaded, claims, outcomes, tombs, controllers>>

\* Children still running when the run ends may upload until they are removed, that day.
Store(r, k) ==
    /\ run[r].digest /\ <<r, k>> \notin uploaded
    /\ Live(r) \/ run[r].completed = clock
    /\ objects' = [objects EXCEPT ![r][k] = clock]
    /\ uploaded' = uploaded \cup {<<r, k>>}
    /\ UNCHANGED <<clock, run, secrets, pvc, claims, outcomes, tombs, controllers>>

Claim(r, e) ==
    /\ Live(r) /\ run[r].digest
    /\ <<r, e>> \notin claims \cup tombs
    /\ claims' = claims \cup {<<r, e>>}
    /\ UNCHANGED <<clock, run, objects, uploaded, secrets, pvc, outcomes, tombs, controllers>>

\* The caller that was granted the effect records what became of it, however late.
Commit(r, e) ==
    /\ <<r, e>> \in claims \ tombs /\ outcomes[r][e] = NoOutcome
    /\ \E s \in {"definite", "unknown"} :
          outcomes' = [outcomes EXCEPT ![r][e] = [state |-> s, at |-> clock]]
    /\ UNCHANGED <<clock, run, objects, uploaded, secrets, pvc, claims, tombs, controllers>>

Settled(r) == "publish" \in Effects /\ outcomes[r]["publish"].state = "definite"

\* The terminal status write: what it references is stored by then.
EndRun(r) ==
    /\ Live(r)
    /\ \E phase \in {"ended", "unknown"}, refs \in SUBSET Kinds,
          effect \in {"none", "settled", "open"} :
          /\ \A k \in refs : objects[r][k] # 0
          /\ effect = "settled" => Settled(r)
          /\ effect = "open" => phase = "unknown"
          /\ phase = "unknown" => run[r].digest
          /\ run' = [run EXCEPT ![r].phase = phase, ![r].completed = clock,
                                ![r].refs = refs, ![r].effect = effect]
    /\ UNCHANGED <<clock, objects, uploaded, secrets, pvc, claims, outcomes, tombs, controllers>>

\* A user deletes the AgentRun; what it owns in the cluster goes with it.
RemoveRun(r) ==
    /\ run[r].there
    /\ run' = [run EXCEPT ![r].there = FALSE]
    /\ secrets' = secrets \ {r}
    /\ pvc' = [pvc EXCEPT ![r] = "absent"]
    /\ UNCHANGED <<clock, objects, uploaded, claims, outcomes, tombs, controllers>>

\* Kubernetes removes a deleted claim once nothing mounts it.
ReleasePVC(r) ==
    /\ pvc[r] = "deleting"
    /\ pvc' = [pvc EXCEPT ![r] = "absent"]
    /\ UNCHANGED <<clock, run, objects, uploaded, secrets, claims, outcomes, tombs, controllers>>

Tick ==
    /\ clock < MaxClock
    /\ clock' = clock + 1
    /\ UNCHANGED <<cluster, controllers>>

Next ==
    \/ \E c \in Controllers : Cycle(c) \/ Fail(c)
    \/ \E r \in Runs :
          \/ Admit(r) \/ EndRun(r) \/ RemoveRun(r) \/ ReleasePVC(r)
          \/ \E k \in Kinds : Store(r, k)
          \/ \E e \in Effects : Claim(r, e) \/ Commit(r, e)
    \/ Tick

Spec == Init /\ [][Next]_vars

LiveSpec ==
    /\ Spec
    /\ \A c \in Controllers : WF_vars(Cycle(c))
    /\ \A r \in Runs : WF_vars(ReleasePVC(r))
    /\ WF_vars(Tick)

-----------------------------------------------------------------------------
(***************************************************************************)
(* Properties                                                              *)
(***************************************************************************)

Steps == {"idle", "runs", "secrets", "pvcs", "objects", "bodies", "apply", "outcome", "claim"}

\* The type of every variable; the pair in hand is one, and only while it is being deleted.
TypeOK ==
    /\ clock \in Days \ {0}
    /\ run \in [Runs -> RunStatus]
    /\ objects \in [Runs -> [Kinds -> Days]]
    /\ uploaded \subseteq Runs \X Kinds
    /\ secrets \subseteq Runs
    /\ pvc \in [Runs -> Claims]
    /\ claims \subseteq Runs \X Effects
    /\ outcomes \in [Runs -> [Effects -> Outcome]]
    /\ tombs \subseteq Runs \X Effects
    /\ pc \in [Controllers -> Steps]
    /\ now \in [Controllers -> Days]
    /\ inv \in [Controllers -> Inventory]
    /\ plan \in [Controllers -> Plans]
    /\ faults \in 0 .. MaxFaults

LosesArtifact(r) == \E k \in Kinds : objects[r][k] # 0 /\ objects'[r][k] = 0

LosesWorkspace(r) == pvc[r] = "bound" /\ pvc'[r] # "bound" /\ run'[r].there

LosesSecret(r) == r \in secrets \ secrets' /\ run'[r].there

LosesRecord(r) ==
    \E e \in Effects :
        \/ <<r, e>> \in claims \ claims'
        \/ outcomes[r][e] # NoOutcome /\ outcomes'[r][e] = NoOutcome

(***************************************************************************)
(* "Actions [...] never target active runs, UnknownEffect": however old    *)
(* the listings a delete was planned from, it takes nothing from a run     *)
(* that is active or whose effect is unknown at that moment.               *)
(***************************************************************************)
OnlyEndedRunsLose ==
    [][\A r \in Runs :
         LosesArtifact(r) \/ LosesWorkspace(r) \/ LosesSecret(r) \/ LosesRecord(r)
             => run[r].phase = "ended"]_vars

(***************************************************************************)
(* Nothing goes "before expiry": an artifact outlives its own window, a    *)
(* workspace the window after completion, and a ledger record the window   *)
(* after both its outcome and its run's completion.                        *)
(***************************************************************************)
WindowsKept ==
    [][\A r \in Runs :
         /\ \A k \in Kinds :
               objects[r][k] # 0 /\ objects'[r][k] = 0 => clock - objects[r][k] >= ArtifactDays
         /\ LosesWorkspace(r) => clock - run[r].completed >= WorktreeDays
         /\ LosesRecord(r) => clock - run[r].completed >= LedgerDays
         /\ \A e \in Effects :
               outcomes[r][e] # NoOutcome /\ outcomes'[r][e] = NoOutcome
                   => clock - outcomes[r][e].at >= LedgerDays]_vars

(***************************************************************************)
(* The ledger pair goes last: once retirement of a run's record has begun, *)
(* neither an artifact nor a workspace of the run is left, and none comes. *)
(***************************************************************************)
RecordsGoLast ==
    \A p \in tombs : /\ \A k \in Kinds : objects[p[1]][k] = 0
                     /\ pvc[p[1]] = "absent"

(***************************************************************************)
(* An effect without a definite outcome keeps its records, whoever reaps:  *)
(* a claim is fenced and deleted only with its outcome known.              *)
(***************************************************************************)
UnresolvedRecordsStay ==
    [][\A r \in Runs, e \in Effects :
         /\ outcomes[r][e].state = "unknown" => outcomes'[r][e] = outcomes[r][e]
         /\ <<r, e>> \in claims \ claims' => <<r, e>> \in tombs]_vars

\* Whatever a controller removes was due, at the moment of the removal.
RemovalIsDue == OnlyEndedRunsLose /\ WindowsKept /\ UnresolvedRecordsStay

-----------------------------------------------------------------------------
(***************************************************************************)
(* What must eventually go.  A cycle is rejected as a whole while some     *)
(* AgentRun has no digest, so progress is promised up to that; antecedents *)
(* say that an item has expired already.                                   *)
(***************************************************************************)

Blocked == \E q \in Runs : Unidentified(q)

Ended(r) == run[r].there /\ run[r].phase = "ended"

Flushed(r) == Ended(r) /\ "stream" \in run[r].refs /\ run[r].effect # "open"

\* The store still has all that the run's status refers to.
Whole(r) ==
    /\ Flushed(r)
    /\ \A k \in run[r].refs : objects[r][k] # 0
    /\ run[r].effect = "settled" =>
          <<r, "publish">> \in claims /\ outcomes[r]["publish"] # NoOutcome

\* Credentials of a run that has ended are removed, evidence or not, also after failed requests.
CredentialsGo ==
    \A r \in Runs : Ended(r) /\ r \in secrets ~> r \notin secrets \/ Blocked

\* An expired workspace is removed as long as the evidence of its run is whole.
WorkspaceGoes ==
    \A r \in Runs :
        Whole(r) /\ pvc[r] # "absent" /\ run[r].completed + WorktreeDays <= clock
            ~> pvc[r] = "absent" \/ ~Whole(r) \/ Blocked

\* A record of operation e that nothing holds back any more: all but it has been reaped.
Retirable(r, e) ==
    /\ Flushed(r) /\ <<r, e>> \in claims /\ outcomes[r][e].state = "definite"
    /\ run[r].completed + LedgerDays <= clock /\ outcomes[r][e].at + LedgerDays <= clock
    /\ \A k \in Kinds : objects[r][k] = 0
    /\ pvc[r] = "absent"

(***************************************************************************)
(* The record of a settled MCP call is retired once the artifacts and the  *)
(* workspace of a run without a published effect are gone: that evidence   *)
(* was reaped earlier does not hold it back.                               *)
(***************************************************************************)
RecordsGo ==
    \A r \in Runs :
        Retirable(r, "mcp") /\ run[r].effect = "none"
            ~> outcomes[r]["mcp"] = NoOutcome \/ ~run[r].there \/ Blocked

\* Whatever retention may remove goes, piece by piece.
WhatIsDueGoes == CredentialsGo /\ WorkspaceGoes /\ RecordsGo

=============================================================================
