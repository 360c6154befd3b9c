------------------------------ MODULE AgentRun ------------------------------
(***************************************************************************)
(* The lifecycle of one AgentRun under AgentRunReconciler                  *)
(* (v3/internal/controller/agentrun.go).                                   *)
(*                                                                         *)
(* Each worker is an operator process.  It takes a queued request, reads   *)
(* the run from the API server and works on that copy; every later call    *)
(* (object store, child backend, phase driver, status update) is a step of *)
(* its own, so a crash, a failed call, a user's edit or another worker can *)
(* come between any two.  Leader election keeps one worker active but does *)
(* not fence a stalled one, so a run may be driven by two workers at once; *)
(* what protects it is the resourceVersion every status update carries.    *)
(*                                                                         *)
(* The capture, verification and publication drivers are seen through the  *)
(* outcomes the reconciler distinguishes, and the effect ledger through    *)
(* AtMostOnceEffect's promise.                                             *)
(***************************************************************************)
EXTENDS Naturals, FiniteSets

CONSTANTS
    Workers,     \* operator processes
    Digests,     \* resolved execution contracts, by digest
    NoDigest,
    Shadow,      \* the digests whose Gate is in shadow mode; the others enforce
    PublishPR,   \* the digests whose publish mode is PullRequest; the others publish nothing
    Findings,    \* of these, the ones whose output mode is findings: reviews, no patch
    Both,        \* and the ones whose output mode is both: the patch, then the reviews of it
    Requests,    \* what the user may ask of the run: "cancel", "delete"
    Reports,     \* the terminal events the agent may report
    Backend,     \* "agent-sandbox" or "job"
    MaxFaults,   \* bound: failed calls, crashes, denials and lost children
    MaxChildren, \* bound: work children ever created
    MaxClock     \* bound: instants the operator's clock can show

ASSUME BackendAssumption == Backend \in {"agent-sandbox", "job"}
ASSUME DigestAssumption == NoDigest \notin Digests
ASSUME ModesAssumption ==
    /\ Shadow \subseteq Digests /\ PublishPR \subseteq Digests
    /\ Findings \cup Both \subseteq PublishPR /\ Findings \cap Both = {}
ASSUME ReportsAssumption ==
    /\ Reports \subseteq {"Completed", "Failed", "Cancelled", "UnknownEffect"}
    /\ Requests \subseteq {"cancel", "delete"}
ASSUME BoundsAssumption == {MaxFaults, MaxChildren, MaxClock} \subseteq Nat

VARIABLES
    obj,      \* the AgentRun at the API server
    run,      \* run[w]: the worker's copy, which it edits before an update
    fresh,    \* fresh[w]: the copy's resourceVersion is still the server's
    pc,       \* pc[w]: the call the worker makes next
    failed,   \* failed[w]: a cleanup call of this reconciliation failed
    plan,     \* plan[w]: the clock reading baked into the planned child
    queued,   \* queued[w]: the worker's queue holds a request for the run
    cache,    \* cache[w]: the work child as the worker's informer shows it
    saved,    \* resolved specs in the object store
    secrets,  \* the roles whose per-run credential Secret exists
    child,    \* the work child (Sandbox or Job) at the API server
    context,  \* the broker has published the context artifact
    stream,   \* the durable terminal runtime event, if any
    completion, \* the completion record, if written
    capturer, \* the capture Job: "none", "running", "done" or "failed"
    verifier, \* the verify child: "none", "running" or the verdict it supports
    ledger,   \* the publish effect: "none", "claimed" or its outcome
    pr,       \* the pull request exists on the forge
    reviews,  \* the findings' effects: "none", "partial", or "posted" and all recorded
    made,     \* work children created so far
    clock, faults

local    == <<run, fresh, pc, failed, plan, queued, cache>>
work     == <<child, made>>
evidence == <<context, stream, completion>>
jobs     == <<capturer, verifier>>
effect   == <<ledger, pr, reviews>>
world    == <<saved, secrets, work, evidence, jobs, effect>>
bounds   == <<clock, faults>>
vars     == <<obj, local, world, bounds>>

Active == {"Pending", "Cloning", "Working", "Capturing", "Verifying", "Gated", "Publishing"}
Terminal == {"Succeeded", "Rejected", "Failed", "Cancelled", "UnknownEffect"}

(***************************************************************************)
(* A work child carries its UID, the digest it was planned from and the    *)
(* instant its shutdown time was computed at.                              *)
(***************************************************************************)
NoChild == [uid |-> 0, digest |-> NoDigest, plan |-> 0, state |-> "absent"]

\* No effect of the findings was claimed, some were, or all are posted and recorded.
ReviewStates == {"none", "partial", "posted"}

ChildStates == {"absent", "starting", "ready", "exited0", "exited1", "broken"}

Children ==
    [uid : 0 .. MaxChildren, digest : Digests \cup {NoDigest}, plan : 0 .. MaxClock,
     state : ChildStates]

(***************************************************************************)
(* The fields of the run object the controller's decisions depend on:      *)
(* deletion and cancellation, the phase, and what status has recorded.     *)
(* work is the UID in WorkSandboxRef, 0 when the reference is nil;         *)
(* findings is the condition FindingsPublished.                            *)
(***************************************************************************)
RunObjects ==
    [there : BOOLEAN, finalizer : BOOLEAN, deleting : BOOLEAN, cancel : BOOLEAN,
     phase : Active \cup Terminal \cup {""}, digest : Digests \cup {NoDigest},
     ref : BOOLEAN, work : 0 .. MaxChildren, ctx : BOOLEAN, events : BOOLEAN,
     patch : BOOLEAN, verify : BOOLEAN, gate : {"none", "Accepted", "Rejected"},
     effect : {"none", "succeeded", "failed", "unknown"},
     findings : {"none", "true", "false", "unknown"}]

NewRun ==
    [there |-> TRUE, finalizer |-> FALSE, deleting |-> FALSE, cancel |-> FALSE,
     phase |-> "", digest |-> NoDigest, ref |-> FALSE, work |-> 0, ctx |-> FALSE,
     events |-> FALSE, patch |-> FALSE, verify |-> FALSE, gate |-> "none",
     effect |-> "none", findings |-> "none"]

Calls ==
    {"idle", "addFinalizer", "resolve", "lock", "save", "recover", "update",
     "checkExecution", "planWork", "ensure", "readBack", "observeClone", "projectContext",
     "loadCompletion", "observeExit", "finalize0", "finalize1", "projectCompletion",
     "capture", "savePatch", "reapCapture", "reapWork",
     "verify", "gate", "publish", "mutate", "commitEffect", "publishFindings",
     "cleanSecrets", "cleanWork", "cleanVerify", "cleanCapture", "endCleanup"}

Init ==
    /\ obj = NewRun
    /\ run = [w \in Workers |-> NewRun]
    /\ fresh = [w \in Workers |-> FALSE]
    /\ pc = [w \in Workers |-> "idle"]
    /\ failed = [w \in Workers |-> FALSE]
    /\ plan = [w \in Workers |-> 0]
    /\ queued = [w \in Workers |-> TRUE]
    /\ cache = [w \in Workers |-> NoChild]
    /\ saved = {}
    /\ secrets = {} /\ child = NoChild /\ context = FALSE
    /\ stream = "none" /\ completion = "none"
    /\ capturer = "none" /\ verifier = "none"
    /\ ledger = "none" /\ pr = FALSE /\ reviews = "none" /\ made = 0
    /\ clock = 0 /\ faults = 0

----------------------------------------------------------------------------
(***************************************************************************)
(* What a worker's step does to its own state.                             *)
(***************************************************************************)
Goto(w, call) == pc' = [pc EXCEPT ![w] = call]

\* Continue with an edited copy.
Edit(w, new, call) ==
    /\ run' = [run EXCEPT ![w] = new]
    /\ Goto(w, call)
    /\ UNCHANGED <<fresh, failed, plan, queued, cache>>

Continue(w, call) == Edit(w, run[w], call)

\* Reconcile returns: what it held of the run is gone.
Return(w) ==
    /\ Goto(w, "idle")
    /\ run' = [run EXCEPT ![w] = NewRun]
    /\ failed' = [failed EXCEPT ![w] = FALSE]
    /\ plan' = [plan EXCEPT ![w] = 0]
    /\ UNCHANGED cache

\* Return an error or ask to be requeued: the request goes back on the queue.
Requeue(w) ==
    /\ Return(w)
    /\ fresh' = [fresh EXCEPT ![w] = FALSE]
    /\ queued' = [queued EXCEPT ![w] = TRUE]

\* Return without a requeue: only a watch event brings the run back.
Done(w) ==
    /\ Return(w)
    /\ fresh' = [fresh EXCEPT ![w] = FALSE]
    /\ UNCHANGED queued

\* Mutant: the update carries no resourceVersion, so the last writer wins.
MutantUpdate(w, call) ==
    IF obj.there
    THEN /\ obj' = run[w]
         /\ queued' = [v \in Workers |-> TRUE]
         /\ fresh' = [v \in Workers |-> v = w /\ call # "idle"]
         /\ IF call = "idle" THEN Return(w)
            ELSE Goto(w, call) /\ UNCHANGED <<run, failed, plan, cache>>
    ELSE Requeue(w) /\ UNCHANGED obj

(***************************************************************************)
(* Status().Update(run): refused as a conflict when the copy is stale.  A   *)
(* write that changes something is an event for every watching worker and  *)
(* makes their copies stale; one that changes nothing is neither.          *)
(***************************************************************************)
Update(w, call) ==
    IF obj.there /\ fresh[w]
    THEN /\ obj' = run[w]
         /\ queued' = [v \in Workers |-> queued[v] \/ run[w] # obj]
         /\ fresh' = [v \in Workers |-> IF v = w THEN call # "idle"
                                      ELSE fresh[v] /\ run[w] = obj]
         /\ IF call = "idle" THEN Return(w)
            ELSE Goto(w, call) /\ UNCHANGED <<run, failed, plan, cache>>
    ELSE Requeue(w) /\ UNCHANGED obj

\* A write to the object that is not a status update of this module.
Touch(new) ==
    /\ obj' = new
    /\ fresh' = [v \in Workers |-> FALSE]
    /\ queued' = [v \in Workers |-> TRUE]

----------------------------------------------------------------------------
(***************************************************************************)
(* Reconcile, up to the phase: read the run and choose the branch.         *)
(***************************************************************************)
PhaseCall(o) ==
    CASE o.phase = "Pending"    -> "checkExecution"
      [] o.phase = "Cloning"    -> "observeClone"
      [] o.phase = "Working"    -> "projectContext"
      [] o.phase = "Capturing"  -> IF o.patch THEN "reapCapture" ELSE "capture"
      [] o.phase = "Verifying"  -> "verify"
      [] o.phase = "Gated"      -> "gate"
      [] o.phase = "Publishing" -> IF o.digest \in Findings THEN "publishFindings" ELSE "publish"

\* Mutant: a run locked but without a recorded reference is resolved again.
MutantBranch(o) ==
    CASE o.deleting                        -> IF o.finalizer THEN "cleanSecrets" ELSE "idle"
      [] ~o.deleting /\ ~o.finalizer       -> "addFinalizer"
      [] OTHER ->
         CASE o.cancel \/ o.phase \in Terminal -> "cleanSecrets"
           [] OTHER -> IF ~o.ref THEN "resolve" ELSE PhaseCall(o)

Branch(o) ==
    CASE o.deleting                        -> IF o.finalizer THEN "cleanSecrets" ELSE "idle"
      [] ~o.deleting /\ ~o.finalizer       -> "addFinalizer"
      [] OTHER ->
         CASE o.cancel \/ o.phase \in Terminal -> "cleanSecrets"
           [] OTHER ->
              IF o.digest = NoDigest THEN "resolve"
              ELSE IF ~o.ref THEN "recover"
              ELSE PhaseCall(o)

Get(w) ==
    /\ pc[w] = "idle" /\ queued[w]
    /\ queued' = [queued EXCEPT ![w] = FALSE]
    /\ IF obj.there /\ Branch(obj) # "idle"
       THEN /\ run' = [run EXCEPT ![w] = obj]
            /\ fresh' = [fresh EXCEPT ![w] = TRUE]
            /\ Goto(w, Branch(obj))
       ELSE UNCHANGED <<run, fresh, pc>>
    /\ UNCHANGED <<failed, plan, cache, obj, world, bounds>>

\* A merge patch carries no resourceVersion: it applies to whatever is there.
AddFinalizer(w) ==
    /\ pc[w] = "addFinalizer"
    /\ IF obj.there /\ ~obj.deleting
       THEN Touch([obj EXCEPT !.finalizer = TRUE]) /\ Return(w)
       ELSE Requeue(w) /\ UNCHANGED obj
    /\ UNCHANGED <<world, bounds>>

----------------------------------------------------------------------------
(***************************************************************************)
(* Admission: resolve the mutable references once, lock the digest in      *)
(* status, write the resolved spec, record its reference.                  *)
(***************************************************************************)
\* The references may have changed since any earlier resolution.
Resolve(w) ==
    /\ pc[w] = "resolve"
    /\ \E d \in Digests : Edit(w, [run[w] EXCEPT !.phase = "Pending", !.digest = d], "lock")
    /\ UNCHANGED <<obj, world, bounds>>

\* A permanent resolution error: failAdmission.
ResolveRejected(w) ==
    /\ pc[w] = "resolve"
    /\ Edit(w, [run[w] EXCEPT !.phase = "Failed"], "update")
    /\ UNCHANGED <<obj, world, bounds>>

LockResolution(w) ==
    /\ pc[w] = "lock"
    /\ Update(w, "save")
    /\ UNCHANGED <<world, bounds>>

SaveResolvedSpec(w) ==
    /\ pc[w] = "save"
    /\ saved' = saved \cup {run[w].digest}
    /\ Edit(w, [run[w] EXCEPT !.ref = TRUE], "update")
    /\ UNCHANGED <<obj, secrets, work, evidence, jobs, effect, bounds>>

\* recoverResolvedSpecRef: a missing object is an error, retried as it is.
RecoverResolvedSpecRef(w) ==
    /\ pc[w] = "recover"
    /\ IF run[w].digest \in saved
       THEN Edit(w, [run[w] EXCEPT !.ref = TRUE], "update")
       ELSE Requeue(w)
    /\ UNCHANGED <<obj, world, bounds>>

UpdateStatus(w) ==
    /\ pc[w] = "update"
    /\ Update(w, "idle")
    /\ UNCHANGED <<world, bounds>>

----------------------------------------------------------------------------
(***************************************************************************)
(* Pending: the execution gate, the credential Secret, the work child.     *)
(***************************************************************************)
CheckExecution(w) ==
    /\ pc[w] = "checkExecution"
    /\ IF run[w].digest \in saved THEN Continue(w, "planWork") ELSE Requeue(w)
    /\ UNCHANGED <<obj, world, bounds>>

\* PlanWork materialises the work Secret and computes the shutdown time.
PlanWork(w) ==
    /\ pc[w] = "planWork"
    /\ secrets' = secrets \cup {"work"}
    /\ plan' = [plan EXCEPT ![w] = clock]
    /\ Goto(w, "ensure")
    /\ UNCHANGED <<run, fresh, failed, queued, cache, obj>>
    /\ UNCHANGED <<saved, work, evidence, jobs, effect, bounds>>

(***************************************************************************)
(* An existing child is adopted only when it equals the plan.  The         *)
(* agent-sandbox backend compares the shutdown time with the rest of the   *)
(* spec; the Job backend leaves its deadline out of the comparison.        *)
(***************************************************************************)
SameSpec(w, c) ==
    /\ c.digest = run[w].digest
    /\ Backend = "agent-sandbox" => c.plan = plan[w]

Adopt(w, c) ==
    IF SameSpec(w, c)
    THEN Edit(w, [run[w] EXCEPT !.work = c.uid, !.phase = "Cloning"], "update")
    ELSE Requeue(w)

\* Ensure reads through the informer cache and creates what it does not show.
Ensure(w) ==
    /\ pc[w] = "ensure"
    /\ IF cache[w] # NoChild
       THEN Adopt(w, cache[w]) /\ UNCHANGED work
       ELSE /\ Continue(w, "readBack")
            /\ \/ /\ child = NoChild /\ made < MaxChildren
                  /\ child' = [uid |-> made + 1, digest |-> run[w].digest,
                                plan |-> plan[w], state |-> "starting"]
                  /\ made' = made + 1
               \/ child # NoChild /\ UNCHANGED work
    /\ UNCHANGED <<obj, saved, secrets, evidence, jobs, effect, bounds>>

ReadBack(w) ==
    /\ pc[w] = "readBack"
    /\ IF cache[w] # NoChild THEN Adopt(w, cache[w]) ELSE Requeue(w)
    /\ UNCHANGED <<obj, world, bounds>>

----------------------------------------------------------------------------
(***************************************************************************)
(* Cloning and Working: observe the child, then its durable evidence.      *)
(***************************************************************************)
Finished(c) == c.state \in {"exited0", "exited1", "broken"}

(***************************************************************************)
(* What Observe may report as Ready.  A Job is ready once a pod is active  *)
(* (its init containers may still run) or once it has ended; a Sandbox     *)
(* that has ended may or may not still carry its Ready condition.          *)
(***************************************************************************)
ReadyReadings(c) ==
    CASE c.state = "ready" -> {TRUE}
      [] c.state = "starting" -> IF Backend = "job" THEN BOOLEAN ELSE {FALSE}
      [] c.state \in {"exited0", "exited1"} -> IF Backend = "job" THEN {TRUE} ELSE BOOLEAN
      [] c.state = "broken" -> {Backend = "job"}

FailRun(w) == Edit(w, [run[w] EXCEPT !.phase = "Failed"], "update")

\* An observed child with another UID than the recorded one is an error.
Foreign(w) == cache[w] # NoChild /\ cache[w].uid # run[w].work

ObserveClone(w) ==
    /\ pc[w] = "observeClone"
    /\ IF Foreign(w) THEN Requeue(w)
       ELSE IF cache[w] = NoChild THEN FailRun(w)
       ELSE \E ready \in ReadyReadings(cache[w]) :
              IF ready THEN Edit(w, [run[w] EXCEPT !.phase = "Working"], "update")
              ELSE IF Finished(cache[w]) THEN FailRun(w)
              ELSE Requeue(w)
    /\ UNCHANGED <<obj, world, bounds>>

\* projectContextPack comes before any look at completion or exit.
ProjectContext(w) ==
    /\ pc[w] = "projectContext"
    /\ IF ~context THEN Requeue(w)
       ELSE IF ~run[w].ctx THEN Edit(w, [run[w] EXCEPT !.ctx = TRUE], "update")
       ELSE Continue(w, "loadCompletion")
    /\ UNCHANGED <<obj, world, bounds>>

LoadCompletion(w) ==
    /\ pc[w] = "loadCompletion"
    /\ Continue(w, IF completion = "none" THEN "observeExit" ELSE "projectCompletion")
    /\ UNCHANGED <<obj, world, bounds>>

\* The child is observed through the cache, its pod's exit at the API server.
ObserveExit(w) ==
    /\ pc[w] = "observeExit"
    /\ IF Foreign(w) THEN Requeue(w)
       ELSE IF child.uid = run[w].work /\ child.state = "exited0" THEN Continue(w, "finalize0")
       ELSE IF child.uid = run[w].work /\ child.state = "exited1" THEN Continue(w, "finalize1")
       ELSE IF cache[w] = NoChild \/ Finished(cache[w]) THEN FailRun(w)
       ELSE Requeue(w)
    /\ UNCHANGED <<obj, world, bounds>>

\* Mutant: exit code zero counts as completion without a terminal event.
MutantFinalizeByExit(w) ==
    /\ pc[w] \in {"finalize0", "finalize1"}
    /\ Edit(w, [run[w] EXCEPT !.phase = IF pc[w] = "finalize0" THEN "Capturing" ELSE "Failed"],
            "update")
    /\ UNCHANGED <<obj, world, bounds>>

\* Mutant: a contradicted completion is an error to retry.
MutantFinalizeRetries(w) ==
    /\ pc[w] \in {"finalize0", "finalize1"}
    /\ IF stream = "none" \/ (stream = "Completed" /\ pc[w] = "finalize1")
       THEN Requeue(w) /\ UNCHANGED completion
       ELSE Continue(w, "projectCompletion") /\ completion' = stream
    /\ UNCHANGED <<obj, saved, secrets, work, context, stream, jobs, effect, bounds>>

\* A completion is written only for a durable terminal event the exit code agrees with.
FinalizeObservedExit(w) ==
    /\ pc[w] \in {"finalize0", "finalize1"}
    /\ IF stream = "none" \/ (stream = "Completed" /\ pc[w] = "finalize1")
       THEN FailRun(w) /\ UNCHANGED completion
       ELSE Continue(w, "projectCompletion") /\ completion' = stream
    /\ UNCHANGED <<obj, saved, secrets, work, context, stream, jobs, effect, bounds>>

PhaseOf == [Completed |-> "Capturing", Failed |-> "Failed",
            Cancelled |-> "Cancelled", UnknownEffect |-> "UnknownEffect"]

ProjectCompletion(w) ==
    /\ pc[w] = "projectCompletion"
    /\ Edit(w, [run[w] EXCEPT !.events = TRUE, !.phase = PhaseOf[completion],
                             !.effect = IF completion = "UnknownEffect" THEN "unknown" ELSE @],
            "update")
    /\ UNCHANGED <<obj, world, bounds>>

----------------------------------------------------------------------------
(***************************************************************************)
(* Capturing: record the patch, then reap the capture Job and the child.   *)
(***************************************************************************)
\* Mutant: the children are reaped before the patch is recorded in status.
MutantCapture(w) ==
    /\ pc[w] = "capture"
    /\ CASE capturer = "none"    -> capturer' = "running" /\ Requeue(w)
         [] capturer = "running" -> UNCHANGED capturer /\ Requeue(w)
         [] capturer = "failed"  -> UNCHANGED capturer /\ FailRun(w)
         [] capturer = "done"    -> /\ UNCHANGED capturer
                                    /\ Edit(w, [run[w] EXCEPT !.patch = TRUE], "reapCapture")
    /\ UNCHANGED <<obj, saved, secrets, work, evidence, verifier, effect, bounds>>

Capture(w) ==
    /\ pc[w] = "capture"
    /\ CASE capturer = "none"    -> capturer' = "running" /\ Requeue(w)
         [] capturer = "running" -> UNCHANGED capturer /\ Requeue(w)
         [] capturer = "failed"  -> UNCHANGED capturer /\ FailRun(w)
         [] capturer = "done"    -> /\ UNCHANGED capturer
                                    /\ Edit(w, [run[w] EXCEPT !.patch = TRUE], "savePatch")
    /\ UNCHANGED <<obj, saved, secrets, work, evidence, verifier, effect, bounds>>

SavePatch(w) ==
    /\ pc[w] = "savePatch"
    /\ Update(w, "reapCapture")
    /\ UNCHANGED <<world, bounds>>

ReapCapture(w) ==
    /\ pc[w] = "reapCapture"
    /\ capturer' = "none"
    /\ Continue(w, "reapWork")
    /\ UNCHANGED <<obj, saved, secrets, work, evidence, verifier, effect, bounds>>

(***************************************************************************)
(* Delete of the child with this UID: found through the cache, deleted     *)
(* with the UID as a precondition.                                         *)
(***************************************************************************)
DeleteFails(w, uid) ==
    /\ cache[w] # NoChild
    /\ \/ cache[w].uid # uid
       \/ child # NoChild /\ child.uid # uid

Deleted(w, uid) == IF cache[w] # NoChild /\ child.uid = uid THEN NoChild ELSE child

ReapWork(w) ==
    /\ pc[w] = "reapWork"
    /\ IF DeleteFails(w, run[w].work)
       THEN Requeue(w) /\ UNCHANGED child
       ELSE /\ child' = Deleted(w, run[w].work)
            /\ Edit(w, [run[w] EXCEPT !.phase = "Verifying"], "update")
    /\ UNCHANGED <<obj, saved, secrets, evidence, jobs, effect, made, bounds>>

----------------------------------------------------------------------------
(***************************************************************************)
(* Verifying, Gated, Publishing.                                           *)
(***************************************************************************)
Verify(w) ==
    /\ pc[w] = "verify"
    /\ CASE verifier = "none" ->
                 /\ verifier' = "running"
                 /\ secrets' = secrets \cup {"verify"}
                 /\ Edit(w, [run[w] EXCEPT !.verify = TRUE], "update")
         [] verifier = "running" ->
                 /\ UNCHANGED <<verifier, secrets>>
                 /\ IF run[w].verify THEN Requeue(w)
                    ELSE Edit(w, [run[w] EXCEPT !.verify = TRUE], "update")
         [] verifier \in {"Accepted", "Rejected"} ->
                 /\ UNCHANGED <<verifier, secrets>>
                 /\ Edit(w, [run[w] EXCEPT !.verify = TRUE, !.gate = verifier,
                                          !.phase = "Gated"], "update")
    /\ UNCHANGED <<obj, saved, work, evidence, capturer, effect, bounds>>

\* Mutant: the Gate's mode is not looked at.
MutantGate(w) ==
    /\ pc[w] = "gate"
    /\ Edit(w, [run[w] EXCEPT !.phase = IF run[w].digest \in PublishPR THEN "Publishing"
                                       ELSE "Succeeded"], "update")
    /\ UNCHANGED <<obj, world, bounds>>

Gate(w) ==
    /\ pc[w] = "gate"
    /\ LET next == IF run[w].gate = "Rejected" /\ run[w].digest \notin Shadow THEN "Rejected"
                   ELSE IF run[w].digest \notin PublishPR THEN "Succeeded"
                   ELSE "Publishing"
       IN  Edit(w, [run[w] EXCEPT !.phase = next], "update")
    /\ UNCHANGED <<obj, world, bounds>>

\* Mutant: the state of both outputs is the patch's alone.
MutantCombinedState(patch, findings) == IF patch = "skipped" THEN findings ELSE patch

\* One ambiguous effect outweighs a failed one, a failed one a success.
CombinedState(patch, findings) ==
    IF "unknown" \in {patch, findings} THEN "unknown"
    ELSE IF "failed" \in {patch, findings} THEN "failed" ELSE "succeeded"

\* FindingsPublished: findings that were not attempted leave it unknown.
FindingsCondition(d, findings) ==
    IF d \notin Findings \cup Both THEN "none"
    ELSE CASE findings = "succeeded" -> "true"
           [] findings = "failed"    -> "false"
           [] OTHER                  -> "unknown"

(***************************************************************************)
(* The status projection of a publication.  The phase tells both outputs,  *)
(* status.effect the patch alone: it stays nil for findings.               *)
(***************************************************************************)
Project(w, patch, findings) ==
    LET outcome == CombinedState(patch, findings)
        next == CASE outcome = "succeeded" ->
                       IF run[w].digest \in Shadow /\ run[w].gate = "Rejected"
                       THEN "Rejected" ELSE "Succeeded"
                  [] outcome = "failed"    -> "Failed"
                  [] outcome = "unknown"   -> "UnknownEffect"
    IN  Edit(w, [run[w] EXCEPT !.effect = IF patch = "skipped" THEN "none" ELSE patch,
                              !.findings = FindingsCondition(run[w].digest, findings),
                              !.phase = next], "update")

\* The findings of a patch wait for its pull request.
PatchTold(w, patch) ==
    IF patch = "succeeded" /\ run[w].digest \in Both
    THEN Continue(w, "publishFindings") ELSE Project(w, patch, "skipped")

(***************************************************************************)
(* Publish claims the effect before it acts.  A claim that is already      *)
(* there is never acted on again: its outcome is replayed, or unknown.     *)
(***************************************************************************)
Publish(w) ==
    /\ pc[w] = "publish"
    /\ CASE ledger = "none"    -> ledger' = "claimed" /\ Continue(w, "mutate")
         [] ledger = "claimed" -> UNCHANGED ledger /\ PatchTold(w, "unknown")
         [] OTHER              -> UNCHANGED ledger /\ PatchTold(w, ledger)
    /\ UNCHANGED <<obj, saved, secrets, work, evidence, jobs, pr, reviews, bounds>>

Mutate(w) ==
    /\ pc[w] = "mutate"
    /\ pr' \in BOOLEAN
    /\ Continue(w, "commitEffect")
    /\ UNCHANGED <<obj, saved, secrets, work, evidence, jobs, ledger, reviews, bounds>>

CommitEffect(w) ==
    /\ pc[w] = "commitEffect"
    /\ \E outcome \in {IF pr THEN "succeeded" ELSE "failed", "unknown"} :
          ledger' = outcome /\ PatchTold(w, outcome)
    /\ UNCHANGED <<obj, saved, secrets, work, evidence, jobs, pr, reviews, bounds>>

(***************************************************************************)
(* PublishFindings: the advisory section and each review is an effect with *)
(* a claim of its own, and the first that does not succeed ends the call.  *)
(* A pull request that cannot be read makes the outcome unknown before any *)
(* claim; findings already posted may be told as failed or unknown when it *)
(* has moved on.                                                           *)
(***************************************************************************)
PublishFindings(w) ==
    /\ pc[w] = "publishFindings"
    /\ reviews' \in IF reviews = "posted" THEN {"posted"} ELSE {reviews, "partial", "posted"}
    /\ \E findings \in {"succeeded", "failed", "unknown"} :
          /\ findings = "succeeded" => reviews' = "posted"
          /\ findings = "failed" => reviews' # "none"
          /\ Project(w, IF run[w].digest \in Findings THEN "skipped" ELSE "succeeded", findings)
    /\ UNCHANGED <<obj, saved, secrets, work, evidence, jobs, ledger, pr, bounds>>

----------------------------------------------------------------------------
(***************************************************************************)
(* cleanupChildren: every kind of child is tried, errors are joined.       *)
(***************************************************************************)
Step(w, call, bad) ==
    /\ failed' = [failed EXCEPT ![w] = @ \/ bad]
    /\ Goto(w, call)
    /\ UNCHANGED <<run, fresh, plan, queued, cache>>

CleanSecrets(w) ==
    /\ pc[w] = "cleanSecrets"
    /\ secrets' = {}
    /\ Step(w, "cleanWork", FALSE)
    /\ UNCHANGED <<obj, saved, work, evidence, jobs, effect, bounds>>

\* Mutant: cancellation does not look for unreferenced children.
MutantDiscoverOrphans(r) == r.deleting /\ r.digest # NoDigest

\* An unreferenced child is looked for only when the run is cancelled or deleted.
DiscoverOrphans(r) == (r.cancel \/ r.deleting) /\ r.digest # NoDigest

WorkTarget(w) ==
    IF run[w].work # 0 THEN run[w].work
    ELSE IF DiscoverOrphans(run[w]) THEN cache[w].uid ELSE 0

CleanWork(w) ==
    /\ pc[w] = "cleanWork"
    /\ IF WorkTarget(w) # 0 /\ DeleteFails(w, WorkTarget(w))
       THEN Step(w, "cleanCapture", TRUE) /\ UNCHANGED child
       ELSE /\ child' = IF WorkTarget(w) = 0 THEN child ELSE Deleted(w, WorkTarget(w))
            /\ Step(w, "cleanVerify", FALSE)
    /\ UNCHANGED <<obj, saved, secrets, evidence, jobs, effect, made, bounds>>

CleanVerify(w) ==
    /\ pc[w] = "cleanVerify"
    /\ verifier' = IF run[w].verify \/ DiscoverOrphans(run[w]) THEN "none" ELSE verifier
    /\ Step(w, "cleanCapture", FALSE)
    /\ UNCHANGED <<obj, saved, secrets, work, evidence, capturer, effect, bounds>>

\* The capture Job is found through the resolved spec, which must load.
CleanCapture(w) ==
    /\ pc[w] = "cleanCapture"
    /\ IF run[w].digest \in saved
       THEN capturer' = "none" /\ Step(w, "endCleanup", FALSE)
       ELSE UNCHANGED capturer /\ Step(w, "endCleanup", run[w].digest # NoDigest)
    /\ UNCHANGED <<obj, saved, secrets, work, evidence, verifier, effect, bounds>>

CleanupFails(w) ==
    /\ pc[w] = "endCleanup" /\ failed[w]
    /\ Requeue(w)
    /\ UNCHANGED <<obj, world, bounds>>

\* The finalizer goes last; with it the deleted object does.
RemoveFinalizer(w) ==
    /\ pc[w] = "endCleanup" /\ ~failed[w] /\ run[w].deleting
    /\ Return(w)
    /\ Touch([obj EXCEPT !.finalizer = FALSE, !.there = FALSE])
    /\ UNCHANGED <<world, bounds>>

\* A cancelled run ends as Cancelled unless it had already ended.
EndCleanup(w) ==
    /\ pc[w] = "endCleanup" /\ ~failed[w] /\ ~run[w].deleting
    /\ IF run[w].phase \notin Terminal
       THEN Edit(w, [run[w] EXCEPT !.phase = "Cancelled"], "update")
       ELSE IF run[w].cancel THEN Continue(w, "update") ELSE Done(w)
    /\ UNCHANGED <<obj, world, bounds>>

----------------------------------------------------------------------------
(***************************************************************************)
(* Faults, drawn from one bounded budget.                                  *)
(***************************************************************************)
Fault == faults < MaxFaults /\ faults' = faults + 1

\* A call fails, or the process dies and restarts: the copy is lost, the run queued again.
Abort(w) ==
    /\ pc[w] # "idle"
    /\ Fault
    /\ Requeue(w)
    /\ UNCHANGED <<obj, world, clock>>

\* A failed cleanup call does not keep the later ones from being made.
CleanupCallFails(w) ==
    /\ Fault
    /\ \/ pc[w] = "cleanSecrets" /\ Step(w, "cleanWork", TRUE)
       \/ pc[w] \in {"cleanWork", "cleanVerify"} /\ Step(w, "cleanCapture", TRUE)
       \/ pc[w] = "cleanCapture" /\ Step(w, "endCleanup", TRUE)
    /\ UNCHANGED <<obj, world, clock>>

\* The child is lost with its node, or removed by someone else.
LoseChild ==
    /\ child # NoChild
    /\ Fault
    /\ child' = NoChild
    /\ UNCHANGED <<obj, local, saved, secrets, evidence, jobs, effect, made, clock>>

----------------------------------------------------------------------------
(***************************************************************************)
(* The user, the clock, the informer and the processes in the children.    *)
(***************************************************************************)
\* spec.cancelRequested is one-way.
RequestCancel ==
    /\ "cancel" \in Requests
    /\ obj.there /\ ~obj.cancel /\ ~obj.deleting
    /\ Touch([obj EXCEPT !.cancel = TRUE])
    /\ UNCHANGED <<run, pc, failed, plan, cache, world, bounds>>

RequestDelete ==
    /\ "delete" \in Requests
    /\ obj.there /\ ~obj.deleting
    /\ Touch(IF obj.finalizer THEN [obj EXCEPT !.deleting = TRUE]
             ELSE [obj EXCEPT !.there = FALSE])
    /\ UNCHANGED <<run, pc, failed, plan, cache, world, bounds>>

Tick ==
    /\ clock < MaxClock
    /\ clock' = clock + 1
    /\ UNCHANGED <<obj, local, world, faults>>

\* A watch event on the child updates the cache and queues its owner.
InformerSync(w) ==
    /\ cache[w] # child
    /\ cache' = [cache EXCEPT ![w] = child]
    /\ queued' = [queued EXCEPT ![w] = TRUE]
    /\ UNCHANGED <<run, fresh, pc, failed, plan, obj, world, bounds>>

\* Everything the run owns is collected after it by Kubernetes.
GarbageCollect ==
    /\ ~obj.there
    /\ <<child, secrets, capturer, verifier>> # <<NoChild, {}, "none", "none">>
    /\ child' = NoChild /\ secrets' = {} /\ capturer' = "none" /\ verifier' = "none"
    /\ UNCHANGED <<obj, local, saved, evidence, effect, made, bounds>>

ChildMoves(from, to) ==
    /\ child.state = from
    /\ child' = [child EXCEPT !.state = to]
    /\ UNCHANGED <<obj, local, saved, secrets, evidence, jobs, effect, made, bounds>>

ChildStarts == ChildMoves("starting", "ready") \/ ChildMoves("starting", "broken")

\* The shutdown time bounds the work, so the child always ends.
ChildEnds == ChildMoves("ready", "exited0") \/ ChildMoves("ready", "exited1")

\* The broker publishes the context artifact before it serves the agent.
PublishContextArtifact ==
    /\ child.state = "ready" /\ ~context
    /\ context' = TRUE
    /\ UNCHANGED <<obj, local, saved, secrets, work, stream, completion, jobs, effect, bounds>>

EmitTerminal ==
    /\ child.state = "ready" /\ context /\ stream = "none"
    /\ stream' \in Reports
    /\ UNCHANGED <<obj, local, saved, secrets, work, context, completion, jobs, effect, bounds>>

CaptureEnds ==
    /\ capturer = "running"
    /\ capturer' \in {"done", "failed"}
    /\ UNCHANGED <<obj, local, saved, secrets, work, evidence, verifier, effect, bounds>>

VerifyEnds ==
    /\ verifier = "running"
    /\ verifier' \in {"Accepted", "Rejected"}
    /\ UNCHANGED <<obj, local, saved, secrets, work, evidence, capturer, effect, bounds>>

----------------------------------------------------------------------------
Reconcile(w) ==
    \/ Get(w) \/ AddFinalizer(w)
    \/ Resolve(w) \/ ResolveRejected(w) \/ LockResolution(w) \/ SaveResolvedSpec(w)
    \/ RecoverResolvedSpecRef(w) \/ UpdateStatus(w)
    \/ CheckExecution(w) \/ PlanWork(w) \/ Ensure(w) \/ ReadBack(w)
    \/ ObserveClone(w) \/ ProjectContext(w) \/ LoadCompletion(w) \/ ObserveExit(w)
    \/ FinalizeObservedExit(w) \/ ProjectCompletion(w)
    \/ Capture(w) \/ SavePatch(w) \/ ReapCapture(w) \/ ReapWork(w)
    \/ Verify(w) \/ Gate(w)
    \/ Publish(w) \/ Mutate(w) \/ CommitEffect(w) \/ PublishFindings(w)
    \/ CleanSecrets(w) \/ CleanWork(w) \/ CleanVerify(w) \/ CleanCapture(w)
    \/ CleanupFails(w) \/ RemoveFinalizer(w) \/ EndCleanup(w)

Outside ==
    \/ LoseChild \/ RequestCancel \/ RequestDelete \/ Tick
    \/ ChildStarts \/ ChildEnds \/ PublishContextArtifact \/ EmitTerminal
    \/ CaptureEnds \/ VerifyEnds \/ GarbageCollect

Next ==
    \/ \E w \in Workers : Reconcile(w) \/ Abort(w) \/ CleanupCallFails(w) \/ InformerSync(w)
    \/ Outside

Spec == Init /\ [][Next]_vars

(***************************************************************************)
(* A queued request is worked on and its calls return; informers catch up; *)
(* work, capture and verification children end (each has a deadline).      *)
(* Faults are finite.  Nothing is assumed of users, of the broker or of    *)
(* what the agent reports.                                                 *)
(***************************************************************************)
Fairness ==
    /\ \A w \in Workers : WF_vars(Reconcile(w)) /\ WF_vars(InformerSync(w))
    /\ WF_vars(ChildStarts) /\ WF_vars(ChildEnds)
    /\ WF_vars(CaptureEnds) /\ WF_vars(VerifyEnds) /\ WF_vars(GarbageCollect)

LiveSpec == Spec /\ Fairness

----------------------------------------------------------------------------
TypeOK ==
    /\ obj \in RunObjects /\ run \in [Workers -> RunObjects]
    /\ fresh \in [Workers -> BOOLEAN] /\ failed \in [Workers -> BOOLEAN]
    /\ queued \in [Workers -> BOOLEAN] /\ pc \in [Workers -> Calls]
    /\ plan \in [Workers -> 0 .. MaxClock] /\ cache \in [Workers -> Children]
    /\ saved \subseteq Digests /\ secrets \subseteq {"work", "verify"}
    /\ child \in Children /\ context \in BOOLEAN
    /\ stream \in Reports \cup {"none"} /\ completion \in Reports \cup {"none"}
    /\ capturer \in {"none", "running", "done", "failed"}
    /\ verifier \in {"none", "running", "Accepted", "Rejected"}
    /\ ledger \in {"none", "claimed", "succeeded", "failed", "unknown"} /\ pr \in BOOLEAN
    /\ reviews \in ReviewStates
    /\ made \in 0 .. MaxChildren /\ clock \in 0 .. MaxClock /\ faults \in 0 .. MaxFaults

(***************************************************************************)
(* Whatever the mutable references do, and whichever worker acts on        *)
(* whatever copy, the work child runs the one contract locked in status,   *)
(* and that contract is readable in the object store                       *)
(* (agentrun.go, SpecDigest as "the execution lock").                      *)
(***************************************************************************)
ExecutesLockedSpec ==
    child # NoChild => child.digest = obj.digest /\ obj.digest \in saved

(***************************************************************************)
(* The controller removes the work child of a live run only once the patch *)
(* reference is durable in status ("Persist the capture checkpoint before  *)
(* any work child is reaped").                                             *)
(***************************************************************************)
EvidenceBeforeReap ==
    [][(child # NoChild /\ child' = NoChild /\ faults' = faults)
         => obj.patch \/ ~obj.there \/ obj.cancel \/ obj.deleting \/ obj.phase \in Terminal]_vars

(***************************************************************************)
(* A phase is backed by the evidence it stands for: past Working there is  *)
(* a durable Completed record, past Capturing a patch, past Verifying a    *)
(* verdict, whichever worker wrote the phase.                              *)
(***************************************************************************)
EvidenceBacksPhase ==
    /\ obj.phase \in {"Capturing", "Verifying", "Gated", "Publishing", "Succeeded", "Rejected"}
         => completion = "Completed" /\ obj.events
    /\ obj.phase \in {"Verifying", "Gated", "Publishing", "Succeeded", "Rejected"} => obj.patch
    /\ obj.phase \in {"Gated", "Publishing", "Succeeded", "Rejected"} => obj.gate # "none"

(***************************************************************************)
(* No external effect without a verdict that allows it: an effect is       *)
(* claimed only for an accepted patch, or for any patch in shadow mode,    *)
(* and only when the locked contract asks for publication.                 *)
(***************************************************************************)
GateDecides ==
    ledger # "none" \/ reviews # "none" =>
        /\ obj.digest \in PublishPR
        /\ obj.gate = "Accepted" \/ (obj.gate = "Rejected" /\ obj.digest \in Shadow)

(***************************************************************************)
(* What status says of each output is what was recorded of it: the effect  *)
(* of the patch, the condition FindingsPublished of the findings.  A run   *)
(* that was to publish ends as Succeeded only when every output its        *)
(* contract asks for is on the forge, and each kind of contract touches    *)
(* only what it asks for: findings alone make no pull request ("findings-  *)
(* only output never masquerades as a controller-created PR"), a patch     *)
(* alone no reviews, and both no reviews before the pull request exists    *)
(* ("must not start a second external effect").                            *)
(***************************************************************************)
StatusTellsEffect ==
    /\ obj.effect = "succeeded" => pr /\ ledger = "succeeded"
    /\ obj.effect = "failed" => ledger = "failed"
    /\ obj.findings = "true" => reviews = "posted"
    /\ obj.phase = "Succeeded" /\ obj.digest \in PublishPR =>
         /\ obj.digest \notin Findings => obj.effect = "succeeded"
         /\ obj.digest \in Findings \cup Both => obj.findings = "true"
    /\ obj.digest \in Findings => ~pr /\ ledger = "none"
    /\ reviews # "none" => obj.digest \in Findings \/ (obj.digest \in Both /\ pr)

(***************************************************************************)
(* The phases and the locked digest follow the table of fsm/agentrun.go.   *)
(***************************************************************************)
P == INSTANCE AgentRunPhases WITH phase <- obj.phase, digest <- obj.digest

ImplementsPhases == P!Spec

----------------------------------------------------------------------------
Ended == obj.phase \in Terminal \/ ~obj.there

\* The locked contract is not one whose object was never written.
Readable == obj.digest = NoDigest \/ obj.digest \in saved

(***************************************************************************)
(* A cancelled run ends, from any point of its life and through any finite *)
(* number of faults, provided its resolved spec was written.               *)
(***************************************************************************)
CancelStops == (obj.cancel /\ Readable) ~> Ended

(***************************************************************************)
(* When a run has ended, every child and credential it was given is        *)
(* eventually removed (cleanupChildren).                                   *)
(***************************************************************************)
EndCleansUp ==
    Ended ~> (child = NoChild /\ secrets = {} /\ capturer = "none" /\ verifier = "none")

(***************************************************************************)
(* A deleted run goes away: its finalizer does not outlive its children.   *)
(***************************************************************************)
DeletionCompletes == (obj.deleting /\ Readable) ~> ~obj.there

\* A run that is to stop stops, and leaves nothing behind.
RunsWindUp == CancelStops /\ EndCleansUp /\ DeletionCompletes

(***************************************************************************)
(* A work child that exists is eventually referenced from status, so that  *)
(* a restart between creating and recording it is recovered ("restart-safe *)
(* controller-computed child plan fingerprints"), as long as the clock     *)
(* shows what it showed when the child was planned.                        *)
(***************************************************************************)
ChildIsAdopted ==
    (obj.phase = "Pending" /\ child # NoChild /\ child.plan = clock)
        ~> \/ obj.phase # "Pending" \/ child = NoChild \/ child.plan # clock
           \/ obj.cancel \/ ~obj.there

(***************************************************************************)
(* Work that has ended is noticed: the run does not stay Working once the  *)
(* context artifact, which is read before the exit, has been published.    *)
(***************************************************************************)
WorkEndNoticed ==
    (obj.phase = "Working" /\ Finished(child) /\ context) ~> obj.phase # "Working" \/ ~obj.there

\* The work of a run goes on after a crash, a failed call or a lost child.
WorkGoesOn == ChildIsAdopted /\ WorkEndNoticed
============================================================================
