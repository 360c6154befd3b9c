------------------------------ MODULE ArgoRun ------------------------------
(***************************************************************************)
(* The optional Argo backend of an AgentRun: v3/internal/controller/       *)
(* orchestration.go drives a run up to its hand-off, v3/internal/          *)
(* argoworkflow creates, binds and observes one Workflow, the steps of     *)
(* that Workflow (cmd/agw-agent-run-lifecycle and phase0/argo-sandbox/     *)
(* bridge) watch the work Sandbox and produce the hand-off.  From          *)
(* Verifying on the run is AgentRun's.                                     *)
(*                                                                         *)
(* One controller reconciles the run; a reconcile reads the run into seen, *)
(* calls the cluster, and writes next back, which the API server refuses   *)
(* when the run has changed.  UIDs are numbers, 0 standing for none.       *)
(***************************************************************************)
EXTENDS Naturals, FiniteSets

CONSTANT MaxFaults  \* crashes, lost children, edits and failed reads

VARIABLES run,        \* the AgentRun object
          seen, next, pc,   \* the controller's reconcile in progress
          sandbox, workflow,   \* the live children, at most one of each
          workspace,  \* the work Sandbox's volume, with the wait markers
          records,    \* the object store
          cluster     \* the pinned template, the execution gate, counters

vars == <<run, seen, next, pc, sandbox, workflow, workspace, records, cluster>>

Terminal == {"Failed", "Cancelled", "Removed"}

\* What a Workflow must carry to be the run's: owner, labels, annotations,
\* the three spec fields with the nine parameters, and the run's deadline.
Carried == {"owner", "metadata", "template", "arguments", "deadline"}

\* validateInputs: the run is the admitted one, its generation unchanged
ValidInputs(r) == r.gen = 1 /\ r.phase \in {"Pending", "Cloning"}

\* Translate
Translate(uid) ==
    [uid |-> uid, gen |-> 1, runGen |-> run.gen, carries |-> Carried,
     deleting |-> FALSE, phase |-> "", step |-> "prepare",
     sandbox |-> 0, output |-> <<>>]

\* validateWorkflowIdentity: a Workflow is the one expected when it is not
\* being deleted, has the bound UID and generation (0 before binding) and
\* still carries everything that was translated into it.
IsExpected(w, runGen, uid, gen) ==
    /\ ~w.deleting
    /\ uid # 0 => w.uid = uid /\ w.gen = gen
    /\ w.carries = Carried
    /\ w.runGen = runGen

\* mapPhase
MapPhase(raw) == IF raw = "" THEN "Pending" ELSE raw

EndedBadly == {"Failed", "Error"}

\* bindLifecycleOutput: the output names this Workflow and this run
NamesWorkflow(o, w) == o.workflow = w.uid /\ o.runGen = w.runGen

\* BindLifecycleOutput: exactly one reserved parameter, bound to its origin
BindLifecycleOutput(w) == w.output # <<>> /\ NamesWorkflow(w.output[1], w)

\* validateArgoPreGateState
PreGate(r) == r.phase \in {"Pending", "Cloning"} /\ r.output = <<>>

\* bindingFromOrchestrationStatus
BindingFromStatus(r) == r.orch # <<>> /\ r.orch[1].runGen = r.gen

\* validateOrchestrationStatusValue
StatusIsBounded(r) == r.orch # <<>> => r.orch[1].runGen = r.gen

\* argoLifecycleHandoffBound
HandoffBound(r) == r.phase = "Verifying" /\ r.output # <<>>

Init ==
    /\ run = [gen |-> 1, stop |-> "no", phase |-> "Pending", work |-> 0,
              orch |-> <<>>, output |-> <<>>]
    /\ seen = run /\ next = run /\ pc = "idle"
    /\ sandbox = <<>> /\ workflow = <<>>
    /\ workspace = [ready |-> 0, finished |-> 0, staged |-> FALSE,
                    authors |-> {}, capture |-> {}]
    /\ records = [completion |-> "none", lifecycle |-> {}]
    /\ cluster = [pinned |-> TRUE, allowed |-> TRUE, sandboxes |-> 0,
                  workflows |-> 0, faults |-> 0]

children == <<sandbox, workflow, workspace, records, cluster>>

----------------------------------------------------------------------------
(* The controller *)

Return == pc' = "idle" /\ next' = run /\ seen' = run

ToWrite(r) == next' = r /\ pc' = "write" /\ UNCHANGED seen

\* Reconcile: a stopped or terminal run is cleaned up, an unbound one is
\* bootstrapped and a bound one observed; after the hand-off Argo is done.
Reconcile ==
    /\ pc = "idle" /\ run.phase # "Removed"
    /\ seen' = run /\ next' = run
    /\ \/ /\ run.stop # "no" \/ run.phase \in Terminal
          /\ pc' = "cleanup"
       \/ /\ run.stop = "no" /\ run.phase \notin Terminal
          /\ run.orch = <<>>
          /\ pc' = "bootstrap"
       \/ /\ run.stop = "no" /\ run.phase \notin Terminal
          /\ run.orch # <<>> /\ ~HandoffBound(run)
          /\ pc' = "observe"
    /\ UNCHANGED <<run, children>>

\* checkArgoExecution
Denied ==
    /\ pc \in {"bootstrap", "ensure"} /\ ~cluster.allowed
    /\ Return
    /\ UNCHANGED <<run, children>>

\* bootstrapArgoWork, its create-or-get of the Secret and the work Sandbox
CreateSandbox ==
    /\ pc = "bootstrap" /\ cluster.allowed
    /\ sandbox = <<>>
    /\ sandbox' = <<[uid |-> cluster.sandboxes + 1, state |-> "created"]>>
    /\ cluster' = [cluster EXCEPT !.sandboxes = @ + 1]
    /\ UNCHANGED <<run, seen, next, pc, workflow, workspace, records>>

\* validateArgoWorkStatusRefMatches
SameWork == seen.work = sandbox[1].uid

\* bootstrapArgoWork, the rest: the reference is persisted first and the
\* Workflow is only created by a later reconcile that finds it unchanged.
BootstrapArgoWork ==
    /\ pc = "bootstrap" /\ cluster.allowed /\ sandbox # <<>>
    /\ \/ /\ seen.work = 0
          /\ ToWrite([seen EXCEPT !.work = sandbox[1].uid,
                                  !.phase = "Cloning"])
       \/ /\ seen.work # 0 /\ ~SameWork
          /\ Return
       \/ /\ SameWork
          /\ pc' = "ensure" /\ UNCHANGED <<seen, next>>
    /\ UNCHANGED <<run, children>>

\* orchestrationRef
OrchestrationRef(w) == 
    <<[uid |-> w.uid, gen |-> w.gen, runGen |-> seen.gen, phase |-> "Pending"]>>

\* ValidateTemplate
TemplateIsPinned == cluster.pinned

\* Backend.Ensure: bind the deterministic Workflow, creating it if missing
Ensure ==
    /\ pc = "ensure" /\ cluster.allowed /\ ValidInputs(seen)
    /\ \/ /\ ~TemplateIsPinned
          /\ Return /\ UNCHANGED <<workflow, cluster>>
       \/ /\ TemplateIsPinned /\ workflow # <<>>
          /\ IF IsExpected(workflow[1], seen.gen, 0, 0)
             THEN ToWrite([seen EXCEPT !.orch = OrchestrationRef(workflow[1])])
             ELSE Return
          /\ UNCHANGED <<workflow, cluster>>
       \/ /\ TemplateIsPinned /\ workflow = <<>>
          /\ workflow' = <<Translate(cluster.workflows + 1)>>
          /\ cluster' = [cluster EXCEPT !.workflows = @ + 1]
          /\ ToWrite([seen EXCEPT !.orch = OrchestrationRef(workflow'[1])])
    /\ UNCHANGED <<run, sandbox, workspace, records>>

\* the Workflow a bound run's status names
IsBound(w) == IsExpected(w, seen.gen, seen.orch[1].uid, seen.orch[1].gen)

\* failRun
Fail == ToWrite([seen EXCEPT !.phase = "Failed"])

\* Mutant: a Workflow that is not there or not the bound one is looked for again later.
MutantRequeue ==
    /\ pc = "observe" /\ (workflow = <<>> \/ (workflow # <<>> /\ ~IsBound(workflow[1])))
    /\ Return /\ UNCHANGED <<run, children>>

\* Backend.Observe and the first half of driveArgo: whatever cannot be shown
\* to be the bound Workflow ends the run.
ObserveBroken ==
    /\ pc = "observe"
    /\ \/ ~TemplateIsPinned
       \/ run.gen # seen.gen
       \/ workflow = <<>>
       \/ /\ workflow # <<>>
          /\ \/ ~IsBound(workflow[1])
             \/ /\ workflow[1].phase = "Succeeded"
                /\ ~BindLifecycleOutput(workflow[1])
    /\ Fail
    /\ UNCHANGED <<run, children>>

\* acceptArgoLifecycleOutput and advanceArgoToVerifying
AcceptLifecycleOutput(r, output) ==
    /\ PreGate(r)
    /\ records' = [records EXCEPT !.lifecycle = @ \cup {output[1]}]
    /\ ToWrite([r EXCEPT !.output = output, !.phase = "Verifying"])

\* driveArgo, the phases of the Workflow.  A Workflow that succeeded must
\* bring its output, which is saved before the run refers to it.
Observe ==
    /\ pc = "observe"
    /\ TemplateIsPinned /\ run.gen = seen.gen /\ workflow # <<>>
    /\ IsBound(workflow[1])
    /\ LET w == workflow[1]
           mirrored == [seen EXCEPT !.orch[1].phase = MapPhase(w.phase)]
       IN  \/ /\ MapPhase(w.phase) \in {"Pending", "Running"}
              /\ IF mirrored = seen THEN Return ELSE ToWrite(mirrored)
              /\ UNCHANGED records
           \/ /\ w.phase \in EndedBadly
              /\ ToWrite([mirrored EXCEPT !.phase = "Failed"])
              /\ UNCHANGED records
           \/ /\ w.phase = "Succeeded" /\ BindLifecycleOutput(w)
              /\ AcceptLifecycleOutput(mirrored, w.output)
    /\ UNCHANGED <<run, sandbox, workflow, workspace, cluster>>

\* Backend.Observe, its read of the AgentRun failing
ObserveUnread ==
    /\ pc = "observe" /\ cluster.faults < MaxFaults
    /\ cluster' = [cluster EXCEPT !.faults = @ + 1]
    /\ Fail
    /\ UNCHANGED <<run, sandbox, workflow, workspace, records>>

\* cleanupOrchestration and Backend.Delete
CanDeleteWorkflow ==
    \/ seen.orch = <<>>
    \/ /\ BindingFromStatus(seen)
       /\ workflow # <<>> => IsBound(workflow[1])

\* cleanupChildren: the Sandbox goes whether or not the Workflow could be
\* deleted; only a cleanup without an error ends a cancelled or deleted run.
Cleanup ==
    /\ pc = "cleanup"
    /\ workflow' = IF seen.orch # <<>> /\ CanDeleteWorkflow /\ workflow # <<>>
                   THEN <<[workflow[1] EXCEPT !.deleting = TRUE]>>
                   ELSE workflow
    /\ sandbox' = <<>>
    /\ IF CanDeleteWorkflow /\ seen.stop # "no"
       THEN ToWrite([seen EXCEPT !.phase =
                CASE seen.stop = "delete" -> "Removed"
                  [] seen.phase \in Terminal -> seen.phase
                  [] OTHER -> "Cancelled"])
       ELSE Return
    /\ UNCHANGED <<run, workspace, records, cluster>>

\* updateStatus: refused when the object is not the one that was read or its
\* orchestration status is not of this generation
UpdateStatus ==
    /\ pc = "write"
    /\ run' = IF run = seen /\ StatusIsBounded(next) THEN next ELSE run
    /\ pc' = "idle" /\ seen' = run' /\ next' = run'
    /\ UNCHANGED children

----------------------------------------------------------------------------
(* The steps of the Workflow *)

Running(step) == workflow # <<>> /\ workflow[1].phase \in {"", "Running"}
                 /\ workflow[1].step = step

Then(step) == workflow' = <<[workflow[1] EXCEPT !.step = step]>>

StepFails == workflow' = <<[workflow[1] EXCEPT !.phase = "Failed"]>>

controller == <<run, seen, next, pc>>

\* Producer.Prepare
Prepare ==
    /\ Running("prepare")
    /\ IF run.gen = workflow[1].runGen /\ sandbox # <<>>
       THEN workflow' = <<[workflow[1] EXCEPT !.step = "ready",
                     !.phase = "Running", !.sandbox = sandbox[1].uid]>>
       ELSE StepFails
    /\ UNCHANGED <<controller, sandbox, workspace, records, cluster>>

\* bridge.Evaluate: Ready is never concluded from a Sandbox that finished
Evaluate(state, target) ==
    CASE state = "failed"    -> "failed"
      [] state = "succeeded" -> IF target = "finished" THEN "satisfied"
                                ELSE "failed"
      [] state = "ready"     -> IF target = "ready" THEN "satisfied"
                                ELSE "pending"
      [] state = "created"   -> "pending"

\* verifyMarker
MarkerAgrees(target, uid) == workspace[target] = uid

\* bridge.Wait and the check of the marker in runWait: the step waits for its
\* condition, marks the Sandbox it saw, and only goes on when that is the
\* one that was prepared.
WaitFor(target, then) ==
    /\ Running(target)
    /\ IF sandbox = <<>> \/ (target = "finished"
                             /\ ~MarkerAgrees("ready", sandbox[1].uid))
       THEN StepFails /\ UNCHANGED workspace
       ELSE LET uid == sandbox[1].uid
                decision == Evaluate(sandbox[1].state, target)
            IN  \/ /\ \/ decision = "failed"
                      \/ decision = "satisfied" /\ workspace[target] \notin {0, uid}
                   /\ StepFails /\ UNCHANGED workspace
                \/ /\ decision = "satisfied" /\ workspace[target] \in {0, uid}
                   /\ workspace' = [workspace EXCEPT ![target] = uid]
                   /\ IF uid = workflow[1].sandbox THEN Then(then)
                                                  ELSE StepFails
    /\ UNCHANGED <<controller, sandbox, records, cluster>>

\* Producer.Stage
Stage ==
    /\ Running("stage")
    /\ workspace' = [workspace EXCEPT !.staged = TRUE]
    /\ Then("finished")
    /\ UNCHANGED <<controller, sandbox, records, cluster>>

\* validateSandboxMarkers
Marked == \A target \in {"ready", "finished"} : MarkerAgrees(target, workflow[1].sandbox)

\* the capture container: it needs the staged spec and compares both markers
Capture ==
    /\ Running("capture")
    /\ IF workspace.staged /\ Marked
       THEN /\ workspace' = [workspace EXCEPT !.capture = @ \cup workspace.authors]
            /\ Then("handoff")
       ELSE StepFails /\ UNCHANGED workspace
    /\ UNCHANGED <<controller, sandbox, records, cluster>>

\* validatePreparedSandbox
Prepared == sandbox # <<>> /\ sandbox[1].uid = workflow[1].sandbox /\ Marked

LifecycleOutput(w) == [workflow |-> w.uid, sandbox |-> w.sandbox,
                       runGen |-> w.runGen, patch |-> workspace.capture]

\* Producer.load: the live run and Workflow are still the bound pair
Loads == ValidInputs(run) /\ IsExpected(workflow[1], run.gen, 0, 0)

\* Producer.runtimeProof
RuntimeProof == records.completion = "completed"

\* Producer.Handoff
Handoff ==
    /\ Running("handoff")
    /\ IF Loads /\ Prepared /\ RuntimeProof
       THEN workflow' = <<[workflow[1] EXCEPT !.phase = "Succeeded",
                               !.output = <<LifecycleOutput(workflow[1])>>]>>
       ELSE StepFails
    /\ UNCHANGED <<controller, sandbox, workspace, records, cluster>>

\* spec.activeDeadlineSeconds, or a step's container failing
StepLost ==
    /\ workflow # <<>> /\ workflow[1].phase \in {"", "Running"}
    /\ \E phase \in EndedBadly :
          workflow' = <<[workflow[1] EXCEPT !.phase = phase]>>
    /\ UNCHANGED <<controller, sandbox, workspace, records, cluster>>

\* Kubernetes removes a Workflow that is being deleted
WorkflowGone ==
    /\ workflow # <<>> /\ workflow[1].deleting
    /\ workflow' = <<>>
    /\ UNCHANGED <<controller, sandbox, workspace, records, cluster>>

----------------------------------------------------------------------------
(* The Sandbox, the user and faults *)

SandboxReady ==
    /\ sandbox # <<>> /\ sandbox[1].state = "created"
    /\ sandbox' = <<[sandbox[1] EXCEPT !.state = "ready"]>>
    /\ workspace' = [workspace EXCEPT !.authors = @ \cup {sandbox[1].uid}]
    /\ UNCHANGED <<controller, workflow, records, cluster>>

\* The pod ends; its completion record is immutable once it is stored.
SandboxFinishes(state, completion) ==
    /\ sandbox # <<>> /\ sandbox[1].state = "ready"
    /\ sandbox' = <<[sandbox[1] EXCEPT !.state = state]>>
    /\ records' = [records EXCEPT !.completion =
                      IF @ = "none" THEN completion ELSE @]
    /\ UNCHANGED <<controller, workflow, workspace, cluster>>

\* spec.cancelRequested or a deletion; both advance metadata.generation
UserStops(how) ==
    /\ run.stop = "no" /\ run.phase # "Removed"
    /\ run' = [run EXCEPT !.stop = how, !.gen = @ + 1]
    /\ UNCHANGED <<seen, next, pc, children>>

Fault ==
    /\ cluster.faults < MaxFaults
    /\ \/ /\ pc # "idle" /\ pc' = "idle" /\ seen' = run /\ next' = run
          /\ cluster' = [cluster EXCEPT !.faults = @ + 1]
          /\ UNCHANGED <<sandbox, workflow>>
       \/ /\ cluster' = [cluster EXCEPT !.faults = @ + 1]
          /\ sandbox # <<>> /\ sandbox' = <<>>
          /\ UNCHANGED <<seen, next, pc, workflow>>
       \/ /\ cluster' = [cluster EXCEPT !.faults = @ + 1]
          /\ workflow # <<>> /\ workflow' = <<>>
          /\ UNCHANGED <<seen, next, pc, sandbox>>
       \/ /\ cluster' = [cluster EXCEPT !.faults = @ + 1]
          /\ workflow # <<>>
          /\ \/ workflow' = <<[workflow[1] EXCEPT !.carries = @ \ {"metadata"}]>>
             \/ workflow' = <<[workflow[1] EXCEPT !.carries = @ \ {"deadline"},
                                                  !.gen = 2]>>
             \/ workflow' = <<[workflow[1] EXCEPT !.output = <<>>]>>
          /\ UNCHANGED <<seen, next, pc, sandbox>>
       \/ /\ cluster.pinned
          /\ cluster' = [cluster EXCEPT !.faults = @ + 1, !.pinned = FALSE]
          /\ UNCHANGED <<seen, next, pc, sandbox, workflow>>
       \/ /\ cluster.allowed
          /\ cluster' = [cluster EXCEPT !.faults = @ + 1, !.allowed = FALSE]
          /\ UNCHANGED <<seen, next, pc, sandbox, workflow>>
    /\ UNCHANGED <<run, workspace, records>>

\* a fresh preflight report allows execution again
Allowed ==
    /\ ~cluster.allowed
    /\ cluster' = [cluster EXCEPT !.allowed = TRUE]
    /\ UNCHANGED <<controller, sandbox, workflow, workspace, records>>

Controls == \/ Reconcile \/ Denied \/ CreateSandbox \/ BootstrapArgoWork
            \/ Ensure \/ ObserveBroken \/ Observe \/ Cleanup \/ UpdateStatus

Steps == \/ Prepare \/ WaitFor("ready", "stage") \/ Stage
         \/ WaitFor("finished", "capture") \/ Capture \/ Handoff

Next ==
    \/ Controls \/ ObserveUnread
    \/ Steps \/ StepLost \/ WorkflowGone
    \/ SandboxReady \/ Allowed \/ Fault
    \/ \E completion \in {"completed", "none"} :
          SandboxFinishes("succeeded", completion)
    \/ \E completion \in {"failed", "none"} :
          SandboxFinishes("failed", completion)
    \/ \E how \in {"cancel", "delete"} : UserStops(how)

----------------------------------------------------------------------------
(* Properties *)

\* Types of the run and of the controller's copies.
TypeOK ==
    /\ run.gen \in 1 .. 2 /\ run.work \in 0 .. MaxFaults + 1
    /\ run.phase \in Terminal \cup {"Pending", "Cloning", "Verifying"}
    /\ pc \in {"idle", "bootstrap", "ensure", "observe", "cleanup", "write"}
    /\ cluster.faults \in 0 .. MaxFaults

\* driveArgo and acceptArgoLifecycleOutput: a run that reaches verification
\* does so with the output of the Workflow it is bound to, captured over the
\* work of the very Sandbox its status names, after a completion record said
\* that the agent completed, and with that output stored.
HandoffIsTheRuns ==
    run.output # <<>> =>
        LET o == run.output[1]
        IN  /\ run.orch # <<>> /\ o.workflow = run.orch[1].uid
            /\ o.sandbox = run.work /\ run.work \in o.patch
            /\ records.completion = "completed"
            /\ o \in records.lifecycle

\* bootstrapArgoWork's ordering boundary: no Workflow exists before the run
\* has persisted a reference to its work Sandbox.
WorkBeforeWorkflow == workflow # <<>> => run.work # 0

\* ErrWorkflowMissing: once a Workflow is bound to the run it stays the one
\* the run names, and no second one is created, whatever happens to it.
BoundIsNeverReplacedStep ==
    run.orch # <<>> => /\ run'.orch # <<>> /\ run'.orch[1].uid = run.orch[1].uid
                       /\ cluster'.workflows = cluster.workflows

\* Once a Workflow is bound to it, a run that nobody stops is eventually
\* handed off or failed: a crash, an edited or lost Workflow, a lost Sandbox
\* or a changed template never leaves it waiting.
Bound == run.orch # <<>>
Settled == run.phase \in Terminal \/ HandoffBound(run) \/ run.stop # "no"
============================================================================
