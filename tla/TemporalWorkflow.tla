--------------------------- MODULE TemporalWorkflow ---------------------------
(***************************************************************************)
(* v2 control plane on Temporal: the workflow that runs the steps of a     *)
(* manifest in the order their needs allow, the child workflow that drives *)
(* one agent step on a runner, and the signals users send them.            *)
(*                                                                         *)
(* Temporal keeps workflow state and delivers signals durably, so a worker *)
(* that dies is not visible here.  A call to the runner is one attempt: it *)
(* fails with the request done or not done, and the child fails with it.   *)
(* A failed child is started again while its retry policy allows.  A       *)
(* status write is tried five times; it fails for good as one fault.       *)
(*                                                                         *)
(* Not here: replies (they take the approval's path to the runner), the    *)
(* runner's "cooldown" answer, which no runner of the repository gives,    *)
(* and search attributes.                                                  *)
(***************************************************************************)
EXTENDS RunnerTasks, RunStatuses, Sequences

CONSTANTS
    Steps,          \* step identifiers: 1..n, in the order of the canonical plan
    Plans,          \* manifests: [needs : [Steps -> SUBSET Steps], approvals : SUBSET Steps]
    Attempts,       \* MaximumAttempts of a child
    MaxFaults       \* bound: failed calls, failed status writes, timeouts, runner restarts

VARIABLES
    plan,       \* the manifest
    phase,      \* per step "pending", "running" or "succeeded"
    ready,      \* steps of this round still to run
    wf,         \* parent: [pc, step, outcome]
    status,     \* the run's status in the store
    child,      \* the agent step's workflow: [pc, tries, expected, stop]
    inbox,      \* signals not yet received: parent's and child's
    sent,       \* signals users have sent
    orphans,    \* history: steps given up without a known end of their task
    faults

flow == <<plan, phase, ready, wf, status, child, inbox, sent, orphans, faults>>
vars == <<flow, runner>>

NoChild == [pc |-> "none", tries |-> 0, expected |-> 0, stop |-> FALSE]
NoSignals == [cancel |-> FALSE, decided |-> {}, granted |-> {}]

TypeOK ==
    /\ TasksOK /\ plan \in Plans /\ phase \in [Steps -> {"pending", "running", "succeeded"}]
    /\ ready \in Seq(Steps) /\ status \in RunStatus
    /\ wf \in [pc : {"new", "pick", "agent", "approval", "cancelling", "failing",
                     "done"}, step : Steps \cup {0},
               outcome : {"", "Succeeded", "Failed", "Cancelled"}]
    /\ child \in [pc : {"none", "schedule", "wait", "resume", "cancel", "ok", "failed", "final",
                        "cancelled"},
                  tries : 0..Attempts, expected : 0..MaxEvents, stop : BOOLEAN]
    /\ inbox \in [cancel : BOOLEAN, decided : SUBSET (Steps \X {"approved", "denied"}),
                  granted : SUBSET ((1..MaxEvents) \X {"approved", "denied"})]
    /\ orphans \subseteq Steps /\ faults \in 0..MaxFaults

----------------------------------------------------------------------------
(* The manifest.                                                           *)

\* Steps are visited once everything they need is; all are visited iff there is no cycle.
Acyclic(needs) ==
    LET visited[n \in 0..Cardinality(Steps)] ==
            IF n = 0 THEN {} ELSE {s \in Steps : needs[s] \subseteq visited[n - 1]}
    IN  visited[Cardinality(Steps)] = Steps

ReadySteps ==
    {s \in Steps : phase[s] = "pending" /\ \A n \in plan.needs[s] : phase[n] = "succeeded"}

Ascending(S) == CHOOSE q \in [1..Cardinality(S) -> S] : \A i, j \in DOMAIN q : i < j => q[i] < q[j]

----------------------------------------------------------------------------
(* The parent.                                                             *)

Init ==
    /\ InitTasks /\ plan \in {p \in Plans : Acyclic(p.needs)}
    /\ phase = [s \in Steps |-> "pending"] /\ ready = <<>>
    /\ wf = [pc |-> "new", step |-> 0, outcome |-> ""] /\ status = "Pending"
    /\ child = NoChild /\ inbox = NoSignals /\ sent = NoSignals
    /\ orphans = {} /\ faults = 0

Fault == faults < MaxFaults /\ faults' = faults + 1
Fine == UNCHANGED faults

\* One status write: done, or refused, or given up after its attempts.
Writes(to) == ValidRunTransition(status, to) /\ status' = to /\ Fine
WriteFails(to) == UNCHANGED status /\ ((~ValidRunTransition(status, to) /\ Fine) \/ Fault)

\* The deferred write of the outcome; its failure turns a success into a failed workflow.
Close(outcome) ==
    \/ Writes(outcome) /\ wf' = [wf EXCEPT !.pc = "done", !.outcome = outcome]
    \/ /\ WriteFails(outcome)
       /\ wf' = [wf EXCEPT !.pc = "done",
                           !.outcome = IF outcome = "Succeeded" THEN "Failed" ELSE outcome]

Goes(pc) == wf' = [wf EXCEPT !.pc = pc]
NoSignalTaken == UNCHANGED <<inbox, sent>>

Start ==
    /\ wf.pc = "new"
    /\ \/ Writes("Running") /\ Goes("pick")
       \/ WriteFails("Running") /\ wf' = [wf EXCEPT !.pc = "done", !.outcome = "Failed"]
    /\ UNCHANGED <<plan, phase, ready, child, orphans, runner>> /\ NoSignalTaken

\* A round runs the steps that were ready when it began, one after the other.
NextRound ==
    /\ wf.pc = "pick" /\ ready = <<>>
    /\ IF \A s \in Steps : phase[s] = "succeeded"
       THEN Close("Succeeded") /\ UNCHANGED ready
       ELSE IF ReadySteps = {} THEN Close("Failed") /\ UNCHANGED ready
       ELSE ready' = Ascending(ReadySteps) /\ UNCHANGED <<wf, status>> /\ Fine
    /\ UNCHANGED <<plan, phase, child, orphans, runner>> /\ NoSignalTaken

BeginStep ==
    /\ wf.pc = "pick" /\ ready # <<>>
    /\ phase' = [phase EXCEPT ![ready[1]] = "running"] /\ ready' = Tail(ready)
    /\ IF ready[1] \in plan.approvals
       THEN /\ UNCHANGED child
            /\ \/ Writes("WaitingApproval") /\ wf' = [wf EXCEPT !.pc = "approval", !.step = ready[1]]
               \/ WriteFails("WaitingApproval") /\ Goes("failing")
       ELSE /\ wf' = [wf EXCEPT !.pc = "agent", !.step = ready[1]] /\ UNCHANGED status /\ Fine
            /\ child' = [NoChild EXCEPT !.pc = "schedule", !.tries = 1]
    /\ UNCHANGED <<plan, orphans, runner>> /\ NoSignalTaken

Succeeds(s) == phase' = [phase EXCEPT ![s] = "succeeded"]

\* An approval is for the step that waits; others are received and dropped.
Matches(d) == d[1] = wf.step

Approve ==
    /\ wf.pc = "approval"
    /\ \E d \in inbox.decided :
        /\ inbox' = [inbox EXCEPT !.decided = @ \ {d}] /\ UNCHANGED sent
        /\ \/ ~Matches(d) /\ UNCHANGED <<wf, phase, status>> /\ Fine
           \/ Matches(d) /\ d[2] = "denied" /\ Close("Failed") /\ UNCHANGED phase
           \/ /\ Matches(d) /\ d[2] = "approved"
              /\ \/ Writes("Running") /\ Succeeds(wf.step) /\ Goes("pick")
                 \/ WriteFails("Running") /\ UNCHANGED phase /\ Goes("failing")
    /\ UNCHANGED <<plan, ready, child, orphans, runner>>

ApprovalTimesOut ==
    /\ wf.pc = "approval" /\ Fault /\ Goes("failing")
    /\ UNCHANGED <<plan, phase, ready, status, child, orphans, runner>> /\ NoSignalTaken

\* Any error on the way is followed by the deferred write.
Fails ==
    /\ wf.pc = "failing" /\ Close("Failed")
    /\ UNCHANGED <<plan, phase, ready, child, orphans, runner>> /\ NoSignalTaken

ParentCancelled ==
    /\ inbox.cancel /\ inbox' = [inbox EXCEPT !.cancel = FALSE] /\ UNCHANGED sent
    /\ \/ wf.pc = "approval" /\ Close("Cancelled") /\ UNCHANGED child
       \/ /\ wf.pc = "agent" /\ Goes("cancelling") /\ child' = [child EXCEPT !.stop = TRUE]
          /\ UNCHANGED status /\ Fine
    /\ UNCHANGED <<plan, phase, ready, orphans, runner>>

ChildStopped == wf.pc = "cancelling" /\ child.pc \in {"ok", "final", "cancelled"}

\* The agent step is over: its child ended, or it was cancelled and the child has stopped.
EndAgentStep ==
    /\ \/ /\ wf.pc = "agent" /\ child.pc = "ok"
          /\ Succeeds(wf.step) /\ Goes("pick") /\ UNCHANGED status /\ Fine
       \/ wf.pc = "agent" /\ child.pc = "final" /\ Close("Failed") /\ UNCHANGED phase
       \/ wf.pc = "agent" /\ child.pc = "cancelled" /\ Close("Cancelled") /\ UNCHANGED phase
       \/ ChildStopped /\ Close("Cancelled") /\ UNCHANGED phase
    /\ child' = NoChild /\ UNCHANGED <<plan, ready, orphans, runner>>
    /\ inbox' = [inbox EXCEPT !.granted = {}] /\ UNCHANGED sent

----------------------------------------------------------------------------
(* The child of the agent step wf.step.                                    *)

ChildGoes(pc) == child' = [child EXCEPT !.pc = pc]
Gives(s) == orphans' = orphans \cup {s}
Keeps == UNCHANGED orphans
Rest == UNCHANGED <<plan, phase, ready, wf>> /\ NoSignalTaken

\* scheduleUntilAccepted, once: the stored result decides what follows.
ChildSchedule ==
    /\ child.pc = "schedule" /\ ~child.stop
    /\ \/ /\ Schedule(wf.step) /\ Fine /\ Keeps
          /\ ChildGoes(CASE task'[wf.step].result = "scheduled" -> "wait"
                         [] task'[wf.step].result = "succeeded" -> "ok"
                         [] OTHER -> "final")
       \/ (Schedule(wf.step) \/ UNCHANGED runner) /\ ChildGoes("failed") /\ Fault /\ Gives(wf.step)
    /\ UNCHANGED status /\ Rest

\* The call in flight when the child is cancelled may still reach the runner.
ChildCancelledEarly ==
    /\ child.pc = "schedule" /\ child.stop
    /\ (Schedule(wf.step) \/ UNCHANGED runner) /\ ChildGoes("cancelled") /\ Gives(wf.step)
    /\ UNCHANGED status /\ Fine /\ Rest

\* The poll: the runner's state of the task.
ChildPoll ==
    /\ child.pc = "wait" /\ ~child.stop /\ UNCHANGED runner
    /\ \/ ChildGoes("failed") /\ UNCHANGED status /\ Fault /\ Gives(wf.step)
       \/ /\ task[wf.step].state = "waiting_approval" /\ child.expected # task[wf.step].approval
          /\ \/ /\ Writes("WaitingApproval") /\ Keeps
                /\ child' = [child EXCEPT !.expected = task[wf.step].approval]
             \/ WriteFails("WaitingApproval") /\ ChildGoes("failed") /\ Gives(wf.step)
       \/ /\ task[wf.step].state \in Ended /\ UNCHANGED status /\ Fine /\ Keeps
          /\ ChildGoes(CASE task[wf.step].state = "succeeded" -> "ok"
                         [] task[wf.step].state = "failed" -> "failed"
                         [] task[wf.step].state = "cancelled" -> "cancelled"
                         [] OTHER -> "final")
    /\ Rest

\* A decision on the approval the runner waits for.
ChildDecide ==
    /\ child.pc = "wait" /\ ~child.stop /\ child.expected # 0
    /\ \E d \in inbox.granted :
        /\ d[1] = child.expected /\ inbox' = [inbox EXCEPT !.granted = @ \ {d}]
        /\ ChildGoes(IF d[2] = "denied" THEN "cancel" ELSE "resume")
    /\ UNCHANGED <<plan, phase, ready, wf, status, sent, runner>> /\ Fine /\ Keeps

\* resumeRunner, then the status; a runner that cannot resume answers with an error.
ChildResume ==
    /\ child.pc = "resume" /\ Rest
    /\ \/ /\ Resume(wf.step, child.expected)
          /\ \/ Writes("Running") /\ child' = [child EXCEPT !.pc = "wait", !.expected = 0] /\ Keeps
             \/ WriteFails("Running") /\ ChildGoes("failed") /\ Gives(wf.step)
       \/ ~CanResume(wf.step) /\ ChildGoes("failed") /\ UNCHANGED <<status, runner>> /\ Fine
            /\ Gives(wf.step)
       \/ ChildGoes("failed") /\ UNCHANGED <<status, runner>> /\ Fault /\ Gives(wf.step)

\* The cancellation meets the poll, the resume call or a status write in flight: the error of
\* that call ends the child, which does not tell the runner to cancel the task.
ChildCancelledInCall ==
    /\ child.stop /\ ChildGoes("cancelled") /\ Gives(wf.step) /\ Fine /\ Rest
    /\ \/ /\ child.pc = "wait" /\ UNCHANGED runner
          /\ \/ UNCHANGED status
             \/ /\ task[wf.step].state = "waiting_approval" /\ child.expected # task[wf.step].approval
                /\ Writes("WaitingApproval")
       \/ child.pc = "resume" /\ UNCHANGED <<status, runner>>
       \/ /\ child.pc = "resume" /\ Resume(wf.step, child.expected)
          /\ UNCHANGED status \/ Writes("Running")

ChildStops ==
    /\ child.pc = "wait" /\ child.stop /\ ChildGoes("cancel")
    /\ UNCHANGED <<status, runner>> /\ Fine /\ Keeps /\ Rest

ChildCancel ==
    /\ child.pc = "cancel" /\ UNCHANGED status /\ Rest
    /\ \/ Cancel(wf.step) /\ ChildGoes("cancelled") /\ Fine /\ Keeps
       \/ (Cancel(wf.step) \/ UNCHANGED runner) /\ ChildGoes("failed") /\ Fault /\ Gives(wf.step)

\* A failed child is started again, without the signals and the request to stop it had, or
\* is final; its execution timeout ends it at any time.
ChildRetry ==
    /\ child.pc = "failed"
    /\ IF child.tries < Attempts
       THEN child' = [NoChild EXCEPT !.pc = "schedule", !.tries = child.tries + 1]
       ELSE ChildGoes("final")
    /\ inbox' = [inbox EXCEPT !.granted = {}] /\ UNCHANGED sent
    /\ UNCHANGED <<plan, phase, ready, wf, status, runner>> /\ Fine /\ Keeps

ChildTimesOut ==
    /\ child.pc \in {"schedule", "wait", "resume", "cancel", "failed"}
    /\ ChildGoes("final") /\ Fault /\ Gives(wf.step) /\ UNCHANGED <<status, runner>> /\ Rest

ChildStep == \/ ChildSchedule \/ ChildCancelledEarly \/ ChildPoll \/ ChildDecide \/ ChildResume
             \/ ChildCancelledInCall \/ ChildStops \/ ChildCancel \/ ChildRetry

----------------------------------------------------------------------------
(* Users and runners.                                                      *)

UserCancels ==
    /\ ~sent.cancel /\ wf.pc # "done"
    /\ sent' = [sent EXCEPT !.cancel = TRUE] /\ inbox' = [inbox EXCEPT !.cancel = TRUE]
    /\ UNCHANGED <<plan, phase, ready, wf, status, child, orphans, faults, runner>>

UserDecides(s, d) ==
    /\ s \in plan.approvals /\ \A e \in {"approved", "denied"} : <<s, e>> \notin sent.decided
    /\ wf.pc # "done"
    /\ sent' = [sent EXCEPT !.decided = @ \cup {<<s, d>>}]
    /\ inbox' = [inbox EXCEPT !.decided = @ \cup {<<s, d>>}]
    /\ UNCHANGED <<plan, phase, ready, wf, status, child, orphans, faults, runner>>

\* A signal to an agent step finds its child, or is refused.
UserGrants(a, d) ==
    /\ child.pc \notin {"none", "ok", "failed", "final", "cancelled"}
    /\ task[wf.step].approval = a /\ \A e \in {"approved", "denied"} : <<a, e>> \notin inbox.granted
    /\ inbox' = [inbox EXCEPT !.granted = @ \cup {<<a, d>>}]
    /\ UNCHANGED <<plan, phase, ready, wf, status, child, sent, orphans, faults, runner>>

Sandboxes == \E s \in Agents : SandboxStep(s) /\ UNCHANGED flow

Restart == RunnerRestart /\ task' # task /\ Fault
           /\ UNCHANGED <<plan, phase, ready, wf, status, child, inbox, sent, orphans>>

Users == \/ UserCancels
         \/ \E d \in {"approved", "denied"} : \/ \E s \in Steps : UserDecides(s, d)
                                              \/ \E a \in 1..MaxEvents : UserGrants(a, d)

ParentStep == Start \/ NextRound \/ BeginStep \/ Approve \/ Fails \/ ParentCancelled \/ EndAgentStep

Next == ParentStep \/ ApprovalTimesOut \/ ChildStep \/ ChildTimesOut \/ Users \/ Sandboxes \/ Restart

Ends(s) == (StartTask(s) \/ Finish(s)) /\ UNCHANGED flow

----------------------------------------------------------------------------
\* A manifest is accepted (dag.go:95-126) exactly when its steps can be put in an order: no
\* set of steps has in it something each of its members waits for.
AcceptedIsOrdered ==
    \A needs \in [Steps -> SUBSET Steps] : Acyclic(needs) <=>
        \A S \in (SUBSET Steps) \ {{}} : \E s \in S : needs[s] \cap S = {}

\* A step is started only when everything it needs has succeeded, although a round keeps a
\* list of ready steps made before its first step ran (workflow.go:51-66).
NeedsComeFirst ==
    \A s \in Steps : phase[s] # "pending" => \A n \in plan.needs[s] : phase[n] = "succeeded"

\* A step counts as done only through its own decision or its own task: an approval meant for
\* another step, or a task that ended otherwise, never completes it.
StepsAreEarned ==
    \A s \in Steps : phase[s] = "succeeded" =>
        IF s \in plan.approvals THEN <<s, "approved">> \in sent.decided
                                ELSE task[s].state = "succeeded"

\* A closed run has no task left on the runner that is not over or being stopped, unless a
\* call failed, a timeout struck or the cancellation met a call in flight: a child that is
\* cancelled between two calls tells the runner first (workflow.go:170-172), and the parent
\* waits for the child's end before it closes (workflow.go:319-326).
ClosedRunLeavesNoTask ==
    wf.pc = "done" => \A s \in Agents \ orphans :
        s \in cancelling \/ task[s].state \in Ended \cup {"none"}

\* The store's last word is the workflow's, unless the write itself failed: no status the
\* workflow has been through makes the store refuse the final one (store.go:787-812).
OutcomeIsRecorded ==
    wf.pc = "done" /\ faults = 0 => status = wf.outcome /\ status \in Terminal

\* The user has cancelled, and the workflow is closed.
CancelSent == sent.cancel
Closed == wf.pc = "done"
=============================================================================
