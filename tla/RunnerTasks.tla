----------------------------- MODULE RunnerTasks -----------------------------
(***************************************************************************)
(* agw-runner: the durable task table of one runner process and the        *)
(* sandboxes it supervises.  A task is identified by the run and the step  *)
(* it was scheduled for; scheduling it again returns the stored result.    *)
(* The requests are operators with the caller's side left out: LocalEngine *)
(* makes them and decides what a lost answer means.                        *)
(*                                                                         *)
(* A runtime event is its sequence number; only the last History of them   *)
(* are kept.  Task files are written atomically and writing them does not  *)
(* fail.                                                                   *)
(***************************************************************************)
EXTENDS Integers, FiniteSets

CONSTANTS
    Agents,             \* the agent steps: one task each
    History,            \* retained runtime events (maxRuntimeEventHistory)
    MaxEvents           \* bound: runtime events of a task

\* Idempotency keys of resume requests: an approval by its id, 0 for the reply.
Resumes == 0..MaxEvents

ASSUME RunnerAssumption == History \in Nat \ {0} /\ MaxEvents \in Nat

VARIABLES
    task,       \* per agent step: the persisted task
    active,     \* agent steps whose sandbox this process supervises
    cancelling, \* of these, the ones whose context Cancel has cancelled
    starts,     \* history: sandboxes started per step
    frames      \* history: per step, the resume frames sent to its sandbox

runner == <<task, active, cancelling, starts, frames>>

TaskStates == {"none", "scheduled", "running", "waiting_approval",
               "succeeded", "failed", "cancelled", "lost"}
Ended == {"succeeded", "failed", "cancelled", "lost"}

NoTask == [state |-> "none", result |-> "none", events |-> 0, approval |-> 0,
           sent |-> {}]

TasksOK ==
    /\ task \in [Agents -> [state : TaskStates, result : {"none", "scheduled"} \cup Ended,
                            events : 0..MaxEvents, approval : 0..MaxEvents,
                            sent : SUBSET Resumes]]
    /\ active \subseteq Agents /\ cancelling \subseteq active

InitTasks ==
    /\ task = [s \in Agents |-> NoTask]
    /\ active = {} /\ cancelling = {}
    /\ starts = [s \in Agents |-> 0]
    /\ frames = [s \in Agents |-> [k \in Resumes |-> 0]]

\* The first retained event and whether older ones were dropped.
HistoryStart(s) == IF task[s].events > History THEN task[s].events - History + 1 ELSE
                   IF task[s].events > 0 THEN 1 ELSE 0
Truncated(s) == task[s].events > History

\* A new task is stored; a known one is answered from its record.
Schedule(s) ==
    /\ task' = IF task[s].state # "none" THEN task ELSE
               [task EXCEPT ![s] = [NoTask EXCEPT !.state = "scheduled", !.result = "scheduled"]]
    /\ UNCHANGED <<active, cancelling, starts, frames>>

\* A task that is not over is marked cancelled before its sandbox has stopped.
Cancel(s) ==
    /\ task' = IF task[s].state \in Ended THEN task ELSE [task EXCEPT ![s].state = "cancelled"]
    /\ cancelling' = IF task[s].state \in Ended THEN cancelling ELSE cancelling \cup ({s} \cap active)
    /\ UNCHANGED <<active, starts, frames>>

\* The command is recorded and the lock released before the frame is sent.
CanResume(s) == s \in active /\ task[s].state \in {"waiting_approval", "running"}
AlreadySent(s, k) == k \in task[s].sent
Resume(s, k) ==
    /\ CanResume(s)
    /\ task' = IF AlreadySent(s, k) THEN task
               ELSE [task EXCEPT ![s].state = "running"]
    /\ UNCHANGED <<active, cancelling, starts, frames>>

SendFrame(s, k) ==
    /\ s \in active
    /\ frames' = [frames EXCEPT ![s][k] = @ + 1]
    /\ task' = [task EXCEPT ![s].sent = @ \cup {k}]
    /\ UNCHANGED <<active, cancelling, starts>>

\* The sandbox of a scheduled task is started, by Schedule or by Recover.
StartTask(s) ==
    /\ s \notin active /\ task[s].state = "scheduled"
    /\ task' = [task EXCEPT ![s].state = "running"]
    /\ active' = active \cup {s}
    /\ starts' = [starts EXCEPT ![s] = @ + 1]
    /\ UNCHANGED <<cancelling, frames>>

\* observe: an event is appended; a request for approval also becomes the state.
Observe(s) ==
    /\ s \in active /\ task[s].events < MaxEvents
    /\ \/ task' = [task EXCEPT ![s].events = @ + 1]
       \/ task' = [task EXCEPT ![s].events = @ + 1, ![s].state = "waiting_approval",
                               ![s].approval = task[s].events + 1]
    /\ UNCHANGED <<active, cancelling, starts, frames>>

\* The sandbox has ended: by its terminal event, an error, its timeout or a cancellation.
Finish(s) ==
    /\ s \in active
    /\ \E end \in IF s \in cancelling THEN {"cancelled"} ELSE {"succeeded", "failed", "cancelled"} :
           task' = [task EXCEPT ![s].state = end, ![s].result = end]
    /\ active' = active \ {s} /\ cancelling' = cancelling \ {s}
    /\ UNCHANGED <<starts, frames>>

MutantLoad(t) == IF t.state \in {"running", "waiting_approval"} THEN [t EXCEPT !.state = "scheduled"] ELSE t

\* load: what was running is lost; the stored schedule result stays as it was.
Load(t) == IF t.state \in {"running", "waiting_approval"} THEN [t EXCEPT !.state = "lost"] ELSE t

RunnerRestart ==
    /\ task' = [s \in Agents |-> Load(task[s])]
    /\ active' = {} /\ cancelling' = {}
    /\ UNCHANGED <<starts, frames>>

SandboxStep(s) == StartTask(s) \/ Observe(s) \/ Finish(s)
=============================================================================
