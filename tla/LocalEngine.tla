----------------------------- MODULE LocalEngine -----------------------------
(***************************************************************************)
(* The PostgreSQL-backed workflow engine of the standalone server, its     *)
(* broker sessions and the runner it dispatches to, for one run.  Several  *)
(* workers poll the run's row: a worker claims it under a lease, reads the *)
(* next command, makes at most one request to the runner, and writes the   *)
(* new machine state back under the token of its lease.  Each of these is  *)
(* a step of its own, and a lease may expire between any two of them.      *)
(*                                                                         *)
(* Wake-up times have always passed.  A worker that ends with an error     *)
(* ends its server process, which is started again.  The runner never      *)
(* answers "cooldown", so the waiting it leads to is left out; the run's   *)
(* status is written by nobody else, so the copy in the runs table is too. *)
(***************************************************************************)
EXTENDS RunnerTasks, Sequences, SequencesExt

CONSTANTS
    Workers,
    Order,          \* the steps in manifest order
    Needs,          \* per step: the steps it depends on
    MaxAttempts,    \* retry policy
    CommandLimit,   \* how many pending commands a worker reads
    Commands,       \* commands that may be sent, each under a key of its own
    MaxCommands,    \* bound: commands sent
    MaxTroubles     \* bound: lost requests and answers, crashes of a server process or
                    \* of the runner, leases that expire while their worker is alive

Steps == ToSet(Order)
None == "none"
Open == {"Pending", "Starting", "Running", "WaitingApproval", "WaitingCapacity"}
Terminal == {"Succeeded", "Failed", "Cancelled", "Lost"}
Phases == {"pending", "running", "waiting_approval", "succeeded", "failed", "cancelled"}

ASSUME EngineAssumption ==
    /\ Agents \subseteq Steps /\ Needs \in [Steps -> SUBSET Steps]
    /\ \A S \in SUBSET Steps : S # {} => \E s \in S : Needs[s] \cap S = {}
    /\ {MaxAttempts, CommandLimit} \subseteq Nat \ {0} /\ {MaxCommands, MaxTroubles} \subseteq Nat
    /\ Commands \subseteq [kind : {"cancel", "approve", "deny", "reply"},
                           target : {"workflow", "agent"}, id : Nat]

VARIABLES
    brokered,   \* whether the steps need a model route or a tool set
    row,        \* local_workflows: status, machine state and lease
    queue,      \* local_workflow_commands, in order of their ids
    consumed,   \* those consumed
    events,     \* run_events: per step the runtime events stored
    session,    \* per step: the worker whose broker session the task was scheduled with
    worker,     \* per worker: what it is doing
    troubles

engine == <<brokered, row, queue, consumed, events, session, worker>>
vars == <<engine, troubles, runner>>

Machine == [current : Steps \cup {None}, phase : [Steps -> Phases], known : SUBSET Agents,
            approval : [Steps -> 0..MaxEvents], attempts : [Steps -> 0..MaxAttempts],
            cursor : 0..MaxEvents, condition : {None, "gap", "activity_failed",
            "runner_failed", "runner_result", "runner_cancelled", "approval_denied", "runner_lost"}]

NewMachine == [current |-> None, phase |-> [s \in Steps |-> "pending"], known |-> {},
               approval |-> [s \in Steps |-> 0], attempts |-> [s \in Steps |-> 0],
               cursor |-> 0, condition |-> None]

Idle == [at |-> "idle", m |-> NewMachine, command |-> 0, to |-> None]

\* Every variable has its type (struct MachineState, claimedWorkflow).
TypeOK ==
    /\ TasksOK
    /\ brokered \in BOOLEAN
    /\ row \in [status : Open \cup Terminal, m : Machine, lease : Workers \cup {None},
                expired : BOOLEAN]
    /\ Range(queue) \subseteq Commands /\ consumed \subseteq 1..Len(queue)
    /\ events \in [Agents -> SUBSET (1..MaxEvents)]
    /\ session \in [Agents -> Workers \cup {None}]
    /\ worker \in [Workers -> [at : {"idle", "claimed", "schedule", "cancel", "resume", "send",
                                      "persist"},
                               m : Machine, command : Nat, to : Open \cup Terminal \cup {None}]]
    /\ troubles \in 0..MaxTroubles

\* CreateRun and Enqueue have stored the run with its initial machine state.
Init ==
    /\ InitTasks
    /\ brokered \in BOOLEAN
    /\ row = [status |-> "Pending", m |-> NewMachine, lease |-> None, expired |-> FALSE]
    /\ queue = <<>> /\ consumed = {}
    /\ events = [s \in Agents |-> {}]
    /\ session = [s \in Agents |-> None]
    /\ worker = [w \in Workers |-> Idle]
    /\ troubles = 0

\* A command is stored once under its key; sending it again changes nothing.  One that is
\* sent when the run is over is stored and never read: it is left out.
EnqueueCommand(c) ==
    /\ row.status \in Open
    /\ c \notin Range(queue) /\ Len(queue) < MaxCommands
    /\ queue' = Append(queue, c)
    /\ UNCHANGED <<brokered, row, consumed, events, session, worker, troubles, runner>>

----------------------------------------------------------------------------
\* The machine: what a worker computes from its copy of the state.

At(w) == worker[w].at
Copy(w) == worker[w].m
IsAgent(s) == s \in Agents

\* The worker goes on with machine m at the given place.
Go(w, at, m) == worker' = [worker EXCEPT ![w].at = at, ![w].m = m]

\* The worker is about to write machine m with status to.
Write(w, m, to) == worker' = [worker EXCEPT ![w].at = "persist", ![w].m = m, ![w].to = to]

Ready(m) == SelectSeq(Order, LAMBDA s : m.phase[s] = "pending"
                                        /\ \A n \in Needs[s] : m.phase[n] = "succeeded")

AllSucceeded(m) == \A s \in Steps : m.phase[s] = "succeeded"

Fail(m, condition) == [m EXCEPT !.current = None, !.condition = condition]

Completed(m) == [m EXCEPT !.phase[m.current] = "succeeded", !.current = None]
CompletedStatus(m) == IF AllSucceeded(Completed(m)) THEN "Succeeded" ELSE "Running"
CompleteStep(w, m) == Write(w, Completed(m), CompletedStatus(m))

HandleStepFailure(w, m, condition) ==
    IF m.attempts[m.current] < MaxAttempts
    THEN Write(w, [m EXCEPT !.phase[m.current] = "pending", !.current = None], "WaitingCapacity")
    ELSE Write(w, [Fail(m, condition) EXCEPT !.phase[m.current] = "failed"], "Failed")

\* Whether a command is for the step that is current in m.
CommandApplies(c, m) ==
    \/ c.kind = "cancel"
    \/ /\ m.current # None
       /\ c.target = IF IsAgent(m.current) THEN "agent" ELSE "workflow"
       /\ c.kind # "reply" => c.id = m.approval[m.current] /\ c.id # 0

\* The first of the oldest CommandLimit pending commands that applies, or 0.
NextCommand(m) ==
    LET pending == DOMAIN queue \ consumed
        fit == {i \in pending : /\ Cardinality({j \in pending : j < i}) < CommandLimit
                                /\ CommandApplies(queue[i], m)}
    IN  IF fit = {} THEN 0 ELSE CHOOSE i \in fit : \A j \in fit : i <= j

MutantTransition(from, to) ==
    \/ from = to
    \/ /\ from \notin Terminal
       /\ \/ to \in {"Failed", "Cancelled", "Lost"}
          \/ to = "Starting" /\ from \in {"Pending", "Running"}
          \/ to = "Running" /\ from \in Open
          \/ to = "WaitingApproval" /\ from \in {"Starting", "Running"}
          \/ to = "WaitingCapacity" /\ from \in {"Pending", "Starting", "Running"}
          \/ to = "Succeeded" /\ from \in {"Starting", "Running", "WaitingApproval"}

ValidTransition(from, to) ==
    \/ from = to
    \/ /\ from \notin Terminal
       /\ \/ to \in {"Failed", "Cancelled", "Lost"}
          \/ to = "Starting" /\ from \in {"Pending", "Running", "WaitingCapacity"}
          \/ to = "Running" /\ from \in Open
          \/ to = "WaitingApproval" /\ from \in {"Starting", "Running"}
          \/ to = "WaitingCapacity" /\ from \in {"Pending", "Starting", "Running"}
          \/ to = "Succeeded" /\ from \in {"Starting", "Running", "WaitingApproval"}

----------------------------------------------------------------------------
\* The end of a worker's process: its sessions are gone, its lease may remain.
Exit(w) ==
    /\ worker' = [worker EXCEPT ![w] = Idle]
    /\ session' = [s \in Agents |-> IF session[s] = w THEN None ELSE session[s]]

\* The worker's session for a task that is over is closed.
Close(w, s) == session' = IF session[s] = w THEN [session EXCEPT ![s] = None] ELSE session

Release(w) == row' = IF row.lease = w THEN [row EXCEPT !.lease = None, !.expired = FALSE] ELSE row

\* A failed command releases the lease; the error then ends the process.
ReleaseAndExit(w) == Release(w) /\ Exit(w)

Trouble == troubles < MaxTroubles /\ troubles' = troubles + 1

Claim(w) ==
    /\ At(w) = "idle"
    /\ row.status \in Open
    /\ row.lease = None \/ row.expired
    /\ row' = [row EXCEPT !.lease = w, !.expired = FALSE]
    /\ worker' = [worker EXCEPT ![w] = [Idle EXCEPT !.at = "claimed", !.m = row.m]]
    /\ UNCHANGED <<brokered, queue, consumed, events, session, troubles, runner>>

\* Time passes; it is rarely more than a live worker's lease.
Expire ==
    /\ row.lease # None /\ ~row.expired
    /\ row' = [row EXCEPT !.expired = TRUE]
    /\ IF At(row.lease) = "idle" THEN UNCHANGED troubles ELSE Trouble
    /\ UNCHANGED <<brokered, queue, consumed, events, session, worker, runner>>

Crash(w) ==
    /\ Trouble
    /\ Exit(w)
    /\ UNCHANGED <<brokered, row, queue, consumed, events, runner>>

\* processCommand, up to the request it makes or the state it writes.
Cancelled(m) == IF m.current = None THEN m ELSE [m EXCEPT !.phase[m.current] = "cancelled"]
Denied(m) == [Fail(m, "approval_denied") EXCEPT !.phase[m.current] = "cancelled"]
Resumed(m) == [m EXCEPT !.phase[m.current] = "running", !.approval[m.current] = 0]


HasTask(m) == m.current \in m.known

ProcessCommand(w) ==
    LET m == Copy(w)
        i == NextCommand(m)
        c == queue[i]
        Request(at) == worker' = [worker EXCEPT ![w].at = at, ![w].command = i]
        Result(n, to) == worker' = [worker EXCEPT ![w] =
                             [at |-> "persist", m |-> n, command |-> i, to |-> to]]
    IN  /\ At(w) = "claimed" /\ i # 0
        /\ \/ c.kind = "cancel" /\ HasTask(m) /\ Request("cancel")
           \/ c.kind = "cancel" /\ ~HasTask(m) /\ Result(Cancelled(m), "Cancelled")
           \/ c.kind = "deny" /\ IsAgent(m.current) /\ Request("cancel")
           \/ c.kind = "deny" /\ ~IsAgent(m.current) /\ Result(Fail(m, "approval_denied"), "Failed")
           \/ c.kind = "approve" /\ IsAgent(m.current) /\ Request("resume")
           \/ /\ c.kind = "approve" /\ ~IsAgent(m.current)
              /\ Result(Completed(m), CompletedStatus(m))
           \/ c.kind = "reply" /\ HasTask(m) /\ Request("resume")
           \/ c.kind = "reply" /\ ~IsAgent(m.current) /\ Result(m, "WaitingApproval")
           \/ /\ c.kind = "reply" /\ IsAgent(m.current) /\ ~HasTask(m)
              /\ worker' = [worker EXCEPT ![w] = Idle]
        /\ UNCHANGED <<brokered, row, queue, consumed, events, session, troubles, runner>>

\* CancelRunnerTask through the broker sessions, for a cancel or a denial.
CancelTask(w) ==
    LET m == Copy(w)
        s == m.current
        denied == queue[worker[w].command].kind = "deny"
    IN  /\ At(w) = "cancel"
        /\ \/ Cancel(s) /\ Close(w, s) /\ Write(w, IF denied THEN Denied(m) ELSE Cancelled(m), "Cancelled")
              /\ UNCHANGED <<row, troubles>>
           \/ Trouble /\ (Cancel(s) \/ UNCHANGED runner) /\ ReleaseAndExit(w)
        /\ UNCHANGED <<brokered, queue, consumed, events>>

ResumeKey(w) == LET c == queue[worker[w].command] IN IF c.kind = "reply" THEN 0 ELSE c.id

MutantResume(w) ==
    LET m == Copy(w)
        s == m.current
        k == ResumeKey(w)
    IN  /\ At(w) = "resume"
        /\ \/ ~CanResume(s) /\ Write(w, Resumed(m), "Running") /\ UNCHANGED <<row, session, troubles, runner>>
           \/ CanResume(s) /\ AlreadySent(s, k) /\ Write(w, Resumed(m), "Running")
              /\ UNCHANGED <<row, session, troubles, runner>>
           \/ ~AlreadySent(s, k) /\ Resume(s, k) /\ Go(w, "send", m) /\ UNCHANGED <<row, session, troubles>>
           \/ Trouble /\ ReleaseAndExit(w) /\ UNCHANGED runner
        /\ UNCHANGED <<brokered, queue, consumed, events>>

\* ResumeRunnerTask: refused, already done, or recorded and about to be sent.
ResumeTask(w) ==
    LET m == Copy(w)
        s == m.current
        k == ResumeKey(w)
    IN  /\ At(w) = "resume"
        /\ \/ ~CanResume(s) /\ ReleaseAndExit(w) /\ UNCHANGED <<troubles, runner>>
           \/ CanResume(s) /\ AlreadySent(s, k) /\ Write(w, Resumed(m), "Running")
              /\ UNCHANGED <<row, session, troubles, runner>>
           \/ ~AlreadySent(s, k) /\ Resume(s, k) /\ Go(w, "send", m) /\ UNCHANGED <<row, session, troubles>>
           \/ Trouble /\ ReleaseAndExit(w) /\ UNCHANGED runner
        /\ UNCHANGED <<brokered, queue, consumed, events>>

\* The frame is sent and the command marked; the answer may be lost.
SendResume(w) ==
    LET m == Copy(w)
        s == m.current
        k == ResumeKey(w)
    IN  /\ At(w) = "send"
        /\ \/ s \notin active /\ ReleaseAndExit(w) /\ UNCHANGED <<troubles, runner>>
           \/ SendFrame(s, k) /\ Write(w, Resumed(m), "Running") /\ UNCHANGED <<row, session, troubles>>
           \/ Trouble /\ SendFrame(s, k) /\ ReleaseAndExit(w)
        /\ UNCHANGED <<brokered, queue, consumed, events>>

----------------------------------------------------------------------------
\* Without a command the worker goes on with the current step, or with the first ready one,
\* which there always is (SomeStepReady).
NoCommand(w) == At(w) = "claimed" /\ NextCommand(Copy(w)) = 0
Picked(m) == [m EXCEPT !.current = Head(Ready(m))]

StartApproval(w) ==
    LET m == Copy(w)
        s == Head(Ready(m))
    IN  /\ NoCommand(w) /\ m.current = None /\ ~IsAgent(s)
        /\ Write(w, [Picked(m) EXCEPT !.phase[s] = "waiting_approval", !.approval[s] = 1], "Running")
        /\ UNCHANGED <<brokered, row, queue, consumed, events, session, troubles, runner>>

\* persistHold: the state is written and the lease renewed before the request.
StartAgent(w) ==
    LET s == Head(Ready(Copy(w)))
        m == [Picked(Copy(w)) EXCEPT !.attempts[s] = @ + 1]
    IN  /\ NoCommand(w) /\ Copy(w).current = None /\ IsAgent(s)
        /\ IF row.lease = w /\ ValidTransition(row.status, "Starting")
           THEN /\ row' = [row EXCEPT !.status = "Starting", !.m = m, !.expired = FALSE]
                /\ Go(w, "schedule", m)
                /\ UNCHANGED session
           ELSE Exit(w) /\ UNCHANGED row
        /\ UNCHANGED <<brokered, queue, consumed, events, troubles, runner>>

\* advanceCurrent: an approval step waits, an agent step is scheduled or asked for its status.
Polls(w) == NoCommand(w) /\ Copy(w).current # None

AwaitApproval(w) ==
    /\ Polls(w) /\ ~IsAgent(Copy(w).current)
    /\ Write(w, Copy(w), "WaitingApproval")
    /\ UNCHANGED <<brokered, row, queue, consumed, events, session, troubles, runner>>

Reschedules(w) == LET m == Copy(w) IN Polls(w) /\ IsAgent(m.current) /\ m.phase[m.current] # "running"
AsksStatus(w) == LET m == Copy(w) IN Polls(w) /\ IsAgent(m.current) /\ m.phase[m.current] = "running"

\* A task may be scheduled again only with the broker session it was bound to.
Mismatch(w, s) == brokered /\ task[s].state # "none" /\ session[s] # w

\* What the engine makes of the stored result of a task.
Scheduled(w, m, result) ==
    LET s == m.current
    IN  \/ /\ result = "scheduled"
           /\ Write(w, [m EXCEPT !.phase[s] = "running", !.known = @ \cup {s}, !.cursor = 0], "Running")
        \/ result = "succeeded" /\ CompleteStep(w, m)
        \/ result \in {"failed", "cancelled", "lost"} /\ Write(w, Fail(m, "runner_result"), "Failed")

\* The session a successful request leaves: closed if the task is over.
Bind(w, s, result) ==
    session' = IF ~brokered THEN session ELSE
               [session EXCEPT ![s] = IF result \in Ended THEN None ELSE w]

ScheduleTask(w) ==
    LET m == Copy(w)
        s == m.current
    IN  /\ At(w) = "schedule" \/ Reschedules(w)
        /\ \/ /\ Mismatch(w, s)
              /\ HandleStepFailure(w, m, "activity_failed")
              /\ UNCHANGED <<session, troubles, runner>>
           \/ /\ ~Mismatch(w, s)
              /\ Schedule(s) /\ Bind(w, s, task'[s].result)
              /\ Scheduled(w, m, task'[s].result)
              /\ UNCHANGED troubles
           \/ /\ ~Mismatch(w, s) /\ Trouble
              /\ \/ Schedule(s) /\ Bind(w, s, task'[s].result)
                 \/ UNCHANGED <<runner, session>>
              /\ HandleStepFailure(w, m, "activity_failed")
        /\ UNCHANGED <<brokered, row, queue, consumed, events>>

\* The runtime events after the cursor that the runner still has.
Returned(s, cursor) == {n \in 1..task[s].events : n >= HistoryStart(s) /\ n > cursor}

HistoryGap(s, cursor) == Truncated(s) /\ HistoryStart(s) - cursor > 1

\* What the engine makes of a task's status.
Reported(w, m) ==
    LET s == m.current
        t == task[s]
    IN  \/ t.state \in {"scheduled", "running"} /\ Write(w, m, "Running")
        \/ t.state = "waiting_approval" /\ Write(w, [m EXCEPT !.phase[s] = "waiting_approval",
                                                            !.approval[s] = t.approval], "WaitingApproval")
        \/ t.state = "succeeded" /\ CompleteStep(w, m)
        \/ t.state = "failed" /\ HandleStepFailure(w, m, "runner_failed")
        \/ t.state = "cancelled" /\ Write(w, [Fail(m, "runner_cancelled") EXCEPT !.phase[s] = "cancelled"],
                                          "Cancelled")
        \/ t.state = "lost" /\ Write(w, Fail(m, "runner_lost"), "Lost")

\* StatusRunnerTask, and the transaction that stores the events it returned.
StatusTask(w) ==
    LET m == Copy(w)
        s == m.current
        read == [m EXCEPT !.cursor = task[s].events]
    IN  /\ AsksStatus(w)
        /\ \/ /\ HistoryGap(s, m.cursor)
              /\ Write(w, Fail(m, "gap"), "Failed")
              /\ UNCHANGED <<row, events, troubles>>
              /\ IF task[s].state \in Ended THEN Close(w, s) ELSE UNCHANGED session
           \/ /\ ~HistoryGap(s, m.cursor) /\ row.lease = w
              /\ events' = [events EXCEPT ![s] = @ \cup Returned(s, m.cursor)]
              /\ row' = [row EXCEPT !.m.cursor = read.cursor]
              /\ Reported(w, read)
              /\ IF task[s].state \in Ended THEN Close(w, s) ELSE UNCHANGED session
              /\ UNCHANGED troubles
           \/ /\ ~HistoryGap(s, m.cursor) /\ row.lease # w
              /\ Exit(w) /\ UNCHANGED <<row, events, troubles>>
           \/ /\ Trouble /\ HandleStepFailure(w, m, "activity_failed")
              /\ UNCHANGED <<row, events, session>>
        /\ UNCHANGED <<brokered, queue, consumed, runner>>

\* The worker may write: its token is on the row and the transition is legal.
MayPersist(w) == row.lease = w /\ ValidTransition(row.status, worker[w].to)

Persist(w) ==
    /\ At(w) = "persist"
    /\ IF MayPersist(w)
       THEN /\ row' = [status |-> worker[w].to, m |-> Copy(w), lease |-> None, expired |-> FALSE]
            /\ consumed' = consumed \cup ({worker[w].command} \ {0})
            /\ worker' = [worker EXCEPT ![w] = Idle]
            /\ UNCHANGED session
       ELSE /\ Exit(w)
            /\ IF worker[w].command # 0 THEN Release(w) ELSE UNCHANGED row
            /\ UNCHANGED consumed
    /\ UNCHANGED <<brokered, queue, events, troubles, runner>>

----------------------------------------------------------------------------
Advance(w) ==
    \/ ProcessCommand(w) \/ CancelTask(w) \/ ResumeTask(w) \/ SendResume(w)
    \/ StartApproval(w) \/ StartAgent(w) \/ AwaitApproval(w) \/ ScheduleTask(w) \/ StatusTask(w)
    \/ Persist(w)

Next ==
    \/ \E w \in Workers : Claim(w) \/ Advance(w) \/ Crash(w)
    \/ \E c \in Commands : EnqueueCommand(c)
    \/ Expire
    \/ (\E s \in Agents : SandboxStep(s)) /\ UNCHANGED <<engine, troubles>>
    \/ RunnerRestart /\ Trouble /\ UNCHANGED engine

\* Workers poll and their requests return; a lease nobody holds runs out; the
\* runner starts what is scheduled, and a sandbox ends at the latest by its timeout.
Fairness ==
    /\ \A w \in Workers : WF_vars(Claim(w) \/ Advance(w))
    /\ WF_vars(Expire)
    /\ \A s \in Agents : WF_vars((StartTask(s) \/ Finish(s)) /\ UNCHANGED <<engine, troubles>>)

Spec == Init /\ [][Next]_vars /\ Fairness

----------------------------------------------------------------------------
\* A step's sandbox is started at most once, whatever is lost, retried or restarted: schedule
\* requests carry one key per step (dispatchKey), and a restarted runner does not start again
\* what was running (load).
OneSandboxPerStep == \A s \in Agents : starts[s] <= 1

\* The runtime events stored for a task are its first ones without a hole, although the runner
\* forgets old events, answers get lost and the cursor is reset by a reschedule
\* (persistRunnerRuntimeEvents).
EventsWithoutHole == \A s \in Agents : events[s] = 1..Cardinality(events[s])

\* A step begins only once the steps it needs are done: the sandboxes among them have succeeded
\* and the approvals were given (readyStep, completeStep).
Earned(s) == IF IsAgent(s) THEN task[s].state = "succeeded"
             ELSE \E i \in consumed : queue[i].kind = "approve" /\ queue[i].target = "workflow"
Begun(s) == row.m.current = s \/ row.m.phase[s] # "pending" \/ (IsAgent(s) /\ task[s].state # "none")
NeedsFirst == \A s \in Steps : Begun(s) => \A n \in Needs[s] : Earned(n)

\* A run is Succeeded only when every sandbox has succeeded and every approval step was approved,
\* also when stale answers and replayed schedule results are involved.
SuccessIsEarned == row.status = "Succeeded" => \A s \in Steps : Earned(s)

\* An open run between two steps always has a step to start: the "no runnable steps remain"
\* branches of startNext are not reached.
SomeStepReady == row.status \in Open /\ row.m.current = None => Ready(row.m) # <<>>

\* A command is consumed only after it took effect: a cancel ends the run, an approval or a
\* reply was sent to the sandbox it was meant for (processCommand, persist).
Took(c) ==
    \/ c.kind = "cancel" /\ row.status = "Cancelled"
    \/ c.kind = "deny" /\ row.status \in {"Cancelled", "Failed"}
    \/ c.kind = "approve" /\ c.target = "workflow" /\ \E s \in Steps \ Agents : row.m.phase[s] = "succeeded"
    \/ c.kind = "approve" /\ c.target = "agent" /\ \E s \in Agents : frames[s][c.id] > 0
    \/ c.kind = "reply" /\ (c.target = "workflow" \/ \E s \in Agents : frames[s][0] > 0)
ConsumedTookEffect == \A i \in consumed : Took(queue[i])

\* Without lost answers, crashes and expired leases a run that is over has no sandbox left that
\* was not told to stop.  A history gap fails the run and leaves its sandbox alone.
NothingLeftRunning ==
    row.status \in Terminal /\ row.m.condition # "gap" /\ troubles = 0
    => active \subseteq cancelling /\ \A s \in Agents : task[s].state # "scheduled"

\* The record of a run is true of its sandboxes, its approvals and its commands.
RecordIsTrue == NeedsFirst /\ SuccessIsEarned /\ SomeStepReady /\ ConsumedTookEffect /\ EventsWithoutHole
                /\ NothingLeftRunning

\* A run ends, or waits at an approval step that nobody decides, whatever the crashes, restarts
\* and lost answers: for runs without broker sessions and without messages to an agent step.
Settled == \/ row.status \in Terminal
           \/ /\ row.m.current \in Steps \ Agents
              /\ \A c \in Range(queue) : c.kind = "reply"

Quiet == ~brokered /\ \A c \in Range(queue) : c.target = "workflow"
Progress == <>[](Quiet => Settled)

=============================================================================
