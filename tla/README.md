# TLA+ models of Agents Gateway

Agents Gateway runs coding agents. In its third generation (`v3/`) an `AgentRun` is a Kubernetes
resource: it is admitted against an immutable, content-addressed execution contract, its work runs in
a sandbox behind a broker, the resulting patch is captured, verified independently, judged by a Gate
and, if the contract says so, published as a pull request by the controller. The second generation
(`v2/`) is a control plane of its own, with a server, a workflow engine and runners. This directory
models the parts of both in which something can go wrong by interleaving, crash, lost answer, stale
read or boundary case. TLC checks the models on small instances; TLAPS proves the central results
for all instances.

## The system and its modules

A component module has the component's state as variables and one action per handler, request or
step. `MC*` modules are instances for TLC, `*Proofs`, `AgentRunViews` and `BrokerBudget` hold theorems.

| Part of the system | Module | What is hard about it |
|---|---|---|
| Effect ledger (`v3/internal/effects`) | `EffectLedger`, promise: `AtMostOnceEffect` | at most once over a store with ambiguous writes, beside the deletes of retention |
| AgentRun controller (`controller`, `sandbox`, `status`) | `AgentRun`, promise: `AgentRunPhases` | every call can fail or be the last before a crash; copies and caches are stale; two operators overlap |
| Capture and verification drivers (`capturecontroller`, `verifycontroller`, `criticworkload`) | `PhaseDrivers` | evidence must outlive the children; a verdict is given once |
| Verifier and Gate (`verifier`, `gate`, `gatescoring`, `findingcorroboration`, `policycontract`) | `Verifier` over `GateDecision`, `GateScoring`, `FindingCorroboration`, `PolicyContract`, `ScopeGlob` | boundary cases of pure functions, and a process that may be killed anywhere |
| Publication (`publishcontroller`, `publish`, `githubpublish`) | `Publication`, promise: `ClaimedEffect` | external mutations with unknown answers, beside other users of the forge |
| Broker (`broker`) | `Broker`, promise: `ClaimedEffect` | concurrent calls against budgets, a phase and the ledger |
| Runtime events (`runtimeevents`) | `RuntimeStream` | report and exit code disagree or one is missing; several finalizers |
| Retention (`retention`) | `Retention` | deletes by a plan made from an older listing |
| Argo backend (`argoworkflow`, `controller/orchestration.go`) | `ArgoRun` | ownership passes between controllers |
| Run credentials (`runsecret`, `runplan`, `githubapp`, `artifactauth`) | `RunCredentials` | lifetimes, rotation, two overlapping reconciles |
| v2 local engine and runner | `LocalEngine` over `RunnerTasks` | leases that expire between two steps, lost answers of the runner |
| v2 Temporal workflows | `TemporalWorkflow` over `RunnerTasks`, `RunStatuses` | signals, retries and cancellation of parent and child |
| v2 admission, commands, events, artifacts | `RunAdmission`, `RunSignals`, `RunEvents`, `ArtifactCatalog` | idempotency keys, leases, transactions, two stores without a common transaction |

The controller calls the sandbox backends and the phase drivers; the publication driver and the
broker go through the ledger; retention removes what ended runs left, ledger records included.
`Publication` and `Broker` take the ledger at the promise that `EffectLedger` is shown to keep;
`AgentRun` takes the drivers at the outcomes that `PhaseDrivers`, `RuntimeStream` and
`Publication` open up.

### EffectLedger

`claim`, `outcome` and `tomb` are the objects `claims/<key>`, `outcomes/<key>` and
`tombstones/<key>`; one key is modelled because keys share no object. Every caller (a goroutine in
`publish.Publish` or `broker.CallTool`) is at a step named after the next request of `Claim` or
`Commit`. A request succeeds, fails without effect, fails after taking effect, or stays under way
and takes effect later (`late`, the `Land*` actions). The SDK's own retry of a create that had
already succeeded is `ClaimCreatedThenRetried` and `CommitCreatedThenRetried`. A caller may leave
at any step and start a new attempt. A reaper lists, plans, fences and deletes with `If-Match`, as
`applyLedgerPair` does. `granted` and `recorded` are history variables. A body is identified by
its attempt, which stands for its timestamps; JSON encoding is left out.

### AgentRun

`obj` is the object at the API server, `run[w]` the copy a worker edits, and `fresh[w]` whether the
copy's resourceVersion is still current, which is what `updateStatus` depends on. `pc[w]` is the
call the worker makes next; each action is one such call with everything the code does up to the
next call. Returning an error and asking to be requeued are the same here (`Requeue`): the request
returns to the queue. Returning without either is `Done`: only a watch event brings the run back.
A finished reconciliation forgets its copy.

* Admission is `Resolve` (any digest: the references may have changed), `LockResolution`,
  `SaveResolvedSpec` and the update that records the reference.
* The work child has a UID, the digest it was planned from, the clock reading its shutdown time
  was computed from, and a state. Workers see it through `cache[w]`, which `InformerSync` brings
  up to date; exits are read live, as `podProcessObserver` does. The two backends differ in
  `SameSpec` and `ReadyReadings`.
* `capturer` and `verifier` are the capture Job and the verify child; the drivers are seen through
  the outcomes `driveAdmitted` distinguishes.
* `ledger` is the publish effect with the promise of `AtMostOnceEffect`: a claim is made before
  the mutation, an existing claim is never acted on again. `pr` is what is true at the forge.
* A contract that publishes asks for a patch, for findings (`Findings`) or for both (`Both`). With
  both, the findings wait for the pull request of the patch. `reviews` stands for all effects of the
  findings: none claimed, some claimed, all posted and recorded; their single requests are in
  `Publication`. `Project` writes `status.effect` for the patch alone, the condition
  FindingsPublished for the findings, and a phase that follows from both (`CombinedState`).
  A run whose patch an enforcing Gate rejected ends before Publishing, so the projection of a
  rejected outcome does not occur.
* Cleanup is one step per kind of child, each of which may fail; failures are joined in `failed`.

A gate that denies execution leaves a run Pending and retries, which is `Abort` at
`checkExecution`. Conditions, timestamps, failure texts and artifact digests are left out; the Argo
branch is `ArgoRun`. A pending publication does not occur: no code returns `ErrPending`.

### PhaseDrivers

One phase, `driven`, is looked at per behaviour. Operators lead one after the other: one that lost
the lease begins no further reconcile but finishes the one it is in. Every request to the API server
or the object store is a step. `Elect` lets a leader stop at any step, which stands for a failed
request, a lost answer and a crash alike. The contents of the status stand for its resourceVersion;
`Pends` merges a read with the guarded write that follows it. `PodLost` is a drained node. A run
written by an older version has no start time (`started = 0`). Time is counted in ticks, `Timeout`
of 0 meaning the first tick after the start is late.

### Verifier, GateDecision, GateScoring, FindingCorroboration, PolicyContract, ScopeGlob

`Verifier` is one attempt: analysis of the trees, commands, policy scripts, coverage and base tests
under one deadline, the evidence frame, and the controller's judgement of whatever was written.
Between writing the frame and leaving, the process may still be killed (`Leave`, `Kill`); the frame
counts, because the controller does not look at the exit code. The base tests run only if the changed
test files can be laid over the base, which removed ones cannot (`Overlays`). `truth` records what
really happened, for the properties only. The other modules are the pure functions it is made of, each beside a reference
definition: globs are matched character by character as in `glob.go` and, for comparison, component
by component (patterns with a slash inside a bracket class are outside the reference); a decision of
the Gate is compared with what its checks mean; findings are routed as they are earned.

### Publication

A patch is one effect of four items (branch, commit, pull request, labels), the advisory findings of a
report are one effect (a section of the body, keyed by the report's digest), every other finding is
an effect of its own (a review, keyed by the patch). A worker's position `pc[w]` has its stage, the item, and the digest, head and body it works with.
`Probe`, `Send` and `Prove` are the look before, the one request, and the look after; a request
whose sender gave up may land later (`late`). Before anything is sent the client may also refuse the
text of a request or find something missing (`MayRefuse`), which fails the effect. `shown` is what a read of the branch returns, which may
lag behind `ref`. `MoveBase`, `Push`, `EditPullRequest`, `EditSection` and `Relabel` are other people.
`sent`, `applied` and `told` are history variables. The order of findings is that of their names:
`Place` is the position of a finding, the section coming first, and `Following` the next review.

### Broker

A request `req[c]` is at the next access to something shared: the budget (one mutex), the phase (one
lock), the ledger or the store, or at an exchange with an upstream server. Tool calls and model
requests share no counter. `Restart` replaces the broker's process: counters, phase and receipt start
again, calls under way are lost; ledger and store stay. `overrun` is what providers reported beyond a reservation.

### RuntimeStream

The agent posts numbered frames, the collector stores a frame and then its index entry, and whoever
finds that the process has exited writes manifest and completion record. Puts never overwrite. A
stream without a terminal frame, or one that contradicts the exit code, fails the run for good
(`Fails`), as does a pod that is gone with its exit code (`Vanish`); a store that does not answer only
ends the attempt. The process waiter is a second, concurrent finalizer; the deployed `agw-broker` does not mount its
path, and the model has behaviours with and without it. The disjunct "conflict" of a put
arises only for index entries.

### Retention

The controller in its enforcing, attested mode; in the others nothing is deleted. A run stands for
its UID, which child names and object keys contain, so items of two runs are never confused.
`run`, `secrets`, `pvc`, `objects`, `claims`, `outcomes` and `tombs` are what the API server and
the object store hold. `pc[c]` is the next request of a controller's cycle: `RunOnce` reads the
clock, `ListRuns`, `ListSecrets`, `ListPVCs` and `ListObjects` fill `inv[c]` one listing after the
other, `ReadBodies` reads the ledger objects and plans, and each delete of `Apply` is a step of its
own, in the order in which actions are sorted. A failed listing ends the cycle, a failed delete does
not; the next cycle starts from nothing (`EndCycle`).

* `TerminalEligible`, `EvidenceEligible`, `SecretDue`, `WorkspaceDue`, `ArtifactDue` and `PairDue`
  are the planner's conditions. Skip reasons are left out: a skipped item is one not planned.
  Listings of runs that are not eligible are not kept (`Kept`), since the planner skips all of
  them.
* Time is counted in days. An artifact is stored once; children that outlive their run may still
  upload on the day it ended. A deleted workspace stays `deleting` until nothing mounts it.
* The runs are seen only through what retention reads of them. How a run gets there is in
  `AgentRun`, and the races of callers with the deletes of a pair are in `EffectLedger`.
* Ownership, label, prefix and ETag mismatches of foreign objects do not occur.

### LocalEngine and RunnerTasks

A worker claims the run's row under a lease, reads the next command, makes at most one request to the
runner and writes the machine's new state under its lease's token; a lease may expire between any two
of these (`Expire`). `RunnerTasks` is the runner's durable task table, whose requests are operators:
`LocalEngine` and `TemporalWorkflow` make them and decide what a lost answer means. Wake-up times
have always passed; the answers "cooldown" and "invalid_output", the expiry of a task's lease and
failing disk writes are left out. A worker reads the oldest `CommandLimit` pending commands (128 in
the code) and takes the first that applies.

### The parts in MCServices

`RunAdmission`, `RunSignals`, `RunEvents`, `ArtifactCatalog`, `TemporalWorkflow`, `ArgoRun` and
`RunCredentials` stand by themselves. `MCServices` instantiates all seven; a behaviour is about one
`part` and leaves the variables of the others alone. Each module's header says what its state is and
what it leaves out. `ArgoRun` has one gateway controller: leader election leaves one
active manager, and controller-runtime reconciles an object in one worker at a time.

## Runs

| Run | Shows | Instance |
|---|---|---|
| `effect_ledger` | at most one grant, agreeing outcomes, fenced retirement, replay only of an outcome that is still durable, no overwritten outcome, refinement of `AtMostOnceEffect` | 2 callers, 2 attempts, 2 digests, 1 reaper, 1 late request |
| `agentrun_two_workers` | one contract executed, phases backed by evidence, effects only by verdict, status agrees with what was published, refinement of `AgentRunPhases` | 2 workers, 3 digests (enforcing with patch and findings, shadow with nothing, shadow with findings alone), agent-sandbox backend, the clock moves once |
| `agentrun_progress` | no evidence reaped early; cancellation and deletion complete, ended runs are cleaned up, children adopted, finished work noticed | 1 worker, Job backend, 1 fault anywhere, 2 children, cancellation and deletion |
| `phase_drivers` | references resolve, a verdict is earned and given once, the workspace outlives the capture, foreign objects stay, the phase ends | 2 leaders, with critic or attester, 1 lost pod, 1 deadline |
| `verification` | exactly the deserving patches are accepted, every verification ends in a signed report; six functions agree with their reference definitions | plans with one deviation from a good one and chosen pairs; thousands of inputs per function |
| `publication` | one request per item, all reviews on one commit, outcomes and answers are true, a recorded failure of the patch is final | 2 operators, 2 digests, 2 findings, 9 kinds of job, 3 attempts, 2 steps of other people |
| `broker` | answers agree with ledger and tool server, budgets and phase hold, refinement of `ClaimedEffect` | 2 concurrent requests, 2 tools, limits that both exhaust, 1 restart |
| `runtime_stream` | the index is one stream with every acknowledged frame, the completion record is that stream and is written in the end if its terminal frame was acknowledged | 2 frames with bodies that redaction makes equal, 1 controller, with or without a process waiter, 2 faults (lost answer, lost pod), 1 new broker |
| `retention_leaders` | nothing of an active or unknown-effect run goes, nothing goes early, the ledger record goes last | 2 controllers, 1 run, 1 fault |
| `retention_progress` | credentials, expired workspaces and retirable records are removed | 1 controller, 2 artifacts, 1 fault |
| `local_engine` | one sandbox per step, a true record, an end | 2 servers, an agent step and an approval, 1 command, 1 trouble (lost answer, crash, restart or expired lease) |
| `services` | the seven parts: answers and records are true, a Sandbox is its run's own, owners keep what they claimed, whoever waits is served | two callers or writers each, 1 fault (2 for artifacts) |

### Bounds

* Two callers are enough for every race of the ledger: its objects tell apart the granted attempt
  and one other. A second attempt covers a restart, one late request a write that lands after
  its sender, a caller or the reaper has moved on. The proofs remove these bounds.
* Two workers cover a stalled leader and its successor, several digests references that change
  between two resolutions and the modes of output. One fault reaches every single-failure state of the reconciler. A child lost
  under a stale cache is the only way to a second child, hence `MaxChildren`.
* In `Publication` the third attempt starts after one was lost and one conflicted; two steps of other
  people cover a push together with an edit. The proofs remove these bounds.
* In `Broker` the limits are reached by two requests. Tool calls and model requests share no counter,
  so the constraint `OneKind` gives a behaviour to one of them.
* Retention windows are one or two days, artifacts longer than workspaces and ledger, which the
  policy allows; the clock reaches the end of each. `MaxActions` is above every plan of the instances.
* `RuntimeStream` has two frames because a number is compared only with the one before it; two
  faults cover an ambiguous put followed by an ambiguous repetition.
* `LocalEngine` lists the approval before the step it needs, so that readiness is not the order of the
  manifest. `Commands` has a cancel, and an approval, a denial and a reply for either target.
  `CommandLimit` is 1, so that a command can be hidden behind another.
* The Gate's questions deviate from a good input in one or two respects, glob patterns and paths are
  all strings up to a length; scores, findings and policies go up to and one beyond their limits.
* Deadlock is not an error where a run that has ended, or callers that have used their attempts, have
  nothing left to do.

### Fairness

Safety runs assume none. The others assume weak fairness only, of what the code schedules itself:

* `AgentRun`: a worker's reconciliation (controller-runtime works off its queue and calls have
  timeouts), informers, Kubernetes' garbage collection, and the children's ends (work has a shutdown
  time or deadline, capture and verify children have deadlines). Faults are finite.
* `PhaseDrivers`: the reconciles of the current leader, and the ends of Jobs and Sandboxes, which have
  deadlines. Elections are finite.
* `Retention`: cycles (`Start` runs one at every tick), the release of deleted workspaces, the clock.
* `RuntimeStream`: the controller's repeated `FinalizeObservedExit`.
* `LocalEngine`: the polls of the workers, the expiry of a dead worker's lease, and the start and end
  of a scheduled task.
* `Verifier`: the verifier's process until its deadline, and the controller's judgement.
* `MCServices`: clients that keep trying, the expiry of a claim's lease, the server's polling,
  transactions that have begun, Temporal's delivery of timers and activities, the Argo controller.

Nothing is assumed of users, of what the agent reports, of whether the broker publishes the context
artifact, or of whether approvals are given.

### What the properties leave out on purpose

* `agentrun_progress` uses the Job backend and `CancelStops` and `DeletionCompletes` ask for a locked
  contract that was written (`Readable`); `WorkEndNoticed` asks for `context`.
* `WhatIsDueGoes` holds up to a run without a digest (`Blocked`), for records of MCP calls and whole
  evidence.
* `Wedged` in `PhaseDrivers` names what keeps a run in its phase for ever.
* `Progress` of `LocalEngine` is about runs without broker sessions and messages to agent steps.
* `AcceptedIffDeserved` excludes drops in coverage by a whole number of points (`WholeDrop`).
* `EndedIsRecorded` asks for a terminal frame that was acknowledged to the agent, an exit code that
  agrees with it and a pod that is not lost before the record is written.
* `ClosedRunLeavesNoTask` exempts tasks of runs in which a call failed, a timeout struck or the
  cancellation met a call in flight (`ChildCancelledInCall`).
* `CredentialsOutliveSandbox` allows a deadline to exceed the credentials by what STS cut from the
  lease, and for a work Sandbox that is planned again by the time since they were minted.
* `AnsweredIsStarted` lets the agent step of a workflow come from a newer revision than the one the run
  was created for, which is read again for the step's contract, never from an older one.

The reasons are in the last section.

## Proofs

The theorems hold for any sets of callers, workers, controllers, digests, findings, tools and runs
and for any values of the bounds. The assumptions on constants are the named `ASSUME`s of the component
modules: bounds are natural numbers, a value that stands for "none" is no member of the set it is
used beside, the callers of the broker are finitely many (the budget adds up what they hold), findings
have distinct names.

| Theorem | Statement |
|---|---|
| `EffectLedgerProofs!TypeCorrect` | `Spec => []TypeOK` |
| `EffectLedgerProofs!GrantedAtMostOnce` | `Spec => []AtMostOneGrant` |
| `EffectLedgerProofs!OutcomesAgree` | `Spec => []DefiniteOutcomesAgree` |
| `EffectLedgerProofs!RetirementIsFenced` | `Spec => []RetirementFenced` |
| `EffectLedgerProofs!ReplayIsTrue` | `Spec => ReplayTruth` |
| `EffectLedgerProofs!OutcomeIsImmutable` | `Spec => OutcomeNeverOverwritten` |
| `EffectLedgerProofs!LedgerImplementsAtMostOnce` | `Spec => ImplementsAtMostOnce` |
| `AgentRunProofs!TypesHold` | `Spec => []TypeOK` |
| `AgentRunProofs!LockedSpecExecutes` | `Spec => []ExecutesLockedSpec` |
| `AgentRunProofs!PhaseIsBacked` | `Spec => []EvidenceBacksPhase` |
| `AgentRunProofs!GateIsDecisive` | `Spec => []GateDecides` |
| `AgentRunProofs!StatusIsTrue` | `Spec => []StatusTellsEffect` |
| `AgentRunProofs!EvidenceOutlivesReap` | `Spec => EvidenceBeforeReap` |
| `AgentRunProofs!PhasesRefined` | `Spec => ImplementsPhases` |
| `RetentionProofs!TypesHold` | `Spec => []TypeOK` |
| `RetentionProofs!RecordsLast` | `Spec => []RecordsGoLast` |
| `RetentionProofs!RemovalsAreDue` | `Spec => RemovalIsDue` |
| `BrokerProofs!TypesHold` | `Spec => []TypeOK` |
| `BrokerProofs!AnswersHold` | `Spec => []AnswersAreTrue` |
| `BrokerProofs!EffectRefined` | `Spec => ImplementsEffect` |
| `BrokerBudget!BudgetsAreKept` | `Spec => []BudgetsHold` |
| `PublicationProofs!TypesHold` | `Spec => []TypeOK` |
| `PublicationProofs!AskedOnce` | `Spec => []OneRequestPerItem` |
| `PublicationProofs!ReviewsAgree` | `Spec => []ReviewsShareHead` |
| `PublicationProofs!OutcomesHold` | `Spec => []OutcomesAreTrue` |
| `PublicationProofs!EffectRefined` | `Spec => ImplementsEffect` |
| `GateScoringProofs!ScoreDecidesNothingElse` | for every scale, weights, minimum and critic result the Gate admits, the scoring accepts exactly when all checks passed and no finding blocks |

Every inductive invariant was checked by TLC on the instance of its run before it was proved.

**EffectLedger.** `AtMostOneGrant` is not inductive: a second grant is prevented by the claim object,
and once retention has deleted that, by the tombstone that the last check before a grant reads.
`IInv` adds that while there is no fence, the claim object is the claim of the attempt that was
granted and of the one that is about to be (`ClaimHeld`); that deletes, also those under way, exist
only behind the fence (`DeletesFenced`); that attempts are granted in order and only a granted one
executes (`GrantOrder`), and one attempt writes one definite state (`OutcomeOrder`); that a fence
repeats a recorded definite outcome and an unknown one is never retired (`FenceBacked`,
`UnknownStays`). `StepKinds` collapses the steps that only move a caller between reads. `ReplayTruth`
is about the step that answers a replay: the caller read the outcome earlier and has looked at the
fence since. It needs `ReplayInv`: as long as there is no fence, the outcome a caller has read is the
durable one, because deletes come only behind the fence.

**AgentRun.** What a worker believes must stay true while others move on. `AgentRunViews` states, for
every call a worker may be at, what its copy says that is still true of the object (phases only move
forward, the digest is locked once, references once set stay), and what a fresh copy says beyond that.
`AgentRunProofs` adds the world: the child was planned from the locked digest, a cached child existed,
evidence precedes the phase, the ledger follows the verdict. `Apart` keeps the outputs of the modes
apart: findings alone make no claim of a patch and no pull request, reviews of a patch come only after
its pull request. There is one step per action.

**Retention.** A plan is as old as the listings it came from. The invariant says of every listing and
plan of a controller what cannot change any more: a run that was seen ended stays ended with its
completion day, a day that has passed stays passed, an artifact that was listed is the one stored or
gone. An action that is due when planned is therefore due when applied.

**Broker.** Every position of a request has a local assertion about the ledger entry, the calls under
way and the tool server (claimed and nobody else under way; sent; recorded). Only the caller that was
granted a claim is past `claim` for that key, across restarts. The budget is a second invariant: what
is reserved is at least the sum of what the requests being served hold. TLAPS has no induction over
the fold that adds it up, so the facts about sums (one request joins, leaves) are proved from the
definition of the fold through a minimal counterexample: strict inclusion of finite sets is
well-founded.

**Publication.** Only the worker that was granted the claim of an effect acts on its items, one after
the other. `Local` says for every position what the worker relies on: the job permits it (`Bound`),
findings come in order and under the head of the first (`InOrder`), the claim is its own and what is
ahead has not been sent (`Holds`), what was ensured is on the forge (`Ensures`), an end has a reason
(`Ends`). None of this is taken back by anybody else's step (`Grows`, `Spared`). `Sole` says that two
workers never act on one effect; `World` relates claims, counts, reviews, late requests and the
forge; `Recorded` is what makes an answer stay true after the ledger has moved on.
`Settled` strengthens `FailureIsFinal`, which is about requests that are still under way: when a patch
is recorded as failed, its branch, commit and pull request were each never asked for, or what a late
request would have to find is gone for good (the branch exists, it has moved on from the base, the
pull request was opened and edited). Since branches only move onward (`Onward`), no request can take
effect afterwards.

### Model-checked only

* Liveness (`RunsWindUp`, `WorkGoesOn`, `WhatIsDueGoes`, `EndedIsRecorded`, the two `Progress`,
  `VerificationEnds`, `EveryoneIsServed`): fairness and `ENABLED` are outside what these provers do.
* What recursive functions compute for every input: `AnswersMatchMeaning` and `VerdictIsDeserved`
  rest on the matching of globs and on folds over sequences of checks, which need induction over data.
  Of the scoring, the part that needs no induction is proved.
* Safety of `RuntimeStream` (`StreamIsKept`, `CompletionIsTrue`), `LocalEngine` (`OneSandboxPerStep`,
  `RecordIsTrue`), `PhaseDrivers` (`EvidenceIsKept`, `NothingIsReplaced`) and the parts in `MCServices`
  has no proof: no inductive invariant has been worked out for them, and TLC's instances are all there is.

## Not modelled

`PROJECT.json` lists every part with what was left out and why. In short: encoding, validation of
documents, pod construction, signing, the command-line client, charts and the console hold no protocol
state; the context pack is a compilation of a file tree; the first generation's gateway is not called
by the others.

## Behaviour the models reach

Modelling led to the following behaviours of the code. They are described here; no run is about them.

AgentRun and its drivers
* A crash after the digest is locked and before the contract is written leaves a digest without an
  object; recovery, cancellation and deletion then fail on every retry (`agentrun.go:337`, `:366`;
  `docs/v3/codebase-review.md:36` describes recovery by digest).
* A plan retried after the clock moved has another shutdown time, so the agent-sandbox backend refuses
  the child it created before (`runplan.go:398`, `sandbox/backend.go:460`).
* Cancelling during an unresolved publication ends the run as Cancelled (`agentrun.go:269`).
* A work child that ends before the broker published the context artifact leaves its run Working. A
  Sandbox that finishes before the first look in Cloning ends its run as Failed although its work
  completed (`agentrun.go:483`); so does a child that vanishes between the read of the completion
  record and its observation (`agentrun.go:546`). The Job backend reports Ready while init
  containers run.
* A worker with an old copy may create the capture Job again; a second worker may store a signed report
  with the opposite verdict, which status does not take. A critic Job that failed is requeued for
  ever, as is a capture whose output was refused. A verification whose phase outlives its timeout stays
  in it (`sandbox/backend.go:643`).

Verifier and Gate
* A drop in coverage by a whole number of points loses its sign (`normalizeDecimal`, `run.go:169`).
* Two skills of equal digest make the report impossible to canonicalise (`report.go:509`); findings
  of a critic above the Gate's maximum are never judged (`verifycontroller.go:806`).
* An advisory policy script that cannot run makes the verifier leave with status 1 although the patch
  may be accepted. Patch lines that begin with `+++ ` or `--- ` inside a hunk are not counted.
* The verifier's README describes a coverage marker protocol; the code reads a Go coverage profile.

Publication, broker and events
* A failed advisory section is told as unknown; findings replayed after the head moved are told as
  failed; the section's update overwrites edits of the body made since it was read; the ledger may say
  failed of a patch whose pull request is open, if somebody edited it.
* Two reports on one patch may each send their section; the second conflicts if the first is there.
* Control characters that capture accepts in a text (`capture.go:1027`) are refused by the client of
  the forge (`client.go:802`), which makes the publication fail for good. A review that cannot be
  rendered is told as failed after its claim, which never gets an outcome.
* A reservation is not returned when a provider's answer cannot be read (`model.go:91`).

Retention
* The first artifact reaped counts as missing evidence, so the others stay (`retention.go:745`). A
  publication's claim carries the operation's digest where the planner expects the patch's
  (`ledger.go:260`), so its pair is never planned. A run that failed without a digest rejects every
  inventory (`inventory.go:136`). A backlog above `MaxActionsPerPlan` is refused as a whole, on every
  later cycle too (`retention.go:492`).
* Evidence of a run goes although one of its MCP calls has no definite outcome. A failure between the
  deletes of a pair's outcome and claim leaves the claim for good.

Argo and credentials
* Cancelling or deleting a bound run advances its generation, after which its binding no longer
  matches and cleanup fails (`orchestration.go:599`). A transient failure of an observation is
  permanent; a changed template fails bound runs.
* A work Secret that is used again may expire before its Sandbox (`verifyworkload.go:122`).

v2
* A run whose workflow was already started is accepted without comparing its input (`httpapi.go:95`);
  a reused key with another digest returns the existing run. A command that is repeated after the run
  ended is answered 409 although it was accepted.
* An event appended on PostgreSQL may commit after a later one was read, and is then skipped by the
  stream; status events are not.
* A commit of a catalog entry whose answer was lost deletes the object of the committed version.
* A status poll that fails ends a Temporal child without cancelling its task; cancellation during
  scheduling leaves the task running, and so does one that meets a poll, a resume call or a status write
  in flight; approvals for another step are dropped.
* The local engine may report a history gap after a reschedule, an approval for an unknown request is
  retried for ever, a run with as many inapplicable pending commands as a worker reads no longer sees
  later ones, a cancel included, and a restart while a brokered step waits leaves the step without its session
  (`engine.go:464`).
