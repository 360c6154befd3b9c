------------------------------ MODULE MCServices ------------------------------
(***************************************************************************)
(* Parts of the v2 control plane and of the v3 operator that stand by      *)
(* themselves, checked in one run. A behaviour is about one part and       *)
(* leaves the variables of the others alone; parts with a variable of the  *)
(* same name share it.                                                     *)
(***************************************************************************)
EXTENDS Integers, Sequences, FiniteSets

VARIABLES
    part,       \* the part this behaviour is about
    setup, defs, runs, flows, audits, caller, faults, engine, status, claim, delivered, expired,
    store, changes, next, log, tx, client, plan, objects, rows, upload, roles, page, task,
    active, cancelling, starts, frames, phase, ready, wf, child, inbox, sent, orphans, run,
    seen, pc, sandbox, workflow, workspace, records, cluster, clock, config, source, secret,
    work

vars == <<part, setup, defs, runs, flows, audits, caller, faults, engine, status, claim, delivered,
          expired, store, changes, next, log, tx, client, plan, objects, rows, upload, roles,
          page, task, active, cancelling, starts, frames, phase, ready, wf, child, inbox, sent,
          orphans, run, seen, pc, sandbox, workflow, workspace, records, cluster, clock, config,
          source, secret, work>>

(* Instances *)

Request(id, key, digest, input, by) ==
    [id |-> id, key |-> key, digest |-> digest, input |-> input, by |-> by]
AdmissionRequests ==
    {Request("", "k", 1, 1, "editor"), Request("", "k", 1, 2, "editor"), Request("x", "k", 1, 1, "editor"),
     Request("x", "", 1, 1, "editor"), Request("", "", 1, 1, "viewer")}

Upload(route, kind, media, caps, text, size) ==
    [route |-> route, kind |-> kind, media |-> media, caps |-> caps, text |-> text, size |-> size]
RunOutput == Upload("upload", "", "run-output", {}, "short", "fits")
Code == Upload("publish", "code", "text/plain", {}, "short", "fits")
Authored ==
    {Upload("publish", k, m, c, "short", "fits") :
        k \in {"document", "code", "single_page_html", "svg", "diagram", "interactive_component"},
        m \in {"text/markdown", "text/html", "image/svg+xml", "application/json", "application/javascript",
               "text/plain", "application/octet-stream"},
        c \in {{}, {"sandboxed_scripts"}}}
    \cup {[Code EXCEPT !.text = t, !.kind = k] : t \in {"long", "markup"}, k \in {"", "code"}}
    \cup {[Code EXCEPT !.caps = {"external_calls"}], [Code EXCEPT !.size = "large"]}
UploadPlans ==
    {<<RunOutput>>} \cup {<<a, RunOutput>> : a \in Authored}
    \cup {<<Code, Upload("publish", "svg", "image/svg+xml", {"network", "external_calls"}, "short", "fits"),
            RunOutput>>}

Manifests ==
    {[needs |-> <<{}, {3}, {1}>>, approvals |-> {3}],
     [needs |-> <<{2}, {}, {}>>, approvals |-> {2, 3}]}

Plain == [refs |-> {"model"}, publish |-> "", mode |-> "none", skills |-> TRUE, timeout |-> 2, verifyTimeout |-> 2]
Specs == {Plain, [Plain EXCEPT !.timeout = 3, !.verifyTimeout = 3, !.skills = FALSE],
          [Plain EXCEPT !.refs = {"app"}]}

------------------------------------------------------------------------------
Adm == INSTANCE RunAdmission WITH Callers <- {"c1", "c2"}, Requests <- AdmissionRequests,
    Contents <- {1, 2}, MaxApplies <- 1, MaxFaults <- 1
Sig == INSTANCE RunSignals WITH Callers <- {"c1", "c2"}, Keys <- {"k1"}, MaxFaults <- 1,
    MaxExpiries <- 1
Ev == INSTANCE RunEvents WITH Engines <- {"e1", "e2"}, Appenders <- {"a1", "a2"}, Statuses <-
    {"Pending", "Running", "Succeeded", "Cancelled"}, Limit <- 1, MaxChanges <- 3, MaxBreaks <-
    1
Art == INSTANCE ArtifactCatalog WITH Plans <- UploadPlans, MaxFaults <- 2
Tem == INSTANCE TemporalWorkflow WITH Steps <- 1..3, Agents <- {1, 2}, Plans <- Manifests,
    Attempts <- 2, MaxFaults <- 1, History <- 1, MaxEvents <- 1
Arg == INSTANCE ArgoRun WITH MaxFaults <- 1
Cred == INSTANCE RunCredentials WITH Workers <- {"w1", "w2"}, Runs <- Specs, TTL <- 2,
    MaxShutdown <- 3, TokenLife <- 3, MaxClock <- 1, MaxFaults <- 1

\* A variable a part does not use is 0.
InitAdm ==
    /\ part = "admission" /\ Adm!Init
    /\ engine = 0 /\ status = 0 /\ claim = 0 /\ delivered = 0 /\ expired = 0 /\ store = 0 /\
       changes = 0 /\ next = 0 /\ log = 0 /\ tx = 0 /\ client = 0 /\ plan = 0 /\ objects = 0 /\
       rows = 0 /\ upload = 0 /\ roles = 0 /\ page = 0 /\ task = 0 /\ active = 0 /\ cancelling =
       0 /\ starts = 0 /\ frames = 0 /\ phase = 0 /\ ready = 0 /\ wf = 0 /\ child = 0 /\ inbox =
       0 /\ sent = 0 /\ orphans = 0 /\ run = 0 /\ seen = 0 /\ pc = 0 /\ sandbox = 0 /\ workflow
       = 0 /\ workspace = 0 /\ records = 0 /\ cluster = 0 /\ clock = 0 /\ config = 0 /\ source =
       0 /\ secret = 0 /\ work = 0

InitSig ==
    /\ part = "signals" /\ Sig!Init
    /\ setup = 0 /\ defs = 0 /\ runs = 0 /\ flows = 0 /\ audits = 0 /\ store = 0 /\ changes = 0
       /\ next = 0 /\ log = 0 /\ tx = 0 /\ client = 0 /\ plan = 0 /\ objects = 0 /\ rows = 0 /\
       upload = 0 /\ roles = 0 /\ page = 0 /\ task = 0 /\ active = 0 /\ cancelling = 0 /\ starts
       = 0 /\ frames = 0 /\ phase = 0 /\ ready = 0 /\ wf = 0 /\ child = 0 /\ inbox = 0 /\ sent =
       0 /\ orphans = 0 /\ run = 0 /\ seen = 0 /\ pc = 0 /\ sandbox = 0 /\ workflow = 0 /\
       workspace = 0 /\ records = 0 /\ cluster = 0 /\ clock = 0 /\ config = 0 /\ source = 0 /\
       secret = 0 /\ work = 0

InitEv ==
    /\ part = "events" /\ Ev!Init
    /\ setup = 0 /\ defs = 0 /\ runs = 0 /\ flows = 0 /\ audits = 0 /\ caller = 0 /\ faults = 0
       /\ engine = 0 /\ claim = 0 /\ delivered = 0 /\ expired = 0 /\ plan = 0 /\ objects = 0 /\
       rows = 0 /\ upload = 0 /\ roles = 0 /\ page = 0 /\ task = 0 /\ active = 0 /\ cancelling =
       0 /\ starts = 0 /\ frames = 0 /\ phase = 0 /\ ready = 0 /\ wf = 0 /\ child = 0 /\ inbox =
       0 /\ sent = 0 /\ orphans = 0 /\ run = 0 /\ seen = 0 /\ pc = 0 /\ sandbox = 0 /\ workflow
       = 0 /\ workspace = 0 /\ records = 0 /\ cluster = 0 /\ clock = 0 /\ config = 0 /\ source =
       0 /\ secret = 0 /\ work = 0

InitArt ==
    /\ part = "artifacts" /\ Art!Init
    /\ setup = 0 /\ defs = 0 /\ runs = 0 /\ flows = 0 /\ audits = 0 /\ caller = 0 /\ engine = 0
       /\ status = 0 /\ claim = 0 /\ delivered = 0 /\ expired = 0 /\ store = 0 /\ changes = 0 /\
       next = 0 /\ log = 0 /\ tx = 0 /\ client = 0 /\ task = 0 /\ active = 0 /\ cancelling = 0
       /\ starts = 0 /\ frames = 0 /\ phase = 0 /\ ready = 0 /\ wf = 0 /\ child = 0 /\ inbox = 0
       /\ sent = 0 /\ orphans = 0 /\ run = 0 /\ seen = 0 /\ pc = 0 /\ sandbox = 0 /\ workflow =
       0 /\ workspace = 0 /\ records = 0 /\ cluster = 0 /\ clock = 0 /\ config = 0 /\ source = 0
       /\ secret = 0 /\ work = 0

InitTem ==
    /\ part = "workflow" /\ Tem!Init
    /\ setup = 0 /\ defs = 0 /\ runs = 0 /\ flows = 0 /\ audits = 0 /\ caller = 0 /\ engine = 0
       /\ claim = 0 /\ delivered = 0 /\ expired = 0 /\ store = 0 /\ changes = 0 /\ next = 0 /\
       log = 0 /\ tx = 0 /\ client = 0 /\ objects = 0 /\ rows = 0 /\ upload = 0 /\ roles = 0 /\
       page = 0 /\ run = 0 /\ seen = 0 /\ pc = 0 /\ sandbox = 0 /\ workflow = 0 /\ workspace = 0
       /\ records = 0 /\ cluster = 0 /\ clock = 0 /\ config = 0 /\ source = 0 /\ secret = 0 /\
       work = 0

InitArg ==
    /\ part = "argo" /\ Arg!Init
    /\ setup = 0 /\ defs = 0 /\ runs = 0 /\ flows = 0 /\ audits = 0 /\ caller = 0 /\ faults = 0
       /\ engine = 0 /\ status = 0 /\ claim = 0 /\ delivered = 0 /\ expired = 0 /\ store = 0 /\
       changes = 0 /\ log = 0 /\ tx = 0 /\ client = 0 /\ plan = 0 /\ objects = 0 /\ rows = 0 /\
       upload = 0 /\ roles = 0 /\ page = 0 /\ task = 0 /\ active = 0 /\ cancelling = 0 /\ starts
       = 0 /\ frames = 0 /\ phase = 0 /\ ready = 0 /\ wf = 0 /\ child = 0 /\ inbox = 0 /\ sent =
       0 /\ orphans = 0 /\ clock = 0 /\ config = 0 /\ source = 0 /\ secret = 0 /\ work = 0

InitCred ==
    /\ part = "credentials" /\ Cred!Init
    /\ setup = 0 /\ defs = 0 /\ runs = 0 /\ flows = 0 /\ audits = 0 /\ caller = 0 /\ engine = 0
       /\ status = 0 /\ claim = 0 /\ delivered = 0 /\ expired = 0 /\ store = 0 /\ changes = 0 /\
       next = 0 /\ log = 0 /\ tx = 0 /\ client = 0 /\ plan = 0 /\ objects = 0 /\ rows = 0 /\
       upload = 0 /\ roles = 0 /\ page = 0 /\ task = 0 /\ active = 0 /\ cancelling = 0 /\ starts
       = 0 /\ frames = 0 /\ phase = 0 /\ ready = 0 /\ wf = 0 /\ inbox = 0 /\ sent = 0 /\ orphans
       = 0 /\ seen = 0 /\ pc = 0 /\ sandbox = 0 /\ workflow = 0 /\ workspace = 0 /\ records = 0
       /\ cluster = 0

\* A step of one part.
InAdm(A) ==
    /\ part = "admission" /\ A
    /\ UNCHANGED <<part, engine, status, claim, delivered, expired, store, changes, next, log,
        tx, client, plan, objects, rows, upload, roles, page, task, active, cancelling, starts,
        frames, phase, ready, wf, child, inbox, sent, orphans, run, seen, pc, sandbox, workflow,
        workspace, records, cluster, clock, config, source, secret, work>>

InSig(A) ==
    /\ part = "signals" /\ A
    /\ UNCHANGED <<part, setup, defs, runs, flows, audits, store, changes, next, log, tx,
        client, plan, objects, rows, upload, roles, page, task, active, cancelling, starts,
        frames, phase, ready, wf, child, inbox, sent, orphans, run, seen, pc, sandbox, workflow,
        workspace, records, cluster, clock, config, source, secret, work>>

InEv(A) ==
    /\ part = "events" /\ A
    /\ UNCHANGED <<part, setup, defs, runs, flows, audits, caller, faults, engine, claim,
        delivered, expired, plan, objects, rows, upload, roles, page, task, active, cancelling,
        starts, frames, phase, ready, wf, child, inbox, sent, orphans, run, seen, pc, sandbox,
        workflow, workspace, records, cluster, clock, config, source, secret, work>>

InArt(A) ==
    /\ part = "artifacts" /\ A
    /\ UNCHANGED <<part, setup, defs, runs, flows, audits, caller, engine, status, claim,
        delivered, expired, store, changes, next, log, tx, client, task, active, cancelling,
        starts, frames, phase, ready, wf, child, inbox, sent, orphans, run, seen, pc, sandbox,
        workflow, workspace, records, cluster, clock, config, source, secret, work>>

InTem(A) ==
    /\ part = "workflow" /\ A
    /\ UNCHANGED <<part, setup, defs, runs, flows, audits, caller, engine, claim, delivered,
        expired, store, changes, next, log, tx, client, objects, rows, upload, roles, page, run,
        seen, pc, sandbox, workflow, workspace, records, cluster, clock, config, source, secret,
        work>>

InArg(A) ==
    /\ part = "argo" /\ A
    /\ UNCHANGED <<part, setup, defs, runs, flows, audits, caller, faults, engine, status,
        claim, delivered, expired, store, changes, log, tx, client, plan, objects, rows, upload,
        roles, page, task, active, cancelling, starts, frames, phase, ready, wf, child, inbox,
        sent, orphans, clock, config, source, secret, work>>

InCred(A) ==
    /\ part = "credentials" /\ A
    /\ UNCHANGED <<part, setup, defs, runs, flows, audits, caller, engine, status, claim,
        delivered, expired, store, changes, next, log, tx, client, plan, objects, rows, upload,
        roles, page, task, active, cancelling, starts, frames, phase, ready, wf, inbox, sent,
        orphans, seen, pc, sandbox, workflow, workspace, records, cluster>>

MCInit == InitAdm \/ InitSig \/ InitEv \/ InitArt \/ InitTem \/ InitArg \/ InitCred

MCNext == InAdm(Adm!Next) \/ InSig(Sig!Next) \/ InEv(Ev!Next) \/ InArt(Art!Next) \/ InTem(Tem!Next) \/
          InArg(Arg!Next) \/ InCred(Cred!Next)

\* Admission: a caller that was not answered for good sends its request again, and a server
\* finishes a request unless it is cut off.
\* Signals: callers try again, and the lease of a claim nobody holds runs out.
\* Events: the client reconnects, the server polls, and a transaction that began ends.
\* Workflow: Temporal runs workflows and activities, and a sandbox ends by itself or by its
\* timeout.
\* Argo: the controller requeues, a Workflow has a deadline, Kubernetes deletes what is marked,
\* and the preflight job runs periodically.
MCFairness ==
    /\ \A c \in {"c1", "c2"} : WF_(Adm!vars)(part = "admission" /\ Adm!Attempt(c))
    /\ \A c \in {"c1", "c2"} : WF_(Sig!vars)(part = "signals" /\ Sig!Attempt(c))
    /\ WF_(Sig!vars)(part = "signals" /\ Sig!LeaseExpires("k1"))
    /\ WF_(Ev!vars)(part = "events" /\ Ev!Connect)
    /\ WF_(Ev!vars)(part = "events" /\ Ev!Poll)
    /\ \A w \in {"e1", "e2"} : WF_(Ev!vars)(part = "events" /\ (Ev!InsertStatusEvent(w) \/ Ev!CommitStatus(w)))
    /\ \A w \in {"a1", "a2"} : WF_(Ev!vars)(part = "events" /\ (Ev!CheckForeignKey(w) \/ Ev!CommitEvent(w)))
    /\ WF_(Tem!vars)(part = "workflow" /\ Tem!ParentStep)
    /\ WF_(Tem!vars)(part = "workflow" /\ Tem!ParentCancelled)
    /\ WF_(Tem!vars)(part = "workflow" /\ Tem!ChildStep)
    /\ WF_(Tem!vars)(part = "workflow" /\ Tem!ChildPoll)
    /\ WF_(Tem!vars)(part = "workflow" /\ Tem!ChildDecide)
    /\ \A s \in {1, 2} : WF_(Tem!vars)(part = "workflow" /\ Tem!Ends(s))
    /\ WF_(Arg!vars)(part = "argo" /\ Arg!Controls)
    /\ WF_(Arg!vars)(part = "argo" /\ Arg!StepLost)
    /\ WF_(Arg!vars)(part = "argo" /\ Arg!WorkflowGone)
    /\ WF_(Arg!vars)(part = "argo" /\ Arg!Allowed)

MCSpec == MCInit /\ [][MCNext]_vars /\ MCFairness

------------------------------------------------------------------------------
\* What the v2 server tells a caller is true. A caller told of its run shares it with every
\* caller of the same key, and the run has an audit entry that allowed it and a workflow, which
\* bears the revision it records and runs that revision of the agent or a newer one, never an
\* older one; a caller told 2xx had its one command delivered, or its run is cancelled; an
\* upload that was answered is in the catalog and the store, is presentable and is what is
\* served, and what is left over is the trace of a named failure.
AnswersAreTrue ==
    /\ part = "admission" => Adm!OneRunPerKey /\ Adm!ChangesAreAudited /\ Adm!AnsweredIsStarted
           /\ Adm!LocalReplayMatches
    /\ part = "signals" => Sig!OneMeaningPerKey /\ Sig!ToldIsDelivered /\ Sig!RepeatsAreBounded
    /\ part = "artifacts" => Art!CreatedIsPublished /\ Art!StoredIsPresentable /\
           Art!NoResidueWithoutFault /\ Art!ServedIsPublished /\ Art!PageShowsTheAnswer

\* What the v2 records say of a run is true. The status events are the changes of the status
\* and no stream skips one; a manifest is accepted exactly when its steps can be ordered, a
\* step is done by its own decision or task after what it needs, and a closed run leaves no
\* task behind unless a call failed, a timeout struck or its cancellation met a call in flight.
RecordsAreTrue ==
    /\ part = "events" => Ev!LogTellsTheRun /\ Ev!StatusIsNeverSkipped /\ Ev!OrderedStream
    /\ part = "workflow" => Tem!AcceptedIsOrdered /\ Tem!NeedsComeFirst /\ Tem!StepsAreEarned /\
           Tem!ClosedRunLeavesNoTask /\ Tem!OutcomeIsRecorded

\* A Sandbox of a v3 run is its own. A run orchestrated by Argo reaches verification with the
\* output of its own Workflow over its own Sandbox, which was recorded first; the credentials
\* minted for a Sandbox outlive it but for the delays its deadline may exceed them by, every
\* key it mounts exists, and the App credential is projected into no run.
SandboxIsTheRuns ==
    /\ part = "argo" => Arg!HandoffIsTheRuns /\ Arg!WorkBeforeWorkflow
    /\ part = "credentials" => Cred!CredentialsOutliveSandbox /\ Cred!MountsExist /\
           Cred!WriteCredentialStaysOut

\* While a caller owns a live claim, only its delivery turns it into an accepted one
\* (store.go:629-656); the Workflow a run is bound to stays the one it names and no second one
\* is created (orchestration.go:244-382).
OwnersKeepTheirs ==
    [][/\ part = "signals" => Sig!OwnerAcceptsStep
       /\ part = "argo" => Arg!BoundIsNeverReplacedStep]_vars

\* What somebody waits for in each part, and what ends the waiting. Nothing leaves a part, so
\* one leads-to speaks of all of them.
Waiting ==
    \/ part = "admission" /\ Adm!Entitled("c1")
    \/ part = "signals"
    \/ part = "events" /\ Ev!Over
    \/ part = "workflow" /\ Tem!CancelSent
    \/ part = "argo" /\ Arg!Bound

Served ==
    \/ part = "admission" /\ Adm!Served("c1")
    \/ part = "signals" /\ Sig!Answered("c1")
    \/ part = "events" /\ Ev!Told
    \/ part = "workflow" /\ Tem!Closed
    \/ part = "argo" /\ Arg!Settled

\* What was begun comes to an end: a caller that keeps sending the same keyed request or
\* command is answered (and an answer is final), a client that reconnects is told the final
\* status, a cancelled workflow closes, and a bound Argo run is handed off or failed. Callers
\* are alike, so one of them stands for all.
EveryoneIsServed == Waiting ~> Served

==============================================================================
