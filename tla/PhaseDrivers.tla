---------------------------- MODULE PhaseDrivers ----------------------------
(***************************************************************************)
(* The drivers the AgentRun controller calls while a run is Capturing and  *)
(* Verifying: the networkless capture Job, the independent verify child,   *)
(* the critic Job, and the artifacts, the signed report and the            *)
(* attestation they leave behind.  AgentRun knows these drivers only by    *)
(* their outcomes; this module opens them.                                 *)
(*                                                                         *)
(* Operators lead one after the other; one that lost the lease begins no   *)
(* further reconcile but finishes the one it is in, beside its successor.  *)
(* Every request to the API server or the object store is one step, so     *)
(* objects are created, finish, lose their pods and are deleted between    *)
(* any two of them.  A failed request, a lost answer and a crash all end   *)
(* the reconcile, before or after the effect: Elect lets the leader stop   *)
(* at any step, for ever or until later, and the next one begin afresh.    *)
(***************************************************************************)
EXTENDS Naturals, SequencesExt

CONSTANTS
    Leaders,     \* bound: operators that lead, in turn
    Configs,     \* whether a critic and an attester are installed
    Foreign,     \* objects that may already exist under somebody else
    Timeout,     \* Gate.Verify.Timeout, in whole ticks of the clock
    MaxClock,    \* bound: last clock value
    MaxLost      \* bound: pods lost

VARIABLES
    config,      \* [critic, attester]
    driven,      \* the phase this behaviour is about
    status,      \* AgentRun.Status at the API server
    objs,        \* Jobs, NetworkPolicies and the verify child
    gen,         \* creations of each object so far: the UID of the next
    pods,        \* the pod of each workload and what it printed
    work,        \* the work child and its workspace still exist
    store,       \* immutable artifacts in the object store
    clock,
    lost,        \* pods lost so far
    leader,      \* the worker that holds the lease
    pc, view, loc

vars == <<config, driven, status, objs, gen, pods, work, store, clock, lost, leader, pc, view, loc>>

Workers == 1 .. Leaders

cluster == <<objs, gen, pods, work>>

None == "none"

Workloads == {"captureJob", "verifyChild", "criticJob"}

Objects == Workloads \cup {"capturePolicy", "criticPolicy"}

(***************************************************************************)
(* What a finished container printed.  "bad" is a frame Validate refuses;  *)
(* an "unframed" critic log fails DecodeOutputFrame and a "noncanonical"   *)
(* one only ParseCanonicalInput.                                           *)
(***************************************************************************)
Outputs ==
    [captureJob  |-> {"good", "bad"},
     verifyChild |-> {"pass", "fail", "malformed"},
     criticJob   |-> {"clean", "blocking", "noncanonical", "unframed"}]

Config == [critic : BOOLEAN, attester : BOOLEAN]

ASSUME ConfigsAssumption == Configs \subseteq Config /\ Foreign \subseteq Objects
ASSUME BoundsAssumption == Leaders \in Nat /\ Timeout \in Nat /\ MaxClock \in Nat /\ MaxLost \in Nat

\* The artifacts, by the content that addresses them.
Patch(out) == <<"patch", out>>
Manifest(out) == <<"manifest", out>>
Evidence(e) == <<"evidence", e>>
CriticInput(c) == <<"criticInput", c>>
CriticRecord(c) == <<"criticRecord", c>>
CriticSignature(c) == <<"criticSignature", c>>
Corroboration(c) == <<"corroborationInput", c>>
CorroborationResult(c) == <<"corroborationResult", c>>
Report(e, c) == <<"report", e, c>>
Statement(e, c) == <<"statement", e, c>>
Bundle(e, c) == <<"bundle", e, c>>
Findings(e, c) == <<"findings", e, c>>

Scratch(now) ==
    [now |-> now, absent |-> FALSE, jobUID |-> 0, policyUID |-> 0, out |-> None,
     critic |-> None, todo |-> << >>, then |-> "idle", arts |-> {}]

\* What the driver of a phase creates.
Needed(phase) ==
    IF phase = "Capturing" THEN {"captureJob", "capturePolicy"}
    ELSE {"verifyChild"} \cup (IF config.critic THEN {"criticPolicy", "criticJob"} ELSE {})

InCapture == [phase |-> "Capturing", patch |-> None, started |-> 0, child |-> FALSE,
              gate |-> None, report |-> << >>, failure |-> None, arts |-> {}]

ForeignUID == 99

Absent == [own |-> TRUE, uid |-> 0, plan |-> 0, state |-> "absent"]

(***************************************************************************)
(* A run is followed through one of the two phases.  A run of an older     *)
(* release may be Verifying without a recorded start.                      *)
(***************************************************************************)
Init ==
    /\ config \in Configs
    /\ \/ status = InCapture /\ work = TRUE /\ store = {}
       \/ /\ \E started \in {0, 1} :
                status = [InCapture EXCEPT !.phase = "Verifying", !.patch = "good", !.started = started]
          /\ work = FALSE
          /\ store = {Patch("good"), Manifest("good")}
    /\ driven = status.phase
    /\ \E f \in (Foreign \cap Needed(driven)) \cup {None} :
          objs = [o \in Objects |-> IF o = f THEN [Absent EXCEPT !.own = FALSE, !.uid = ForeignUID, !.state = "running"] ELSE Absent]
    /\ gen = [o \in Objects |-> 0]
    /\ pods = [k \in Workloads |-> None]
    /\ clock = 1
    /\ lost = 0
    /\ leader = 1
    /\ pc = [w \in Workers |-> "idle"]
    /\ view = [w \in Workers |-> status]
    /\ loc = [w \in Workers |-> Scratch(0)]

-----------------------------------------------------------------------------
(***************************************************************************)
(* Steps of a reconcile.                                                   *)
(***************************************************************************)
Goto(w, l, s) == pc' = [pc EXCEPT ![w] = l] /\ loc' = [loc EXCEPT ![w] = s]

Ends(w) == Goto(w, "idle", Scratch(0))

Fresh(w) == Scratch(loc[w].now)

Exists(o) == objs[o].state # "absent"

(***************************************************************************)
(* Status().Update with the resourceVersion of the copy that was read.     *)
(* Contents stand for versions: they do not come back to an earlier value  *)
(* except for the retryable mark of a pending failure.                     *)
(***************************************************************************)
Current(w) == view[w] = status

UpdateStatus(w, new, l, s) ==
    /\ IF Current(w)
       THEN /\ status' = new
            /\ view' = [view EXCEPT ![w] = new]
            /\ Goto(w, l, s)
       ELSE /\ Ends(w)
            /\ UNCHANGED <<status, view>>
    /\ UNCHANGED <<config, driven, cluster, store, clock, lost, leader>>

Reconcile(w) ==
    /\ w = leader
    /\ pc[w] = "idle"
    /\ status.phase = driven
    /\ view' = [view EXCEPT ![w] = status]
    /\ LET first == IF status.phase = "Verifying" THEN IF status.started = 0 THEN "saveStart" ELSE "verifyChild"
                    ELSE IF status.patch = None THEN "captureJob" ELSE "cleanup"
       IN  Goto(w, first, Scratch(IF first = "verifyChild" THEN 0 ELSE clock))
    /\ UNCHANGED <<config, driven, status, cluster, store, clock, lost, leader>>

(***************************************************************************)
(* The create-once protocol of every driver: GET and validate; when the    *)
(* object is absent create it; when the create finds that somebody was     *)
(* faster, validate a fresh GET.  An object that is not the run's own, or  *)
(* has another plan, is an error and is never changed.                     *)
(***************************************************************************)
ValidExisting(o, plan) == objs[o].own /\ objs[o].plan = plan

EnsureObject(w, o, plan, next) ==
    /\ pc[w] = o
    /\ \/ /\ ~Exists(o) /\ ~loc[w].absent
          /\ Goto(w, o, [loc[w] EXCEPT !.absent = TRUE])
          /\ UNCHANGED <<objs, gen, pods>>
       \/ /\ ~Exists(o) /\ loc[w].absent
          /\ gen' = [gen EXCEPT ![o] = @ + 1]
          /\ objs' = [objs EXCEPT ![o] = [own |-> TRUE, uid |-> gen[o] + 1, plan |-> plan, state |-> "running"]]
          /\ pods' = IF o \in Workloads THEN [pods EXCEPT ![o] = "running"] ELSE pods
          /\ Goto(w, next, [loc[w] EXCEPT !.absent = FALSE])
       \/ /\ Exists(o)
          /\ IF ValidExisting(o, plan) THEN Goto(w, next, [loc[w] EXCEPT !.absent = FALSE]) ELSE Ends(w)
          /\ UNCHANGED <<objs, gen, pods>>
    /\ UNCHANGED <<config, driven, status, work, store, clock, lost, leader, view>>

(***************************************************************************)
(* Put with create-if-absent, then a byte comparison with what was already *)
(* there.  Keys contain the digest of the body (the critic input that of   *)
(* the Job's one log), so an existing object is the same object.           *)
(***************************************************************************)
PersistImmutable(w) ==
    /\ pc[w] = "put"
    /\ store' = store \cup {Head(loc[w].todo)}
    /\ IF Len(loc[w].todo) = 1
       THEN Goto(w, loc[w].then, [loc[w] EXCEPT !.todo = << >>, !.then = "idle"])
       ELSE Goto(w, "put", [loc[w] EXCEPT !.todo = Tail(@)])
    /\ UNCHANGED <<config, driven, status, cluster, clock, lost, leader, view>>

Writes(w, artifacts, l, s) == Goto(w, "put", [s EXCEPT !.todo = artifacts, !.then = l])

-----------------------------------------------------------------------------
(***************************************************************************)
(* Capturing.                                                              *)
(***************************************************************************)
EnsureCaptureJob(w) == EnsureObject(w, "captureJob", 0, "capturePolicy")

EnsureCapturePolicy(w) == EnsureObject(w, "capturePolicy", 0, "observe")

(***************************************************************************)
(* Observe: the Job and its policy must be there and valid, and the Job    *)
(* must own exactly one pod; a missing piece means the capture is pending. *)
(***************************************************************************)
MutantObserve(w) ==
    /\ pc[w] = "observe"
    /\ IF /\ Exists("captureJob") /\ Exists("capturePolicy")
          /\ ValidExisting("captureJob", 0) /\ ValidExisting("capturePolicy", 0)
          /\ pods["captureJob"] # None
          /\ objs["captureJob"].state = "succeeded"
       THEN Goto(w, "readCapture", loc[w])
       ELSE Ends(w)
    /\ UNCHANGED <<config, driven, status, cluster, store, clock, lost, leader, view>>

Observe(w) ==
    /\ pc[w] = "observe"
    /\ CASE Exists("captureJob") /\ Exists("capturePolicy")
              /\ ValidExisting("captureJob", 0) /\ ValidExisting("capturePolicy", 0)
              /\ pods["captureJob"] # None
              -> (CASE objs["captureJob"].state = "running"   -> Ends(w)
                    [] objs["captureJob"].state = "succeeded" -> Goto(w, "readCapture", loc[w])
                    [] objs["captureJob"].state = "failed"    -> Goto(w, "failRun", loc[w]))
         [] OTHER -> Ends(w)
    /\ UNCHANGED <<config, driven, status, cluster, store, clock, lost, leader, view>>

\* Validate: frame, identity, scope, limits, digests and the manifest of the patch.
Validates(out) == out = "good"

CaptureArtifacts(out) == <<Patch(out), Manifest(out)>>

(***************************************************************************)
(* ReadAndValidate and Persist.  A log that cannot be read, a frame that   *)
(* does not decode and a patch Validate refuses are errors of the          *)
(* reconcile, which is retried.                                            *)
(***************************************************************************)
ReadCapture(w) ==
    /\ pc[w] = "readCapture"
    /\ LET out == pods["captureJob"]
       IN  IF Validates(out)
           THEN Writes(w, CaptureArtifacts(out), "savePatch", [loc[w] EXCEPT !.out = out])
           ELSE Ends(w)
    /\ UNCHANGED <<config, driven, status, cluster, store, clock, lost, leader, view>>

\* The capture checkpoint: status.Patch is durable before anything is reaped.
SavePatch(w) ==
    /\ pc[w] = "savePatch"
    /\ UpdateStatus(w, [view[w] EXCEPT !.patch = loc[w].out], "cleanup", Fresh(w))

FailRun(w) ==
    /\ pc[w] = "failRun"
    /\ UpdateStatus(w, [view[w] EXCEPT !.phase = "Failed", !.failure = "final"], "idle", Scratch(0))

(***************************************************************************)
(* Cleanup validates both objects before it deletes either, the policy     *)
(* first.  The deletes carry the UIDs that were validated.                 *)
(***************************************************************************)
Cleanup(w) ==
    /\ pc[w] = "cleanup"
    /\ IF \A o \in {"captureJob", "capturePolicy"} : Exists(o) => ValidExisting(o, 0)
       THEN Goto(w, "dropPolicy", [Fresh(w) EXCEPT
                      !.jobUID = IF Exists("captureJob") THEN objs["captureJob"].uid ELSE 0,
                      !.policyUID = IF Exists("capturePolicy") THEN objs["capturePolicy"].uid ELSE 0])
       ELSE Ends(w)
    /\ UNCHANGED <<config, driven, status, cluster, store, clock, lost, leader, view>>

\* deleteObject: nothing to do for an absent object, an error for a replacement.
DeleteObject(w, o, uid, next) ==
    /\ IF uid = 0 \/ ~Exists(o) \/ objs[o].uid = uid THEN Goto(w, next, loc[w]) ELSE Ends(w)
    /\ IF uid # 0 /\ Exists(o) /\ objs[o].uid = uid
       THEN /\ objs' = [objs EXCEPT ![o] = Absent]
            /\ pods' = IF o \in Workloads THEN [pods EXCEPT ![o] = None] ELSE pods
       ELSE UNCHANGED <<objs, pods>>
    /\ UNCHANGED <<config, driven, status, gen, work, store, clock, lost, leader, view>>

DropPolicy(w) == pc[w] = "dropPolicy" /\ DeleteObject(w, "capturePolicy", loc[w].policyUID, "dropJob")

DropJob(w) == pc[w] = "dropJob" /\ DeleteObject(w, "captureJob", loc[w].jobUID, "reapWork")

ReapWork(w) ==
    /\ pc[w] = "reapWork"
    /\ work' = FALSE
    /\ Goto(w, "toVerifying", Fresh(w))
    /\ UNCHANGED <<config, driven, status, objs, gen, pods, store, clock, lost, leader, view>>

\* The verification deadline is measured from this durable instant.
ToVerifying(w) ==
    /\ pc[w] = "toVerifying"
    /\ UpdateStatus(w, [view[w] EXCEPT !.phase = "Verifying", !.started = loc[w].now], "idle", Scratch(0))

-----------------------------------------------------------------------------
(***************************************************************************)
(* Verifying: the child.                                                   *)
(***************************************************************************)
\* Older runs entered the phase before the start was recorded.
SaveStart(w) ==
    /\ pc[w] = "saveStart"
    /\ UpdateStatus(w, [view[w] EXCEPT !.started = loc[w].now], "verifyChild", Scratch(0))

VerificationStartTime(w) == view[w].started

Expired(w) == VerificationStartTime(w) + Timeout < clock

(***************************************************************************)
(* prepare() refuses a shutdown time in the past before Ensure looks at    *)
(* the child at all.                                                       *)
(***************************************************************************)
EnsureVerifyChild(w) ==
    IF pc[w] = "verifyChild" /\ ~loc[w].absent /\ Expired(w)
    THEN Ends(w) /\ UNCHANGED <<config, driven, status, cluster, store, clock, lost, leader, view>>
    ELSE EnsureObject(w, "verifyChild", VerificationStartTime(w), "observeVerify")

(***************************************************************************)
(* A pending outcome writes the child reference, the failure if there is   *)
(* one, and the artifacts; the write is guarded by the version, so it is   *)
(* taken together with the read that found the outcome pending.            *)
(***************************************************************************)
Pends(w, failure) ==
    UpdateStatus(w, [view[w] EXCEPT !.child = TRUE,
                                    !.failure = IF failure = None THEN @ ELSE failure,
                                    !.arts = @ \cup loc[w].arts],
                 "idle", Scratch(0))

Reads == UNCHANGED <<config, driven, status, cluster, store, clock, lost, leader, view>>

ObserveVerify(w) ==
    /\ pc[w] = "observeVerify"
    /\ CASE ~Exists("verifyChild")                                         -> Pends(w, "retryable")
         [] Exists("verifyChild") /\ objs["verifyChild"].state = "running" -> Pends(w, None)
         [] OTHER -> /\ Goto(w, IF config.critic THEN "criticPolicy" ELSE "evidence",
                             [loc[w] EXCEPT !.jobUID = objs["verifyChild"].uid])
                     /\ Reads

-----------------------------------------------------------------------------
(***************************************************************************)
(* Verifying: the critic Job and its authenticated output.                 *)
(***************************************************************************)
EnsureCriticPolicy(w) == EnsureObject(w, "criticPolicy", 0, "criticJob")

EnsureCriticJob(w) == EnsureObject(w, "criticJob", 0, "criticStatus")

(***************************************************************************)
(* The raw input, then the record that binds it to the Job and the pod,    *)
(* then the signature of the record.                                       *)
(***************************************************************************)
CriticOutput(c) == <<CriticInput(c), CriticRecord(c), CriticSignature(c)>>

RunnerEnsure(w) ==
    /\ pc[w] = "criticStatus"
    /\ LET out == pods["criticJob"]
       IN  CASE objs["criticJob"].state = "failed"               -> Pends(w, "final")
             [] objs["criticJob"].state = "running"              -> Pends(w, "retryable")
             [] objs["criticJob"].state = "succeeded" /\ out = None -> Pends(w, "retryable")
             [] objs["criticJob"].state = "succeeded" /\ out = "unframed" -> Ends(w) /\ Reads
             [] OTHER -> Writes(w, CriticOutput(out), "evidence", [loc[w] EXCEPT !.critic = out]) /\ Reads

-----------------------------------------------------------------------------
(***************************************************************************)
(* Verifying: evidence, verdict and report.                                *)
(***************************************************************************)
(***************************************************************************)
(* Evidence that is missing or malformed is judged as the empty set of     *)
(* observations, which fails every configured check.  A corroborated       *)
(* blocking finding rejects what the execution signal accepts.             *)
(***************************************************************************)
MutantVerdict(e, c) == IF e # "fail" /\ c # "blocking" THEN "Accepted" ELSE "Rejected"

Verdict(e, c) == IF e = "pass" /\ c # "blocking" THEN "Accepted" ELSE "Rejected"

Attest(e, c) == IF config.attester THEN <<Statement(e, c), Bundle(e, c)>> ELSE << >>

PublishFindings(e, c) == IF config.critic THEN <<Findings(e, c)>> ELSE << >>

\* After the evidence: the signed report, its attestation, and the findings bound to its digest.
Judges(w, before, s) ==
    LET after == Attest(s.out, s.critic) \o PublishFindings(s.out, s.critic)
    IN  Writes(w, before \o <<Report(s.out, s.critic)>> \o after, "gated",
               [s EXCEPT !.arts = @ \cup ToSet(before) \cup ToSet(after)])

OfChild(w) == objs["verifyChild"].uid = loc[w].jobUID

(***************************************************************************)
(* loadEvidence.  No pod and an empty log are missing evidence; a payload  *)
(* that was decoded is persisted even when it is refused.  The pod of a    *)
(* later child of that name is an error.                                   *)
(***************************************************************************)
LoadEvidence(w) ==
    /\ pc[w] = "evidence"
    /\ LET e == pods["verifyChild"]
           s == [loc[w] EXCEPT !.out = e]
           raw == IF e = None THEN << >> ELSE <<Evidence(e)>>
           same == e = None \/ OfChild(w)
       IN  CASE ~same -> Ends(w)
             [] same /\ ~config.critic -> Judges(w, raw, s)
             [] same /\ config.critic /\ raw = << >> -> Goto(w, "criticRead", s)
             [] OTHER -> Writes(w, raw, "criticRead", [s EXCEPT !.arts = ToSet(raw)])
    /\ UNCHANGED <<config, driven, status, cluster, store, clock, lost, leader, view>>

(***************************************************************************)
(* Source.Read: the Job and its pod are authenticated again, then the      *)
(* signature, the record and the body are read back and decoded.           *)
(***************************************************************************)
SourceRead(w) ==
    /\ pc[w] = "criticRead"
    /\ LET c == loc[w].critic
       IN  CASE pods["criticJob"] = None -> Pends(w, "retryable")
             [] pods["criticJob"] # None /\ ToSet(CriticOutput(c)) \subseteq store /\ c # "noncanonical"
                  -> Judges(w, <<Corroboration(c), CorroborationResult(c)>>, loc[w]) /\ Reads
             [] OTHER -> Pends(w, "final")

\* A completed outcome clears an earlier failure unless its evidence was invalid.
Completed(v, s) ==
    [v EXCEPT !.phase = "Gated", !.child = TRUE,
              !.gate = Verdict(s.out, s.critic),
              !.report = Report(s.out, s.critic),
              !.failure = IF s.out \in {"pass", "fail"} THEN None ELSE "final",
              !.arts = @ \cup s.arts]

MutantGated(w) ==
    /\ pc[w] = "gated"
    /\ status' = Completed(status, loc[w])
    /\ Ends(w)
    /\ UNCHANGED <<config, driven, cluster, store, clock, lost, leader, view>>

Gated(w) ==
    /\ pc[w] = "gated"
    /\ UpdateStatus(w, Completed(view[w], loc[w]), "idle", Scratch(0))

-----------------------------------------------------------------------------
(***************************************************************************)
(* The cluster.                                                            *)
(***************************************************************************)
(***************************************************************************)
(* A Job ends with the output of its container.  A capture Job whose       *)
(* workspace is gone cannot start and only its own deadline ends it.       *)
(***************************************************************************)
WorkloadEnds(k) ==
    /\ objs[k].own /\ objs[k].state = "running" /\ pods[k] = "running"
    /\ \/ /\ k = "captureJob" => work
          /\ k = "verifyChild" => objs[k].plan + Timeout >= clock
          /\ \E out \in Outputs[k] : pods' = [pods EXCEPT ![k] = out]
          /\ objs' = [objs EXCEPT ![k].state = "succeeded"]
       \/ /\ k # "verifyChild"
          /\ objs' = [objs EXCEPT ![k].state = "failed"]
          /\ UNCHANGED pods
    /\ UNCHANGED <<config, driven, status, gen, work, store, clock, lost, leader, pc, view, loc>>

(***************************************************************************)
(* Past its shutdown time the Job backend's child is killed and the        *)
(* agent-sandbox backend's is deleted.                                     *)
(***************************************************************************)
VerifyChildExpires ==
    /\ objs["verifyChild"].own
    /\ Exists("verifyChild")
    /\ objs["verifyChild"].plan + Timeout < clock
    /\ \/ /\ objs["verifyChild"].state = "running"
          /\ objs' = [objs EXCEPT !["verifyChild"].state = "succeeded"]
          /\ pods' = [pods EXCEPT !["verifyChild"] = None]
       \/ /\ objs' = [objs EXCEPT !["verifyChild"] = Absent]
          /\ pods' = [pods EXCEPT !["verifyChild"] = None]
    /\ UNCHANGED <<config, driven, status, gen, work, store, clock, lost, leader, pc, view, loc>>

Tick ==
    /\ clock < MaxClock
    /\ clock' = clock + 1
    /\ UNCHANGED <<config, driven, status, cluster, store, lost, leader, pc, view, loc>>

Elect ==
    /\ leader < Leaders
    /\ leader' = leader + 1
    /\ UNCHANGED <<config, driven, status, cluster, store, clock, lost, pc, view, loc>>

\* A node is drained: the pod and its log are gone; a Job without retries fails.
PodLost(k) ==
    /\ lost < MaxLost
    /\ lost' = lost + 1
    /\ pods[k] # None
    /\ pods' = [pods EXCEPT ![k] = None]
    /\ objs' = [objs EXCEPT ![k].state = IF @ = "running" THEN "failed" ELSE @]
    /\ UNCHANGED <<config, driven, status, gen, work, store, clock, leader, pc, view, loc>>

Work(w) ==
    \/ Reconcile(w) \/ PersistImmutable(w)
    \/ EnsureCaptureJob(w) \/ EnsureCapturePolicy(w) \/ Observe(w) \/ ReadCapture(w)
    \/ SavePatch(w) \/ FailRun(w)
    \/ Cleanup(w) \/ DropPolicy(w) \/ DropJob(w) \/ ReapWork(w) \/ ToVerifying(w)
    \/ SaveStart(w) \/ EnsureVerifyChild(w) \/ ObserveVerify(w)
    \/ EnsureCriticPolicy(w) \/ EnsureCriticJob(w) \/ RunnerEnsure(w) \/ SourceRead(w)
    \/ LoadEvidence(w) \/ Gated(w)

Next ==
    \/ \E w \in Workers : Work(w)
    \/ \E k \in Workloads : WorkloadEnds(k) \/ PodLost(k)
    \/ VerifyChildExpires
    \/ Tick
    \/ Elect

(***************************************************************************)
(* The controller requeues a run in these phases after every outcome, and  *)
(* every Job has a deadline.  Only the leader must go on.                  *)
(***************************************************************************)
Fairness ==
    /\ WF_vars(\E w \in Workers : w = leader /\ Work(w))
    /\ WF_vars(VerifyChildExpires \/ \E k \in Workloads : WorkloadEnds(k))

Spec == Init /\ [][Next]_vars /\ Fairness

-----------------------------------------------------------------------------
(***************************************************************************)
(* Properties.                                                             *)
(***************************************************************************)
Artifacts ==
    {Patch("good"), Manifest("good")}
    \cup {Evidence(e) : e \in {"pass", "fail", "malformed"}}
    \cup UNION {{CriticInput(c), CriticRecord(c), CriticSignature(c), Corroboration(c), CorroborationResult(c)}
                : c \in Outputs["criticJob"]}
    \cup UNION {{Report(e, c), Statement(e, c), Bundle(e, c), Findings(e, c)}
                : e \in Outputs["verifyChild"] \cup {None}, c \in Outputs["criticJob"] \cup {None}}

\* The shapes of the run's status, the objects and the stored artifacts.
TypeOK ==
    /\ config \in Configs
    /\ status.phase \in {"Capturing", "Verifying", "Gated", "Failed"}
    /\ status.patch \in {None, "good"}
    /\ status.started \in 0 .. MaxClock
    /\ status.gate \in {None, "Accepted", "Rejected"}
    /\ status.failure \in {None, "retryable", "final"}
    /\ status.arts \subseteq Artifacts
    /\ store \subseteq Artifacts
    /\ \A o \in Objects : objs[o].state \in {"absent", "running", "succeeded", "failed"} /\ (objs[o].own => objs[o].uid \in 0 .. gen[o])
    /\ \A k \in Workloads : pods[k] \in Outputs[k] \cup {None, "running"}
    /\ work \in BOOLEAN
    /\ clock \in 1 .. MaxClock
    /\ lost \in 0 .. MaxLost
    /\ leader \in Workers

(***************************************************************************)
(* Every reference the status shows can be read back: the patch and its    *)
(* manifest, the report of the verdict, the evidence, the attestation and  *)
(* the findings were stored before the status named them, whichever worker *)
(* wrote them and wherever the other one stopped.                          *)
(***************************************************************************)
RefsAreDurable ==
    /\ status.patch # None => {Patch(status.patch), Manifest(status.patch)} \subseteq store
    /\ status.gate # None => status.report \in store
    /\ status.arts \subseteq store

(***************************************************************************)
(* An accepted run has passing evidence among its artifacts, no failure,   *)
(* and, with a critic, a signed record of a critic Job whose corroborated  *)
(* findings do not block; with an attester, the bundle over that report.   *)
(***************************************************************************)
AcceptedIsProven ==
    status.gate = "Accepted" =>
        LET c == status.report[3]
        IN  /\ status.report[2] = "pass"
            /\ Evidence("pass") \in status.arts
            /\ status.failure = None
            /\ config.critic => /\ c = "clean"
                                /\ CriticSignature(c) \in store
                                /\ {CorroborationResult(c), Findings("pass", c)} \subseteq status.arts
            /\ config.attester => Bundle("pass", c) \in status.arts

(***************************************************************************)
(* The work child and the capture Job go only after the patch is in the    *)
(* status: until then the workspace is the only copy of the agent's work.  *)
(***************************************************************************)
WorkOutlivesCapture ==
    status.patch = None => work /\ \A o \in {"captureJob", "capturePolicy"} : gen[o] > 0 => Exists(o)

(***************************************************************************)
(* The verify child was created from the start time that is durable, so a  *)
(* retry after a crash recognises it and does not take it for a mutation.  *)
(***************************************************************************)
ChildMatchesStatus ==
    Exists("verifyChild") /\ objs["verifyChild"].own => objs["verifyChild"].plan = status.started

(***************************************************************************)
(* A run whose patch was captured never fails for its capture Job, though  *)
(* a worker with an old copy may create the Job again, without workspace.  *)
(***************************************************************************)
CapturedNeverFails == status.phase = "Failed" => status.patch = None

\* What the phases promise one another holds whichever worker acts.
EvidenceIsKept ==
    RefsAreDurable /\ AcceptedIsProven /\ WorkOutlivesCapture /\ ChildMatchesStatus /\ CapturedNeverFails

(***************************************************************************)
(* An object of somebody else that has the name of the run's own is never  *)
(* changed, deleted or replaced.                                           *)
(***************************************************************************)
ForeignUntouched == \A o \in Objects : ~objs[o].own => objs'[o] = objs[o]

(***************************************************************************)
(* A verdict is given once.  A second worker may reach another verdict,    *)
(* when the verify pod is lost in between, and store its signed report,    *)
(* but the status keeps the first report, verdict and artifacts.           *)
(***************************************************************************)
VerdictIsFinal == status.gate # None => status' = status

\* No step replaces a verdict or an object of somebody else.
NothingIsReplaced == [][VerdictIsFinal /\ ForeignUntouched]_vars

(***************************************************************************)
(* What keeps a run in its phase for ever.                                 *)
(***************************************************************************)
Wedged ==
    \/ \E o \in Objects : ~objs[o].own
    \/ status.phase = "Capturing" /\ Exists("captureJob") /\ pods["captureJob"] \in {None, "bad"}
    \/ status.phase = "Verifying" /\ status.started + Timeout < clock
    \/ /\ status.phase = "Verifying" /\ Exists("criticJob")
       /\ objs["criticJob"].state = "failed" \/ pods["criticJob"] \in {None, "unframed", "noncanonical"}

(***************************************************************************)
(* A run leaves Capturing and Verifying, unless a foreign object is in the *)
(* way, the capture's or the critic's output is lost or refused, the       *)
(* critic fails, or the verification deadline passes.                      *)
(***************************************************************************)
Progress == <>[](status.phase # driven \/ Wedged)

=============================================================================
