---------------------------- MODULE Publication ----------------------------
(***************************************************************************)
(* The publication of one run: publishcontroller.Driver decides what is to *)
(* be published, publish.Publisher claims every effect in the ledger       *)
(* before it acts and records its outcome after, and githubpublish.Client  *)
(* performs it by requests to the forge.                                   *)
(*                                                                         *)
(* A patch is one effect made of four items: the branch at the base        *)
(* commit, the commit moved onto it, the pull request, its labels.  The    *)
(* advisory findings are one effect, a section of the pull request's body  *)
(* that names the report they were made for; every blocking finding is an  *)
(* effect of its own, a review, whatever the report.  Each item is ensured *)
(* alike: look whether it is there, send one request if it is not, *)
(* look again.  The answer to a request may be lost, and the request may   *)
(* then still be under way.                                                *)
(*                                                                         *)
(* Other people use the forge too: they move the base branch, push to the  *)
(* run's branch, and edit the pull request.  The ledger is taken at its    *)
(* word (EffectLedger): a claim is granted at most once per key.           *)
(***************************************************************************)
EXTENDS Naturals, Sequences, FiniteSets, FiniteSetsExt, Functions

CONSTANTS
    Workers,      \* operator processes that may drive the run
    Digests,      \* signed Gate reports the request may be bound to
    Findings,     \* the corroborated findings, in the order of their names
    Jobs,         \* what runs ask for
    MaxAttempts,  \* bound: publications started
    MaxMeddling   \* bound: steps of other people

\* The items of a patch, and the order they are ensured in.
Patch   == {"branch", "commit", "pr", "labels"}
Then    == [branch |-> "commit", commit |-> "pr", pr |-> "labels"]

\* Besides them, the section of each report and the review of each finding.
Items   == Patch \cup Digests \cup Range(Findings)
Keys    == {"publish"} \cup Digests \cup Range(Findings)
Sections == {"absent", "other"} \cup Digests
Commits == {"absent", "base", "patch", "other"}
PullRequests == {"absent", "ours", "edited", "foreign"}
Outcomes == {"succeeded", "failed", "unknown"}
States   == Outcomes \cup {"skipped", "rejected"}

Job == [output : {"patch", "findings", "both"}, enforcing : BOOLEAN,
        accepted : BOOLEAN, pr : BOOLEAN, advisory : SUBSET Range(Findings)]

ASSUME JobsAssumption == Jobs \subseteq Job
ASSUME FindingsAssumption ==
    /\ Findings \in Seq(Range(Findings)) /\ IsInjective(Findings)
    /\ Range(Findings) \cap (Patch \cup Digests \cup {"publish"}) = {}
    /\ Digests \cap (Patch \cup {"publish", "absent", "other"}) = {}
ASSUME PublicationBounds == MaxAttempts \in Nat /\ MaxMeddling \in Nat

VARIABLES
    job,        \* the run's immutable request
    base,       \* the base branch still points at the base commit
    ref, shown, \* the run's branch, and what a read of it shows
    pr,         \* "absent", "ours", "edited" (marker kept) or "foreign"
    labels,     \* the pull request has exactly the requested labels
    section,    \* the advisory section of the body: "absent", a report's, or "other"
    review,     \* per finding: the commit its review is on
    late,       \* requests whose sender gave up and that may still take effect
    claims,     \* per key: the digest claimed, <<>> when none
    outcome,    \* per key: "none" or what was recorded
    pc,         \* per worker: where it is
    attempts,   \* publications started
    meddled,    \* what other people have done
    sent,       \* history: mutating requests sent per item
    applied,    \* history: items the forge changed on our request
    told        \* history: answers given to the controller

forge  == <<base, ref, shown, pr, labels, section, review>>
ledger == <<claims, outcome>>
vars   == <<job, base, ref, shown, pr, labels, section, review, late, claims, outcome,
            pc, attempts, meddled, sent, applied, told>>

WantsPatch    == job.output # "findings"
WantsFindings == job.output # "patch"

\* The effects of a findings publication for report d: the section of the advisory
\* findings, and a review for every other one.
Reviews == Range(Findings) \ job.advisory
Plan(d) == (IF job.advisory = {} THEN {} ELSE {d}) \cup Reviews

\* The reviews that follow the first n findings; the section comes first of all.
ReviewsAfter(n) == {m \in DOMAIN Findings : m > n /\ Findings[m] \in Reviews}
Following(n)    == Findings[Min(ReviewsAfter(n))]
First(d)        == IF job.advisory = {} THEN Following(0) ELSE d
Place(i)        == IF i \in Digests THEN 0 ELSE CHOOSE n \in DOMAIN Findings : Findings[n] = i

\* The key of a review names the patch, the key of a section the report.
KeyOf(i) == IF i \in Patch THEN "publish" ELSE i

Idle == [stage |-> "idle", item |-> "branch", digest |-> <<>>, head |-> "absent",
         body |-> "absent", end |-> "none", patch |-> "skipped"]

Stages == {"idle", "load", "claim", "base", "probe", "objects", "send", "answered", "refused", "lost",
           "record", "target"}

Init ==
    /\ job \in Jobs
    /\ base = TRUE /\ labels = FALSE /\ section = "absent"
    /\ review = [f \in Range(Findings) |-> "absent"]
    \* A findings-only run reviews a pull request that is already there.
    /\ IF job.output = "findings" THEN ref = "patch" /\ pr = "foreign"
                                  ELSE ref = "absent" /\ pr = "absent"
    /\ shown = ref /\ late = {}
    /\ claims = [k \in Keys |-> <<>>] /\ outcome = [k \in Keys |-> "none"]
    /\ pc = [w \in Workers |-> Idle]
    /\ attempts = 0 /\ meddled = {}
    /\ sent = [i \in Items |-> 0] /\ applied = {} /\ told = {}

-----------------------------------------------------------------------------
(***************************************************************************)
(* publishcontroller.Driver                                                *)
(***************************************************************************)

At(w, stage) == pc[w].stage = stage

Become(w, position) == pc' = [pc EXCEPT ![w] = position]

Go(w, stage) == Become(w, [pc[w] EXCEPT !.stage = stage])

GoItem(w, stage, i) == Become(w, [pc[w] EXCEPT !.stage = stage, !.item = i])

End(w, o) == Become(w, [pc[w] EXCEPT !.stage = "record", !.end = o])

\* mapOutcome, mapFindingsOutcome and combinedState: the controller is told
\* the state of both effects.
Answer(w, patch, findings) ==
    /\ Become(w, Idle)
    /\ told' = told \cup {[digest |-> pc[w].digest, patch |-> patch, findings |-> findings]}

\* The findings are published one after another; all of them makes success.
NextFinding(w, i) ==
    IF ReviewsAfter(Place(i)) = {}
    THEN Answer(w, pc[w].patch, "succeeded")
    ELSE GoItem(w, "claim", Following(Place(i))) /\ UNCHANGED told

\* The findings come after the patch, whose state is kept.
ToFindings(w, o) ==
    /\ Become(w, [pc[w] EXCEPT !.stage = "target", !.patch = o])
    /\ UNCHANGED told

\* The effect of the worker's item ended as o.  A section that failed is not
\* told apart from one whose outcome is unknown.
Finish(w, o) ==
    LET i == pc[w].item IN
    CASE KeyOf(i) = "publish" ->
           IF o = "succeeded" /\ WantsFindings THEN ToFindings(w, o) ELSE Answer(w, o, "skipped")
      [] i \in Digests /\ o # "succeeded" -> Answer(w, pc[w].patch, "unknown")
      [] i \in Range(Findings) /\ o # "succeeded" -> Answer(w, pc[w].patch, o)
      [] OTHER -> NextFinding(w, i)

\* A call begins with the artifacts it is bound to.
Start(w, d) ==
    /\ At(w, "idle") /\ attempts < MaxAttempts
    /\ attempts' = attempts + 1
    /\ Become(w, [Idle EXCEPT !.stage = "load", !.digest = <<d>>])
    /\ UNCHANGED <<job, forge, late, ledger, meddled, sent, applied, told>>

\* Invalid input, an unreadable artifact, or one that is not bound to the run:
\* an error, and the controller tries again.
LoadFails(w) ==
    /\ At(w, "load")
    /\ Become(w, Idle)
    /\ UNCHANGED <<job, forge, late, ledger, attempts, meddled, sent, applied, told>>

\* A rejected patch under an enforcing Gate is not published in any form.
Refused == job.enforcing /\ ~job.accepted

\* publish.prepare refuses it once more.
PublisherRefuses == job.enforcing /\ ~job.accepted

Decide(w) ==
    /\ At(w, "load")
    /\ WantsFindings => job.pr
    /\ CASE Refused -> Answer(w, "rejected", "skipped")
         [] ~Refused /\ ~WantsPatch -> Go(w, "target") /\ UNCHANGED told
         [] ~Refused /\ WantsPatch /\ ~job.pr ->
              Answer(w, IF job.accepted THEN "skipped" ELSE "rejected", "skipped")
         [] OTHER -> IF PublisherRefuses THEN Answer(w, "rejected", "skipped")
                     ELSE GoItem(w, "claim", "branch") /\ UNCHANGED told
    /\ UNCHANGED <<job, forge, late, ledger, attempts, meddled, sent, applied>>

-----------------------------------------------------------------------------
(***************************************************************************)
(* publish.Publisher                                                       *)
(***************************************************************************)

\* Mutant: the request digest of a finding does not name the head.
MutantRequestDigest(w) == <<pc[w].digest[1]>>

\* A findings effect is bound to the head its pull request had.
RequestDigest(w) ==
    IF KeyOf(pc[w].item) = "publish" THEN <<pc[w].digest[1]>>
    ELSE <<pc[w].digest[1], pc[w].head>>

\* The patch looks at the base branch first.
Begin(w) == Go(w, IF KeyOf(pc[w].item) = "publish" THEN "base" ELSE "probe")

(***************************************************************************)
(* Claim before the effect.  The claim of another request for the same key *)
(* is a conflict, a claim that has an outcome replays it, and a claim that *)
(* has none, or an error, makes the effect unknown.  A review that cannot  *)
(* be rendered is told as failed after its claim, which gets no outcome.   *)
(***************************************************************************)
Claim(w) ==
    LET k == KeyOf(pc[w].item)
        d == RequestDigest(w)
    IN  /\ At(w, "claim")
        /\ \/ /\ claims[k] = <<>>
              /\ claims' = [claims EXCEPT ![k] = d]
              /\ Begin(w) /\ UNCHANGED told
           \/ /\ claims[k] = <<>> /\ k \in Range(Findings)
              /\ claims' = [claims EXCEPT ![k] = d]
              /\ Finish(w, "failed")
           \/ /\ claims[k] \notin {<<>>, d}
              /\ UNCHANGED claims /\ Finish(w, "failed")
           \/ /\ claims[k] = d
              /\ UNCHANGED claims
              /\ Finish(w, IF outcome[k] = "none" THEN "unknown" ELSE outcome[k])
           \/ /\ claims' \in {claims, IF claims[k] = <<>> THEN [claims EXCEPT ![k] = d] ELSE claims}
              /\ Finish(w, "unknown")
        /\ UNCHANGED <<job, forge, late, outcome, attempts, meddled, sent, applied>>

\* The patch is published only onto the base commit it was verified on.  A base
\* branch that is not found is a failure as well.
CheckBase(w) ==
    /\ At(w, "base")
    /\ \/ base /\ Go(w, "probe")
       \/ End(w, "failed")
       \/ End(w, "unknown")
    /\ UNCHANGED <<job, forge, late, ledger, attempts, meddled, sent, applied, told>>

\* The item is there: the next item of the patch, or the record of the effect.
Ensured(w) ==
    LET i == pc[w].item IN
    IF i \in DOMAIN Then THEN GoItem(w, "probe", Then[i]) ELSE End(w, "succeeded")

(***************************************************************************)
(* commitOutcome: the record is written, or the write failed and reading   *)
(* it back does not show it; then the effect is unknown to this call,      *)
(* whatever is stored.                                                     *)
(***************************************************************************)
Record(w) ==
    LET k == KeyOf(pc[w].item) IN
    /\ At(w, "record")
    /\ \/ outcome' = [outcome EXCEPT ![k] = pc[w].end] /\ Finish(w, pc[w].end)
       \/ /\ outcome' \in {outcome, [outcome EXCEPT ![k] = pc[w].end]}
          /\ Finish(w, "unknown")
    /\ UNCHANGED <<job, forge, late, claims, attempts, meddled, sent, applied>>

\* PublishFindings reads the pull request it reviews; a failed read or another
\* target is told as unknown, before any effect.
ReadTarget(w) ==
    /\ At(w, "target")
    /\ \/ /\ pr # "absent" /\ ref # "absent"
          /\ IF Plan(pc[w].digest[1]) = {} THEN Answer(w, pc[w].patch, "succeeded")
             ELSE /\ Become(w, [pc[w] EXCEPT !.stage = "claim", !.item = First(pc[w].digest[1]),
                                            !.head = ref])
                  /\ UNCHANGED told
       \/ Answer(w, pc[w].patch, "unknown")
    /\ UNCHANGED <<job, forge, late, ledger, attempts, meddled, sent, applied>>

-----------------------------------------------------------------------------
(***************************************************************************)
(* githubpublish.Client: every item is probed, sent at most once, proved.  *)
(***************************************************************************)

\* What a look at the forge says of an item: it is there, it is missing and may
\* be sent, or something else is in its place.
SeenBranch == CASE shown = "absent" -> "missing" [] shown = "base" -> "there" [] OTHER -> "conflict"

SeenCommit == IF shown = "base" THEN "missing" ELSE "conflict"

SeenPullRequest == CASE pr = "absent" -> "missing" [] pr = "ours" -> "there" [] OTHER -> "conflict"

SeenLabels == IF labels THEN "there" ELSE "missing"

SeenSection(d, head) ==
    CASE ref # head \/ section \notin {"absent", d} -> "conflict"
      [] ref = head /\ section = "absent" -> "missing"
      [] OTHER -> "there"

SeenReview(f, head) ==
    CASE ref # head -> "conflict"
      [] ref = head /\ review[f] = "absent" -> "missing"
      [] OTHER -> IF review[f] = head THEN "there" ELSE "unproven"

Seen(i, head) ==
    CASE i = "branch" -> SeenBranch [] i = "commit" -> SeenCommit
      [] i = "pr" -> SeenPullRequest [] i = "labels" -> SeenLabels
      [] i \in Digests -> SeenSection(i, head) [] OTHER -> SeenReview(i, head)

\* The client refuses a request whose text it does not accept, and reports what the forge
\* does not find: for these items before anything is sent.
MayRefuse(i) == i \notin {"branch", "labels"}

Probe(w) ==
    LET seen == Seen(pc[w].item, pc[w].head) IN
    /\ At(w, "probe")
    /\ \/ seen = "there" /\ Ensured(w)
       \/ /\ seen = "missing"
          /\ Become(w, [pc[w] EXCEPT !.stage = IF pc[w].item = "commit" THEN "objects" ELSE "send",
                                    !.body = pr])
       \/ (seen = "conflict" \/ MayRefuse(pc[w].item)) /\ End(w, "failed")
       \/ End(w, "unknown")
    /\ UNCHANGED <<job, forge, late, ledger, attempts, meddled, sent, applied, told>>

\* The blobs, the tree and the commit object are written and read back; nothing
\* refers to them yet.
WriteObjects(w) ==
    /\ At(w, "objects")
    /\ Go(w, "send") \/ End(w, "unknown")
    /\ UNCHANGED <<job, forge, late, ledger, attempts, meddled, sent, applied, told>>

\* Whether the forge accepts the request for item i.
Accepts(i) ==
    CASE i = "branch" -> ref = "absent"
      [] i = "commit" -> ref = "base"
      [] i = "pr"     -> pr = "absent" /\ ref # "absent"
      [] OTHER        -> TRUE

\* The forge performs the request for item i.  The body of the pull request is
\* replaced as a whole, by the one that was read with the section appended.
Perform(i, body, head) ==
    /\ ref' = CASE i = "branch" -> "base" [] i = "commit" -> "patch" [] OTHER -> ref
    /\ pr' = CASE i = "pr" -> "ours" [] i \in Digests -> body [] OTHER -> pr
    /\ labels' = (i = "labels" \/ labels)
    /\ section' = IF i \in Digests THEN i ELSE section
    /\ review' = IF i \in Range(Findings) THEN [review EXCEPT ![i] = head] ELSE review
    /\ applied' = applied \cup {i}
    /\ UNCHANGED <<base, shown>>

Send(w) ==
    LET i == pc[w].item IN
    /\ At(w, "send")
    /\ sent' = [sent EXCEPT ![i] = @ + 1]
    /\ \/ /\ Accepts(i)
          /\ Perform(i, pc[w].body, pc[w].head)
          /\ UNCHANGED late
          /\ Go(w, IF i \in Digests /\ ref # pc[w].head THEN "lost" ELSE "answered") \/ Go(w, "lost")
       \/ /\ ~Accepts(i) \/ i \notin Patch
          /\ Go(w, "refused")
          /\ UNCHANGED <<forge, late, applied>>
       \/ /\ late' \in {late, late \cup {[item |-> i, body |-> pc[w].body, head |-> pc[w].head]}}
          /\ Go(w, "lost")
          /\ UNCHANGED <<forge, applied>>
    /\ UNCHANGED <<job, ledger, attempts, meddled, told>>

\* A request whose sender has given up takes effect, or never does.
LateRequest(r) ==
    /\ late' = late \ {r}
    /\ \/ Accepts(r.item) /\ Perform(r.item, r.body, r.head)
       \/ UNCHANGED <<forge, applied>>
    /\ UNCHANGED <<job, ledger, pc, attempts, meddled, sent, told>>

\* Reads of the branch show a change after some time.
CatchUp ==
    /\ shown # ref
    /\ shown' = ref
    /\ UNCHANGED <<job, base, ref, pr, labels, section, review, late, ledger, pc, attempts,
                   meddled, sent, applied, told>>

\* What the look after the request says: it took effect, something else is in
\* its place, or neither can be shown.
ProofOfBranch == CASE shown = "base" -> "there" [] shown = "absent" -> "unproven" [] OTHER -> "conflict"

ProofOfCommit == CASE shown = "patch" -> "there" [] shown = "other" -> "conflict" [] OTHER -> "unproven"

\* Mutant: an answer that was lost is taken for a success.
MutantProofOfPullRequest(stage) == "there"

ProofOfPullRequest(stage) ==
    CASE pr = "ours" -> "there"
      [] pr # "ours" /\ (pr = "absent" \/ stage = "answered") -> "unproven"
      [] OTHER -> "conflict"

ProofOfLabels == IF labels THEN "there" ELSE "unproven"

ProofOfSection(d, stage, head) ==
    IF stage = "answered" \/ (ref = head /\ section = d) THEN "there"
    ELSE IF stage = "refused" THEN "conflict" ELSE "unproven"

ProofOfReview(f, stage, head) ==
    IF review[f] = head THEN "there" ELSE IF stage = "refused" THEN "conflict" ELSE "unproven"

Proof(i, stage, head) ==
    CASE i = "branch" -> ProofOfBranch [] i = "commit" -> ProofOfCommit
      [] i = "pr" -> ProofOfPullRequest(stage) [] i = "labels" -> ProofOfLabels
      [] i \in Digests -> ProofOfSection(i, stage, head) [] OTHER -> ProofOfReview(i, stage, head)

\* Mutant: a request that cannot be proved is sent again.
MutantProve(w) ==
    LET proof == Proof(pc[w].item, pc[w].stage, pc[w].head) IN
    /\ pc[w].stage \in {"answered", "refused", "lost"}
    /\ \/ proof = "there" /\ Ensured(w)
       \/ proof = "conflict" /\ End(w, "failed")
       \/ proof = "unproven" /\ Go(w, "send")
    /\ UNCHANGED <<job, forge, late, ledger, attempts, meddled, sent, applied, told>>

(***************************************************************************)
(* The proof after a request.  A branch is read again for some time before *)
(* it is given up; the request is never repeated.                          *)
(***************************************************************************)
Prove(w) ==
    LET proof == Proof(pc[w].item, pc[w].stage, pc[w].head) IN
    /\ pc[w].stage \in {"answered", "refused", "lost"}
    /\ \/ proof = "there" /\ Ensured(w)
       \/ proof = "conflict" /\ End(w, "failed")
       \/ End(w, "unknown")
    /\ UNCHANGED <<job, forge, late, ledger, attempts, meddled, sent, applied, told>>

-----------------------------------------------------------------------------
(***************************************************************************)
(* Crashes and other people.                                               *)
(***************************************************************************)

Crash(w) ==
    /\ ~At(w, "idle")
    /\ Become(w, Idle)
    /\ UNCHANGED <<job, forge, late, ledger, attempts, meddled, sent, applied, told>>

Meddle(what) ==
    /\ Cardinality(meddled) < MaxMeddling
    /\ meddled' = meddled \cup {what}
    /\ UNCHANGED <<job, review, late, ledger, pc, attempts, sent, applied, told>>

MoveBase ==
    /\ Meddle("base")
    /\ base' = FALSE
    /\ UNCHANGED <<ref, shown, pr, labels, section>>

Push ==
    /\ Meddle("push")
    /\ ref # "other"
    /\ ref' = "other"
    /\ UNCHANGED <<base, shown, pr, labels, section>>

EditPullRequest ==
    /\ Meddle("edit")
    /\ pr = "ours" /\ pr' = "edited"
    /\ UNCHANGED <<base, ref, shown, labels, section>>

EditSection ==
    /\ Meddle("section")
    /\ pr # "absent" /\ section # "other" /\ section' = "other"
    /\ UNCHANGED <<base, ref, shown, pr, labels>>

Relabel ==
    /\ Meddle("labels")
    /\ labels /\ labels' = FALSE
    /\ UNCHANGED <<base, ref, shown, pr, section>>

-----------------------------------------------------------------------------
Worker(w) ==
    \/ \E d \in Digests : Start(w, d)
    \/ LoadFails(w) \/ Decide(w)
    \/ Claim(w) \/ CheckBase(w) \/ Record(w) \/ ReadTarget(w)
    \/ Probe(w) \/ WriteObjects(w) \/ Send(w) \/ Prove(w)
    \/ Crash(w)

Others ==
    \/ MoveBase \/ Push \/ EditPullRequest \/ EditSection \/ Relabel

Next ==
    \/ \E w \in Workers : Worker(w)
    \/ \E r \in late : LateRequest(r)
    \/ CatchUp
    \/ Others

Spec == Init /\ [][Next]_vars

-----------------------------------------------------------------------------
Claimed == {<<>>} \cup {<<d>> : d \in Digests} \cup (Digests \X Commits)

Position ==
    [stage : Stages, item : Items, digest : {<<>>} \cup {<<d>> : d \in Digests}, head : Commits,
     body : PullRequests, end : Outcomes \cup {"none"}, patch : {"skipped", "succeeded"}]

\* Every variable stays in its range.
TypeOK ==
    /\ job \in Jobs /\ base \in BOOLEAN /\ labels \in BOOLEAN
    /\ ref \in Commits /\ shown \in Commits
    /\ pr \in PullRequests
    /\ section \in Sections
    /\ review \in [Range(Findings) -> Commits]
    /\ late \subseteq [item : Items, body : PullRequests, head : Commits]
    /\ claims \in [Keys -> Claimed] /\ outcome \in [Keys -> Outcomes \cup {"none"}]
    /\ pc \in [Workers -> Position]
    /\ attempts \in 0 .. MaxAttempts
    /\ meddled \subseteq {"base", "push", "edit", "section", "labels"}
    /\ sent \in [Items -> Nat] /\ applied \subseteq Items
    /\ told \subseteq [digest : {<<>>} \cup {<<d>> : d \in Digests}, patch : States, findings : States]

(***************************************************************************)
(* "Never repeat the POST or PATCH mutation": whatever answers are lost,   *)
(* whoever crashes, and however many operators drive the run, the forge is *)
(* asked once at most for the branch, the commit, the pull request, its    *)
(* labels, each review, and each report's advisory section.                *)
(***************************************************************************)
OneRequestPerItem == \A i \in Items : sent[i] <= 1

(***************************************************************************)
(* A recorded success is a fact about the forge: this publication's commit *)
(* is on the branch and its pull request was opened, or its section or     *)
(* review was put there; a lost answer is never taken for one.             *)
(***************************************************************************)
SuccessIsOnTheForge ==
    /\ outcome["publish"] = "succeeded" => {"commit", "pr"} \subseteq applied
    /\ \A k \in Keys \ {"publish"} : outcome[k] = "succeeded" => k \in applied

(***************************************************************************)
(* A recorded failure of the patch is final: no request that was given up  *)
(* can still change the branch or open the pull request, and there is no   *)
(* pull request of this publication unless somebody has edited it.  Only   *)
(* an unknown outcome leaves that open.                                    *)
(***************************************************************************)
FailureIsFinal ==
    outcome["publish"] = "failed" =>
        /\ \A r \in late : r.item \in {"branch", "commit", "pr"} => ~Accepts(r.item)
        /\ "pr" \in applied => "edit" \in meddled

(***************************************************************************)
(* What the controller is told is what the ledger says: success of the     *)
(* patch, and of the findings as a whole, is recorded under every key, and *)
(* a definite failure is a recorded one or the claim of another request.   *)
(***************************************************************************)
AnswersAreRecorded ==
    \A a \in told :
        /\ a.patch = "succeeded" => outcome["publish"] = "succeeded"
        /\ a.patch = "failed" =>
              outcome["publish"] = "failed" \/ claims["publish"] # a.digest
        /\ a.findings = "succeeded" => \A k \in Plan(a.digest[1]) : outcome[k] = "succeeded"
        /\ a.findings = "failed" =>
              \E k \in Reviews : outcome[k] = "failed" \/ claims[k] # <<>>

\* Findings are published only onto the pull request of a proven patch when
\* the run asks for both.
FindingsFollowPatch ==
    job.output = "both" /\ (\E i \in Items \ Patch : sent[i] > 0)
        => outcome["publish"] = "succeeded"

(***************************************************************************)
(* All reviews of a run are on one commit, even when the pull request is   *)
(* pushed to while they are being published and the publication is resumed *)
(* after a crash.                                                          *)
(***************************************************************************)
ReviewsShareHead ==
    \A f, g \in Range(Findings) :
        review[f] # "absent" /\ review[g] # "absent" => review[f] = review[g]

\* A patch that an enforcing Gate rejected leaves no trace, in the ledger or on
\* the forge, whatever output the run asks for.
RejectedIsSilent ==
    job.enforcing /\ ~job.accepted =>
        applied = {} /\ \A k \in Keys : claims[k] = <<>>

\* What is recorded and what is told is true.
OutcomesAreTrue ==
    SuccessIsOnTheForge /\ FailureIsFinal /\ AnswersAreRecorded /\ FindingsFollowPatch
    /\ RejectedIsSilent

Effect == INSTANCE ClaimedEffect WITH
    ledger <- IF claims["publish"] = <<>> THEN "none"
              ELSE IF outcome["publish"] = "none" THEN "claimed" ELSE outcome["publish"],
    done   <- "pr" \in applied

\* The publication implements the promise the controller relies on.
ImplementsEffect == Effect!Spec
=============================================================================
