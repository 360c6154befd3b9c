------------------------------ MODULE Verifier ------------------------------
(***************************************************************************)
(* One verification, from the verifier's process (v3/internal/verifier) to *)
(* the signed report of the controller (v3/internal/verifycontroller).     *)
(*                                                                         *)
(* The verifier compares the applied tree with the base, runs the Gate's   *)
(* commands, the policy scripts, the coverage and the base tests, each     *)
(* under one deadline, and writes one evidence frame.  The Pod may be      *)
(* killed at any moment.  The controller reads what was written, puts it   *)
(* (or nothing) through the Gate, scores it with the critic's corroborated *)
(* findings, and builds and signs the report.                              *)
(*                                                                         *)
(* plan is what the run is: its Gate, policies, trees, patch and findings. *)
(* truth records what really happened, for the properties only.            *)
(***************************************************************************)
EXTENDS GateDecision, PolicyContract

CONSTANTS
    Plans,              \* the verifications that may be asked for
    Outcomes            \* what a process of the verifier may come to

VARIABLES
    plan,
    stage,              \* where the verifier's process is
    expired,            \* the deadline of the verifier has passed
    evidence,           \* the evidence it has gathered
    operational,        \* a command was stopped at a bound
    failure,            \* the error it has come to, "none" if none
    stdout,             \* what it has written
    truth,
    judged              \* the controller has come to its verdict

verifierVars == <<stage, expired, evidence, operational, failure, stdout, truth>>
verificationVars == <<plan, verifierVars, judged>>

Running == stage \notin {"exited", "killed"}
Finished == ~Running

(* A process that runs to its end has an exit code; one that is signalled  *)
(* has none; one stopped at the deadline or at its output limit, or that   *)
(* cannot be started, is operational.                                      *)
ExitOf(outcome) == CASE outcome = "passes" -> <<0>> [] outcome = "fails" -> <<1>> [] OTHER -> << >>

(* After the deadline every process is stopped.                            *)
MayCome(outcome) == outcome \in Outcomes /\ (expired => outcome = "stopped")

NoEvidence == [identity |-> "", paths |-> << >>, files |-> << >>, lines |-> << >>, binary |-> << >>,
               coverage |-> << >>, tests |-> << >>, commands |-> << >>, policies |-> << >>]

NoTruth == [commands |-> << >>, late |-> FALSE, coverage |-> << >>, tests |-> << >>]

------------------------------------------------------------------------------
(* Analysis of the trees *)

changedTreePaths(base, repo) == {p \in DOMAIN base : base[p] # repo[p]}

Binary(content) == content \in {"binary1", "binary2"}

analyzePatch(patch) ==
    IF patch.headers = << >> THEN [ok |-> patch.lines = 0, paths |-> {}]
    ELSE [ok |-> IsInjective(patch.headers) /\ patch.lines <= MaxObserved, paths |-> ToSet(patch.headers)]

(* The result of Analyze, or << >>.                                        *)
AnalysisOf(p) ==
    LET changed == changedTreePaths(p.base, p.repo)
        read == analyzePatch(p.patch)
    IN  IF Cardinality(changed) <= MaxChangedPaths /\ read.ok /\ read.paths = changed
          THEN <<[paths |-> SetToSeq(changed), lines |-> p.patch.lines,
                  binary |-> p.patch.binary \/ \E q \in changed : Binary(p.base[q]) \/ Binary(p.repo[q])]>>
          ELSE << >>

fallbackEvidence(p) ==
    [NoEvidence EXCEPT !.identity = p.patch.digest, !.binary = <<TRUE>>, !.tests = <<FALSE>>,
        !.commands = [i \in DOMAIN p.gate.commands |-> [index |-> i - 1, exit |-> << >>, sound |-> FALSE]]]

------------------------------------------------------------------------------
(* Frames *)

(* The verifier's own check of what it is about to write.                  *)
validateFrame(e) ==
    /\ e.identity # "" /\ Len(e.paths) <= MaxChangedPaths /\ Len(e.commands) <= MaxCommands
    /\ \A i \in DOMAIN e.paths : validRepoPath(e.paths[i])
    /\ Present(e.files) => e.files[1] = Len(e.paths)
    /\ Present(e.lines) => validCounter(e.lines)
    /\ \A i \in DOMAIN e.commands : e.commands[i].index = i - 1

(* A write puts out the whole frame, or a part of it and an error.         *)
Put(out, e, written) == Append(out, IF written THEN <<e>> ELSE << >>)

(* A frame that cannot be encoded or written is followed by the fallback.  *)
Emit(e, written, rewritten, cause) ==
    LET valid == validateFrame(e)
        once == IF valid THEN Put(stdout, e, written) ELSE stdout
        whole == valid /\ written
    IN  /\ stdout' = IF whole THEN once ELSE Put(once, fallbackEvidence(plan), rewritten)
        /\ failure' = IF whole THEN cause ELSE "output"
        /\ stage' = "leaving"

(* The fallback frames of the early exits are not retried.                 *)
EmitFallback(written, cause) ==
    /\ stdout' = Put(stdout, fallbackEvidence(plan), written)
    /\ failure' = IF written THEN cause ELSE "output"
    /\ stage' = "leaving"

(* Exactly one complete frame, and nothing else.                           *)
DecodeEvidenceFrame(written) ==
    IF Len(written) = 1 /\ Present(written[1]) THEN written[1] ELSE << >>

bind(e) == e.identity = plan.expected

------------------------------------------------------------------------------
(* The verifier's process *)

Analyze(written, readable) ==
    LET analysis == AnalysisOf(plan)
    IN  /\ stage = "analyze"
        /\ IF ~Present(analysis) /\ ~readable
             THEN stage' = "leaving" /\ failure' = "analysis" /\ UNCHANGED <<stdout, evidence>>
           ELSE IF ~Present(analysis)
             THEN EmitFallback(written, "analysis") /\ UNCHANGED evidence
           ELSE IF plan.patch.digest # plan.expected
             THEN EmitFallback(written, "identity") /\ UNCHANGED evidence
           ELSE /\ stage' = "commands"
                /\ evidence' = [NoEvidence EXCEPT !.identity = plan.patch.digest,
                      !.paths = analysis[1].paths, !.files = <<Len(analysis[1].paths)>>,
                      !.lines = <<analysis[1].lines>>, !.binary = <<analysis[1].binary>>]
                /\ UNCHANGED <<stdout, failure>>
        /\ UNCHANGED <<plan, expired, operational, truth, judged>>

Command(index, exit) == [index |-> index, exit |-> exit, sound |-> Present(exit)]

(* One command: none starts after the deadline or after a stopped one.     *)
RunCommand(outcome) ==
    LET i == Len(evidence.commands)
    IN  /\ stage = "commands" /\ i < Len(plan.gate.commands)
        /\ MayCome(outcome) /\ (operational => outcome = "stopped")
        /\ evidence' = [evidence EXCEPT !.commands = Append(@, Command(i, ExitOf(outcome)))]
        /\ operational' = (operational \/ outcome = "stopped")
        /\ truth' = [truth EXCEPT !.commands = Append(@, outcome)]
        /\ UNCHANGED <<plan, stage, expired, failure, stdout, judged>>

(* The scripts of the policy are read from the base; past the deadline     *)
(* none can be run.                                                        *)
RunPolicyChecks ==
    LET exits == IF expired THEN [b \in DOMAIN plan.exits |-> << >>] ELSE plan.exits
        ran == runPolicyChecks(plan.policies, plan.base, exits)
    IN  /\ stage = "commands" /\ Len(evidence.commands) = Len(plan.gate.commands)
        /\ evidence' = [evidence EXCEPT !.policies = ran.observations]
        /\ failure' = IF ran.failed THEN "policy" ELSE failure
        /\ truth' = [truth EXCEPT !.late = expired]
        /\ stage' = "coverage"
        /\ UNCHANGED <<plan, expired, operational, stdout, judged>>

(* The text of the measured change: a whole number loses its sign.         *)
verifierDecimal(d) ==
    IF d.tenths = 0 THEN [d EXCEPT !.negative = FALSE]
    ELSE d

(* The coverage of the base and of the patched tree, where it is asked.    *)
ComputeCoverageDelta(outcome) ==
    LET measured == outcome = "passes"
    IN  /\ stage = "coverage" /\ MayCome(outcome)
        /\ IF plan.gate.require.coverage.kind = "none" THEN UNCHANGED <<evidence, failure, truth>>
           ELSE /\ evidence' = [evidence EXCEPT !.coverage =
                       IF measured THEN <<verifierDecimal(plan.delta) @@ [valid |-> TRUE]>> ELSE << >>]
                /\ failure' = IF measured THEN failure ELSE "coverage"
                /\ truth' = [truth EXCEPT !.coverage = IF measured THEN <<plan.delta>> ELSE << >>]
        /\ stage' = "tests"
        /\ UNCHANGED <<plan, expired, operational, stdout, judged>>

TestPaths == {p \in ToSet(evidence.paths) : p \in plan.testFiles}

MutantVerifyTests(outcome) == outcome # "passes"

(* The changed test files can be laid over the base: all are still there.  *)
Overlays == TestPaths # {} /\ \A p \in TestPaths : plan.repo[p] # ""

(* The changed tests laid over the base must fail there by themselves.     *)
verifyNewTestsFailOnBase(outcome) == Overlays /\ outcome = "fails"

TestStrength(outcome) ==
    LET required == plan.gate.require.testStrength = "newTestsMustFailOnBase"
        strong == ~operational /\ verifyNewTestsFailOnBase(outcome)
    IN  /\ stage = "tests" /\ MayCome(outcome)
        /\ IF ~required THEN UNCHANGED <<evidence, failure, truth>>
           ELSE /\ evidence' = [evidence EXCEPT !.tests = <<strong>>]
                /\ failure' = IF failure \in {"none", "policy"} /\ ~strong THEN "tests" ELSE failure
                /\ truth' = [truth EXCEPT !.tests = IF ~operational /\ Overlays THEN <<outcome>> ELSE << >>]
        /\ stage' = "emit"
        /\ UNCHANGED <<plan, expired, operational, stdout, judged>>

EmitEvidence(written, rewritten) ==
    /\ stage = "emit"
    /\ Emit(evidence, written, rewritten, IF operational THEN "analysis" ELSE failure)
    /\ UNCHANGED <<plan, expired, evidence, operational, truth, judged>>

Expire ==
    /\ Running /\ stage \notin {"analyze", "leaving"} /\ ~expired
    /\ expired' = TRUE
    /\ UNCHANGED <<plan, stage, evidence, operational, failure, stdout, truth, judged>>

(* Run returns after the frame, and the process exits.                     *)
Leave ==
    /\ stage = "leaving"
    /\ stage' = "exited"
    /\ UNCHANGED <<plan, expired, evidence, operational, failure, stdout, truth, judged>>

(* The Pod goes, perhaps in the middle of a frame, perhaps right after it. *)
Kill ==
    /\ Running
    /\ stage' = "killed"
    /\ stdout' \in {stdout} \cup IF stage = "leaving" THEN {} ELSE {Append(stdout, << >>)}
    /\ UNCHANGED <<plan, expired, evidence, operational, failure, truth, judged>>

------------------------------------------------------------------------------
(* The controller *)

policyRuleProjection(checks) ==
    [i \in DOMAIN checks |->
        LET c == checks[i].check
        IN  [id |-> ToString(c.id), contract |-> "contract", blocking |-> checks[i].rejects,
             hasScript |-> c.script # << >>, script |-> IF c.script = << >> THEN "" ELSE c.script[1].digest]]

policyObservations(observed) ==
    [i \in DOMAIN observed |->
        [id |-> ToString(observed[i].id), contract |-> "contract", script |-> observed[i].script,
         exit |-> observed[i].exit, skipped |-> observed[i].skipped]]

Observations(e) ==
    [paths |-> e.paths, files |-> e.files, lines |-> e.lines, binary |-> e.binary, coverage |-> e.coverage,
     tests |-> e.tests, commands |-> e.commands, policies |-> policyObservations(e.policies)]

GateInput(e) ==
    [scope |-> plan.scope, require |-> plan.gate.require, commands |-> plan.gate.commands,
     rules |-> policyRuleProjection(plan.policies), observations |-> Observations(e)]

ReportContext(d, critic) ==
    [skills |-> plan.skills, scoring |-> EvaluateScoring(plan.gate.signals, ExecutionOf(d), critic),
     route |-> IF Present(critic) THEN "route" ELSE "",
     corroboration |-> IF Present(critic) THEN "corroboration" ELSE ""]

(* Evidence that is missing, malformed or of another patch is none at all: *)
(* the Gate then sees no observation.                                      *)
Frame == DecodeEvidenceFrame(stdout)
Usable == Present(Frame) /\ bind(Frame[1])
Used == IF Usable THEN Frame[1] ELSE NoEvidence
Decision == Evaluate(GateInput(Used))

CriticReport == IF Present(plan.findings) THEN Corroborate(plan.findings[1]) ELSE << >>

(* What the controller persists, or << >> when one of the steps fails and  *)
(* the reconcile ends in an error.                                         *)
persistReport(d, critic, context) ==
    LET built == BuildReport(context, d)
    IN  IF /\ Present(plan.findings) => Present(critic)
           /\ Usable \/ d.verdict = "Rejected"
           /\ Present(context.scoring) /\ Present(built)
          THEN <<SignReport(built[1], "operator")>> ELSE << >>

(* The one report that follows from what the verifier left behind.         *)
SignedReports ==
    UNION {{persistReport(d, critic, context) : context \in {ReportContext(d, critic)}} :
             d \in {Decision}, critic \in {CriticReport}}

MutantJudge ==
    /\ stage = "exited" /\ ~judged
    /\ judged' = TRUE
    /\ UNCHANGED <<plan, verifierVars>>

(* The report is a function of what the verifier left behind, so a step    *)
(* only says that it was made.                                             *)
Judge ==
    /\ Finished /\ ~judged
    /\ judged' = TRUE
    /\ UNCHANGED <<plan, verifierVars>>

StartsUp ==
    /\ stage = "analyze" /\ expired = FALSE /\ operational = FALSE /\ failure = "none"
    /\ evidence = NoEvidence /\ stdout = << >> /\ truth = NoTruth
    /\ judged = FALSE

VerificationInit == plan \in Plans /\ StartsUp

VerifierStep ==
    \/ \E written, readable \in BOOLEAN : Analyze(written, readable)
    \/ \E outcome \in Outcomes :
          RunCommand(outcome) \/ ComputeCoverageDelta(outcome) \/ TestStrength(outcome)
    \/ RunPolicyChecks
    \/ \E written, rewritten \in BOOLEAN : EmitEvidence(written, rewritten)
    \/ Leave

VerificationNext == VerifierStep \/ Expire \/ Kill \/ Judge

VerificationSpec ==
    /\ VerificationInit /\ [][VerificationNext]_verificationVars
    /\ WF_verificationVars(VerifierStep) /\ WF_verificationVars(Judge)

------------------------------------------------------------------------------
(* What a verification promises *)

Accepts(r) == Present(r) /\ r[1].report.verdict = "Accepted"

Changed == {p \in DOMAIN plan.base : plan.base[p] # plan.repo[p]}

Covers(patterns, p) == \E i \in DOMAIN patterns : Denotes(Components(patterns[i]), Components(p))

(* A drop by a whole number of points, whose sign the verifier loses.      *)
WholeDrop == plan.delta.negative /\ plan.delta.tenths = 0

Measured(d) == 10 * (IF d.negative THEN -d.whole ELSE d.whole) + (IF d.negative THEN -d.tenths ELSE d.tenths)

CoverageKept ==
    plan.gate.require.coverage.kind = "bound" =>
        Present(truth.coverage) /\ Measured(truth.coverage[1]) >= Measured(plan.gate.require.coverage.bound)

PatchWithinGate ==
    LET q == plan.gate.require
    IN  /\ plan.patch.digest = plan.expected
        /\ q.scopeRespected => \A p \in Changed : Covers(plan.scope.paths, p) /\ ~Covers(plan.scope.forbidden, p)
        /\ q.maxFiles > 0 => Cardinality(Changed) <= q.maxFiles
        /\ q.maxLines > 0 => plan.patch.lines <= q.maxLines
        /\ q.noBinary => \A p \in Changed : ~Binary(plan.base[p]) /\ ~Binary(plan.repo[p])

PolicyKept ==
    \A i \in DOMAIN plan.policies :
        LET c == plan.policies[i].check
        IN  c.severity = "blocking" => ~truth.late /\ plan.exits[plan.base[c.script[1].path]] = <<0>>

TestsAreStrong ==
    plan.gate.require.testStrength = "newTestsMustFailOnBase" =>
        /\ truth.tests = <<"fails">>
        /\ Changed \cap plan.testFiles # {}
        /\ \A p \in Changed \cap plan.testFiles : plan.repo[p] # ""

NothingBlocks ==
    Present(plan.findings) =>
        \A i \in DOMAIN plan.findings[1].findings : ~IsEarned(plan.findings[1].findings[i], plan.findings[1].evidence)

Deserved ==
    /\ PatchWithinGate /\ CoverageKept /\ PolicyKept /\ TestsAreStrong /\ NothingBlocks
    /\ truth.commands = [i \in DOMAIN plan.gate.commands |-> "passes"]

(* A verification accepts exactly the patches that deserve it and whose    *)
(* evidence arrived: every command passed, the trees really differ only    *)
(* within the scope and the limits, the unmodified blocking scripts        *)
(* passed, the changed tests, of which none was removed, failed on the     *)
(* base, and no finding is proved, whatever was killed, timed out or half  *)
(* written.  Whole-number drops in coverage, which the verifier reports    *)
(* without their sign, are left out.                                       *)
AcceptedIffDeserved(r) ==
    ~WholeDrop =>
        (Accepts(r) <=> Deserved /\ stdout = <<<<evidence>>>> /\ evidence.identity # "")

(* A verifier that failed is never taken for one that passed: an accepting *)
(* report rests on a process that came to no error before its frame was    *)
(* out, or to none but a policy script's (Run: an error is never converted *)
(* into an accepting observation), and at most one complete frame is ever  *)
(* written.  The frame of a process that was killed after writing it       *)
(* counts: the controller never looks at the exit code.                    *)
FailureNeverAccepts(r) ==
    /\ Accepts(r) => failure \in {"none", "policy"}
    /\ Cardinality({i \in DOMAIN stdout : Present(stdout[i])}) <= 1

(* A verdict says what the verification was worth.                         *)
VerdictIsDeserved ==
    judged => \A r \in SignedReports : AcceptedIffDeserved(r) /\ FailureNeverAccepts(r)

(* Every verification comes to a report that verifies under the operator's *)
(* key, whatever became of the verifier.                                   *)
VerdictIsSigned ==
    <>(judged /\ \A r \in SignedReports : Present(r) /\ VerifySignedReport(r[1], <<"operator">>))

==============================================================================
