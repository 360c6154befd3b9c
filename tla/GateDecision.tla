---------------------------- MODULE GateDecision ----------------------------
(***************************************************************************)
(* The Gate (v3/internal/gate): the checks it makes of a verifier's        *)
(* observations, the decision, and the signed report that is built from    *)
(* the decision and the scoring.  Evaluate never fails: whatever is wrong  *)
(* with the policy or the evidence becomes a failed check.                 *)
(*                                                                         *)
(* A missing pointer is <<>>, a present one <<v>>; an empty digest or name *)
(* is "".  A decimal is a sign, a whole part and tenths.  The name of a    *)
(* check is a record, as the checks of the commands are numbered.          *)
(***************************************************************************)
EXTENDS ScopeGlob, GateScoring

CONSTANTS
    MaxChecks, MaxChangedPaths, MaxCommands, MaxScopePatterns, MaxPolicyChecks,
    MaxObserved             \* the largest count of files or lines taken for real

Present(v) == v # << >>

Name(rule) == [rule |-> rule, index |-> 0]
Check(name, passed) == <<[name |-> name, passed |-> passed, invalid |-> FALSE]>>
Invalid(name) == <<[name |-> name, passed |-> FALSE, invalid |-> TRUE]>>
When(condition, checks) == IF condition THEN checks ELSE << >>

------------------------------------------------------------------------------
(* Coverage *)

parseDecimal(d) == LET size == 10 * d.whole + d.tenths IN IF d.negative THEN -size ELSE size

(* The canonical text of a decimal: no sign on zero, no trailing zeros.    *)
normalizeDecimal(d) == [d EXCEPT !.negative = d.negative /\ parseDecimal(d) # 0]

validCoverageRequirement(requirement) == requirement.kind = "bound"

coverageSatisfies(requirement, observed) ==
    LET actual == parseDecimal(observed)
        expected == parseDecimal(requirement.bound)
    IN  /\ validCoverageRequirement(requirement) /\ observed.valid
        /\ CASE requirement.operator = ">=" -> actual >= expected
             [] requirement.operator = ">" -> actual > expected
             [] requirement.operator = "==" -> actual = expected
             [] requirement.operator = "<=" -> actual <= expected
             [] OTHER -> actual < expected

------------------------------------------------------------------------------
(* The observations *)

(* Too long a list is dropped, an unusable path replaced by a marker that  *)
(* is no path.                                                             *)
normalizeObservations(o) ==
    [o EXCEPT
        !.paths = IF Len(o.paths) > MaxChangedPaths THEN << >>
                  ELSE [i \in DOMAIN o.paths |-> IF validRepoPath(o.paths[i]) THEN o.paths[i] ELSE << >>],
        !.commands = IF Len(o.commands) > MaxCommands THEN << >> ELSE o.commands,
        !.policies = IF Len(o.policies) > MaxPolicyChecks THEN << >> ELSE o.policies]

validCounter(value) == Present(value) /\ value[1] \in 0..MaxObserved

summary(o) ==
    [paths |-> {p \in ToSet(o.paths) : validRepoPath(p)},
     files |-> IF validCounter(o.files) THEN o.files ELSE << >>,
     lines |-> IF validCounter(o.lines) THEN o.lines ELSE << >>,
     binary |-> o.binary,
     coverage |-> IF Present(o.coverage) /\ o.coverage[1].valid
                    THEN <<normalizeDecimal(o.coverage[1])>> ELSE << >>,
     tests |-> o.tests]

validateChangedPaths(paths) ==
    (\A i \in DOMAIN paths : validRepoPath(paths[i])) /\ IsInjective(paths)

validatePatterns(patterns) ==
    Len(patterns) <= MaxScopePatterns /\ \A i \in DOMAIN patterns : compileGlob(patterns[i])

pathsRespectScope(paths, scope) ==
    \A i \in DOMAIN paths :
        /\ \E j \in DOMAIN scope.paths : matchGlob(scope.paths[j], paths[i])
        /\ ~\E j \in DOMAIN scope.forbidden : matchGlob(scope.forbidden[j], paths[i])

------------------------------------------------------------------------------
(* Commands and policy *)

CommandName(i) == [rule |-> "verification.command", index |-> i]

Configured(commands) == SubSeq(commands, 1, IF Len(commands) > MaxCommands THEN MaxCommands ELSE Len(commands))

ItemsFor(observed, i) == SelectSeq(observed, LAMBDA o : o.index = i)

(* Index i of the code is command i + 1 here.                              *)
CommandPasses(commands, observed, i) ==
    LET items == ItemsFor(observed, i)
    IN  /\ Len(items) = 1 /\ commands[i + 1].valid
        /\ Present(items[1].exit) /\ items[1].sound /\ items[1].exit[1] = 0

CommandEvidenceInvalid(commands, observed) ==
    \/ \E k \in DOMAIN observed : observed[k].index \notin 0..(Len(commands) - 1)
    \/ \E i \in 0..(Len(commands) - 1) : Len(ItemsFor(observed, i)) # 1

(* The record of a command keeps what is complete, and nothing else.       *)
CommandRecords(commands, observed) ==
    [k \in DOMAIN commands |->
        LET items == ItemsFor(observed, k - 1)
            complete == Len(items) = 1 /\ Present(items[1].exit) /\ items[1].sound
        IN  [index |-> k - 1, observed |-> complete, exit |-> IF complete THEN items[1].exit ELSE << >>]]

evaluateCommands(commands, observed) ==
    [k \in DOMAIN commands |-> Check(CommandName(k - 1), CommandPasses(commands, observed, k - 1))[1]]
    \o When(CommandEvidenceInvalid(commands, observed), Invalid(Name("verification.evidence")))

RuleValid(rule) ==
    rule.id # "" /\ rule.contract # "" /\ (rule.hasScript <=> rule.script # "")

Ids(s) == {s[i].id : i \in DOMAIN s}

RuleNamed(rules, id) == rules[CHOOSE i \in DOMAIN rules :
    rules[i].id = id /\ \A j \in DOMAIN rules : rules[j].id = id => j <= i]

PolicyEvidenceValid(rules, observed) ==
    /\ \A i \in DOMAIN rules : RuleValid(rules[i]) /\ rules[i].contract = rules[1].contract
    /\ NoDuplicate(rules, LAMBDA r : r.id)
    /\ \A i \in DOMAIN observed : observed[i].id # "" /\ observed[i].contract = rules[1].contract
    /\ NoDuplicate(observed, LAMBDA o : o.id)
    /\ Ids(observed) = Ids(rules)

ObservationPasses(rule, o) ==
    IF rule.hasScript THEN o.script = rule.script /\ o.exit = <<0>>
                      ELSE o.skipped /\ o.script = "" /\ ~Present(o.exit)

evaluatePolicyChecks(rules, observed) ==
    LET failures == {i \in DOMAIN observed : observed[i].id \in Ids(rules)
                        /\ ~ObservationPasses(RuleNamed(rules, observed[i].id), observed[i])}
        valid == PolicyEvidenceValid(rules, observed)
    IN  CASE rules = << >> /\ observed = << >> -> << >>
          [] rules = << >> \/ observed = << >> -> Check(Name("policy.evidence"), FALSE)
          [] OTHER ->
               Check(Name("policy.evidence"), valid)
               \o Check(Name("policy.blocking"),
                        valid /\ ~\E i \in failures : RuleNamed(rules, observed[i].id).blocking)
               \o Check(Name("policy.advisory"), TRUE)

------------------------------------------------------------------------------
(* The decision *)

(* Every check the input calls for, in the order of the code.              *)
AllChecks(input) ==
    LET q == input.require
        raw == input.observations
        o == normalizeObservations(raw)
        paths == validateChangedPaths(o.paths)
        scope == validatePatterns(input.scope.paths) /\ validatePatterns(input.scope.forbidden)
        files == /\ validCounter(o.files) /\ o.files[1] = Len(o.paths)
                 /\ q.maxFiles > 0 => o.files[1] <= q.maxFiles
    IN  When(Len(raw.paths) > MaxChangedPaths \/ Len(raw.commands) > MaxCommands, Invalid(Name("input.bounds")))
        \o When(Len(input.scope.paths) + Len(input.scope.forbidden) > MaxScopePatterns, Invalid(Name("input.scope.bounds")))
        \o When(Len(input.commands) > MaxCommands, Invalid(Name("configuration.commands")))
        \o When(Len(input.rules) > MaxPolicyChecks \/ Len(raw.policies) > MaxPolicyChecks, Invalid(Name("policy.bounds")))
        \o When(~paths, Invalid(Name("observations.paths")))
        \o When(~scope, Invalid(Name("configuration.scope")))
        \o When(q.maxFiles > 0, Check(Name("files.max"), files))
        \o When(q.maxFiles <= 0 /\ q.scopeRespected, Check(Name("files.evidence"), files))
        \o When(q.maxLines > 0, Check(Name("diff.lines.max"), validCounter(o.lines) /\ o.lines[1] <= q.maxLines))
        \o When(q.noBinary, Check(Name("binary.none"), o.binary = <<FALSE>>))
        \o When(q.scopeRespected, Check(Name("scope.respected"), paths /\ scope /\ pathsRespectScope(o.paths, input.scope)))
        \o When(q.coverage.kind \in {"bound", "malformed"},
                Check(Name("coverage.delta"), Present(o.coverage) /\ coverageSatisfies(q.coverage, o.coverage[1])))
        \o When(q.testStrength = "newTestsMustFailOnBase", Check(Name("tests.new-fail-on-base"), o.tests = <<TRUE>>))
        \o evaluateCommands(Configured(input.commands), o.commands)
        \o When(input.commands = << >>, Invalid(Name("configuration.commands")))
        \o evaluatePolicyChecks(input.rules, o.policies)
        \o When(q.testStrength \notin {"none", "newTestsMustFailOnBase"}, Invalid(Name("configuration.test-strength")))
        \o When(q.testStrength = "", Invalid(Name("configuration.test-strength")))
        \o When(q.coverage.kind \in {"blank", "malformed"}, Invalid(Name("configuration.coverage")))
        \o When(q.maxFiles < 0 \/ q.maxLines < 0, Invalid(Name("configuration.bounds")))

(* A check that does not fit, or whose name is taken, is not recorded but  *)
(* spoils the decision.                                                    *)
AddChecks(all) ==
    LET upTo[i \in 0..Len(all)] ==
          IF i = 0 THEN << >>
          ELSE LET kept == upTo[i - 1]
               IN  IF Len(kept) >= MaxChecks \/ \E k \in DOMAIN kept : kept[k].name = all[i].name
                     THEN kept ELSE Append(kept, [name |-> all[i].name, passed |-> all[i].passed])
        checks == upTo[Len(all)]
    IN  [checks |-> checks, invalid |-> Len(checks) # Len(all) \/ \E i \in DOMAIN all : all[i].invalid]

Passing(checks) == \A i \in DOMAIN checks : checks[i].passed

Evaluate(input) ==
    LET d == AddChecks(AllChecks(input))
        o == normalizeObservations(input.observations)
    IN  [checks |-> IF d.invalid /\ d.checks = << >> THEN <<[name |-> Name("input.valid"), passed |-> FALSE]>>
                    ELSE d.checks,
         verdict |-> IF ~d.invalid /\ Passing(d.checks) THEN "Accepted" ELSE "Rejected",
         records |-> CommandRecords(Configured(input.commands), o.commands),
         evidence |-> summary(o)]

------------------------------------------------------------------------------
(* The report *)

validateDecision(d) ==
    /\ Len(d.checks) \in 1..MaxChecks
    /\ NoDuplicate(d.checks, LAMBDA c : c.name)
    /\ (d.verdict = "Accepted") = Passing(d.checks)
    /\ Len(d.records) <= MaxCommands

ExecutionOf(d) ==
    [score |-> IF d.verdict = "Accepted" THEN GateScoreScale ELSE 0,
     checks |-> [i \in DOMAIN d.checks |-> [name |-> d.checks[i].name, passed |-> d.checks[i].passed, blocking |-> TRUE]]]

(* The scoring must be that of these checks, and name the critic's route   *)
(* and its evidence exactly when a critic took part.                       *)
validateScoringBinding(result, d, route, corroboration) ==
    /\ {[name |-> c.name, passed |-> c.passed] : c \in ToSet(result.checks)} = ToSet(d.checks)
    /\ Len(result.checks) = Len(d.checks) /\ \A i \in DOMAIN result.checks : result.checks[i].blocking
    /\ IF Present(result.signals.critic)
         THEN route = result.signals.critic[1].route /\ corroboration # "" /\ Present(result.critic)
         ELSE route = "" /\ corroboration = "" /\ ~Present(result.critic)

canonicalizeCommands(records) ==
    /\ Len(records) <= MaxCommands /\ NoDuplicate(records, LAMBDA r : r.index)
    /\ \A i \in DOMAIN records : records[i].index \in 0..(MaxCommands - 1)
                                /\ records[i].observed = Present(records[i].exit)

canonicalizeEvidence(e) ==
    /\ Cardinality(e.paths) <= MaxChangedPaths /\ \A p \in e.paths : validRepoPath(p)
    /\ Present(e.files) => validCounter(e.files)
    /\ Present(e.lines) => validCounter(e.lines)
    /\ Present(e.coverage) => e.coverage[1].valid /\ normalizeDecimal(e.coverage[1]) = e.coverage[1]

canonicalizeScoring(s, checks) ==
    /\ {s.weight, s.criticWeight, s.min, s.executionScore, s.criticScore, s.weighted} \subseteq Points
    /\ s.weight + s.criticWeight = GateScoreScale
    /\ s.weighted = (s.executionScore * s.weight + s.criticScore * s.criticWeight) \div GateScoreScale
    /\ \A i \in DOMAIN checks :
          checks[i].passed \/ [from |-> "execution", check |-> checks[i].name] \in s.reasons
    /\ IF s.criticWeight = 0
         THEN /\ s.min = GateScoreScale /\ s.criticScore = GateScoreScale
              /\ s.route = "" /\ s.corroboration = ""
         ELSE s.weight >= 1 /\ s.route # "" /\ s.corroboration # ""

scoringVerdictFromProjection(s) ==
    IF s.reasons # {} \/ s.weighted < s.min THEN "Rejected" ELSE "Accepted"

canonicalizeReport(r) ==
    /\ IsInjective(r.skills)
    /\ canonicalizeEvidence(r.evidence) /\ canonicalizeCommands(r.records)
    /\ Len(r.checks) \in 1..MaxChecks /\ NoDuplicate(r.checks, LAMBDA c : c.name)
    /\ canonicalizeScoring(r.scoring, r.checks)
    /\ r.verdict = scoringVerdictFromProjection(r.scoring)

Projection(result, route, corroboration) ==
    [weight |-> result.signals.weight, criticWeight |-> CriticWeight(result.signals),
     min |-> result.signals.min, executionScore |-> result.executionScore,
     criticScore |-> result.criticScore, weighted |-> result.weighted, reasons |-> result.reasons,
     route |-> route, corroboration |-> corroboration]

scoringForReport(context, d) ==
    LET result == IF Present(context.scoring) THEN context.scoring
                  ELSE EvaluateScoring(<< >>, ExecutionOf(d), << >>)
    IN  IF /\ Present(result) /\ canonicalizeResult(result[1])
           /\ validateScoringBinding(result[1], d, context.route, context.corroboration)
          THEN result ELSE << >>

BuildReport(context, d) ==
    LET result == scoringForReport(context, d)
        report == [skills |-> context.skills, evidence |-> d.evidence, records |-> d.records, checks |-> d.checks,
                   scoring |-> Projection(result[1], context.route, context.corroboration),
                   verdict |-> result[1].verdict]
    IN  IF validateDecision(d) /\ Present(result) /\ canonicalizeReport(report) THEN <<report>> ELSE << >>

(* A signature covers the canonical report; key and contents are all of it.*)
SignReport(report, key) == [report |-> report, key |-> key, signature |-> <<key, report>>]

VerifySignedReport(signed, trusted) ==
    /\ Present(trusted) => signed.key = trusted[1]
    /\ canonicalizeReport(signed.report)
    /\ signed.signature = <<signed.key, signed.report>>

------------------------------------------------------------------------------
(* What the Gate promises *)

InScope(input, p) ==
    /\ \E i \in DOMAIN input.scope.paths : Denotes(Components(input.scope.paths[i]), Components(p))
    /\ ~\E i \in DOMAIN input.scope.forbidden : Denotes(Components(input.scope.forbidden[i]), Components(p))

(* Every requirement is set to something the Gate understands.             *)
Understood(input) ==
    /\ Len(input.commands) \in 1..MaxCommands /\ Len(input.rules) <= MaxPolicyChecks
    /\ \A i \in DOMAIN input.commands : input.commands[i].valid
    /\ Len(input.scope.paths) + Len(input.scope.forbidden) <= MaxScopePatterns
    /\ \A i \in DOMAIN input.scope.paths : compileGlob(input.scope.paths[i])
    /\ \A i \in DOMAIN input.scope.forbidden : compileGlob(input.scope.forbidden[i])
    /\ input.require.testStrength \in {"none", "newTestsMustFailOnBase"}
    /\ input.require.coverage.kind \in {"none", "bound"}
    /\ input.require.maxFiles >= 0 /\ input.require.maxLines >= 0

(* Every command and every rule has its one observation, and it passed.    *)
ObservedToPass(input) ==
    LET o == input.observations
    IN  /\ Len(o.commands) = Len(input.commands)
        /\ \A i \in DOMAIN input.commands : \E k \in DOMAIN o.commands :
              o.commands[k] = [index |-> i - 1, exit |-> <<0>>, sound |-> TRUE]
        /\ Len(o.policies) = Len(input.rules)
        /\ \A i \in DOMAIN input.rules : \E k \in DOMAIN o.policies :
              LET r == input.rules[i]
                  seen == o.policies[k]
              IN  /\ r.id # "" /\ r.contract # "" /\ r.contract = input.rules[1].contract
                  /\ r.hasScript <=> r.script # ""
                  /\ seen.id = r.id /\ seen.contract = r.contract
                  /\ r.blocking /\ r.hasScript => seen.script = r.script /\ seen.exit = <<0>>
                  /\ r.blocking /\ ~r.hasScript => seen.skipped /\ seen.script = "" /\ seen.exit = << >>
        /\ \A i, j \in DOMAIN input.rules : input.rules[i].id = input.rules[j].id => i = j

MeetsGate(input) ==
    LET q == input.require
        o == input.observations
    IN  /\ Understood(input) /\ ObservedToPass(input)
        /\ Len(o.paths) <= MaxChangedPaths /\ IsInjective(o.paths) /\ \A i \in DOMAIN o.paths : validRepoPath(o.paths[i])
        /\ q.scopeRespected \/ q.maxFiles > 0 => o.files = <<Len(o.paths)>> /\ Len(o.paths) <= MaxObserved
        /\ q.maxFiles > 0 => Len(o.paths) <= q.maxFiles
        /\ q.maxLines > 0 => o.lines # << >> /\ o.lines[1] \in 0..MaxObserved /\ o.lines[1] <= q.maxLines
        /\ q.noBinary => o.binary = <<FALSE>>
        /\ q.scopeRespected => \A i \in DOMAIN o.paths : InScope(input, o.paths[i])
        /\ q.testStrength = "newTestsMustFailOnBase" => o.tests = <<TRUE>>
        /\ q.coverage.kind = "bound" =>
              o.coverage # << >> /\ o.coverage[1].valid
              /\ LET gap == parseDecimal(o.coverage[1]) - parseDecimal(q.coverage.bound)
                 IN  \/ gap = 0 /\ q.coverage.operator \in {">=", "==", "<="}
                     \/ gap > 0 /\ q.coverage.operator \in {">=", ">"}
                     \/ gap < 0 /\ q.coverage.operator \in {"<=", "<"}

(* The Gate accepts exactly the evidence that is complete, unambiguous and *)
(* within every requirement, whatever else the lists hold.                 *)
AcceptsExactly(input) == (Evaluate(input).verdict = "Accepted") <=> MeetsGate(input)

(* No evidence, however malformed, keeps a verification from its signed    *)
(* report: every decision can be reported, and the report says what was    *)
(* decided, with a failed check to show for a rejection.                   *)
EveryDecisionIsReported(input) ==
    LET d == Evaluate(input)
        built == BuildReport([skills |-> << >>, scoring |-> << >>, route |-> "", corroboration |-> ""], d)
    IN  /\ built # << >> /\ built[1].verdict = d.verdict
        /\ d.verdict = "Rejected" => \E i \in DOMAIN d.checks : ~d.checks[i].passed

==============================================================================
