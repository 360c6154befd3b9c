--------------------------- MODULE MCVerification ---------------------------
(***************************************************************************)
(* Whole verifications, and questions put to the functions they are made   *)
(* of.  A behaviour either runs one verification or answers one question.  *)
(* Plans and Gate inputs are those that differ from a good one in a few    *)
(* respects.                                                               *)
(***************************************************************************)
EXTENDS Verifier

CONSTANT Questions      \* the kinds of question a behaviour may ask

VARIABLES asked, answered

CharactersInOrder == <<"!", "*", "-", "/", "?", "[", "]", "^", "a", "b", "c">>

Words(alphabet, n) == UNION {[1..k -> alphabet] : k \in 1..n}

\* All that differ from good in one or two fields, alternatives given by alt.
WithinOne(good, alt) == {good} \cup UNION {{[good EXCEPT ![x] = v] : v \in alt[x]} : x \in DOMAIN alt}
WithinTwo(good, alt) == UNION {WithinOne(g, alt) : g \in WithinOne(good, alt)}

------------------------------------------------------------------------------
(* Globs *)

GlobPatterns == {p \in Words({"a", "*", "?", "/"}, 5) : compileGlob(p)}
ClassPatterns == {p \in {<<"[">> \o b \o <<"]">> : b \in Words({"!", "]", "-", "a", "b", "c"}, 4)} : compileGlob(p)}
GlobValues == {v \in Words({"a", "b", "/"}, 4) : validRepoPath(v)}
ClassValues == {<<c>> : c \in {"!", "]", "-", "a", "b", "c", "^"}}

------------------------------------------------------------------------------
(* Findings *)

Finding(id, place) == [id |-> id, place |-> place, wellFormed |-> TRUE]

Evidence(id, class, finding, place, outcome, deterministic) ==
    [id |-> id, class |-> class, binding |-> [finding |-> finding, place |-> place], immutable |-> TRUE,
     digest |-> "content", artifact |-> id, deterministic |-> deterministic, independent |-> TRUE,
     payloads |-> {[kind |-> class, wellFormed |-> TRUE, outcome |-> outcome]}]

GoodEvidence == Evidence(1, "static", 1, "p", <<TRUE, TRUE>>, TRUE)

Payload(kind, outcome) == [kind |-> kind, wellFormed |-> TRUE, outcome |-> outcome]

EvidenceItems ==
    WithinTwo(GoodEvidence,
        [class |-> {"policy", "reproduction", "model-assertion"},
         binding |-> {[finding |-> f, place |-> p] : f \in {1, 2}, p \in {"p", "q"}},
         immutable |-> {FALSE}, digest |-> {"other"}, deterministic |-> {FALSE}, independent |-> {FALSE},
         payloads |-> {{}} \cup {{Payload(k, o)} : k \in {"policy", "reproduction", "model-assertion", "static"},
                                        o \in BOOLEAN \X BOOLEAN}])

CorroborationInputs ==
    {[findings |-> <<Finding(2, "q"), Finding(1, "p")>>, evidence |-> <<e>>] : e \in EvidenceItems}
    \cup {[findings |-> <<Finding(1, "p"), Finding(2, "q")>>, evidence |-> <<Evidence(2, k, f, p, o, TRUE), GoodEvidence>>] :
            k \in {"symbol-graph", "policy"}, f \in {1, 2}, p \in {"p", "q"}, o \in {<<TRUE, TRUE>>, <<FALSE, FALSE>>}}

NoFindings == [findings |-> << >>, evidence |-> << >>]
OneAdvisory == [findings |-> <<Finding(1, "p")>>, evidence |-> <<Evidence(1, "model-assertion", 1, "p", <<TRUE, TRUE>>, FALSE)>>]
OneBlocking == [findings |-> <<Finding(1, "p"), Finding(2, "q")>>, evidence |-> <<GoodEvidence>>]
TwoAdvisory == [findings |-> <<Finding(1, "p"), Finding(2, "q")>>, evidence |-> << >>]

------------------------------------------------------------------------------
(* Gate inputs *)

InA == <<"a", "/", "a">>
InB == <<"a", "/", "b">>
Outside == <<"c">>
ScriptPath == <<"b">>
OtherScript == <<"b", "/", "b">>

Decimal(negative, whole, tenths) == [valid |-> TRUE, negative |-> negative, whole |-> whole, tenths |-> tenths]
Bound(operator, d) == [kind |-> "bound", operator |-> operator, bound |-> d]
NoCoverage(kind) == [kind |-> kind, operator |-> ">=", bound |-> Decimal(FALSE, 0, 0)]
Seen(index, exit, sound) == [index |-> index, exit |-> exit, sound |-> sound]
Rule(id, blocking) == [id |-> id, contract |-> "m", script |-> "s", blocking |-> blocking, hasScript |-> TRUE]
Manual(id) == [id |-> id, contract |-> "m", script |-> "", blocking |-> FALSE, hasScript |-> FALSE]
Ran(id, script, exit) == [id |-> id, contract |-> "m", script |-> script, exit |-> exit, skipped |-> FALSE]
Skipped(id) == [Ran(id, "", << >>) EXCEPT !.skipped = TRUE]

GoodGate ==
    [within |-> <<<<"a", "/", "*", "*">>>>, forbidden |-> << >>, scopeRespected |-> TRUE, maxFiles |-> 2, maxLines |-> 3,
     noBinary |-> TRUE, coverage |-> Bound(">=", Decimal(FALSE, 0, 0)), testStrength |-> "newTestsMustFailOnBase",
     commands |-> <<[valid |-> TRUE], [valid |-> TRUE]>>, rules |-> <<Rule("r1", TRUE), Manual("r2")>>,
     paths |-> <<InA, InB>>, files |-> <<2>>, lines |-> <<3>>, binary |-> <<FALSE>>,
     measured |-> <<Decimal(FALSE, 1, 5)>>, tests |-> <<TRUE>>,
     ran |-> <<Seen(0, <<0>>, TRUE), Seen(1, <<0>>, TRUE)>>, policies |-> <<Skipped("r2"), Ran("r1", "s", <<0>>)>>]

GateDeviations ==
    [within |-> {<< >>, <<<<"a", "/", "a">>>>, <<<<"[">>>>, <<<<"*">>>>},
     forbidden |-> {<<Outside, InB>>, <<<<"[", "]">>>>, <<Outside, Outside, Outside, Outside>>},
     scopeRespected |-> {FALSE}, maxFiles |-> {0, 1, -1}, maxLines |-> {0, 2, -1}, noBinary |-> {FALSE},
     coverage |-> {NoCoverage("none"), NoCoverage("blank"), NoCoverage("malformed"), Bound(">", Decimal(TRUE, 0, 5))}
                  \cup {Bound(o, Decimal(FALSE, 1, 5)) : o \in {">", "==", "<=", "<"}},
     testStrength |-> {"none", "", "strong"},
     commands |-> {<< >>, <<[valid |-> TRUE], [valid |-> FALSE]>>, <<[valid |-> TRUE]>>, [i \in 1..4 |-> [valid |-> TRUE]]},
     rules |-> {<< >>, <<Manual("r2"), Rule("r1", FALSE)>>, <<Rule("r1", TRUE), Rule("r1", FALSE)>>,
                <<Rule("", TRUE), Manual("r2")>>, <<Rule("r1", TRUE), [Manual("r2") EXCEPT !.contract = "n"]>>},
     paths |-> {<< >>, <<InA>>, <<InA, InA>>, <<InA, Outside>>, <<InA, <<"/">>>>, <<InA, InB, Outside, ScriptPath, OtherScript>>},
     files |-> {<< >>, <<1>>, <<10>>}, lines |-> {<< >>, <<0>>, <<10>>, <<-1>>}, binary |-> {<< >>, <<TRUE>>},
     measured |-> {<< >>, <<Decimal(TRUE, 0, 0)>>, <<Decimal(TRUE, 0, 5)>>, <<[Decimal(FALSE, 1, 5) EXCEPT !.valid = FALSE]>>},
     tests |-> {<< >>, <<FALSE>>},
     ran |-> {<< >>, <<Seen(1, <<0>>, TRUE), Seen(0, <<0>>, TRUE)>>, <<Seen(0, <<0>>, TRUE)>>,
              <<Seen(0, <<0>>, TRUE), Seen(0, <<0>>, TRUE)>>, <<Seen(0, <<0>>, TRUE), Seen(1, <<0>>, TRUE), Seen(2, <<0>>, TRUE)>>,
              <<Seen(0, <<0>>, TRUE), Seen(1, <<1>>, TRUE)>>, <<Seen(0, << >>, FALSE), Seen(1, <<0>>, TRUE)>>,
              <<Seen(0, <<0>>, FALSE), Seen(1, <<0>>, TRUE)>>, [i \in 1..4 |-> Seen(i - 1, <<0>>, TRUE)]},
     policies |-> {<< >>, <<Ran("r1", "s", <<0>>)>>, <<Ran("r1", "s", <<1>>), Skipped("r2")>>,
                   <<Ran("r1", "t", <<0>>), Skipped("r2")>>, <<Ran("r1", "s", << >>), Skipped("r2")>>,
                   <<Ran("r1", "s", <<0>>), Ran("r1", "s", <<1>>)>>, <<Ran("r1", "s", <<0>>), Ran("r2", "s", <<1>>)>>}]

GateInputOf(g) ==
    [scope |-> [paths |-> g.within, forbidden |-> g.forbidden],
     require |-> [scopeRespected |-> g.scopeRespected, maxFiles |-> g.maxFiles, maxLines |-> g.maxLines,
                  noBinary |-> g.noBinary, coverage |-> g.coverage, testStrength |-> g.testStrength],
     commands |-> g.commands, rules |-> g.rules,
     observations |-> [paths |-> g.paths, files |-> g.files, lines |-> g.lines, binary |-> g.binary,
                       coverage |-> g.measured, tests |-> g.tests, commands |-> g.ran, policies |-> g.policies]]

GateQuestions == WithinTwo(GoodGate, GateDeviations)

Critic(weight, max) == <<[weight |-> weight, route |-> "route", max |-> max]>>

Signals ==
    {<< >>} \cup {<<[weight |-> w, min |-> m, critic |-> Critic(GateScoreScale - w, 2)]>> :
                    w \in 1..(GateScoreScale - 1), m \in {0, 1, GateScoreScale - 1, GateScoreScale}}

CriticResults == {Corroborate(f) : f \in {NoFindings, OneAdvisory, OneBlocking, TwoAdvisory}}

------------------------------------------------------------------------------
(* Policies *)

ScriptCheck(path) == <<[supported |-> TRUE, path |-> path]>>
PolicyRule(id, severity, check) == [id |-> id, severity |-> severity, check |-> check]

PolicyRules ==
    {PolicyRule(id, severity, ScriptCheck(path)) : id \in {1, 2}, severity \in {"blocking", "advisory"}, path \in {ScriptPath, OtherScript}}
    \cup {PolicyRule(2, "advisory", << >>), PolicyRule(1, "blocking", << >>), PolicyRule(0, "advisory", << >>)}

BaseScripts == [p \in {ScriptPath, OtherScript} |-> IF p = ScriptPath THEN "s" ELSE "t"]
GoodLoader == [p \in DOMAIN BaseScripts |->
    [base |-> "sha", path |-> p, kind |-> "regular", bytes |-> BaseScripts[p], digest |-> BaseScripts[p]]]
Loaders == {GoodLoader, [GoodLoader EXCEPT ![OtherScript].base = "head"], [GoodLoader EXCEPT ![OtherScript].digest = "s"]}
ScriptExits == {[b \in {"s", "t"} |-> IF b = "s" THEN x ELSE <<0>>] : x \in {<<0>>, <<1>>, << >>}}

PolicyInput(first, second) ==
    [base |-> "sha", spec |-> "spec", policies |-> <<[name |-> "p", rules |-> first], [name |-> "q", rules |-> second]>>]

PolicyInputs == {PolicyInput(<<r>>, <<q>>) : r, q \in PolicyRules}
    \cup {PolicyInput(<<PolicyRule(3, "advisory", << >>), r>>, <<q>>) : r, q \in PolicyRules}

------------------------------------------------------------------------------
(* Plans *)

Files == {InA, InB, Outside, ScriptPath, OtherScript}
BaseTree == [p \in Files |-> CASE p = InA -> "v1" [] p = InB -> "" [] p = Outside -> "v1" [] OTHER -> BaseScripts[p]]
GoodTree == [BaseTree EXCEPT ![InA] = "v2", ![InB] = "test"]

PatchOf(tree) == [tree |-> tree, headers |-> SetToSeq({p \in Files : tree[p] # BaseTree[p]}), binary |-> FALSE]

ChecksOf(rules) == GateChecks(DecodeManifest(Compile(PolicyInput(rules, <<PolicyRule(9, "advisory", << >>)>>), GoodLoader)[1].manifest)[1])

PlainSignals(max) == <<[weight |-> 1, min |-> 2, critic |-> Critic(GateScoreScale - 1, max)]>>

GoodPlan ==
    [commands |-> <<[valid |-> TRUE]>>, work |-> PatchOf(GoodTree), expected |-> "patch", lines |-> 3, delta |-> Decimal(FALSE, 0, 0),
     limits |-> [scopeRespected |-> TRUE, maxFiles |-> 2, maxLines |-> 3, noBinary |-> TRUE],
     coverage |-> Bound(">=", Decimal(FALSE, 0, 0)), testStrength |-> "newTestsMustFailOnBase",
     forbidden |-> <<Outside>>, policies |-> ChecksOf(<<PolicyRule(1, "blocking", ScriptCheck(ScriptPath))>>),
     exit |-> <<0>>, critic |-> [signals |-> << >>, findings |-> << >>], testFiles |-> {InB}]

PlanDeviations ==
    [commands |-> {[i \in 1..2 |-> [valid |-> TRUE]]},
     work |-> {PatchOf([GoodTree EXCEPT ![Outside] = "v2"]), PatchOf([BaseTree EXCEPT ![InA] = ""]),
               PatchOf([GoodTree EXCEPT ![InA] = "binary1"]), PatchOf(BaseTree),
               PatchOf([GoodTree EXCEPT ![InB] = "", ![ScriptPath] = "s2"]),
               [PatchOf(GoodTree) EXCEPT !.headers = <<InA>>], [PatchOf(GoodTree) EXCEPT !.headers = <<InA, InB, InA>>]},
     expected |-> {"other"}, lines |-> {4},
     delta |-> {Decimal(TRUE, 0, 5), Decimal(FALSE, 1, 0)},
     limits |-> {[scopeRespected |-> FALSE, maxFiles |-> 0, maxLines |-> 0, noBinary |-> FALSE]},
     coverage |-> {NoCoverage("none"), Bound(">=", Decimal(TRUE, 1, 0))},
     testStrength |-> {"none"}, forbidden |-> {<<Outside, InB>>},
     policies |-> {<< >>, ChecksOf(<<PolicyRule(1, "advisory", ScriptCheck(ScriptPath))>>)},
     exit |-> {<<1>>, << >>},
     critic |-> {[signals |-> PlainSignals(2), findings |-> <<f>>] : f \in {OneAdvisory, OneBlocking}}]

PlanOf(g) ==
    [gate |-> [require |-> [scopeRespected |-> g.limits.scopeRespected, maxFiles |-> g.limits.maxFiles,
                            maxLines |-> g.limits.maxLines, noBinary |-> g.limits.noBinary,
                            coverage |-> g.coverage, testStrength |-> g.testStrength],
               commands |-> g.commands, signals |-> g.critic.signals],
     scope |-> [paths |-> <<<<"a", "/", "*", "*">>>>, forbidden |-> g.forbidden],
     policies |-> g.policies, base |-> BaseTree, repo |-> g.work.tree,
     patch |-> [headers |-> g.work.headers, lines |-> IF g.work.headers = << >> THEN 0 ELSE g.lines,
                binary |-> g.work.binary, digest |-> "patch"],
     expected |-> g.expected, delta |-> [negative |-> g.delta.negative, whole |-> g.delta.whole, tenths |-> g.delta.tenths],
     exits |-> [b \in {"s", "t"} |-> g.exit], testFiles |-> g.testFiles, skills |-> <<"skill">>, findings |-> g.critic.findings]

GoodWork == PlanOf(GoodPlan)

\* Two deviations together where they bear on each other.
MCPlans ==
    {PlanOf(g) : g \in WithinOne(GoodPlan, PlanDeviations)
                    \cup WithinTwo(GoodPlan, [x \in {"work", "limits"} |-> PlanDeviations[x]])
                    \cup WithinTwo(GoodPlan, [x \in {"policies", "exit"} |-> PlanDeviations[x]])
                    \cup WithinTwo(GoodPlan, [x \in {"delta", "coverage"} |-> PlanDeviations[x]])
                    \cup {[GoodPlan EXCEPT !.work = PatchOf([GoodTree EXCEPT ![InA] = ""]), !.testFiles = {InA, InB}]}}

\* A fall in coverage by five whole points.
CoverageDropPlans == {PlanOf([GoodPlan EXCEPT !.delta = Decimal(TRUE, 5, 0)])}

\* A critic that returns one finding more than the Gate allows.
CriticPlans == {PlanOf([GoodPlan EXCEPT !.critic = [signals |-> PlainSignals(1), findings |-> <<TwoAdvisory>>]])}

------------------------------------------------------------------------------
(* The runs *)

Ask(kind) ==
    CASE kind = "glob" -> GlobPatterns \cup ClassPatterns
      [] kind = "findings" -> CorroborationInputs
      [] kind = "gate" -> GateQuestions
      [] kind = "policy" -> PolicyInputs \X Loaders
      [] OTHER -> {"verification"}

MCInit ==
    /\ \E kind \in Questions : \E q \in Ask(kind) : asked = [kind |-> kind, q |-> q]
    /\ answered = FALSE
    /\ plan \in IF asked.kind = "verify" THEN Plans ELSE {GoodWork}
    /\ StartsUp

Answer ==
    /\ asked.kind # "verify" /\ ~answered
    /\ answered' = TRUE
    /\ UNCHANGED <<asked, verificationVars>>

Verify ==
    /\ asked.kind = "verify"
    /\ VerificationNext
    /\ UNCHANGED <<asked, answered>>

MCSpec ==
    /\ MCInit /\ [][Answer \/ Verify]_<<asked, answered, verificationVars>>
    /\ WF_verificationVars(asked.kind = "verify" /\ VerifierStep /\ UNCHANGED <<asked, answered>>)
    /\ WF_verificationVars(asked.kind = "verify" /\ Judge /\ UNCHANGED <<asked, answered>>)

Answered(kind) == answered /\ asked.kind = kind

(* The index walk of the scope globs matches what the patterns mean, for   *)
(* every pattern and path up to the bounds.                                *)
GlobMeaning ==
    Answered("glob") =>
        \A v \in IF asked.q[1] = "[" THEN ClassValues ELSE GlobValues : MatchesMeaning(asked.q, v)

(* Findings are routed as they are earned.                                 *)
FindingsAreEarned == Answered("findings") => RoutesAreEarned(asked.q)

(* The Gate accepts exactly what meets it.                                 *)
GateIsExact == Answered("gate") => AcceptsExactly(GateInputOf(asked.q))

(* Every decision of the Gate can be reported.                             *)
DecisionsAreReported == Answered("gate") => EveryDecisionIsReported(GateInputOf(asked.q))

(* No weight and no minimum overrides a check or a blocking finding.       *)
ScoreDecidesNothing ==
    Answered("gate") =>
        LET execution == ExecutionOf(Evaluate(GateInputOf(asked.q)))
        IN  \A signals \in Signals, critic \in CriticResults :
                ScoreNeverOverrides(signals, execution, IF signals = << >> THEN << >> ELSE critic)

(* The projections of the policy contract agree.                           *)
PoliciesAgree ==
    Answered("policy") =>
        \A exits \in ScriptExits : ProjectionsAgree(asked.q[1], asked.q[2], BaseScripts, exits)

(* The algorithms of the verifier and the Gate agree with what they mean.  *)
AnswersMatchMeaning ==
    /\ GlobMeaning /\ FindingsAreEarned /\ PoliciesAgree
    /\ GateIsExact /\ DecisionsAreReported /\ ScoreDecidesNothing

(* A verification that is run comes to its signed report.                  *)
VerificationEnds == asked.kind = "verify" => VerdictIsSigned

==============================================================================
