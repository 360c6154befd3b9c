----------------------------- MODULE GateScoring -----------------------------
(***************************************************************************)
(* The weighted score of a Gate and the verdict it gives                   *)
(* (v3/internal/gatescoring): the checks of the verifier, all of them, and *)
(* the corroborated findings of the critic where the Gate asks for one.  A *)
(* missing pointer is <<>>, a present one <<v>>; an error is the result    *)
(* <<>>.  Reasons are kept as a set: the code sorts them and drops         *)
(* duplicates.                                                             *)
(***************************************************************************)
EXTENDS FindingCorroboration

CONSTANTS
    GateScoreScale,         \* 10000, the score of a perfect signal
    MaxExecutionChecks,
    MaxCriticFindings

ASSUME ScaleAssumption == GateScoreScale \in Nat \ {0, 1}

Points == 0..GateScoreScale

ExecutionOnly == [weight |-> GateScoreScale, min |-> GateScoreScale, critic |-> << >>]

Effective(signals) == IF signals = << >> THEN ExecutionOnly ELSE signals[1]

normalizeSignals(s) ==
    /\ s.weight \in Points /\ s.min \in Points
    /\ s.critic = << >> => s.weight = GateScoreScale /\ s.min = GateScoreScale
    /\ s.critic # << >> =>
          /\ s.critic[1].weight \in 1..GateScoreScale /\ s.weight >= 1
          /\ s.weight + s.critic[1].weight = GateScoreScale
          /\ s.critic[1].route # "" /\ s.critic[1].max \in 1..MaxCriticFindings

normalizeExecution(execution) ==
    /\ execution.score \in Points
    /\ Len(execution.checks) \in 1..MaxExecutionChecks
    /\ \A i, j \in DOMAIN execution.checks :
          execution.checks[i].name = execution.checks[j].name => i = j

ExecutionReasons(execution) ==
    {[from |-> "execution", check |-> execution.checks[i].name] :
        i \in {k \in DOMAIN execution.checks : execution.checks[k].blocking /\ ~execution.checks[k].passed}}

normalizeCriticResult(result, max) ==
    Len(result.findings) <= max /\ normalizeResult(result)

criticScoreFor(result) == IF result.counts.blocking > 0 THEN 0 ELSE GateScoreScale

criticBlockingReasons(result) ==
    {[from |-> "critic", finding |-> result.findings[i].id] :
        i \in {k \in DOMAIN result.findings : result.findings[k].route = "blocking"}}

CriticWeight(s) == IF s.critic = << >> THEN 0 ELSE s.critic[1].weight

weightedScore(execution, s, critic) ==
    (execution * s.weight + critic * CriticWeight(s)) \div GateScoreScale

(* Evaluate of the package: recomputed for every stored result, too.       *)
EvaluateScoring(signals, execution, critic) ==
    LET s == Effective(signals)
        criticScore == IF s.critic = << >> THEN GateScoreScale ELSE criticScoreFor(critic[1])
        weighted == weightedScore(execution.score, s, criticScore)
        reasons == ExecutionReasons(execution)
                   \cup (IF s.critic = << >> THEN {} ELSE criticBlockingReasons(critic[1]))
                   \cup (IF weighted < s.min THEN {[from |-> "score"]} ELSE {})
    IN  IF /\ normalizeSignals(s) /\ normalizeExecution(execution)
           /\ (s.critic # << >>) = (critic # << >>)
           /\ s.critic # << >> => normalizeCriticResult(critic[1], s.critic[1].max)
          THEN <<[signals |-> s, executionScore |-> execution.score, criticScore |-> criticScore,
                  weighted |-> weighted, checks |-> execution.checks, critic |-> critic,
                  reasons |-> reasons,
                  verdict |-> IF reasons = {} THEN "Accepted" ELSE "Rejected"]>>
          ELSE << >>

(* A result is canonical when evaluating its own inputs gives it back.     *)
canonicalizeResult(r) ==
    EvaluateScoring(<<r.signals>>, [score |-> r.executionScore, checks |-> r.checks], r.critic) = <<r>>

------------------------------------------------------------------------------
(* What the scoring promises *)

(* The signal of a Gate decision: every check blocks, and the score is all *)
(* or nothing.                                                             *)
FromDecision(execution) ==
    /\ \A i \in DOMAIN execution.checks : execution.checks[i].blocking
    /\ execution.score = IF \A i \in DOMAIN execution.checks : execution.checks[i].passed
                           THEN GateScoreScale ELSE 0

(* Whatever the weights and the minimum, the scoring of a Gate decision    *)
(* accepts exactly when every check passed and no finding blocks.          *)
ScoreNeverOverrides(signals, execution, critic) ==
    LET result == EvaluateScoring(signals, execution, critic)
    IN  (FromDecision(execution) /\ result # << >>) =>
            ((result[1].verdict = "Accepted") <=>
                /\ \A i \in DOMAIN execution.checks : execution.checks[i].passed
                /\ critic # << >> => \A k \in DOMAIN critic[1].findings : critic[1].findings[k].route # "blocking")

==============================================================================
