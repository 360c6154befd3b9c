-------------------------- MODULE GateScoringProofs --------------------------
(***************************************************************************)
(* The weights and the minimum score of a Gate never decide: proved for    *)
(* every scale, every number of checks and every critic result.            *)
(***************************************************************************)
EXTENDS GateScoring, FiniteSetTheorems, TLAPS

(* Full marks on both signals give a full score: with weights that add up  *)
(* to the scale, no minimum can refuse it.                                 *)
LEMMA FullScore ==
    ASSUME NEW a \in Points, NEW b \in Points, a + b = GateScoreScale
    PROVE  (GateScoreScale * a + GateScoreScale * b) \div GateScoreScale = GateScoreScale
<1>1. GateScoreScale \in Nat /\ GateScoreScale > 0
    BY ScaleAssumption
<1>2. GateScoreScale * a + GateScoreScale * b = GateScoreScale * GateScoreScale
    BY <1>1 DEF Points
<1>3. (GateScoreScale * GateScoreScale) \div GateScoreScale = GateScoreScale
    BY <1>1
<1> QED BY <1>2, <1>3

(* The weights of signals that normalize add up to the scale.              *)
LEMMA WeightsAddUp ==
    ASSUME NEW s, normalizeSignals(s)
    PROVE  /\ s.weight \in Points /\ CriticWeight(s) \in Points /\ s.min \in Points
           /\ s.weight + CriticWeight(s) = GateScoreScale
<1>1. s.weight \in Points /\ s.min \in Points
    BY DEF normalizeSignals
<1>2. CASE s.critic = << >>
  <2>1. CriticWeight(s) = 0 /\ s.weight = GateScoreScale
      BY <1>2 DEF normalizeSignals, CriticWeight
  <2> QED BY <1>1, <2>1, ScaleAssumption DEF Points
<1>3. CASE s.critic # << >>
  <2>1. CriticWeight(s) \in 1..GateScoreScale /\ s.weight + CriticWeight(s) = GateScoreScale
      BY <1>3 DEF normalizeSignals, CriticWeight
  <2> QED BY <1>1, <2>1, ScaleAssumption DEF Points
<1> QED BY <1>2, <1>3

Blockers(findings) == {k \in DOMAIN findings : findings[k].route = "blocking"}

(* The count of blocking findings in a result that normalizes is zero      *)
(* exactly when none of its findings is routed as blocking.                *)
LEMMA CountsBlockers ==
    ASSUME NEW F, NEW result, result.findings \in Seq(F), normalizeResult(result)
    PROVE  /\ result.counts.blocking \in Nat
           /\ (result.counts.blocking = 0) <=> (Blockers(result.findings) = {})
<1> DEFINE findings == result.findings
           B == {f \in DOMAIN findings : FindingRoute(findings[f].evidence) = "blocking"}
<1>1. CountsOf(findings).blocking = Cardinality(B)
    BY DEF CountsOf
<1>2. result.counts = CountsOf(findings)
    BY DEF normalizeResult
<1>3. \A f \in DOMAIN findings : findings[f].route = FindingRoute(findings[f].evidence)
    BY DEF normalizeResult
<1>4. B = Blockers(findings)
    BY <1>3 DEF Blockers
<1>5. IsFiniteSet(B)
  <2>1. IsFiniteSet(1..Len(findings))
      BY FS_Interval
  <2>2. B \subseteq 1..Len(findings)
      OBVIOUS
  <2> QED BY <2>1, <2>2, FS_Subset
<1>6. Cardinality(B) \in Nat /\ (Cardinality(B) = 0 <=> B = {})
    BY <1>5, FS_CardinalityType, FS_EmptySet
<1> QED BY <1>1, <1>2, <1>4, <1>6

(* A score never overrides a blocking deterministic check or a             *)
(* corroborated finding, and never adds a refusal of its own: for every    *)
(* choice of weights and minimum that the Gate admits, the scoring of a    *)
(* decision (all checks blocking, score all or nothing) accepts exactly    *)
(* when all checks passed and no finding blocks.                           *)
THEOREM ScoreDecidesNothingElse ==
    ASSUME NEW F, NEW signals, NEW execution, NEW critic,
           critic # << >> => critic[1].findings \in Seq(F)
    PROVE  ScoreNeverOverrides(signals, execution, critic)
<1> DEFINE s == Effective(signals)
           criticScore == IF s.critic = << >> THEN GateScoreScale ELSE criticScoreFor(critic[1])
           weighted == weightedScore(execution.score, s, criticScore)
           reasons == ExecutionReasons(execution)
                      \cup (IF s.critic = << >> THEN {} ELSE criticBlockingReasons(critic[1]))
                      \cup (IF weighted < s.min THEN {[from |-> "score"]} ELSE {})
           record == [signals |-> s, executionScore |-> execution.score, criticScore |-> criticScore,
                      weighted |-> weighted, checks |-> execution.checks, critic |-> critic,
                      reasons |-> reasons, verdict |-> IF reasons = {} THEN "Accepted" ELSE "Rejected"]
           valid == /\ normalizeSignals(s) /\ normalizeExecution(execution)
                    /\ (s.critic # << >>) = (critic # << >>)
                    /\ s.critic # << >> => normalizeCriticResult(critic[1], s.critic[1].max)
           passed == \A i \in DOMAIN execution.checks : execution.checks[i].passed
           clear == critic # << >> => Blockers(critic[1].findings) = {}
<1>1. EvaluateScoring(signals, execution, critic) = IF valid THEN <<record>> ELSE << >>
    BY DEF EvaluateScoring
<1>2. SUFFICES ASSUME FromDecision(execution), valid PROVE (reasons = {}) <=> (passed /\ clear)
    BY <1>1 DEF ScoreNeverOverrides, Blockers
<1>3. ExecutionReasons(execution) = {} <=> passed
    BY <1>2 DEF ExecutionReasons, FromDecision
<1>4. critic # << >> => (criticBlockingReasons(critic[1]) = {} <=> Blockers(critic[1].findings) = {})
    BY DEF criticBlockingReasons, Blockers
<1>5. s.critic = << >> <=> critic = << >>
    BY <1>2
<1>6. ASSUME passed, clear PROVE ~(weighted < s.min)
  <2>1. execution.score = GateScoreScale
      BY <1>2, <1>6 DEF FromDecision
  <2>2. criticScore = GateScoreScale
    <3>1. CASE critic = << >>
        BY <3>1, <1>5
    <3>2. CASE critic # << >>
      <4>1. normalizeResult(critic[1])
          BY <3>2, <1>2, <1>5 DEF normalizeCriticResult
      <4>2. critic[1].counts.blocking = 0
          BY <4>1, <3>2, <1>6, CountsBlockers
      <4> QED BY <4>2, <3>2, <1>5 DEF criticScoreFor
    <3> QED BY <3>1, <3>2
  <2>3. s.weight \in Points /\ CriticWeight(s) \in Points /\ s.weight + CriticWeight(s) = GateScoreScale /\ s.min \in Points
      BY <1>2, WeightsAddUp
  <2>4. weighted = GateScoreScale
      BY <2>1, <2>2, <2>3, FullScore DEF weightedScore
  <2> QED BY <2>3, <2>4, ScaleAssumption DEF Points
<1> QED BY <1>3, <1>4, <1>5, <1>6

==============================================================================
