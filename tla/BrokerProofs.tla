---------------------------- MODULE BrokerProofs ----------------------------
(***************************************************************************)
(* What the broker's answers and its ledger say is true, its effects keep  *)
(* the promise of a claimed effect, and its tool calls stay within their   *)
(* budget and phase, for any number of callers, tools, arguments and       *)
(* restarts.                                                               *)
(*                                                                         *)
(* Between the grant of a claim and the commit of its outcome one caller   *)
(* owns the key.  The argument says what an owner knows of its key in each *)
(* place (Own), that a key has one owner (OneOwner), and what the ledger   *)
(* says of a key nobody owns (KeyOK).                                      *)
(***************************************************************************)
EXTENDS Broker, FiniteSetTheorems, TLAPS

MutatingKeys == Mutating \X Arguments

Calling == {"reserve", "claim", "credential", "invoke", "shape", "commit"}
Owning  == {"credential", "invoke", "shape", "commit"}

\* What holds of one request, whatever the other callers do.
Local(c) ==
    /\ req[c].at \in Calling => req[c].call \in Key
    /\ req[c].at \in {"claim", "commit"} => Mutates(c)
    /\ req[c].at \in {"reserve", "claim", "credential", "model"} => ~req[c].sent
    /\ req[c].at = "shape" => /\ req[c].reply # "none"
                              /\ Mutates(c) => req[c].reply # "error"
    /\ req[c].at = "commit" => /\ req[c].outcome # "none"
                               /\ req[c].outcome = "failed" => ~req[c].sent
    /\ req[c].at # "idle" => req[c].answer = "none"
    /\ req[c].answer = "refused" => ~req[c].sent
    /\ req[c].answer = "succeeded" => req[c].call \in MutatingKeys
    /\ req[c].refs \subseteq stored

\* What a request for a mutating call knows of its key.
Own(c) ==
    req[c].call \in MutatingKeys =>
        /\ req[c].at \in Owning => ledger[KeyOf(c)] = "claimed"
        /\ req[c].at \in {"credential", "invoke"} => done[KeyOf(c)] = 0 /\ KeyOf(c) \notin late
        /\ req[c].at = "shape" => done[KeyOf(c)] = 1
        /\ req[c].at = "commit" /\ req[c].outcome = "succeeded" => done[KeyOf(c)] = 1
        /\ req[c].at = "commit" /\ req[c].outcome = "failed" =>
              done[KeyOf(c)] = 0 /\ KeyOf(c) \notin late
        /\ req[c].answer = "succeeded" => done[KeyOf(c)] = 1 /\ ledger[KeyOf(c)] = "succeeded"

Owns(c, k) == req[c].call = k /\ req[c].at \in Owning

OneOwner ==
    \A c, d \in Callers, k \in MutatingKeys : Owns(c, k) /\ Owns(d, k) => c = d

\* What the ledger says of a key is true of the tool server.
KeyOK(k) ==
    /\ done[k] \in {0, 1}
    /\ k \in late => done[k] = 0 /\ ledger[k] \in {"claimed", "unknown"}
    /\ ledger[k] \in {"none", "failed"} => done[k] = 0
    /\ ledger[k] = "succeeded" => done[k] = 1

\* Calls that have been reserved and may still be sent.
Pending == {c \in Callers : req[c].at \in {"claim", "credential"}}

Inv ==
    /\ TypeOK /\ OneOwner
    /\ \A c \in Callers : Local(c) /\ Own(c)
    /\ \A k \in Key : KeyOK(k)
    /\ PhaseGate
    /\ sends + Cardinality(Pending) <= budget.tools

-----------------------------------------------------------------------------
(* Types *)

ReqTypes == req \in [Callers -> Request]

WorldTypes ==
    /\ ledger \in [Key -> Outcomes \cup {"none", "claimed"}]
    /\ late \subseteq Key /\ done \in [Key -> Nat] /\ stored \subseteq Objects /\ sends \in Nat

BudgetTypes ==
    /\ budget \in [tools : 0 .. MaxToolCalls, requests : 0 .. MaxRequests, tokens : Nat, cost : Nat,
                   reserved : Nat, reservedCost : Nat]
    /\ overrun \in [tokens : Nat, cost : Nat]

SharedTypes ==
    /\ mode \in {"agent", "verifier"} /\ requireApproval \in BOOLEAN
    /\ phase \in {"explore", "edit", "verify"}
    /\ receipt \in {NoReceipt} \cup [id : PhaseRequests, status : {"granted", "denied"}]
    /\ restarts \in 0 .. MaxRestarts

LEMMA TypeParts == TypeOK <=> ReqTypes /\ WorldTypes /\ BudgetTypes /\ SharedTypes
BY Zenon DEF TypeOK, ReqTypes, WorldTypes, BudgetTypes, SharedTypes

LEMMA IdleType == Idle \in Request
BY Zenon DEF Idle, Request, Places, Outcomes

LEMMA HeardType == \A a : Heard(a) \in {"refused", "succeeded", "answered"}
BY Zenon DEF Heard

\* One request is replaced by a value of its type.
LEMMA RequestField ==
    ASSUME NEW r \in Request
    PROVE  /\ \A p \in Places : [r EXCEPT !.at = p] \in Request
           /\ \A p \in Places, o \in Outcomes : [r EXCEPT !.at = p, !.outcome = o] \in Request
           /\ \A p \in Places, o \in Outcomes, R \in SUBSET Objects :
                [r EXCEPT !.at = p, !.outcome = o, !.refs = R] \in Request
           /\ \A p \in Places, x \in {"small", "large", "error"} :
                [r EXCEPT !.at = p, !.reply = x] \in Request
           /\ \A p \in Places, a \in {"refused", "succeeded", "answered"} :
                [r EXCEPT !.at = p, !.answer = a] \in Request
           /\ \A p \in Places : [r EXCEPT !.at = p, !.sent = TRUE] \in Request
           /\ \A p \in Places, k \in Key : [r EXCEPT !.at = p, !.call = k] \in Request
           /\ \A p \in Places, i \in Nat, o \in Nat :
                [r EXCEPT !.at = p, !.input = i, !.output = o] \in Request
           /\ \A a \in {"refused", "succeeded", "answered"} : [r EXCEPT !.answer = a] \in Request
           /\ \A a \in {"refused", "succeeded", "answered"}, b \in BOOLEAN :
                [r EXCEPT !.answer = a, !.sent = b] \in Request
           /\ \A a \in {"refused", "succeeded", "answered"}, R \in SUBSET Objects :
                [r EXCEPT !.answer = a, !.refs = R] \in Request
           /\ \A a \in {"refused", "succeeded", "answered"}, R \in SUBSET Objects :
                [r EXCEPT !.answer = a, !.sent = TRUE, !.refs = R] \in Request
BY DEF Request

\* The request of caller c becomes r.
Becomes(c, r) == req' = [req EXCEPT ![c] = r]

LEMMA BecomesTypes ==
    ASSUME ReqTypes, NEW c \in Callers, NEW r \in Request, Becomes(c, r)
    PROVE  ReqTypes'
BY Zenon DEF ReqTypes, Becomes

LEMMA AnswerType ==
    ASSUME ReqTypes, NEW c \in Callers, NEW a
    PROVE  /\ [Idle EXCEPT !.answer = Heard(a), !.sent = req[c].sent] \in Request
           /\ [Idle EXCEPT !.answer = Heard(a)] \in Request
<1>1. req[c].sent \in BOOLEAN
    BY Zenon DEF ReqTypes, Request
<1> QED BY Zenon, <1>1, IdleType, HeardType, RequestField

LEMMA ResultType ==
    ASSUME ReqTypes, NEW c \in Callers, req[c].call \in Key, req[c].reply # "none"
    PROVE  Result(c) \in Objects
<1>1. req[c].reply \in {"small", "large", "error"}
    BY Zenon DEF ReqTypes, Request
<1>2. req[c].call[1] \in Tools /\ req[c].call[2] \in Arguments
    BY Zenon DEF Key
<1> QED BY Zenon, <1>1, <1>2 DEF Result, ToolOf, KeyOf, Objects

LEMMA CostType ==
    ASSUME NEW i \in Nat, NEW o \in Nat
    PROVE  EstimateCost(i, o) \in Nat
<1>1. InputPrice \in Nat /\ OutputPrice \in Nat
    BY Zenon, ConfigAssumption DEF ValidLimits
<1>2. i * InputPrice \in Nat /\ o * OutputPrice \in Nat
    BY <1>1
<1> QED BY <1>2 DEF EstimateCost

LEMMA LessType ==
    ASSUME NEW a \in Nat, NEW b \in Nat
    PROVE  Less(a, b) \in Nat
BY DEF Less

LEMMA SmallestOf ==
    ASSUME NEW a \in Nat, NEW b \in Nat, NEW S \in SUBSET Nat,
           S = {} \/ \E x \in Nat : S = {x}
    PROVE  Min({a, b} \cup S) \in Nat
<1>1. PICK m \in {a, b} \cup S : \A y \in {a, b} \cup S : m <= y
  <2>1. CASE S = {}
      BY <2>1
  <2>2. ASSUME NEW x \in Nat, S = {x} PROVE \E m \in {a, b} \cup S : \A y \in {a, b} \cup S : m <= y
    <3>1. CASE x <= a /\ x <= b
        BY <2>2, <3>1
    <3>2. CASE ~(x <= a /\ x <= b)
        BY <2>2, <3>2
    <3> QED BY Zenon, <3>1, <3>2
  <2> QED BY Zenon, <2>1, <2>2
<1>2. Min({a, b} \cup S) \in {a, b} \cup S
    BY Zenon, <1>1 DEF Min
<1> QED BY Zenon, <1>2

LEMMA EstimateType ==
    ASSUME BudgetTypes, NEW i \in Inputs, NEW l \in Limits, Affordable(i, l)
    PROVE  OutputEstimate(i, l) \in Nat
<1>1. i \in Nat /\ l \in Nat /\ OutputCap \in Nat /\ MaxTokens \in Nat
    BY Zenon, ConfigAssumption, BoundsAssumption DEF ValidLimits
<1>2. Remaining - i \in Nat
    BY <1>1 DEF Affordable, Remaining, BudgetTypes
<1> DEFINE S == IF l > 0 THEN {l} ELSE {}
<1>3. S \in SUBSET Nat /\ (S = {} \/ \E x \in Nat : S = {x})
    BY Zenon, <1>1
<1> HIDE DEF S
<1>4. Min({Remaining - i, OutputCap} \cup S) \in Nat
    BY Zenon, <1>1, <1>2, <1>3, SmallestOf
<1> QED BY Zenon, <1>4 DEF OutputEstimate, S

-----------------------------------------------------------------------------
(* Every step of a caller replaces its request by one of the right type. *)

LEMMA AnswerBecomes ==
    ASSUME ReqTypes, NEW c \in Callers, NEW a
    PROVE  /\ Answer(c, a) <=> Becomes(c, [Idle EXCEPT !.answer = Heard(a), !.sent = req[c].sent])
           /\ Refuse(c, a) <=> Becomes(c, [Idle EXCEPT !.answer = Heard(a)])
BY Zenon DEF Answer, Refuse, Becomes

LEMMA GoBecomes ==
    ASSUME ReqTypes, NEW c \in Callers
    PROVE  /\ \A p : Go(c, p) <=> Becomes(c, [req[c] EXCEPT !.at = p])
           /\ \A o : Conclude(c, o) <=> Becomes(c, [req[c] EXCEPT !.at = "commit", !.outcome = o])
<1>1. req = [d \in Callers |-> req[d]]
    BY Zenon DEF ReqTypes
<1>2. req[c] \in Request
    BY Zenon DEF ReqTypes
<1>3. ASSUME NEW p PROVE [req EXCEPT ![c].at = p] = [req EXCEPT ![c] = [req[c] EXCEPT !.at = p]]
    BY Zenon, <1>1, <1>2
<1>4. ASSUME NEW o
      PROVE  [req EXCEPT ![c].at = "commit", ![c].outcome = o]
           = [req EXCEPT ![c] = [req[c] EXCEPT !.at = "commit", !.outcome = o]]
    BY Zenon, <1>1, <1>2 DEF Request
<1>6. \A p : Go(c, p) <=> Becomes(c, [req[c] EXCEPT !.at = p])
    BY Zenon, <1>3 DEF Go, Becomes
<1>7. \A o : Conclude(c, o) <=> Becomes(c, [req[c] EXCEPT !.at = "commit", !.outcome = o])
    BY Zenon, <1>4 DEF Conclude, Becomes
<1> QED BY Zenon, <1>6, <1>7

LEMMA AnswerTypes ==
    ASSUME ReqTypes, NEW c \in Callers, NEW a, Answer(c, a) \/ Refuse(c, a)
    PROVE  ReqTypes'
BY Zenon, AnswerBecomes, AnswerType, BecomesTypes

LEMMA GoTypes ==
    ASSUME ReqTypes, NEW c \in Callers,
           (\E p \in Places : Go(c, p)) \/ (\E o \in Outcomes : Conclude(c, o))
    PROVE  ReqTypes'
<1>1. req[c] \in Request
    BY Zenon DEF ReqTypes
<1>2. "commit" \in Places
    BY Zenon DEF Places
<1>3. ASSUME NEW p \in Places, Go(c, p) PROVE ReqTypes'
  <2>1. [req[c] EXCEPT !.at = p] \in Request
      BY Zenon, <1>1, RequestField
  <2> QED BY Zenon, <1>3, <2>1, GoBecomes, BecomesTypes
<1>4. ASSUME NEW o \in Outcomes, Conclude(c, o) PROVE ReqTypes'
  <2>1. [req[c] EXCEPT !.at = "commit", !.outcome = o] \in Request
      BY Zenon, <1>1, <1>2, RequestField
  <2> QED BY Zenon, <1>4, <2>1, GoBecomes, BecomesTypes
<1> QED BY Zenon, <1>3, <1>4

LEMMA SucceedTypes ==
    ASSUME ReqTypes, NEW c \in Callers, NEW R \in SUBSET Objects, Succeed(c, R)
    PROVE  ReqTypes'
<1>1. req[c] \in Request
    BY Zenon DEF ReqTypes
<1>2. "commit" \in Places /\ "succeeded" \in Outcomes
    BY Zenon DEF Places, Outcomes
<1>3. Becomes(c, IF Mutates(c) THEN [req[c] EXCEPT !.at = "commit", !.outcome = "succeeded", !.refs = R]
                               ELSE [Idle EXCEPT !.answer = "answered", !.sent = TRUE, !.refs = R])
    BY Zenon DEF Succeed, Becomes, ReqTypes
<1>4. [req[c] EXCEPT !.at = "commit", !.outcome = "succeeded", !.refs = R] \in Request
    BY Zenon, <1>1, <1>2, RequestField
<1>5. [Idle EXCEPT !.answer = "answered", !.sent = TRUE, !.refs = R] \in Request
    BY Zenon, IdleType, RequestField
<1> QED BY Zenon, <1>3, <1>4, <1>5, BecomesTypes

LEMMA ShapeTypes ==
    ASSUME ReqTypes, WorldTypes, NEW c \in Callers, Local(c), ShapeResult(c)
    PROVE  ReqTypes' /\ stored' \subseteq Objects /\ stored \subseteq stored'
<1>1. Result(c) \in Objects
    BY Zenon, ResultType DEF Local, Calling, ShapeResult, At
<1>2. stored' \subseteq Objects /\ stored \subseteq stored'
    BY Zenon, <1>1 DEF ShapeResult, WorldTypes
<1>3. CASE \E R \in SUBSET Objects : Succeed(c, R)
    BY Zenon, <1>3, <1>2, SucceedTypes
<1>4. CASE Conclude(c, "unknown")
    BY Zenon, <1>4, <1>2, GoTypes DEF Outcomes
<1>5. CASE Answer(c, "unavailable")
    BY Zenon, <1>5, <1>2, AnswerTypes
<1>6. {} \in SUBSET Objects /\ {Result(c)} \in SUBSET Objects
    BY Zenon, <1>1
<1> QED BY <1>2, <1>3, <1>4, <1>5, <1>6, Zenon DEF ShapeResult

LEMMA UploadTypes ==
    ASSUME ReqTypes, WorldTypes, NEW c \in Callers, UploadArtifact(c)
    PROVE  ReqTypes' /\ stored' \subseteq Objects /\ stored \subseteq stored'
<1> DEFINE body == <<"artifact", "fixed", "body">>
<1>1. {body} \subseteq Objects
    BY Zenon DEF Objects
<1> HIDE DEF body
<1>2. stored' \subseteq Objects /\ stored \subseteq stored'
    BY Zenon, <1>1 DEF UploadArtifact, WorldTypes, body
<1>3. CASE Refuse(c, "unavailable")
    BY Zenon, <1>2, <1>3, AnswerTypes
<1>4. CASE Becomes(c, [Idle EXCEPT !.answer = "answered", !.refs = {body}])
  <2>1. [Idle EXCEPT !.answer = "answered", !.refs = {body}] \in Request
      BY Zenon, <1>1, IdleType, RequestField
  <2> QED BY Zenon, <1>2, <1>4, <2>1, BecomesTypes
<1> QED BY <1>2, <1>3, <1>4, Zenon DEF UploadArtifact, Becomes, body

LEMMA Constants ==
    /\ MaxToolCalls \in Nat /\ MaxRequests \in Nat /\ MaxTokens \in Nat /\ MaxCost \in Nat
    /\ MaxRestarts \in Nat /\ Inputs \subseteq Nat /\ Limits \subseteq Nat /\ Outputs \subseteq Nat
BY Zenon, ConfigAssumption, BoundsAssumption DEF ValidLimits

BudgetType == budget \in [tools : 0 .. MaxToolCalls, requests : 0 .. MaxRequests, tokens : Nat, cost : Nat,
                          reserved : Nat, reservedCost : Nat]

\* A budget whose counters are replaced keeps its type.
LEMMA BudgetUpdates ==
    ASSUME BudgetType
    PROVE  /\ \A n \in 0 .. MaxToolCalls : [budget EXCEPT !.tools = n]
                  \in [tools : 0 .. MaxToolCalls, requests : 0 .. MaxRequests, tokens : Nat, cost : Nat,
                       reserved : Nat, reservedCost : Nat]
           /\ \A n \in 0 .. MaxRequests, r \in Nat, s \in Nat :
                  [budget EXCEPT !.requests = n, !.reserved = r, !.reservedCost = s]
                  \in [tools : 0 .. MaxToolCalls, requests : 0 .. MaxRequests, tokens : Nat, cost : Nat,
                       reserved : Nat, reservedCost : Nat]
           /\ \A r \in Nat, s \in Nat : [budget EXCEPT !.reserved = r, !.reservedCost = s]
                  \in [tools : 0 .. MaxToolCalls, requests : 0 .. MaxRequests, tokens : Nat, cost : Nat,
                       reserved : Nat, reservedCost : Nat]
BY Zenon DEF BudgetType

LEMMA ReserveModelTypes ==
    ASSUME BudgetTypes, NEW i \in Nat, NEW o \in Nat, budget.requests < MaxRequests, Reserve(i, o)
    PROVE  BudgetType'
<1>1. BudgetType /\ budget.requests \in 0 .. MaxRequests /\ budget.reserved \in Nat /\ budget.reservedCost \in Nat
    BY Zenon DEF BudgetTypes, BudgetType
<1>2. EstimateCost(i, o) \in Nat
    BY Zenon, CostType
<1>3. /\ budget.requests + 1 \in 0 .. MaxRequests /\ budget.reserved + i + o \in Nat
      /\ budget.reservedCost + EstimateCost(i, o) \in Nat
    BY <1>1, <1>2, Constants
<1> DEFINE b == [budget EXCEPT !.requests = budget.requests + 1, !.reserved = budget.reserved + i + o,
                              !.reservedCost = budget.reservedCost + EstimateCost(i, o)]
<1>4. b \in [tools : 0 .. MaxToolCalls, requests : 0 .. MaxRequests, tokens : Nat, cost : Nat,
             reserved : Nat, reservedCost : Nat]
    BY Zenon, <1>1, <1>3, BudgetUpdates
<1>5. budget' = b
    BY Zenon DEF Reserve
<1> HIDE DEF b
<1> QED BY Zenon, <1>4, <1>5 DEF BudgetType

LEMMA InvokeModelTypes ==
    ASSUME ReqTypes, BudgetTypes, NEW c \in Callers, NEW i \in Inputs, NEW l \in Limits, InvokeModel(c, i, l)
    PROVE  ReqTypes' /\ BudgetTypes'
<1> DEFINE o == OutputEstimate(i, l)
<1>1. Affordable(i, l) => o \in Nat
    BY Zenon, EstimateType
<1>2. i \in Nat
    BY Zenon, Constants
<1>3. Affordable(i, l) /\ Reserve(i, o) => BudgetType'
    BY Zenon, <1>1, <1>2, ReserveModelTypes DEF Affordable
<1>4. UNCHANGED budget => BudgetType'
    BY Zenon DEF BudgetTypes, BudgetType
<1>5. "model" \in Places
    BY Zenon DEF Places
<1>6. Affordable(i, l) => [Idle EXCEPT !.at = "model", !.input = i, !.output = o] \in Request
    BY Zenon, <1>1, <1>2, <1>5, IdleType, RequestField
<1> HIDE DEF o
<1>7. /\ \/ UNCHANGED budget
         \/ Affordable(i, l) /\ Reserve(i, o)
      /\ \/ \E x : Refuse(c, x)
         \/ Affordable(i, l) /\ Becomes(c, [Idle EXCEPT !.at = "model", !.input = i, !.output = o])
      /\ UNCHANGED overrun
    BY Zenon DEF InvokeModel, Becomes, o
<1>8. BudgetTypes'
    BY Zenon, <1>3, <1>4, <1>7 DEF BudgetTypes, BudgetType
<1>9. ReqTypes'
    BY Zenon, <1>6, <1>7, AnswerTypes, BecomesTypes
<1> QED BY Zenon, <1>8, <1>9

LEMMA ReleaseType ==
    ASSUME ReqTypes, BudgetTypes, NEW c \in Callers
    PROVE  Release(c) \in [tools : 0 .. MaxToolCalls, requests : 0 .. MaxRequests, tokens : Nat, cost : Nat,
                           reserved : Nat, reservedCost : Nat]
<1>1. req[c].input \in Nat /\ req[c].output \in Nat
    BY Zenon DEF ReqTypes, Request
<1>2. BudgetType /\ budget.reserved \in Nat /\ budget.reservedCost \in Nat
    BY Zenon DEF BudgetTypes, BudgetType
<1>3. EstimateCost(req[c].input, req[c].output) \in Nat /\ req[c].input + req[c].output \in Nat
  <2>1. EstimateCost(req[c].input, req[c].output) \in Nat
      BY Zenon, <1>1, CostType
  <2> QED BY <1>1, <2>1
<1>4. /\ Less(budget.reserved, req[c].input + req[c].output) \in Nat
      /\ Less(budget.reservedCost, EstimateCost(req[c].input, req[c].output)) \in Nat
    BY Zenon, <1>2, <1>3, LessType
<1> QED BY Zenon, <1>2, <1>4, BudgetUpdates DEF Release

LEMMA ModelFailsTypes ==
    ASSUME ReqTypes, BudgetTypes, NEW c \in Callers, ModelFails(c)
    PROVE  ReqTypes' /\ BudgetTypes'
<1>1. budget' = Release(c) /\ UNCHANGED overrun /\ Answer(c, "unavailable")
    BY Zenon DEF ModelFails
<1>2. ReqTypes'
    BY Zenon, <1>1, AnswerTypes
<1>3. BudgetTypes'
    BY Zenon, <1>1, ReleaseType DEF BudgetTypes
<1> QED BY Zenon, <1>2, <1>3

LEMMA FinishModelTypes ==
    ASSUME ReqTypes, BudgetTypes, NEW c \in Callers, NEW i \in Inputs, NEW o \in Outputs, FinishModel(c, i, o)
    PROVE  ReqTypes' /\ BudgetTypes'
<1>1. ReqTypes'
    BY Zenon, AnswerTypes DEF FinishModel
<1>2. i \in Nat /\ o \in Nat /\ req[c].input \in Nat /\ req[c].output \in Nat
    BY Zenon, Constants DEF ReqTypes, Request
<1>3. EstimateCost(i, o) \in Nat /\ EstimateCost(req[c].input, req[c].output) \in Nat
    BY Zenon, <1>2, CostType
<1>a. i + o \in Nat /\ req[c].input + req[c].output \in Nat
    BY <1>2
<1>4. /\ Less(i + o, req[c].input + req[c].output) \in Nat
      /\ Less(EstimateCost(i, o), EstimateCost(req[c].input, req[c].output)) \in Nat
    BY Zenon, <1>a, <1>3, LessType
<1>5. overrun' \in [tokens : Nat, cost : Nat]
  <2>1. overrun' = [tokens |-> overrun.tokens + Less(i + o, req[c].input + req[c].output),
                    cost |-> overrun.cost + Less(EstimateCost(i, o),
                                                 EstimateCost(req[c].input, req[c].output))]
      BY Zenon DEF FinishModel
  <2>2. overrun.tokens \in Nat /\ overrun.cost \in Nat
      BY Zenon DEF BudgetTypes
  <2> QED BY <1>4, <2>1, <2>2
<1>6. budget' = [Release(c) EXCEPT !.tokens = Release(c).tokens + i + o,
                                   !.cost = Release(c).cost + EstimateCost(i, o)]
    BY Zenon DEF FinishModel
<1>7. BudgetType'
  <2> DEFINE b == Release(c)
  <2>1. b \in [tools : 0 .. MaxToolCalls, requests : 0 .. MaxRequests, tokens : Nat, cost : Nat,
               reserved : Nat, reservedCost : Nat]
      BY Zenon, ReleaseType
  <2>2. budget' = [b EXCEPT !.tokens = b.tokens + i + o, !.cost = b.cost + EstimateCost(i, o)]
      BY Zenon, <1>6
  <2> HIDE DEF b
  <2>3. b.tokens + i + o \in Nat /\ b.cost + EstimateCost(i, o) \in Nat
      BY <1>2, <1>3, <2>1
  <2> QED BY Zenon, <2>1, <2>2, <2>3 DEF BudgetType
<1> QED BY Zenon, <1>1, <1>5, <1>7 DEF BudgetTypes, BudgetType

-----------------------------------------------------------------------------
(* What a step of one caller leaves as it is. *)

Counted == sends + Cardinality(Pending) <= budget.tools

LEMMA Reading ==
    ASSUME ReqTypes, NEW c \in Callers, NEW r \in Request, Becomes(c, r)
    PROVE  /\ req'[c] = r
           /\ \A d \in Callers \ {c} : req'[d] = req[d]
BY Zenon DEF ReqTypes, Becomes

LEMMA LocalKept ==
    ASSUME ReqTypes, NEW c \in Callers, NEW r \in Request, Becomes(c, r), stored \subseteq stored',
           \A d \in Callers : Local(d), Local(c)'
    PROVE  \A d \in Callers : Local(d)'
<1> TAKE d \in Callers
<1>1. CASE d = c
    BY Zenon, <1>1
<1>2. CASE d # c
  <2>1. req'[d] = req[d] /\ Local(d)
      BY Zenon, <1>2, Reading
  <2> QED BY Zenon, <2>1 DEF Local, Mutates, ToolOf
<1> QED BY Zenon, <1>1, <1>2

LEMMA OwnersKept ==
    ASSUME ReqTypes, NEW c \in Callers, NEW r \in Request, Becomes(c, r), OneOwner,
           r.at \in Owning /\ r.call \in MutatingKeys => \A d \in Callers \ {c} : ~Owns(d, r.call)
    PROVE  OneOwner'
<1> SUFFICES ASSUME NEW a \in Callers, NEW b \in Callers, NEW k \in MutatingKeys,
                    Owns(a, k)', Owns(b, k)'
             PROVE  a = b
    BY Zenon DEF OneOwner, MutatingKeys
<1>1. \A d \in Callers \ {c} : Owns(d, k)' <=> Owns(d, k)
    BY Zenon, Reading DEF Owns
<1>2. Owns(c, k)' => r.at \in Owning /\ r.call = k
    BY Zenon, Reading DEF Owns
<1>3. Owns(c, k)' => \A d \in Callers \ {c} : ~Owns(d, k)
    BY Zenon, <1>2
<1> QED BY Zenon, <1>1, <1>3 DEF OneOwner

LEMMA GateKept ==
    ASSUME ReqTypes, NEW c \in Callers, NEW r \in Request, Becomes(c, r), PhaseGate,
           UNCHANGED <<mode, phase, receipt>>,
           r.at \notin {"idle", "reserve", "model"} /\ r.call[1] \notin Explore => phase = "edit"
    PROVE  PhaseGate'
<1>1. ASSUME NEW d \in Callers, req'[d].at \notin {"idle", "reserve", "model"}, req'[d].call[1] \notin Explore
      PROVE  phase = "edit"
  <2>1. CASE d = c
      BY Zenon, <1>1, <2>1, Reading
  <2>2. CASE d # c
      BY Zenon, <1>1, <2>2, Reading DEF PhaseGate, ToolOf
  <2> QED BY Zenon, <2>1, <2>2
<1> QED BY Zenon, <1>1 DEF PhaseGate, ToolOf

LEMMA OthersOwn ==
    ASSUME ReqTypes, NEW c \in Callers, NEW r \in Request, Becomes(c, r),
           \A d \in Callers : Own(d),
           UNCHANGED <<ledger, done, late>>
    PROVE  \A d \in Callers \ {c} : Own(d)'
<1> TAKE d \in Callers \ {c}
<1>1. req'[d] = req[d] /\ Own(d)
    BY Zenon, Reading
<1> QED BY Zenon, <1>1 DEF Own, KeyOf

\* A step that changes what is known of one key, while it is not recorded as a
\* success and no other caller owns it.
LEMMA OthersOwnTheirs ==
    ASSUME ReqTypes, NEW c \in Callers, NEW r \in Request, Becomes(c, r),
           \A d \in Callers : Own(d),
           NEW k \in Key, ledger[k] # "succeeded",
           \A d \in Callers \ {c} : ~Owns(d, k),
           \A j \in Key \ {k} : ledger'[j] = ledger[j] /\ done'[j] = done[j] /\ (j \in late' <=> j \in late)
    PROVE  \A d \in Callers \ {c} : Own(d)'
<1> TAKE d \in Callers \ {c}
<1>1. req'[d] = req[d] /\ Own(d) /\ ~Owns(d, k)
    BY Zenon, Reading
<1> SUFFICES ASSUME req[d].call \in MutatingKeys PROVE Own(d)'
    BY <1>1, Zenon DEF Own
<1>2. CASE req[d].call = k
  <2>1. req[d].at \notin Owning /\ req[d].answer # "succeeded"
      BY Zenon, <1>1, <1>2 DEF Owns, Own, KeyOf
  <2> QED BY Zenon, <1>1, <2>1 DEF Own, Owning
<1>3. CASE req[d].call # k
  <2>1. req[d].call \in Key
      BY Zenon, ConfigAssumption DEF MutatingKeys, Key, ValidToolSet
  <2> DEFINE j == req[d].call
  <2>2. ledger'[j] = ledger[j] /\ done'[j] = done[j] /\ (j \in late' <=> j \in late)
      BY Zenon, <1>3, <2>1
  <2> HIDE DEF j
  <2> QED BY Zenon, <1>1, <2>2 DEF Own, KeyOf, j
<1> QED BY Zenon, <1>2, <1>3

LEMMA PendingFinite == IsFiniteSet(Pending) /\ Cardinality(Pending) \in Nat
<1>1. Pending \subseteq Callers /\ IsFiniteSet(Callers)
    BY Zenon, BoundsAssumption DEF Pending
<1> QED BY Zenon, <1>1, FS_Subset, FS_CardinalityType

LEMMA PendingStep ==
    ASSUME ReqTypes, NEW c \in Callers, NEW r \in Request, Becomes(c, r)
    PROVE  Pending' = IF r.at \in {"claim", "credential"} THEN Pending \cup {c} ELSE Pending \ {c}
BY Zenon, Reading DEF Pending

\* A call that is not waiting to be sent after the step, and was not sent by it.
LEMMA CountKept ==
    ASSUME ReqTypes, NEW c \in Callers, NEW r \in Request, Becomes(c, r), Counted,
           sends \in Nat, budget.tools \in Nat, budget'.tools \in Nat, budget'.tools >= budget.tools, sends' = sends,
           r.at \notin {"claim", "credential"} \/ c \in Pending
    PROVE  Counted'
<1>1. Pending' \subseteq Pending
    BY Zenon, PendingStep
<1>2. Cardinality(Pending') \in Nat /\ Cardinality(Pending) \in Nat /\ Cardinality(Pending') <= Cardinality(Pending)
    BY Zenon, <1>1, PendingFinite, FS_Subset, FS_CardinalityType
<1> QED BY <1>2 DEF Counted

Settles(c) ==
    \E r \in Request : /\ Becomes(c, r) /\ r.at = "idle" /\ r.answer # "succeeded"
                       /\ r.answer = "refused" => ~r.sent
                       /\ r.refs \subseteq stored'

\* The request of c ends with an answer that is not a success.
LEMMA SettledKeeps ==
    ASSUME Inv, NEW c \in Callers, Settles(c), stored \subseteq stored',
           UNCHANGED <<mode, phase, receipt, sends>>,
           budget'.tools \in Nat, budget'.tools >= budget.tools
    PROVE  ReqTypes' /\ (\A d \in Callers : Local(d)') /\ OneOwner' /\ PhaseGate' /\ Counted' /\ Own(c)'
<1>1. ReqTypes /\ OneOwner /\ PhaseGate /\ Counted /\ sends \in Nat /\ budget.tools \in Nat
    BY TypeParts, Constants DEF Inv, Counted, WorldTypes, BudgetTypes
<1>2. PICK r \in Request : /\ Becomes(c, r) /\ r.at = "idle" /\ r.answer # "succeeded"
                           /\ r.answer = "refused" => ~r.sent
                           /\ r.refs \subseteq stored'
    BY Zenon DEF Settles
<1>3. req'[c] = r
    BY Zenon, <1>1, <1>2, Reading
<1>4. Local(c)'
    BY Zenon, <1>2, <1>3 DEF Local, Calling
<1>5. \A d \in Callers : Local(d)'
  <2>1. \A d \in Callers : Local(d)
      BY Zenon DEF Inv
  <2> QED BY Zenon, <1>1, <1>2, <1>4, <2>1, LocalKept
<1>6. OneOwner'
    BY Zenon, <1>1, <1>2, OwnersKept DEF Owning
<1>7. PhaseGate'
    BY Zenon, <1>1, <1>2, GateKept
<1>8. Counted'
    BY Zenon, <1>1, <1>2, CountKept
<1>9. ReqTypes'
    BY Zenon, <1>1, <1>2, BecomesTypes
<1>10. Own(c)'
    BY Zenon, <1>2, <1>3 DEF Own, Owning
<1> QED BY Zenon, <1>5, <1>6, <1>7, <1>8, <1>9, <1>10

-----------------------------------------------------------------------------
(* Steps that end a request, or move it, with the ledger and the tool servers as they are. *)

Locals  == \A c \in Callers : Local(c)
Owned   == \A c \in Callers : Own(c)
KeysOK  == \A k \in Key : KeyOK(k)

LEMMA InvNames ==
    Inv <=> /\ ReqTypes /\ WorldTypes /\ BudgetTypes /\ SharedTypes
            /\ OneOwner /\ PhaseGate /\ Counted
            /\ Locals /\ Owned /\ KeysOK
BY Zenon, TypeParts DEF Inv, Counted, Locals, Owned, KeysOK

LEMMA InvParts ==
    Inv <=> /\ ReqTypes /\ WorldTypes /\ BudgetTypes /\ SharedTypes
            /\ OneOwner /\ PhaseGate /\ Counted
            /\ \A c \in Callers : Local(c)
            /\ \A c \in Callers : Own(c)
            /\ \A k \in Key : KeyOK(k)
BY Zenon, TypeParts DEF Inv, Counted

LEMMA AnswerSettles ==
    ASSUME ReqTypes, NEW c \in Callers, NEW a, a # "succeeded",
           (Answer(c, a) /\ (Heard(a) = "refused" => ~req[c].sent)) \/ Refuse(c, a)
    PROVE  Settles(c)
<1>1. Heard(a) # "succeeded"
    BY Zenon DEF Heard
<1> DEFINE r == [Idle EXCEPT !.answer = Heard(a), !.sent = req[c].sent]
           s == [Idle EXCEPT !.answer = Heard(a)]
<1>2. r \in Request /\ s \in Request
    BY Zenon, AnswerType
<1>3. /\ r.at = "idle" /\ r.answer = Heard(a) /\ r.sent = req[c].sent /\ r.refs = {}
      /\ s.at = "idle" /\ s.answer = Heard(a) /\ s.sent = FALSE /\ s.refs = {}
    BY Zenon DEF Idle
<1>4. (Answer(c, a) => Becomes(c, r)) /\ (Refuse(c, a) => Becomes(c, s))
    BY Zenon, AnswerBecomes
<1> HIDE DEF r, s
<1>5. CASE Answer(c, a) /\ (Heard(a) = "refused" => ~req[c].sent)
    BY Zenon, <1>1, <1>2, <1>3, <1>4, <1>5 DEF Settles
<1>6. CASE Refuse(c, a)
    BY Zenon, <1>1, <1>2, <1>3, <1>4, <1>6 DEF Settles
<1> QED BY Zenon, <1>5, <1>6

LEMMA KeysSame ==
    ASSUME \A k \in Key : KeyOK(k), UNCHANGED <<ledger, done, late>>
    PROVE  \A k \in Key : KeyOK(k)'
BY Zenon DEF KeyOK

\* What only PhaseRequest and Restart change.
Steady == UNCHANGED <<mode, requireApproval, phase, receipt, restarts>>

LEMMA SteadyTypes ==
    ASSUME SharedTypes, Steady
    PROVE  SharedTypes'
BY Zenon DEF SharedTypes, Steady

LEMMA SettledInv ==
    ASSUME Inv, NEW c \in Callers, Settles(c), Steady, UNCHANGED <<ledger, done, late, sends>>,
           stored \subseteq stored', stored' \subseteq Objects,
           BudgetTypes', budget'.tools >= budget.tools
    PROVE  Inv'
<1>0. budget'.tools \in Nat
    BY DEF BudgetTypes
<1>1. ReqTypes' /\ (\A d \in Callers : Local(d)') /\ OneOwner' /\ PhaseGate' /\ Counted' /\ Own(c)'
    BY Zenon, <1>0, SettledKeeps DEF Steady
<1>2. /\ ReqTypes /\ WorldTypes /\ SharedTypes /\ (\A d \in Callers : Own(d))
      /\ \A k \in Key : KeyOK(k)
    BY Zenon, InvParts
<1>3. \A d \in Callers : Own(d)'
  <2>1. PICK r \in Request : Becomes(c, r)
      BY Zenon DEF Settles
  <2>2. \A d \in Callers \ {c} : Own(d)'
      BY Zenon, <1>2, <2>1, OthersOwn
  <2> QED BY Zenon, <1>1, <2>2
<1>4. WorldTypes'
    BY Zenon, <1>2 DEF WorldTypes
<1>5. \A k \in Key : KeyOK(k)'
    BY Zenon, <1>2, KeysSame
<1>6. SharedTypes'
    BY Zenon, <1>2, SteadyTypes
<1>7. Locals' /\ Owned' /\ KeysOK'
    BY Zenon, <1>1, <1>3, <1>5 DEF Locals, Owned, KeysOK, Key
<1> QED BY <1>1, <1>4, <1>6, <1>7, InvNames, PTL

\* A request moves on, and only the store may grow.
LEMMA MovedInv ==
    ASSUME Inv, NEW c \in Callers, NEW r \in Request, Becomes(c, r),
           Local(c)', Own(c)', Counted', BudgetTypes',
           r.at \in Owning /\ r.call \in MutatingKeys => Owns(c, r.call),
           r.at \notin {"idle", "reserve", "model"} /\ r.call[1] \notin Explore => phase = "edit",
           Steady, UNCHANGED <<ledger, done, late>>, sends' \in Nat,
           stored \subseteq stored', stored' \subseteq Objects
    PROVE  Inv'
<1>2. /\ ReqTypes /\ WorldTypes /\ SharedTypes /\ (\A d \in Callers : Own(d))
      /\ (\A d \in Callers : Local(d)) /\ OneOwner /\ PhaseGate
      /\ \A k \in Key : KeyOK(k)
    BY Zenon, InvParts
<1>3. ReqTypes'
    BY Zenon, <1>2, BecomesTypes
<1>4. \A d \in Callers : Own(d)'
  <2>2. \A d \in Callers \ {c} : Own(d)'
      BY Zenon, <1>2, OthersOwn
  <2> QED BY Zenon, <2>2
<1>5. \A d \in Callers : Local(d)'
    BY Zenon, <1>2, LocalKept
<1>6. OneOwner'
  <2>1. r.at \in Owning /\ r.call \in MutatingKeys => \A d \in Callers \ {c} : ~Owns(d, r.call)
      BY Zenon, <1>2 DEF OneOwner
  <2> QED BY Zenon, <1>2, <2>1, OwnersKept
<1>7. PhaseGate'
    BY Zenon, <1>2, GateKept DEF Steady
<1>8. WorldTypes'
    BY Zenon, <1>2 DEF WorldTypes
<1>9. \A k \in Key : KeyOK(k)'
    BY Zenon, <1>2, KeysSame
<1>10. SharedTypes'
    BY Zenon, <1>2, SteadyTypes
<1>11. Locals' /\ Owned' /\ KeysOK'
    BY Zenon, <1>4, <1>5, <1>9 DEF Locals, Owned, KeysOK, Key
<1> QED BY <1>3, <1>6, <1>7, <1>8, <1>10, <1>11, InvNames, PTL

\* A request moves on, and one key changes in the ledger or at the tool server.
LEMMA MovedKeyInv ==
    ASSUME Inv, NEW c \in Callers, NEW r \in Request, Becomes(c, r),
           Local(c)', Own(c)', Counted', UNCHANGED <<budget, overrun, stored, sends>>, Steady,
           NEW k \in MutatingKeys, ledger[k] # "succeeded",
           \A d \in Callers \ {c} : ~Owns(d, k),
           \A j \in Key \ {k} : ledger'[j] = ledger[j] /\ done'[j] = done[j] /\ (j \in late' <=> j \in late),
           WorldTypes', KeyOK(k)',
           r.at \in Owning => r.call = k,
           r.at \notin {"idle", "reserve", "model"} /\ r.call[1] \notin Explore => phase = "edit"
    PROVE  Inv'
<1>1. k \in Key
    BY Zenon, ConfigAssumption DEF MutatingKeys, Key, ValidToolSet
<1>2. /\ ReqTypes /\ BudgetTypes /\ SharedTypes /\ (\A d \in Callers : Own(d))
      /\ (\A d \in Callers : Local(d)) /\ OneOwner /\ PhaseGate
      /\ \A j \in Key : KeyOK(j)
    BY Zenon, InvParts
<1>3. ReqTypes'
    BY Zenon, <1>2, BecomesTypes
<1>4. \A d \in Callers : Own(d)'
  <2>2. \A d \in Callers \ {c} : Own(d)'
      BY Zenon, <1>1, <1>2, OthersOwnTheirs
  <2> QED BY Zenon, <2>2
<1>5. \A d \in Callers : Local(d)'
  <2>1. stored \subseteq stored'
      BY Zenon
  <2> QED BY Zenon, <1>2, <2>1, LocalKept
<1>6. OneOwner'
    BY Zenon, <1>2, OwnersKept
<1>7. PhaseGate'
    BY Zenon, <1>2, GateKept DEF Steady
<1>9. \A j \in Key : KeyOK(j)'
    BY Zenon, <1>2 DEF KeyOK
<1>10. SharedTypes' /\ BudgetTypes'
    BY Zenon, <1>2, SteadyTypes DEF BudgetTypes
<1>11. Locals' /\ Owned' /\ KeysOK'
    BY Zenon, <1>4, <1>5, <1>9 DEF Locals, Owned, KeysOK, Key
<1> QED BY <1>3, <1>6, <1>7, <1>10, <1>11, InvNames, PTL

-----------------------------------------------------------------------------
(* One lemma per action. *)

LEMMA CallerFacts ==
    ASSUME Inv, NEW c \in Callers
    PROVE  /\ ReqTypes /\ WorldTypes /\ BudgetTypes /\ SharedTypes
           /\ req[c] \in Request /\ Local(c) /\ Own(c) /\ PhaseGate /\ Counted /\ OneOwner
           /\ sends \in Nat /\ budget.tools \in Nat /\ budget.tools >= budget.tools
           /\ stored \subseteq Objects
           /\ c \in Pending <=> req[c].at \in {"claim", "credential"}
<1>1. ReqTypes /\ WorldTypes /\ BudgetTypes /\ SharedTypes /\ Local(c) /\ Own(c) /\ PhaseGate /\ Counted /\ OneOwner
    BY Zenon, InvParts
<1> QED BY <1>1 DEF ReqTypes, WorldTypes, BudgetTypes, Pending

LEMMA SameBudget ==
    ASSUME BudgetTypes, UNCHANGED <<budget, overrun>>
    PROVE  BudgetTypes' /\ budget'.tools >= budget.tools
BY DEF BudgetTypes

LEMMA CallToolInv ==
    ASSUME Inv, NEW c \in Callers, NEW t, NEW a \in Arguments, CallTool(c, t, a)
    PROVE  Inv'
<1>1. /\ Steady /\ UNCHANGED <<budget, overrun, ledger, done, late, sends, stored>> /\ req[c].at = "idle"
    BY Zenon DEF CallTool, Steady, shared, world, Free, At
<1>2. ReqTypes /\ stored \subseteq Objects /\ BudgetTypes /\ Counted /\ c \notin Pending /\ sends \in Nat
      /\ budget.tools \in Nat
    BY Zenon, <1>1, CallerFacts
<1>3. BudgetTypes' /\ budget'.tools >= budget.tools
    BY Zenon, <1>1, <1>2, SameBudget
<1>4. stored \subseteq stored' /\ stored' \subseteq Objects
    BY Zenon, <1>1, <1>2
<1>5. CASE \E x : x # "succeeded" /\ Refuse(c, x)
    BY Zenon, <1>1, <1>2, <1>3, <1>4, <1>5, AnswerSettles, SettledInv
<1>6. CASE /\ Lookup(t) = "allowed"
           /\ Becomes(c, [Idle EXCEPT !.at = "reserve", !.call = <<t, a>>])
  <2> DEFINE r == [Idle EXCEPT !.at = "reserve", !.call = <<t, a>>]
  <2>1. <<t, a>> \in Key /\ "reserve" \in Places
    <3>1. t \in Tools
        BY Zenon, <1>6, ConfigAssumption DEF Lookup, Profile, ValidToolSet
    <3> QED BY Zenon, <3>1 DEF Key, Places
  <2>2. r \in Request
      BY Zenon, <2>1, IdleType, RequestField
  <2>3. /\ r.at = "reserve" /\ r.call = <<t, a>> /\ r.sent = FALSE /\ r.answer = "none" /\ r.refs = {}
      BY Zenon DEF Idle
  <2> HIDE DEF r
  <2>4. Becomes(c, r)
      BY Zenon, <1>6 DEF r
  <2>5. req'[c] = r
      BY Zenon, <1>2, <2>2, <2>4, Reading
  <2>6. Local(c)'
      BY Zenon, <2>1, <2>3, <2>5 DEF Local
  <2>7. Own(c)'
      BY Zenon, <2>3, <2>5 DEF Own, Owning
  <2>8. Counted'
      BY <1>1, <1>2, <2>2, <2>3, <2>4, CountKept
  <2>9. r.at \notin Owning /\ r.at \in {"idle", "reserve", "model"} /\ sends' \in Nat
      BY Zenon, <1>1, <1>2, <2>3 DEF Owning
  <2> QED BY Zenon, <1>1, <1>3, <1>4, <2>2, <2>4, <2>6, <2>7, <2>8, <2>9, MovedInv
<1>7. \/ \E x : x # "succeeded" /\ Refuse(c, x)
      \/ Lookup(t) = "allowed" /\ Becomes(c, [Idle EXCEPT !.at = "reserve", !.call = <<t, a>>])
    BY Zenon DEF CallTool, Becomes
<1> QED BY Zenon, <1>5, <1>6, <1>7

LEMMA PolicyCheckInv ==
    ASSUME Inv, NEW c \in Callers, PolicyCheck(c)
    PROVE  Inv'
<1>1. /\ Steady /\ UNCHANGED <<budget, overrun, ledger, done, late, sends, stored>>
    BY Zenon DEF PolicyCheck, Steady, shared, world
<1>2. ReqTypes /\ stored \subseteq Objects /\ BudgetTypes
    BY Zenon, CallerFacts
<1>3. BudgetTypes' /\ budget'.tools >= budget.tools
    BY Zenon, <1>1, <1>2, SameBudget
<1>4. stored \subseteq stored' /\ stored' \subseteq Objects
    BY Zenon, <1>1, <1>2
<1>5. Refuse(c, "checked") /\ "checked" # "succeeded"
    BY Zenon DEF PolicyCheck
<1> QED BY Zenon, <1>1, <1>2, <1>3, <1>4, <1>5, AnswerSettles, SettledInv

\* An answer before the call was sent.
LEMMA EarlyAnswer ==
    ASSUME Inv, NEW c \in Callers, ~req[c].sent, NEW a, a # "succeeded", Answer(c, a)
    PROVE  Settles(c)
BY Zenon, CallerFacts, AnswerSettles

LEMMA ReserveInv ==
    ASSUME Inv, NEW c \in Callers, ReserveToolCall(c)
    PROVE  Inv'
<1>1. /\ Steady /\ UNCHANGED <<overrun, ledger, done, late, sends, stored>> /\ req[c].at = "reserve"
    BY Zenon DEF ReserveToolCall, Steady, shared, world, At
<1>2. /\ ReqTypes /\ stored \subseteq Objects /\ BudgetTypes /\ Counted /\ c \notin Pending /\ sends \in Nat
      /\ budget.tools \in Nat /\ req[c] \in Request /\ Local(c) /\ PhaseGate /\ SharedTypes
    BY Zenon, <1>1, CallerFacts
<1>3. BudgetTypes' /\ budget'.tools >= budget.tools
  <2>1. CASE UNCHANGED budget
      BY Zenon, <1>1, <1>2, <2>1, SameBudget
  <2>2. CASE budget.tools < MaxToolCalls /\ budget' = [budget EXCEPT !.tools = budget.tools + 1]
    <3>1. budget.tools + 1 \in 0 .. MaxToolCalls /\ BudgetType
        BY <1>2, <2>2, Constants DEF BudgetTypes, BudgetType
    <3>2. BudgetType' /\ budget'.tools = budget.tools + 1
        BY Zenon, <2>2, <3>1, BudgetUpdates DEF BudgetType
    <3> QED BY <1>1, <1>2, <3>2 DEF BudgetTypes, BudgetType
  <2> QED BY Zenon, <2>1, <2>2 DEF ReserveToolCall
<1>4. stored \subseteq stored' /\ stored' \subseteq Objects
    BY Zenon, <1>1, <1>2
<1>5. ~req[c].sent /\ req[c].call \in Key /\ req[c].answer = "none" /\ req[c].refs \subseteq stored
    BY Zenon, <1>1, <1>2 DEF Local, Calling
<1>6. CASE \E x : x # "succeeded" /\ Answer(c, x)
  <2>1. Settles(c)
      BY Zenon, <1>5, <1>6, EarlyAnswer
  <2> QED BY Zenon, <1>1, <1>3, <1>4, <2>1, SettledInv
<1>7. CASE /\ Lookup(ToolOf(c)) # "phase denied" /\ budget' = [budget EXCEPT !.tools = budget.tools + 1]
           /\ Go(c, IF Mutates(c) THEN "claim" ELSE "credential")
  <2> DEFINE p == IF Mutates(c) THEN "claim" ELSE "credential"
             r == [req[c] EXCEPT !.at = p]
  <2>1. p \in Places /\ p \in {"claim", "credential"} /\ (p = "claim" <=> Mutates(c))
      BY Zenon DEF Places
  <2>2. r \in Request
      BY Zenon, <1>2, <2>1, RequestField
  <2>3. r.at = p /\ r.call = req[c].call /\ r.sent = req[c].sent /\ r.answer = "none" /\ r.refs = req[c].refs
      BY Zenon, <1>2, <1>5 DEF Request
  <2>4. Becomes(c, r)
      BY Zenon, <1>2, <1>7, GoBecomes
  <2> HIDE DEF r, p
  <2>5. req'[c] = r
      BY Zenon, <1>2, <2>2, <2>4, Reading
  <2>6. Local(c)'
      BY Zenon, <1>1, <1>5, <2>1, <2>3, <2>5 DEF Local, Mutates, ToolOf
  <2>7. r.call \in MutatingKeys => r.at = "claim"
      BY Zenon, <2>1, <2>3 DEF MutatingKeys, Mutates, ToolOf
  <2>8. Own(c)'
      BY Zenon, <2>3, <2>5, <2>7 DEF Own, Owning
  <2>9. Counted'
    <3>1. Pending' = Pending \cup {c}
        BY Zenon, <1>2, <2>1, <2>2, <2>3, <2>4, PendingStep
    <3>2. Cardinality(Pending') = Cardinality(Pending) + 1 /\ Cardinality(Pending) \in Nat
        BY Zenon, <1>2, <3>1, PendingFinite, FS_AddElement
    <3>3. budget'.tools = budget.tools + 1
        BY Zenon, <1>2, <1>7 DEF BudgetTypes
    <3> QED BY <1>1, <1>2, <3>2, <3>3 DEF Counted
  <2>10. r.call[1] \notin Explore => phase = "edit"
    <3>1. ToolOf(c) \in Profile
        BY Zenon, <1>5, <1>7 DEF Lookup, ToolOf, Key
    <3> QED BY Zenon, <1>2, <2>3, <3>1 DEF Profile, ToolOf, SharedTypes
  <2>11. sends' \in Nat /\ (r.at \in Owning /\ r.call \in MutatingKeys => FALSE)
      BY Zenon, <1>1, <1>2, <2>7 DEF Owning
  <2> QED BY Zenon, <1>1, <1>3, <1>4, <2>2, <2>4, <2>6, <2>8, <2>9, <2>10, <2>11, MovedInv
<1>8. \/ \E x : x # "succeeded" /\ Answer(c, x)
      \/ /\ Lookup(ToolOf(c)) # "phase denied" /\ budget' = [budget EXCEPT !.tools = budget.tools + 1]
         /\ Go(c, IF Mutates(c) THEN "claim" ELSE "credential")
    BY Zenon DEF ReserveToolCall, Evaluate
<1> QED BY Zenon, <1>6, <1>7, <1>8

LEMMA KeyTypes == MutatingKeys \subseteq Key
BY Zenon, ConfigAssumption DEF MutatingKeys, Key, ValidToolSet

\* A key whose ledger entry is not "claimed" has no owner.
LEMMA NoOwner ==
    ASSUME Inv, NEW k \in MutatingKeys, ledger[k] # "claimed"
    PROVE  \A d \in Callers : ~Owns(d, k)
<1>1. \A d \in Callers : Own(d)
    BY Zenon, InvParts
<1> QED BY <1>1 DEF Own, Owns, KeyOf

LEMMA ClaimInv ==
    ASSUME Inv, NEW c \in Callers, Claim(c)
    PROVE  Inv'
<1>1. /\ Steady /\ UNCHANGED <<budget, overrun, done, late, sends, stored>> /\ req[c].at = "claim"
    BY Zenon DEF Claim, Steady, shared, world, At
<1>2. /\ ReqTypes /\ stored \subseteq Objects /\ BudgetTypes /\ WorldTypes /\ Counted /\ c \in Pending /\ sends \in Nat
      /\ budget.tools \in Nat /\ req[c] \in Request /\ Local(c) /\ PhaseGate
    BY Zenon, <1>1, CallerFacts
<1>3. BudgetTypes' /\ budget'.tools >= budget.tools /\ budget'.tools \in Nat
    BY Zenon, <1>1, <1>2, SameBudget
<1>4. stored \subseteq stored' /\ stored' \subseteq Objects
    BY Zenon, <1>1, <1>2
<1>5. /\ ~req[c].sent /\ req[c].call \in Key /\ req[c].answer = "none" /\ req[c].refs \subseteq stored
      /\ Mutates(c)
    BY Zenon, <1>1, <1>2 DEF Local, Calling
<1>k. PICK k \in MutatingKeys : k = KeyOf(c)
    BY Zenon, <1>5 DEF MutatingKeys, Mutates, ToolOf, KeyOf, Key
<1>6. k \in Key
    BY Zenon, KeyTypes
<1>7. KeyOK(k)
    BY <1>6, Zenon, InvParts
<1>8. ASSUME NEW x, x # "succeeded", Answer(c, x) PROVE Settles(c)
    BY Zenon, <1>5, <1>8, EarlyAnswer
<1>9. CASE UNCHANGED ledger /\ \E x : x # "succeeded" /\ Answer(c, x)
    BY Zenon, <1>1, <1>3, <1>4, <1>8, <1>9, SettledInv
<1>10. ASSUME ledger[k] = "none", ledger' = [ledger EXCEPT ![k] = "claimed"]
       PROVE  /\ ledger[k] # "succeeded" /\ \A d \in Callers \ {c} : ~Owns(d, k)
              /\ \A j \in Key \ {k} : ledger'[j] = ledger[j] /\ done'[j] = done[j] /\ (j \in late' <=> j \in late)
              /\ WorldTypes' /\ KeyOK(k)' /\ ledger'[k] = "claimed" /\ done[k] = 0 /\ k \notin late
  <2>1. /\ ledger'[k] = "claimed"
        /\ \A j \in Key \ {k} : ledger'[j] = ledger[j] /\ done'[j] = done[j] /\ (j \in late' <=> j \in late)
      BY Zenon, <1>1, <1>2, <1>6, <1>10 DEF WorldTypes
  <2>2. done[k] = 0 /\ k \notin late
      BY Zenon, <1>7, <1>10 DEF KeyOK
  <2>3. KeyOK(k)'
      BY Zenon, <1>1, <2>1, <2>2 DEF KeyOK
  <2>4. WorldTypes'
      BY Zenon, <1>1, <1>2, <1>6, <1>10 DEF WorldTypes
  <2>5. \A d \in Callers : ~Owns(d, k)
      BY Zenon, <1>6, <1>10, NoOwner
  <2> QED BY Zenon, <1>10, <2>1, <2>2, <2>3, <2>4, <2>5
<1>11. CASE ledger[k] = "none" /\ ledger' = [ledger EXCEPT ![k] = "claimed"] /\ Go(c, "credential")
  <2> DEFINE r == [req[c] EXCEPT !.at = "credential"]
  <2>1. "credential" \in Places
      BY Zenon DEF Places
  <2>2. r \in Request
      BY Zenon, <1>2, <2>1, RequestField
  <2>3. r.at = "credential" /\ r.call = k /\ r.sent = req[c].sent /\ r.answer = "none" /\ r.refs = req[c].refs
      BY Zenon, <1>2, <1>5, <1>k DEF Request, KeyOf
  <2>4. Becomes(c, r)
      BY Zenon, <1>2, <1>11, GoBecomes
  <2> HIDE DEF r
  <2>5. req'[c] = r
      BY Zenon, <1>2, <2>2, <2>4, Reading
  <2>6. Local(c)'
      BY Zenon, <1>1, <1>5, <1>6, <2>3, <2>5 DEF Local
  <2>7. Own(c)'
      BY Zenon, <1>1, <1>10, <1>11, <2>3, <2>5 DEF Own, KeyOf
  <2>8. Counted'
      BY Zenon, <1>1, <1>2, <1>3, <2>2, <2>4, CountKept
  <2>9. r.at \notin {"idle", "reserve", "model"} /\ r.call[1] \notin Explore => phase = "edit"
      BY Zenon, <1>1, <1>2, <2>3, <1>k DEF PhaseGate, ToolOf, KeyOf
  <2> QED BY Zenon, <1>1, <1>6, <1>10, <1>11, <2>2, <2>3, <2>4, <2>6, <2>7, <2>8, <2>9, MovedKeyInv
<1>12. CASE /\ ledger[k] = "none" /\ ledger' = [ledger EXCEPT ![k] = "claimed"]
            /\ \E x : x # "succeeded" /\ Answer(c, x)
  <2>1. Settles(c)
      BY Zenon, <1>8, <1>12
  <2>2. PICK r \in Request : Becomes(c, r) /\ r.at = "idle"
      BY Zenon, <2>1 DEF Settles
  <2>3. (\A d \in Callers : Local(d)') /\ Own(c)' /\ Counted'
      BY Zenon, <1>1, <1>3, <1>4, <2>1, SettledKeeps DEF Steady
  <2>4. r.at \notin Owning
      BY Zenon, <2>2 DEF Owning
  <2> QED BY Zenon, <1>1, <1>6, <1>10, <1>12, <2>2, <2>3, <2>4, MovedKeyInv
<1>13. \/ UNCHANGED ledger /\ \E x : x # "succeeded" /\ Answer(c, x)
       \/ /\ ledger[k] = "none" /\ ledger' = [ledger EXCEPT ![k] = "claimed"]
          /\ Go(c, "credential") \/ \E x : x # "succeeded" /\ Answer(c, x)
  <2>1. \A x \in {"unknown", "already claimed", "ledger unavailable"} : x # "succeeded"
      BY Zenon
  <2> QED BY <2>1, <1>k, Zenon DEF Claim
<1> QED BY Zenon, <1>9, <1>11, <1>12, <1>13

\* A call of an owner ends, or never began, and its outcome is to be recorded.
LEMMA ConcludeFacts ==
    ASSUME Inv, NEW c \in Callers, NEW o \in Outcomes, Conclude(c, o), Mutates(c),
           req[c].at \in Owning, o = "failed" => ~req[c].sent, stored \subseteq stored'
    PROVE  \E r \in Request : /\ Becomes(c, r) /\ r.at = "commit" /\ r.call = req[c].call /\ r.outcome = o
                              /\ r.answer = "none" /\ req'[c] = r /\ Local(c)'
                              /\ r.call[1] \notin Explore => phase = "edit"
<1> DEFINE r == [req[c] EXCEPT !.at = "commit", !.outcome = o]
<1>1. "commit" \in Places
    BY Zenon DEF Places
<1>2. ReqTypes /\ req[c] \in Request /\ Local(c) /\ PhaseGate
    BY Zenon, CallerFacts
<1>3. req[c].call \in Key /\ req[c].answer = "none" /\ req[c].refs \subseteq stored
    BY Zenon, <1>2 DEF Local, Calling, Owning
<1>4. r \in Request
    BY Zenon, <1>1, <1>2, RequestField
<1>5. /\ r.at = "commit" /\ r.call = req[c].call /\ r.outcome = o /\ r.answer = "none"
      /\ r.sent = req[c].sent /\ r.refs = req[c].refs
    BY Zenon, <1>2, <1>3 DEF Request
<1>6. Becomes(c, r)
    BY Zenon, <1>2, GoBecomes
<1> HIDE DEF r
<1>7. req'[c] = r
    BY Zenon, <1>2, <1>4, <1>6, Reading
<1>8. Local(c)'
    BY Zenon, <1>3, <1>5, <1>7 DEF Local, Mutates, ToolOf, Outcomes
<1>9. r.call[1] \notin Explore => phase = "edit"
    BY Zenon, <1>2, <1>5 DEF PhaseGate, ToolOf, Owning
<1> QED BY Zenon, <1>4, <1>5, <1>6, <1>7, <1>8, <1>9

LEMMA MutatingKeyOf ==
    ASSUME NEW c, req[c].call \in Key
    PROVE  Mutates(c) <=> req[c].call \in MutatingKeys
BY Zenon DEF Mutates, ToolOf, MutatingKeys, Key

LEMMA CredentialInv ==
    ASSUME Inv, NEW c \in Callers, ResolveCredential(c)
    PROVE  Inv'
<1>1. /\ Steady /\ UNCHANGED <<budget, overrun, ledger, done, late, stored>> /\ req[c].at = "credential"
    BY Zenon DEF ResolveCredential, Steady, shared, At
<1>2. /\ ReqTypes /\ stored \subseteq Objects /\ BudgetTypes /\ Counted /\ c \in Pending /\ sends \in Nat
      /\ budget.tools \in Nat /\ req[c] \in Request /\ Local(c) /\ Own(c) /\ PhaseGate
    BY Zenon, <1>1, CallerFacts
<1>3. BudgetTypes' /\ budget'.tools >= budget.tools /\ budget'.tools \in Nat
    BY Zenon, <1>1, <1>2, SameBudget
<1>4. stored \subseteq stored' /\ stored' \subseteq Objects
    BY Zenon, <1>1, <1>2
<1>5. ~req[c].sent /\ req[c].call \in Key /\ req[c].answer = "none" /\ req[c].refs \subseteq stored
    BY Zenon, <1>1, <1>2 DEF Local, Calling
<1>6. CASE req' = [req EXCEPT ![c].at = "invoke", ![c].sent = TRUE] /\ sends' = sends + 1
  <2> DEFINE r == [req[c] EXCEPT !.at = "invoke", !.sent = TRUE]
  <2>1. "invoke" \in Places
      BY Zenon DEF Places
  <2>2. r \in Request
      BY Zenon, <1>2, <2>1, RequestField
  <2>3. r.at = "invoke" /\ r.call = req[c].call /\ r.answer = "none" /\ r.refs = req[c].refs
      BY Zenon, <1>2, <1>5 DEF Request
  <2>4. Becomes(c, r)
      BY Zenon, <1>2, <1>6 DEF Becomes, ReqTypes, Request
  <2> HIDE DEF r
  <2>5. req'[c] = r
      BY Zenon, <1>2, <2>2, <2>4, Reading
  <2>6. Local(c)'
      BY Zenon, <1>4, <1>5, <2>3, <2>5 DEF Local
  <2>7. Own(c)'
      BY Zenon, <1>1, <1>2, <2>3, <2>5 DEF Own, KeyOf, Owning
  <2>8. Counted'
    <3>1. Pending' = Pending \ {c}
        BY Zenon, <1>2, <2>2, <2>3, <2>4, PendingStep
    <3>2. Cardinality(Pending') = Cardinality(Pending) - 1 /\ Cardinality(Pending) \in Nat
        BY Zenon, <1>2, <3>1, PendingFinite, FS_RemoveElement
    <3> QED BY <1>1, <1>2, <1>6, <3>2 DEF Counted
  <2>9. r.at \notin {"idle", "reserve", "model"} /\ r.call[1] \notin Explore => phase = "edit"
      BY Zenon, <1>1, <1>2, <2>3 DEF PhaseGate, ToolOf
  <2>10. Owns(c, r.call) /\ sends' \in Nat
      BY <1>1, <1>2, <1>6, <2>3 DEF Owns, Owning
  <2> QED BY Zenon, <1>1, <1>3, <1>4, <2>2, <2>4, <2>6, <2>7, <2>8, <2>9, <2>10, MovedInv
<1>7. CASE Mutates(c) /\ Conclude(c, "failed") /\ UNCHANGED sends
  <2>1. "failed" \in Outcomes /\ req[c].at \in Owning
      BY Zenon, <1>1 DEF Outcomes, Owning
  <2>2. PICK r \in Request : /\ Becomes(c, r) /\ r.at = "commit" /\ r.call = req[c].call /\ r.outcome = "failed"
                             /\ r.answer = "none" /\ req'[c] = r /\ Local(c)'
                             /\ r.call[1] \notin Explore => phase = "edit"
      BY Zenon, <1>4, <1>5, <1>7, <2>1, ConcludeFacts
  <2>3. Own(c)'
      BY Zenon, <1>1, <1>2, <2>2 DEF Own, KeyOf, Owning
  <2>4. Counted'
      BY Zenon, <1>2, <1>3, <1>7, <2>2, CountKept
  <2>5. Owns(c, r.call) /\ sends' \in Nat
      BY Zenon, <1>2, <1>7, <2>1, <2>2 DEF Owns
  <2> QED BY Zenon, <1>1, <1>3, <1>4, <2>2, <2>3, <2>4, <2>5, MovedInv
<1>8. CASE Answer(c, "no credential") /\ UNCHANGED sends
  <2>1. "no credential" # "succeeded"
      BY Zenon
  <2>2. Settles(c)
      BY Zenon, <1>5, <1>8, <2>1, EarlyAnswer
  <2> QED BY Zenon, <1>1, <1>3, <1>4, <1>8, <2>2, SettledInv
<1> QED BY Zenon, <1>6, <1>7, <1>8 DEF ResolveCredential

LEMMA LateAnswer ==
    ASSUME Inv, NEW c \in Callers, NEW a \in {"unavailable", "unknown", "internal error"}, Answer(c, a)
    PROVE  Settles(c)
<1>1. a # "succeeded" /\ Heard(a) # "refused"
    BY Zenon DEF Heard, Refusals
<1> QED BY Zenon, <1>1, CallerFacts, AnswerSettles

\* A result has arrived and is to be shaped.
LEMMA ArrivalFacts ==
    ASSUME Inv, NEW c \in Callers, NEW x \in {"small", "large", "error"},
           req' = [req EXCEPT ![c].at = "shape", ![c].reply = x],
           Mutates(c) => x # "error", req[c].at = "invoke", UNCHANGED stored
    PROVE  \E r \in Request : /\ Becomes(c, r) /\ r.at = "shape" /\ r.call = req[c].call
                              /\ r.answer = "none" /\ req'[c] = r /\ Local(c)'
                              /\ r.call[1] \notin Explore => phase = "edit"
<1> DEFINE r == [req[c] EXCEPT !.at = "shape", !.reply = x]
<1>1. "shape" \in Places
    BY Zenon DEF Places
<1>2. ReqTypes /\ req[c] \in Request /\ Local(c) /\ PhaseGate
    BY Zenon, CallerFacts
<1>3. req[c].call \in Key /\ req[c].answer = "none" /\ req[c].refs \subseteq stored
    BY Zenon, <1>2 DEF Local, Calling
<1>4. r \in Request
    BY Zenon, <1>1, <1>2, RequestField
<1>5. /\ r.at = "shape" /\ r.call = req[c].call /\ r.reply = x /\ r.answer = "none" /\ r.refs = req[c].refs
    BY Zenon, <1>2, <1>3 DEF Request
<1>6. Becomes(c, r)
    BY Zenon, <1>2 DEF Becomes, ReqTypes, Request
<1> HIDE DEF r
<1>7. req'[c] = r
    BY Zenon, <1>2, <1>4, <1>6, Reading
<1>8. Local(c)'
    BY Zenon, <1>3, <1>5, <1>7 DEF Local, Mutates, ToolOf
<1>9. r.call[1] \notin Explore => phase = "edit"
    BY Zenon, <1>2, <1>5 DEF PhaseGate, ToolOf
<1> QED BY Zenon, <1>4, <1>5, <1>6, <1>7, <1>8, <1>9

\* Invoke for a call of a read: nothing but the request changes.
LEMMA InvokeReadInv ==
    ASSUME Inv, NEW c \in Callers, Invoke(c), ~Mutates(c)
    PROVE  Inv'
<1>1. /\ Steady /\ UNCHANGED <<budget, overrun, ledger, sends, stored>> /\ req[c].at = "invoke"
    BY Zenon DEF Invoke, Steady, shared, At
<1>2. /\ ReqTypes /\ stored \subseteq Objects /\ BudgetTypes /\ Counted /\ c \notin Pending /\ sends \in Nat
      /\ budget.tools \in Nat /\ Local(c)
    BY Zenon, <1>1, CallerFacts
<1>3. BudgetTypes' /\ budget'.tools >= budget.tools /\ budget'.tools \in Nat
    BY Zenon, <1>1, <1>2, SameBudget
<1>4. stored \subseteq stored' /\ stored' \subseteq Objects /\ sends' \in Nat
    BY Zenon, <1>1, <1>2
<1>5. req[c].call \in Key /\ req[c].call \notin MutatingKeys
    BY Zenon, <1>1, <1>2, MutatingKeyOf DEF Local, Calling
<1>6. UNCHANGED <<done, late>> /\ \E x \in {"small", "large", "error", "lost"} : Reply(c, x)
  <2>1. {KeyOf(c)} \cap (Mutating \X Arguments) = {}
      BY Zenon, <1>5 DEF KeyOf, MutatingKeys
  <2> QED BY Zenon, <2>1 DEF Invoke
<1>7. PICK x \in {"small", "large", "error", "lost"} : Reply(c, x)
    BY Zenon, <1>6
<1>8. CASE x = "lost"
  <2>1. Answer(c, "unavailable")
      BY Zenon, <1>7, <1>8 DEF Reply
  <2>2. Settles(c)
      BY Zenon, <2>1, LateAnswer
  <2> QED BY Zenon, <1>1, <1>3, <1>4, <1>6, <2>2, SettledInv
<1>9. CASE x # "lost"
  <2>1. req' = [req EXCEPT ![c].at = "shape", ![c].reply = x]
      BY Zenon, <1>7, <1>9 DEF Reply
  <2>2. x \in {"small", "large", "error"}
      BY Zenon, <1>9
  <2>3. PICK r \in Request : /\ Becomes(c, r) /\ r.at = "shape" /\ r.call = req[c].call
                             /\ r.answer = "none" /\ req'[c] = r /\ Local(c)'
                             /\ r.call[1] \notin Explore => phase = "edit"
      BY Zenon, <1>1, <2>1, <2>2, ArrivalFacts
  <2>4. Own(c)' /\ r.call \notin MutatingKeys
      BY Zenon, <1>5, <2>3 DEF Own, MutatingKeys
  <2>5. r.at \notin {"claim", "credential"}
      BY Zenon, <2>3
  <2>6. Counted'
      BY Zenon, <1>1, <1>2, <1>3, <2>3, <2>5, CountKept
  <2> QED BY Zenon, <1>1, <1>3, <1>4, <1>6, <2>3, <2>4, <2>6, MovedInv
<1> QED BY Zenon, <1>8, <1>9

LEMMA InvokeWriteInv ==
    ASSUME Inv, NEW c \in Callers, Invoke(c), Mutates(c)
    PROVE  Inv'
<1>1. /\ Steady /\ UNCHANGED <<budget, overrun, ledger, sends, stored>> /\ req[c].at = "invoke"
    BY Zenon DEF Invoke, Steady, shared, At
<1>2. /\ ReqTypes /\ stored \subseteq Objects /\ BudgetTypes /\ WorldTypes /\ Counted /\ c \notin Pending
      /\ sends \in Nat /\ budget.tools \in Nat /\ Local(c) /\ Own(c) /\ OneOwner
    BY Zenon, <1>1, CallerFacts
<1>3. BudgetTypes' /\ budget'.tools >= budget.tools /\ budget'.tools \in Nat
    BY Zenon, <1>1, <1>2, SameBudget
<1>4. stored \subseteq stored' /\ stored' \subseteq Objects /\ sends' \in Nat
    BY Zenon, <1>1, <1>2
<1>5. req[c].call \in MutatingKeys
    BY Zenon, <1>1, <1>2, MutatingKeyOf DEF Local, Calling
<1>k. PICK k \in MutatingKeys : k = req[c].call
    BY Zenon, <1>5
<1>6. k \in Key /\ KeyOf(c) = k /\ req[c].at \in Owning
    BY Zenon, <1>1, <1>k, KeyTypes DEF KeyOf, Owning
<1>7. ledger[k] = "claimed" /\ done[k] = 0 /\ k \notin late
    BY Zenon, <1>1, <1>2, <1>6 DEF Own, KeyOf, Owning
<1>8. \A d \in Callers \ {c} : ~Owns(d, k)
    BY Zenon, <1>2, <1>k, <1>6 DEF OneOwner, Owns
<1>9. \/ /\ Perform(k) /\ UNCHANGED late /\ \E x \in {"small", "large", "error", "lost"} : Reply(c, x)
      \/ Reply(c, "error") /\ UNCHANGED <<done, late>>
      \/ Reply(c, "lost") /\ late' = late \cup {k} /\ UNCHANGED done
  <2>1. {k} \cap (Mutating \X Arguments) = {k}
      BY Zenon DEF MutatingKeys
  <2> QED BY Zenon, <2>1, <1>6 DEF Invoke
<1>10. /\ \A j \in Key \ {k} : ledger'[j] = ledger[j] /\ done'[j] = done[j] /\ (j \in late' <=> j \in late)
       /\ WorldTypes' /\ ledger'[k] = "claimed"
       /\ \/ done'[k] = 1 /\ k \notin late'
          \/ done'[k] = 0 /\ Conclude(c, "unknown")
  <2>1. CASE Perform(k) /\ UNCHANGED late
    <3>1. done'[k] = 1 /\ \A j \in Key \ {k} : done'[j] = done[j]
        BY <1>2, <1>6, <1>7, <2>1 DEF Perform, WorldTypes
    <3>2. done' \in [Key -> Nat]
      <4>1. done' = [done EXCEPT ![k] = 1] /\ done \in [Key -> Nat]
          BY <1>2, <1>7, <2>1 DEF Perform, WorldTypes
      <4> QED BY Zenon, <4>1
    <3> QED BY Zenon, <1>1, <1>2, <1>7, <2>1, <3>1, <3>2 DEF WorldTypes
  <2>2. CASE UNCHANGED done /\ late' \in {late, late \cup {k}} /\ (Reply(c, "error") \/ Reply(c, "lost"))
    <3>1. Conclude(c, "unknown")
        BY Zenon, <2>2 DEF Reply
    <3> QED BY Zenon, <1>1, <1>2, <1>6, <1>7, <2>2, <3>1 DEF WorldTypes
  <2> QED BY Zenon, <1>9, <2>1, <2>2
<1>11. KeyOK(k)'
    BY Zenon, <1>10 DEF KeyOK
<1>12. CASE Conclude(c, "unknown")
  <2>1. "unknown" \in Outcomes /\ "unknown" # "failed"
      BY Zenon DEF Outcomes
  <2>2. PICK r \in Request : /\ Becomes(c, r) /\ r.at = "commit" /\ r.call = req[c].call /\ r.outcome = "unknown"
                             /\ r.answer = "none" /\ req'[c] = r /\ Local(c)'
                             /\ r.call[1] \notin Explore => phase = "edit"
      BY Zenon, <1>4, <1>6, <1>12, <2>1, ConcludeFacts
  <2>3. Own(c)'
      BY Zenon, <1>10, <1>k, <2>2 DEF Own, KeyOf
  <2>4. r.at \notin {"claim", "credential"}
      BY Zenon, <2>2
  <2>5. Counted'
      BY Zenon, <1>1, <1>2, <1>3, <2>2, <2>4, CountKept
  <2>6. ledger[k] # "succeeded"
      BY Zenon, <1>7
  <2> QED BY Zenon, <1>1, <1>k, <1>8, <1>10, <1>11, <2>2, <2>3, <2>5, <2>6, MovedKeyInv
<1>13. CASE ~Conclude(c, "unknown")
  <2>1. PICK x \in {"small", "large", "error", "lost"} : Reply(c, x)
      BY Zenon, <1>9
  <2>2. x \in {"small", "large"} /\ req' = [req EXCEPT ![c].at = "shape", ![c].reply = x]
      BY Zenon, <1>13, <2>1 DEF Reply
  <2>3. x \in {"small", "large", "error"} /\ x # "error"
      BY Zenon, <2>2
  <2>4. PICK r \in Request : /\ Becomes(c, r) /\ r.at = "shape" /\ r.call = req[c].call
                             /\ r.answer = "none" /\ req'[c] = r /\ Local(c)'
                             /\ r.call[1] \notin Explore => phase = "edit"
      BY Zenon, <1>1, <2>2, <2>3, ArrivalFacts
  <2>5. Own(c)'
      BY Zenon, <1>10, <1>13, <1>k, <2>4 DEF Own, KeyOf
  <2>6. r.at \notin {"claim", "credential"} /\ ledger[k] # "succeeded"
      BY Zenon, <1>7, <2>4
  <2>7. Counted'
      BY Zenon, <1>1, <1>2, <1>3, <2>4, <2>6, CountKept
  <2> QED BY Zenon, <1>1, <1>k, <1>8, <1>10, <1>11, <2>4, <2>5, <2>6, <2>7, MovedKeyInv
<1> QED BY Zenon, <1>12, <1>13

LEMMA ShapeInv ==
    ASSUME Inv, NEW c \in Callers, ShapeResult(c)
    PROVE  Inv'
<1>1. /\ Steady /\ UNCHANGED <<budget, overrun, ledger, done, late, sends>> /\ req[c].at = "shape"
    BY Zenon DEF ShapeResult, Steady, shared, world, At
<1>2. /\ ReqTypes /\ BudgetTypes /\ WorldTypes /\ Counted /\ c \notin Pending
      /\ sends \in Nat /\ budget.tools \in Nat /\ Local(c) /\ Own(c) /\ PhaseGate /\ req[c] \in Request
    BY Zenon, <1>1, CallerFacts
<1>3. BudgetTypes' /\ budget'.tools >= budget.tools /\ budget'.tools \in Nat
    BY Zenon, <1>1, <1>2, SameBudget
<1>4. stored \subseteq stored' /\ stored' \subseteq Objects /\ sends' \in Nat
    BY Zenon, <1>1, <1>2, ShapeTypes
<1>5. /\ req[c].call \in Key /\ req[c].answer = "none" /\ req[c].refs \subseteq stored
      /\ Mutates(c) <=> req[c].call \in MutatingKeys
    BY Zenon, <1>1, <1>2, MutatingKeyOf DEF Local, Calling
<1>6. ASSUME NEW R \in SUBSET stored', Succeed(c, R), Mutates(c) PROVE Inv'
  <2> DEFINE r == [req[c] EXCEPT !.at = "commit", !.outcome = "succeeded", !.refs = R]
  <2>1. "commit" \in Places /\ "succeeded" \in Outcomes /\ R \in SUBSET Objects
      BY Zenon, <1>4 DEF Places, Outcomes
  <2>2. r \in Request
      BY Zenon, <1>2, <2>1, RequestField
  <2>3. r.at = "commit" /\ r.outcome = "succeeded" /\ r.refs = R /\ r.call = req[c].call /\ r.answer = "none"
      BY Zenon, <1>2, <1>5 DEF Request
  <2>4. Becomes(c, r)
      BY Zenon, <1>2, <1>6 DEF Becomes, Succeed, ReqTypes
  <2> HIDE DEF r
  <2>5. req'[c] = r
      BY Zenon, <1>2, <2>2, <2>4, Reading
  <2>6. Local(c)'
      BY Zenon, <1>5, <1>6, <2>3, <2>5 DEF Local, Mutates, ToolOf
  <2>7. Own(c)'
      BY Zenon, <1>1, <1>2, <2>3, <2>5 DEF Own, KeyOf, Owning
  <2>8. r.at \notin {"claim", "credential"} /\ Owns(c, r.call)
      BY Zenon, <1>1, <2>3 DEF Owns, Owning
  <2>9. Counted'
      BY Zenon, <1>1, <1>2, <1>3, <2>2, <2>4, <2>8, CountKept
  <2>10. r.call[1] \notin Explore => phase = "edit"
      BY Zenon, <1>1, <1>2, <2>3 DEF PhaseGate, ToolOf
  <2> QED BY Zenon, <1>1, <1>3, <1>4, <2>2, <2>4, <2>6, <2>7, <2>8, <2>9, <2>10, MovedInv
<1>7. ASSUME NEW R \in SUBSET stored', Succeed(c, R), ~Mutates(c) PROVE Inv'
  <2> DEFINE r == [Idle EXCEPT !.answer = "answered", !.sent = TRUE, !.refs = R]
  <2>1. R \in SUBSET Objects
      BY Zenon, <1>4
  <2>2. r \in Request
      BY Zenon, <2>1, IdleType, RequestField
  <2>3. r.at = "idle" /\ r.refs = R /\ r.answer = "answered"
      BY Zenon DEF Idle
  <2>4. Becomes(c, r)
      BY Zenon, <1>2, <1>7 DEF Becomes, Succeed, ReqTypes
  <2> HIDE DEF r
  <2>5. Settles(c)
      BY Zenon, <2>2, <2>3, <2>4 DEF Settles
  <2> QED BY Zenon, <1>1, <1>3, <1>4, <2>5, SettledInv
<1>8. CASE Mutates(c) /\ Conclude(c, "unknown")
  <2>1. "unknown" \in Outcomes /\ ("unknown" = "failed" => ~req[c].sent) /\ req[c].at \in Owning
      BY Zenon, <1>1 DEF Outcomes, Owning
  <2>2. PICK r \in Request : /\ Becomes(c, r) /\ r.at = "commit" /\ r.call = req[c].call /\ r.outcome = "unknown"
                             /\ r.answer = "none" /\ req'[c] = r /\ Local(c)'
                             /\ r.call[1] \notin Explore => phase = "edit"
      BY Zenon, <1>4, <1>8, <2>1, ConcludeFacts
  <2>3. Own(c)'
      BY Zenon, <1>1, <1>2, <2>2 DEF Own, KeyOf, Owning
  <2>4. r.at \notin {"claim", "credential"} /\ Owns(c, r.call)
      BY Zenon, <2>1, <2>2 DEF Owns
  <2>5. Counted'
      BY Zenon, <1>1, <1>2, <1>3, <2>2, <2>4, CountKept
  <2> QED BY Zenon, <1>1, <1>3, <1>4, <2>2, <2>3, <2>4, <2>5, MovedInv
<1>9. CASE Answer(c, "unavailable")
  <2>1. Settles(c)
      BY Zenon, <1>9, LateAnswer
  <2> QED BY Zenon, <1>1, <1>3, <1>4, <2>1, SettledInv
<1>10. \/ \E R \in SUBSET stored' : Succeed(c, R)
       \/ Mutates(c) /\ Conclude(c, "unknown")
       \/ Answer(c, "unavailable")
  <2>1. {} \in SUBSET stored'
      BY Zenon
  <2>2. ASSUME NEW x, stored' = stored \cup {x} PROVE {x} \in SUBSET stored'
      BY Zenon, <2>2
  <2> QED BY Zenon, <2>1, <2>2 DEF ShapeResult
<1> QED BY Zenon, <1>6, <1>7, <1>8, <1>9, <1>10

LEMMA CommitInv ==
    ASSUME Inv, NEW c \in Callers, Commit(c)
    PROVE  Inv'
<1>1. /\ Steady /\ UNCHANGED <<budget, overrun, done, late, sends, stored>> /\ req[c].at = "commit"
    BY Zenon DEF Commit, Steady, shared, world, At
<1>2. /\ ReqTypes /\ stored \subseteq Objects /\ BudgetTypes /\ WorldTypes /\ Counted /\ c \notin Pending
      /\ sends \in Nat /\ budget.tools \in Nat /\ req[c] \in Request /\ Local(c) /\ Own(c) /\ OneOwner /\ PhaseGate
    BY Zenon, <1>1, CallerFacts
<1>3. BudgetTypes' /\ budget'.tools >= budget.tools /\ budget'.tools \in Nat
    BY Zenon, <1>1, <1>2, SameBudget
<1>4. stored \subseteq stored' /\ stored' \subseteq Objects
    BY Zenon, <1>1, <1>2
<1>5. /\ req[c].call \in MutatingKeys /\ req[c].answer = "none" /\ req[c].refs \subseteq stored
      /\ req[c].outcome \in Outcomes /\ (req[c].outcome = "failed" => ~req[c].sent)
    BY Zenon, <1>1, <1>2, MutatingKeyOf DEF Local, Calling, Request
<1>k. PICK k \in MutatingKeys, o \in Outcomes : k = req[c].call /\ o = req[c].outcome
    BY Zenon, <1>5
<1>6. k \in Key /\ KeyOf(c) = k /\ req[c].at \in Owning /\ KeyOK(k)
  <2>1. k \in Key
      BY Zenon, KeyTypes
  <2>2. KeyOK(k)
      BY Zenon, <2>1, InvParts
  <2> QED BY Zenon, <1>1, <1>k, <2>1, <2>2 DEF KeyOf, Owning
<1>7. /\ ledger[k] = "claimed"
      /\ o = "succeeded" => done[k] = 1
      /\ o = "failed" => done[k] = 0 /\ k \notin late
    BY Zenon, <1>1, <1>2, <1>k, <1>6 DEF Own, KeyOf
<1>8. \A d \in Callers \ {c} : ~Owns(d, k)
    BY Zenon, <1>2, <1>k, <1>6 DEF OneOwner, Owns
<1>9. PICK v \in {"claimed", o, "unknown"} : /\ ledger' = [ledger EXCEPT ![k] = v]
                                             /\ v = "unknown" => o \in {"succeeded", "unknown"}
  <2>1. ledger = [ledger EXCEPT ![k] = "claimed"]
      BY Zenon, <1>2, <1>6, <1>7 DEF WorldTypes
  <2>2. ledger' \in {[ledger EXCEPT ![k] = "claimed"], [ledger EXCEPT ![k] = o]}
                    \cup (IF o = "succeeded" THEN {[ledger EXCEPT ![k] = "unknown"]} ELSE {})
      BY Zenon, <1>k, <1>6, <2>1 DEF Commit
  <2> QED BY Zenon, <2>2
<1>10. /\ ledger'[k] = v
       /\ \A j \in Key \ {k} : ledger'[j] = ledger[j] /\ done'[j] = done[j] /\ (j \in late' <=> j \in late)
       /\ WorldTypes'
  <2>1. v \in Outcomes \cup {"none", "claimed"}
      BY Zenon, <1>9 DEF Outcomes
  <2> QED BY Zenon, <1>1, <1>2, <1>6, <1>9, <2>1 DEF WorldTypes
<1>11. KeyOK(k)'
  <2>1. done'[k] = done[k] /\ (k \in late' <=> k \in late) /\ done[k] \in {0, 1} /\ (k \in late => done[k] = 0)
      BY Zenon, <1>1, <1>6 DEF KeyOK
  <2>2. /\ v = "succeeded" => o = "succeeded"
        /\ v = "failed" => o = "failed"
        /\ v \in {"claimed", "succeeded", "failed", "unknown"}
      BY Zenon, <1>9 DEF Outcomes
  <2> QED BY <1>7, <1>10, <2>1, <2>2 DEF KeyOK
<1>12. ledger[k] # "succeeded"
    BY Zenon, <1>7
<1>13. CASE Settles(c)
  <2>2. PICK r \in Request : Becomes(c, r) /\ r.at = "idle"
      BY Zenon, <1>13 DEF Settles
  <2>3. (\A d \in Callers : Local(d)') /\ Own(c)' /\ Counted'
      BY Zenon, <1>1, <1>3, <1>4, <1>13, SettledKeeps DEF Steady
  <2>4. r.at \notin Owning
      BY Zenon, <2>2 DEF Owning
  <2> QED BY Zenon, <1>1, <1>8, <1>10, <1>11, <1>12, <2>2, <2>3, <2>4, MovedKeyInv
<1>14. CASE /\ o = "succeeded" /\ ledger' = [ledger EXCEPT ![k] = o]
            /\ req' = [req EXCEPT ![c].at = "idle", ![c].answer = Heard(Told(o))]
  <2> DEFINE r == [req[c] EXCEPT !.at = "idle", !.answer = "succeeded"]
  <2>1. "idle" \in Places /\ Heard(Told(o)) = "succeeded"
      BY Zenon, <1>14 DEF Places, Heard, Told, Refusals
  <2>2. r \in Request
      BY Zenon, <1>2, <2>1, RequestField
  <2>3. r.at = "idle" /\ r.answer = "succeeded" /\ r.call = k /\ r.refs = req[c].refs
      BY Zenon, <1>2, <1>k DEF Request
  <2>4. Becomes(c, r)
      BY Zenon, <1>2, <1>14, <2>1 DEF Becomes, ReqTypes, Request
  <2> HIDE DEF r
  <2>5. req'[c] = r
      BY Zenon, <1>2, <2>2, <2>4, Reading
  <2>6. Local(c)'
      BY Zenon, <1>4, <1>5, <2>3, <2>5 DEF Local, Calling
  <2>7. Own(c)'
    <3>1. ledger'[k] = "succeeded" /\ done'[k] = 1
        BY Zenon, <1>1, <1>2, <1>6, <1>7, <1>14 DEF WorldTypes
    <3> QED BY Zenon, <2>3, <2>5, <3>1 DEF Own, KeyOf, Owning
  <2>8. r.at \notin {"claim", "credential"} /\ r.at \notin Owning
      BY Zenon, <2>3 DEF Owning
  <2>9. Counted'
      BY Zenon, <1>1, <1>2, <1>3, <2>2, <2>4, <2>8, CountKept
  <2> QED BY Zenon, <1>1, <1>8, <1>10, <1>11, <1>12, <2>2, <2>3, <2>4, <2>6, <2>7, <2>8, <2>9, MovedKeyInv
<1>15. \/ Settles(c)
       \/ /\ o = "succeeded" /\ ledger' = [ledger EXCEPT ![k] = o]
          /\ req' = [req EXCEPT ![c].at = "idle", ![c].answer = Heard(Told(o))]
  <2>1. CASE \E x \in {"unavailable", "unknown", "internal error"} : Answer(c, x)
      BY Zenon, <2>1, LateAnswer
  <2>2. CASE o # "succeeded" /\ Answer(c, Told(o))
    <3>1. CASE o = "failed"
      <4>1. Told(o) # "succeeded" /\ ~req[c].sent
          BY Zenon, <1>5, <1>k, <3>1 DEF Told
      <4> QED BY Zenon, <2>2, <4>1, EarlyAnswer
    <3>2. CASE o = "unknown"
      <4>1. Told(o) = "unknown"
          BY Zenon, <3>2 DEF Told
      <4> QED BY Zenon, <2>2, <4>1, LateAnswer
    <3> QED BY Zenon, <2>2, <3>1, <3>2 DEF Outcomes
  <2>3. \/ /\ o = "succeeded" /\ ledger' = [ledger EXCEPT ![k] = o]
           /\ req' = [req EXCEPT ![c].at = "idle", ![c].answer = Heard(Told(o))]
        \/ o # "succeeded" /\ Answer(c, Told(o))
        \/ Answer(c, "internal error") \/ Answer(c, "unknown")
      BY Zenon, <1>k, <1>6 DEF Commit
  <2> QED BY Zenon, <2>1, <2>2, <2>3
<1> QED BY Zenon, <1>13, <1>14, <1>15

LEMMA UploadInv ==
    ASSUME Inv, NEW c \in Callers, UploadArtifact(c)
    PROVE  Inv'
<1>1. /\ Steady /\ UNCHANGED <<budget, overrun, ledger, done, late, sends>>
    BY Zenon DEF UploadArtifact, Steady, shared, world
<1>2. ReqTypes /\ WorldTypes /\ BudgetTypes
    BY Zenon, CallerFacts
<1>3. BudgetTypes' /\ budget'.tools >= budget.tools
    BY Zenon, <1>1, <1>2, SameBudget
<1>4. stored \subseteq stored' /\ stored' \subseteq Objects
    BY Zenon, <1>2, UploadTypes
<1>5. CASE Refuse(c, "unavailable")
  <2>1. "unavailable" # "succeeded"
      BY Zenon
  <2> QED BY Zenon, <1>1, <1>2, <1>3, <1>4, <1>5, <2>1, AnswerSettles, SettledInv
<1>6. ASSUME NEW b, stored' = stored \cup {b}, Becomes(c, [Idle EXCEPT !.answer = "answered", !.refs = {b}])
      PROVE  Inv'
  <2> DEFINE r == [Idle EXCEPT !.answer = "answered", !.refs = {b}]
  <2>1. {b} \in SUBSET Objects /\ {b} \subseteq stored'
      BY Zenon, <1>4, <1>6
  <2>2. r \in Request
      BY Zenon, <2>1, IdleType, RequestField
  <2>3. r.at = "idle" /\ r.refs = {b} /\ r.answer = "answered"
      BY Zenon DEF Idle
  <2>4. Becomes(c, r)
      BY Zenon, <1>6
  <2> HIDE DEF r
  <2>5. Settles(c)
      BY Zenon, <2>1, <2>2, <2>3, <2>4 DEF Settles
  <2> QED BY Zenon, <1>1, <1>3, <1>4, <2>5, SettledInv
<1> QED BY Zenon, <1>5, <1>6 DEF UploadArtifact, Becomes

LEMMA ModelBudget ==
    ASSUME BudgetTypes, NEW c, NEW i, NEW o
    PROVE  /\ Reserve(i, o) => budget'.tools = budget.tools
           /\ Release(c).tools = budget.tools
BY Zenon DEF BudgetTypes, Reserve, Release

LEMMA InvokeModelInv ==
    ASSUME Inv, NEW c \in Callers, NEW i \in Inputs, NEW l \in Limits, InvokeModel(c, i, l)
    PROVE  Inv'
<1>1. /\ Steady /\ UNCHANGED <<overrun, ledger, done, late, sends, stored>> /\ req[c].at = "idle"
    BY Zenon DEF InvokeModel, Steady, shared, world, Free, At
<1>2. /\ ReqTypes /\ stored \subseteq Objects /\ BudgetTypes /\ Counted /\ c \notin Pending /\ sends \in Nat
      /\ budget.tools \in Nat
    BY Zenon, <1>1, CallerFacts
<1>3. BudgetTypes' /\ budget'.tools = budget.tools
  <2>1. BudgetTypes'
      BY Zenon, <1>2, InvokeModelTypes
  <2>2. UNCHANGED budget \/ \E o : Reserve(i, o)
      BY Zenon DEF InvokeModel
  <2> QED BY Zenon, <1>2, <2>1, <2>2, ModelBudget
<1>4. budget'.tools >= budget.tools /\ budget'.tools \in Nat /\ sends' \in Nat
    BY <1>1, <1>2, <1>3
<1>5. stored \subseteq stored' /\ stored' \subseteq Objects
    BY Zenon, <1>1, <1>2
<1>6. CASE \E x : x # "succeeded" /\ Refuse(c, x)
    BY Zenon, <1>1, <1>2, <1>3, <1>4, <1>5, <1>6, AnswerSettles, SettledInv
<1>7. ASSUME NEW o, o \in Nat, Becomes(c, [Idle EXCEPT !.at = "model", !.input = i, !.output = o])
      PROVE  Inv'
  <2> DEFINE r == [Idle EXCEPT !.at = "model", !.input = i, !.output = o]
  <2>1. "model" \in Places /\ i \in Nat
      BY Zenon, Constants DEF Places
  <2>2. r \in Request
      BY Zenon, <1>7, <2>1, IdleType, RequestField
  <2>3. r.at = "model" /\ r.answer = "none" /\ r.refs = {} /\ ~r.sent
      BY Zenon DEF Idle
  <2>4. Becomes(c, r)
      BY Zenon, <1>7
  <2> HIDE DEF r
  <2>5. req'[c] = r
      BY Zenon, <1>2, <2>2, <2>4, Reading
  <2>6. Local(c)'
      BY Zenon, <2>3, <2>5 DEF Local, Calling
  <2>7. Own(c)'
      BY Zenon, <2>3, <2>5 DEF Own, Owning
  <2>8. r.at \notin {"claim", "credential"} /\ r.at \notin Owning /\ r.at \in {"idle", "reserve", "model"}
      BY Zenon, <2>3 DEF Owning
  <2>9. Counted'
      BY Zenon, <1>1, <1>2, <1>4, <2>2, <2>4, <2>8, CountKept
  <2> QED BY Zenon, <1>1, <1>3, <1>4, <1>5, <2>2, <2>4, <2>6, <2>7, <2>8, <2>9, MovedInv
<1>8. \/ \E x \in {"invalid", "over budget"} : Refuse(c, x)
      \/ /\ Affordable(i, l)
         /\ Becomes(c, [Idle EXCEPT !.at = "model", !.input = i, !.output = OutputEstimate(i, l)])
    BY Zenon DEF InvokeModel, Becomes
<1>9. Affordable(i, l) => OutputEstimate(i, l) \in Nat
    BY Zenon, <1>2, EstimateType
<1>10. \A x \in {"invalid", "over budget"} : x # "succeeded"
    BY Zenon
<1> QED BY Zenon, <1>6, <1>7, <1>8, <1>9, <1>10

LEMMA ModelEndsInv ==
    ASSUME Inv, NEW c \in Callers,
           ModelFails(c) \/ \E i \in Inputs, o \in Outputs : FinishModel(c, i, o)
    PROVE  Inv'
<1>1. /\ Steady /\ UNCHANGED <<ledger, done, late, sends, stored>> /\ req[c].at = "model"
      /\ \E x \in {"unavailable", "completed", "over budget"} : Answer(c, x)
    BY Zenon DEF ModelFails, FinishModel, Steady, shared, world, At
<1>2. ReqTypes /\ stored \subseteq Objects /\ BudgetTypes /\ Local(c)
    BY Zenon, CallerFacts
<1>3. BudgetTypes'
    BY Zenon, <1>2, ModelFailsTypes, FinishModelTypes
<1>4. budget'.tools >= budget.tools
  <2>1. budget'.tools = budget.tools
    <3>1. CASE ModelFails(c)
        BY Zenon, <1>2, <3>1, ModelBudget DEF ModelFails
    <3>2. ASSUME NEW i \in Inputs, NEW o \in Outputs, FinishModel(c, i, o) PROVE budget'.tools = budget.tools
      <4>1. PICK b : b = Release(c)
          BY Zenon
      <4>2. budget' = [b EXCEPT !.tokens = b.tokens + i + o, !.cost = b.cost + EstimateCost(i, o)]
          BY Zenon, <3>2, <4>1 DEF FinishModel
      <4>3. b \in [tools : 0 .. MaxToolCalls, requests : 0 .. MaxRequests, tokens : Nat, cost : Nat,
                   reserved : Nat, reservedCost : Nat]
          BY Zenon, <1>2, <4>1, ReleaseType
      <4> QED BY Zenon, <1>2, <4>1, <4>2, <4>3, ModelBudget
    <3> QED BY Zenon, <3>1, <3>2
  <2>2. budget.tools \in Nat
      BY <1>2 DEF BudgetTypes
  <2> QED BY <2>1, <2>2
<1>5. stored \subseteq stored' /\ stored' \subseteq Objects
    BY Zenon, <1>1, <1>2
<1>6. Settles(c)
  <2>1. PICK x \in {"unavailable", "completed", "over budget"} : Answer(c, x)
      BY Zenon, <1>1
  <2>2. x # "succeeded" /\ ~req[c].sent
      BY Zenon, <1>1, <1>2 DEF Local
  <2> QED BY Zenon, <2>1, <2>2, EarlyAnswer
<1> QED BY Zenon, <1>1, <1>3, <1>4, <1>5, <1>6, SettledInv

-----------------------------------------------------------------------------
(* Steps that are not a caller's. *)

\* An owner of a key with a call on its way has concluded that its outcome is unknown.
LEMMA LateCallInv ==
    ASSUME Inv, NEW k \in late, LateCall(k)
    PROVE  Inv'
<1>1. /\ Steady /\ UNCHANGED <<budget, overrun, req, ledger, sends, stored>>
      /\ late' = late \ {k} /\ (Perform(k) \/ UNCHANGED done)
    BY Zenon DEF LateCall, Steady, shared
<1>2. /\ ReqTypes /\ WorldTypes /\ BudgetTypes /\ SharedTypes /\ OneOwner /\ PhaseGate /\ Counted
      /\ Locals /\ Owned /\ KeysOK
    BY Zenon, InvNames
<1>3. k \in Key /\ KeyOK(k)
    BY Zenon, <1>2 DEF WorldTypes, KeysOK
<1>4. done[k] = 0 /\ ledger[k] \in {"claimed", "unknown"}
    BY Zenon, <1>3 DEF KeyOK
<1>5. done' \in [Key -> Nat] /\ done'[k] \in {0, 1} /\ \A j \in Key \ {k} : done'[j] = done[j]
  <2>1. CASE Perform(k)
    <3>1. done' = [done EXCEPT ![k] = 1] /\ done \in [Key -> Nat]
        BY <1>2, <1>4, <2>1 DEF Perform, WorldTypes
    <3> QED BY Zenon, <1>3, <3>1
  <2>2. CASE UNCHANGED done
      BY Zenon, <1>2, <1>4, <2>2 DEF WorldTypes
  <2> QED BY Zenon, <1>1, <2>1, <2>2
<1>6. WorldTypes'
    BY Zenon, <1>1, <1>2, <1>5 DEF WorldTypes
<1>7. KeysOK'
  <2>1. ASSUME NEW j \in Key PROVE KeyOK(j)'
    <3>1. CASE j = k
        BY Zenon, <1>1, <1>4, <1>5, <3>1 DEF KeyOK
    <3>2. CASE j # k
      <4>1. KeyOK(j)
          BY Zenon, <1>2 DEF KeysOK
      <4> QED BY Zenon, <1>1, <1>5, <3>2, <4>1 DEF KeyOK
    <3> QED BY Zenon, <3>1, <3>2
  <2> QED BY Zenon, <2>1 DEF KeysOK, Key
<1>8. Owned'
  <2>1. ASSUME NEW d \in Callers, req[d].call \in MutatingKeys PROVE Own(d)'
    <3>1. Own(d) /\ req'[d] = req[d] /\ Local(d)
        BY Zenon, <1>1, <1>2 DEF Owned, Locals
    <3>2. CASE req[d].call = k
        BY <1>1, <1>4, <3>1, <3>2 DEF Own, KeyOf
    <3>3. CASE req[d].call # k
      <4>1. PICK j \in Key : j = req[d].call
          BY Zenon, <2>1, KeyTypes
      <4>2. done'[j] = done[j] /\ (j \in late' <=> j \in late) /\ ledger'[j] = ledger[j]
          BY Zenon, <1>1, <1>5, <3>3, <4>1
      <4> QED BY Zenon, <3>1, <4>1, <4>2 DEF Own, KeyOf
    <3> QED BY Zenon, <3>2, <3>3
  <2>2. ASSUME NEW d \in Callers, req[d].call \notin MutatingKeys PROVE Own(d)'
      BY Zenon, <1>1, <2>2 DEF Own, MutatingKeys
  <2> QED BY Zenon, <2>1, <2>2 DEF Owned
<1>9. ReqTypes' /\ BudgetTypes' /\ SharedTypes'
    BY Zenon, <1>1, <1>2, SteadyTypes, SameBudget DEF ReqTypes
<1>10. OneOwner'
    BY Zenon, <1>1, <1>2 DEF OneOwner, Owns, MutatingKeys
<1>11. PhaseGate'
    BY Zenon, <1>1, <1>2 DEF PhaseGate, Steady, ToolOf
<1>12. Counted'
  <2>1. Pending' = Pending
      BY Zenon, <1>1 DEF Pending
  <2> QED BY Zenon, <1>1, <1>2, <2>1 DEF Counted
<1>13. Locals'
    BY Zenon, <1>1, <1>2 DEF Locals, Local, Mutates, ToolOf, MutatingKeys, Key
<1> QED BY <1>6, <1>7, <1>8, <1>9, <1>10, <1>11, <1>12, <1>13, InvNames, PTL

LEMMA PhaseRequestInv ==
    ASSUME Inv, NEW id \in PhaseRequests, PhaseRequest(id)
    PROVE  Inv'
<1>1. /\ UNCHANGED <<mode, requireApproval, restarts, budget, overrun, req, ledger, done, late, sends, stored>>
      /\ \/ mode = "agent" /\ phase' = "edit" /\ receipt' = [id |-> id, status |-> "granted"]
         \/ mode # "agent" /\ phase' = phase /\ receipt' = [id |-> id, status |-> "denied"]
         \/ UNCHANGED <<phase, receipt>>
    BY Zenon DEF PhaseRequest, TransitionToEdit, shared, world
<1>2. /\ ReqTypes /\ WorldTypes /\ BudgetTypes /\ SharedTypes /\ OneOwner /\ PhaseGate /\ Counted
      /\ Locals /\ Owned /\ KeysOK
    BY Zenon, InvNames
<1>3. SharedTypes'
    BY <1>1, <1>2 DEF SharedTypes
<1>4. PhaseGate'
    BY <1>1, <1>2 DEF PhaseGate, ToolOf
<1>5. ReqTypes' /\ BudgetTypes' /\ WorldTypes'
    BY Zenon, <1>1, <1>2, SameBudget DEF ReqTypes, WorldTypes
<1>6. OneOwner'
    BY Zenon, <1>1, <1>2 DEF OneOwner, Owns, MutatingKeys
<1>7. Counted'
  <2>1. Pending' = Pending
      BY Zenon, <1>1 DEF Pending
  <2> QED BY Zenon, <1>1, <1>2, <2>1 DEF Counted
<1>8. Locals'
    BY Zenon, <1>1, <1>2 DEF Locals, Local, Mutates, ToolOf, MutatingKeys, Key
<1>9. Owned'
    BY Zenon, <1>1, <1>2 DEF Owned, Own, KeyOf, MutatingKeys
<1>10. KeysOK'
    BY Zenon, <1>1, <1>2 DEF KeysOK, KeyOK, Key
<1> QED BY <1>3, <1>4, <1>5, <1>6, <1>7, <1>8, <1>9, <1>10, InvNames, PTL

FreshProcess ==
    /\ req = [c \in Callers |-> Idle] /\ budget = Fresh /\ sends = 0 /\ overrun = [tokens |-> 0, cost |-> 0]
    /\ phase = InitialPhase(mode) /\ receipt = NoReceipt /\ mode \in {"agent", "verifier"}

\* A process begins: no caller owns anything, whatever the ledger says.
LEMMA FreshState ==
    FreshProcess => /\ ReqTypes /\ BudgetTypes /\ OneOwner /\ PhaseGate /\ Counted /\ Locals /\ Owned
<1> SUFFICES ASSUME FreshProcess
             PROVE  /\ ReqTypes /\ BudgetTypes /\ OneOwner /\ PhaseGate /\ Counted /\ Locals /\ Owned
    BY Zenon
<1> USE DEF FreshProcess
<1>1. \A c \in Callers : /\ req[c] = Idle /\ req[c].at = "idle" /\ req[c].answer = "none" /\ req[c].refs = {}
    BY Zenon DEF Idle
<1>2. ReqTypes
    BY Zenon, IdleType DEF ReqTypes
<1>3. BudgetTypes
    BY Constants DEF BudgetTypes, Fresh
<1>4. OneOwner
    BY Zenon, <1>1 DEF OneOwner, Owns, Owning
<1>5. PhaseGate
    BY Zenon, <1>1 DEF PhaseGate, InitialPhase, NoReceipt
<1>6. Counted
  <2>1. Pending = {}
      BY Zenon, <1>1 DEF Pending
  <2>2. Cardinality(Pending) = 0
      BY Zenon, <2>1, FS_EmptySet
  <2> QED BY <2>2 DEF Counted, Fresh
<1>7. Locals
    BY Zenon, <1>1 DEF Locals, Local, Calling
<1>8. Owned
    BY Zenon, <1>1 DEF Owned, Own, Owning
<1> QED BY Zenon, <1>2, <1>3, <1>4, <1>5, <1>6, <1>7, <1>8

LEMMA RestartInv ==
    ASSUME Inv, Restart
    PROVE  Inv'
<1>1. WorldTypes /\ SharedTypes /\ KeysOK
    BY Zenon, InvNames
<1>2. ReqTypes' /\ BudgetTypes' /\ OneOwner' /\ PhaseGate' /\ Counted' /\ Locals' /\ Owned'
  <2>1. FreshProcess'
      BY Zenon, <1>1 DEF Restart, shared, SharedTypes, FreshProcess, InitialPhase
  <2> QED BY <2>1, FreshState, PTL
<1>3. UNCHANGED <<mode, requireApproval, ledger, late, done, stored>> /\ sends' = 0 /\ receipt' = NoReceipt
      /\ restarts' = restarts + 1 /\ restarts < MaxRestarts
    BY Zenon DEF Restart, shared
<1>4. WorldTypes'
    BY Zenon, <1>1, <1>3 DEF WorldTypes
<1>5. SharedTypes'
  <2>1. phase' \in {"explore", "edit", "verify"}
      BY Zenon, <1>1 DEF Restart, InitialPhase
  <2> QED BY <1>1, <1>3, <2>1, Constants DEF SharedTypes
<1>6. KeysOK'
    BY Zenon, <1>1, <1>3 DEF KeysOK, KeyOK, Key
<1> QED BY <1>2, <1>4, <1>5, <1>6, InvNames, PTL

LEMMA InvInit == Init => Inv
<1> SUFFICES ASSUME Init PROVE Inv
    BY Zenon
<1>1. /\ ReqTypes /\ BudgetTypes /\ OneOwner /\ PhaseGate /\ Counted /\ Locals /\ Owned
    BY Zenon, FreshState DEF Init, FreshProcess
<1>2. SharedTypes
  <2>1. phase \in {"explore", "edit", "verify"}
      BY Zenon DEF Init, InitialPhase
  <2> QED BY <2>1, Constants DEF Init, SharedTypes
<1>3. WorldTypes
    BY Zenon DEF Init, WorldTypes
<1>4. KeysOK
    BY Zenon DEF Init, KeysOK, KeyOK
<1> QED BY Zenon, <1>1, <1>2, <1>3, <1>4, InvNames

LEMMA InvNext == Inv /\ [Next]_vars => Inv'
<1> SUFFICES ASSUME Inv, [Next]_vars PROVE Inv'
    BY Zenon
<1>1. ASSUME NEW c \in Callers, NEW t, NEW a \in Arguments, CallTool(c, t, a) PROVE Inv'
    BY Zenon, <1>1, CallToolInv
<1>2. ASSUME NEW c \in Callers,
             PolicyCheck(c) \/ ReserveToolCall(c) \/ Claim(c) \/ ResolveCredential(c)
      PROVE  Inv'
    BY Zenon, <1>2, PolicyCheckInv, ReserveInv, ClaimInv, CredentialInv
<1>3. ASSUME NEW c \in Callers, Invoke(c) \/ ShapeResult(c) \/ Commit(c) \/ UploadArtifact(c) PROVE Inv'
    BY Zenon, <1>3, InvokeReadInv, InvokeWriteInv, ShapeInv, CommitInv, UploadInv
<1>4. ASSUME NEW c \in Callers, NEW i \in Inputs, NEW l \in Limits, InvokeModel(c, i, l) PROVE Inv'
    BY Zenon, <1>4, InvokeModelInv
<1>5. ASSUME NEW c \in Callers, ModelFails(c) \/ \E i \in Inputs, o \in Outputs : FinishModel(c, i, o)
      PROVE  Inv'
    BY Zenon, <1>5, ModelEndsInv
<1>6. ASSUME NEW id \in PhaseRequests, PhaseRequest(id) PROVE Inv'
    BY Zenon, <1>6, PhaseRequestInv
<1>7. ASSUME NEW k \in late, LateCall(k) PROVE Inv'
    BY Zenon, <1>7, LateCallInv
<1>8. CASE Restart
    BY Zenon, <1>8, RestartInv
<1>9. CASE UNCHANGED vars
  <2>1. UNCHANGED <<mode, phase, requireApproval, receipt, budget, req, ledger, late, done, stored, restarts,
                    sends, overrun>>
      BY Zenon, <1>9 DEF vars
  <2>2. /\ ReqTypes /\ WorldTypes /\ BudgetTypes /\ SharedTypes /\ OneOwner /\ PhaseGate /\ Counted
        /\ Locals /\ Owned /\ KeysOK
      BY Zenon, InvNames
  <2>3. ReqTypes' /\ WorldTypes' /\ BudgetTypes' /\ SharedTypes'
      BY Zenon, <2>1, <2>2, SteadyTypes, SameBudget DEF ReqTypes, WorldTypes, Steady
  <2>4. OneOwner' /\ PhaseGate'
      BY Zenon, <2>1, <2>2 DEF OneOwner, Owns, MutatingKeys, PhaseGate, ToolOf
  <2>5. Counted'
    <3>1. Pending' = Pending
        BY Zenon, <2>1 DEF Pending
    <3> QED BY Zenon, <2>1, <2>2, <3>1 DEF Counted
  <2>6. Locals'
      BY Zenon, <2>1, <2>2 DEF Locals, Local, Mutates, ToolOf, MutatingKeys, Key
  <2>7. Owned' /\ KeysOK'
      BY Zenon, <2>1, <2>2 DEF Owned, Own, KeyOf, MutatingKeys, KeysOK, KeyOK, Key
  <2> QED BY <2>3, <2>4, <2>5, <2>6, <2>7, InvNames, PTL
<1>10. CASE Next
  <2>1. CASE \E id \in PhaseRequests : PhaseRequest(id)
      BY Zenon, <2>1, <1>6
  <2>2. CASE \E c \in Callers :
               \/ \E t \in Tools \cup {"unlisted"}, a \in Arguments : CallTool(c, t, a)
               \/ PolicyCheck(c) \/ ReserveToolCall(c) \/ Claim(c) \/ ResolveCredential(c)
               \/ Invoke(c) \/ ShapeResult(c) \/ Commit(c)
               \/ UploadArtifact(c)
               \/ \E input \in Inputs, limit \in Limits : InvokeModel(c, input, limit)
               \/ ModelFails(c)
               \/ \E input \in Inputs, output \in Outputs : FinishModel(c, input, output)
      BY Zenon, <2>2, <1>1, <1>2, <1>3, <1>4, <1>5
  <2>3. CASE \E k \in late : LateCall(k)
      BY Zenon, <2>3, <1>7
  <2> QED BY Zenon, <1>8, <1>10, <2>1, <2>2, <2>3 DEF Next
<1> QED BY Zenon, <1>9, <1>10

-----------------------------------------------------------------------------
(* Results *)

\* The inductive invariant holds in every reachable state.
THEOREM Invariance == Spec => []Inv
BY InvInit, InvNext, PTL DEF Spec

\* Every variable of the broker keeps its type.
THEOREM TypesHold == Spec => []TypeOK
<1>1. Inv => TypeOK
    BY Zenon DEF Inv
<1> QED BY <1>1, Invariance, PTL

\* Whatever other callers and later processes do, a success the agent hears of is
\* performed and recorded, a recorded failure is final, a refusal means that nothing
\* was sent, and references resolve (CallTool, shapeToolResult, commitEffect).
THEOREM AnswersHold == Spec => []AnswersAreTrue
<1>1. Inv => AnswersAreTrue
  <2> SUFFICES ASSUME Inv PROVE AnswersAreTrue
      BY Zenon
  <2>1. /\ \A c \in Callers : Local(c)
        /\ \A c \in Callers : Own(c)
        /\ \A k \in Key : KeyOK(k)
      BY Zenon, InvParts
  <2>2. SuccessIsPerformed
      BY Zenon, <2>1 DEF SuccessIsPerformed, Local, Own, KeyOf
  <2>3. FailureSentNothing
      BY Zenon, <2>1 DEF FailureSentNothing, KeyOK
  <2>4. RefusalsSendNothing /\ ReferencesResolve
      BY Zenon, <2>1 DEF RefusalsSendNothing, ReferencesResolve, Local
  <2> QED BY Zenon, <2>2, <2>3, <2>4 DEF AnswersAreTrue
<1> QED BY <1>1, Invariance, PTL

\* What one step may do to a mutating key.
KeyStep(k) ==
    \/ ledger'[k] = ledger[k] /\ done'[k] = done[k]
    \/ ledger[k] = "none" /\ ledger'[k] = "claimed" /\ done'[k] = done[k]
    \/ ledger[k] \in {"claimed", "unknown"} /\ done[k] = 0 /\ done'[k] = 1 /\ ledger'[k] = ledger[k]
    \/ /\ ledger[k] = "claimed" /\ ledger'[k] \in {"succeeded", "failed", "unknown"} /\ done'[k] = done[k]
       /\ ledger'[k] = "succeeded" => done[k] = 1

LEMMA ClaimStep ==
    ASSUME WorldTypes, NEW c \in Callers, Claim(c), NEW k \in Key
    PROVE  KeyStep(k)
<1>1. /\ done' = done
      /\ \/ ledger' = ledger
         \/ ledger[KeyOf(c)] = "none" /\ ledger' = [ledger EXCEPT ![KeyOf(c)] = "claimed"]
    BY Zenon DEF Claim, world
<1>2. CASE ledger' = ledger
    BY Zenon, <1>1, <1>2 DEF KeyStep
<1>3. CASE ledger[KeyOf(c)] = "none" /\ ledger' = [ledger EXCEPT ![KeyOf(c)] = "claimed"]
    BY Zenon, <1>1, <1>3 DEF KeyStep, WorldTypes
<1> QED BY Zenon, <1>1, <1>2, <1>3

LEMMA PerformStep ==
    ASSUME WorldTypes, NEW j \in Key, done[j] = 0, ledger[j] \in {"claimed", "unknown"},
           UNCHANGED ledger, Perform(j) \/ UNCHANGED done, NEW k \in Key
    PROVE  KeyStep(k)
<1>1. CASE Perform(j)
  <2>1. done' = [done EXCEPT ![j] = 1]
      BY <1>1 DEF Perform
  <2> QED BY Zenon, <2>1 DEF KeyStep, WorldTypes
<1>2. CASE UNCHANGED done
    BY Zenon, <1>2 DEF KeyStep
<1> QED BY Zenon, <1>1, <1>2

LEMMA InvokeStep ==
    ASSUME Inv, NEW c \in Callers, Invoke(c), NEW k \in Key
    PROVE  KeyStep(k)
<1>1. UNCHANGED ledger /\ ((Mutates(c) /\ Perform(KeyOf(c))) \/ UNCHANGED done) /\ req[c].at = "invoke"
    BY Zenon DEF Invoke, At
<1>2. WorldTypes /\ Local(c) /\ Own(c)
    BY Zenon, CallerFacts
<1>3. CASE Mutates(c)
  <2>1. req[c].call \in MutatingKeys
      BY Zenon, <1>1, <1>2, <1>3, MutatingKeyOf DEF Local, Calling
  <2>2. /\ KeyOf(c) \in Key /\ done[KeyOf(c)] = 0 /\ ledger[KeyOf(c)] \in {"claimed", "unknown"}
      BY Zenon, <1>1, <1>2, <2>1, KeyTypes DEF Own, KeyOf, Owning
  <2> QED BY Zenon, <1>1, <1>2, <2>2, PerformStep
<1>4. CASE ~Mutates(c)
    BY Zenon, <1>1, <1>4 DEF KeyStep
<1> QED BY Zenon, <1>3, <1>4

LEMMA CommitStep ==
    ASSUME Inv, NEW c \in Callers, Commit(c), NEW k \in Key
    PROVE  KeyStep(k)
<1>1. PICK j, o : j = KeyOf(c) /\ o = req[c].outcome
    BY Zenon
<1>2. /\ done' = done /\ req[c].at = "commit"
      /\ ledger' \in {ledger, [ledger EXCEPT ![j] = o]}
                     \cup (IF o = "succeeded" THEN {[ledger EXCEPT ![j] = "unknown"]} ELSE {})
    BY Zenon, <1>1 DEF Commit, At, world
<1>3. WorldTypes /\ Local(c) /\ Own(c) /\ req[c] \in Request
    BY Zenon, CallerFacts
<1>4. req[c].call \in MutatingKeys /\ o \in Outcomes
    BY Zenon, <1>1, <1>2, <1>3, MutatingKeyOf DEF Local, Calling, Request
<1>5. j \in Key /\ ledger[j] = "claimed" /\ (o = "succeeded" => done[j] = 1)
    BY Zenon, <1>1, <1>2, <1>3, <1>4, KeyTypes DEF Own, KeyOf, Owning
<1>6. CASE ledger' = ledger
    BY Zenon, <1>2, <1>6 DEF KeyStep
<1>7. ASSUME NEW v \in Outcomes, ledger' = [ledger EXCEPT ![j] = v], v = "succeeded" => o = "succeeded"
      PROVE  KeyStep(k)
    BY Zenon, <1>2, <1>3, <1>5, <1>7 DEF KeyStep, WorldTypes, Outcomes
<1>8. ledger' = ledger \/ \E v \in Outcomes : ledger' = [ledger EXCEPT ![j] = v] /\ (v = "succeeded" => o = "succeeded")
    BY Zenon, <1>2, <1>4 DEF Outcomes
<1> QED BY Zenon, <1>6, <1>7, <1>8

LEMMA EveryStep ==
    ASSUME Inv, [Next]_vars, NEW k \in Key
    PROVE  KeyStep(k)
<1>1. WorldTypes /\ KeysOK
    BY Zenon, InvNames
<1>2. CASE UNCHANGED <<ledger, done>>
    BY Zenon, <1>2 DEF KeyStep
<1>3. ASSUME NEW j \in late, LateCall(j) PROVE KeyStep(k)
  <2>1. j \in Key /\ done[j] = 0 /\ ledger[j] \in {"claimed", "unknown"}
      BY Zenon, <1>1 DEF KeysOK, KeyOK, WorldTypes
  <2>2. UNCHANGED ledger /\ (Perform(j) \/ UNCHANGED done)
      BY Zenon, <1>3 DEF LateCall
  <2> QED BY Zenon, <1>1, <2>1, <2>2, PerformStep
<1>4. ASSUME NEW c \in Callers, Claim(c) \/ Invoke(c) \/ Commit(c) PROVE KeyStep(k)
    BY Zenon, <1>1, <1>4, ClaimStep, InvokeStep, CommitStep
<1>5. ASSUME NEW c \in Callers,
             \/ \E t \in Tools \cup {"unlisted"}, a \in Arguments : CallTool(c, t, a)
             \/ PolicyCheck(c) \/ ReserveToolCall(c) \/ ResolveCredential(c) \/ ShapeResult(c)
             \/ UploadArtifact(c)
             \/ \E input \in Inputs, limit \in Limits : InvokeModel(c, input, limit)
             \/ ModelFails(c)
             \/ \E input \in Inputs, output \in Outputs : FinishModel(c, input, output)
      PROVE  UNCHANGED <<ledger, done>>
    BY Zenon, <1>5 DEF CallTool, PolicyCheck, ReserveToolCall, ResolveCredential, ShapeResult, UploadArtifact,
       InvokeModel, ModelFails, FinishModel, world
<1>6. (\E id \in PhaseRequests : PhaseRequest(id)) \/ Restart \/ UNCHANGED vars => UNCHANGED <<ledger, done>>
    BY Zenon DEF PhaseRequest, Restart, vars, world
<1> QED BY Zenon, <1>2, <1>3, <1>4, <1>5, <1>6 DEF Next

(***************************************************************************)
(* Every mutating key keeps the promise of a claimed effect (ClaimedEffect) *)
(* whatever callers, lost calls and new broker processes do: it is claimed *)
(* before it is performed, performed at most once, and given an outcome    *)
(* once, which is success only if it was performed (Broker.CallTool).      *)
(***************************************************************************)
THEOREM EffectRefined == Spec => ImplementsEffect
<1>1. Init => \A k \in MutatingKeys : Effect(k)!Init
  <2> SUFFICES ASSUME Init, NEW k \in MutatingKeys PROVE Effect(k)!Init
      BY Zenon
  <2>1. k \in Key
      BY Zenon, KeyTypes
  <2> QED BY <2>1 DEF Init, Effect!Init
<1>2. Inv /\ [Next]_vars => \A k \in MutatingKeys : Effect(k)!Next \/ UNCHANGED Effect(k)!vars
  <2> SUFFICES ASSUME Inv, [Next]_vars, NEW k \in MutatingKeys
               PROVE  Effect(k)!Next \/ UNCHANGED Effect(k)!vars
      BY Zenon
  <2>1. KeyStep(k) /\ done[k] \in Nat
      BY Zenon, KeyTypes, EveryStep DEF Inv, TypeOK
  <2> QED BY <2>1 DEF KeyStep, Effect!Next, Effect!Claim, Effect!Perform, Effect!Record, Effect!vars
<1>3. Inv /\ [Next]_vars => [\A k \in MutatingKeys : Effect(k)!Next \/ UNCHANGED Effect(k)!vars]_vars
    BY Zenon, <1>2
<1> QED BY <1>1, <1>3, Invariance, PTL DEF Spec, ImplementsEffect, MutatingKeys
=============================================================================
