------------------------------- MODULE Broker -------------------------------
(***************************************************************************)
(* The per-run broker: the agent's only way to tools, models and stored    *)
(* artifacts.  Requests are served concurrently.  What they share is the   *)
(* budget (one mutex), the phase (one lock), the effect ledger and the     *)
(* store; every step below is one access to one of them, or one exchange   *)
(* with an upstream server.                                                *)
(*                                                                         *)
(* Sizes, prices and names are small sets.  A tool call is identified by   *)
(* its tool and arguments, which also make its effect key.  The ledger is  *)
(* taken at its word (EffectLedger): a claim is granted at most once per   *)
(* key and has at most one outcome.                                        *)
(***************************************************************************)
EXTENDS Integers, FiniteSets, FiniteSetsExt

CONSTANTS
    Callers,        \* requests that may be served at a time
    Tools,          \* the tools of all profiles
    Mutating,       \* those whose effect is write or publish
    Explore, Edit,  \* the tools of the two agent profiles
    Exact,          \* tools whose arguments are fixed by the ToolSet
    Arguments,      \* arguments of calls; "fixed" are the ones of the ToolSet
    PhaseRequests,  \* identities of the supervisor's phase requests
    MaxToolCalls,   \* budgets of the run
    MaxRequests, MaxTokens, MaxCost,
    InputPrice, OutputPrice,
    Inputs,         \* bound: token estimates of model request bodies
    Limits,         \* bound: output limits a request may name
    Outputs,        \* bound: output tokens of a reply
    OutputCap,      \* the most one request may reserve for its output
    MaxRestarts     \* bound: broker processes after the first

Key == Tools \X Arguments
Outcomes == {"succeeded", "failed", "unknown"}

\* Answers after which nothing has been sent to a tool server.
Refusals == {"phase denied", "denied", "approval required", "invalid", "over budget",
             "ledger unavailable", "already claimed", "no credential"}

\* compileToolSet: names are unique and every profile refers to declared tools.
ValidToolSet ==
    /\ Mutating \subseteq Tools /\ Exact \subseteq Tools
    /\ Explore # {} /\ Edit # {} /\ Explore \cup Edit \subseteq Tools

\* normalizeLimits and New: every limit has a positive default.
ValidLimits ==
    /\ {MaxToolCalls, MaxRequests, MaxTokens, OutputCap} \subseteq Nat \ {0}
    /\ {MaxCost, InputPrice, OutputPrice, MaxRestarts} \subseteq Nat

ASSUME ConfigAssumption == ValidToolSet /\ ValidLimits
ASSUME BoundsAssumption ==
    /\ IsFiniteSet(Callers) /\ "fixed" \in Arguments
    /\ Inputs \cup Limits \cup Outputs \subseteq Nat /\ 0 \notin Inputs

VARIABLES
    mode, phase,      \* "agent" or "verifier"; the current tool profile
    requireApproval,  \* mutating calls need an approval
    receipt,          \* the remembered phase request and its answer
    budget,           \* counters of this process
    req,              \* per caller: its request
    ledger,           \* per key: "none", "claimed" or its outcome
    late,             \* calls whose sender gave up and that may still take effect
    done,             \* per key: how often the tool server performed it
    stored,           \* objects in the result and artifact store
    restarts,         \* processes started after the first
    sends,            \* history: calls this process sent to tool servers
    overrun           \* history: tokens and cost replies used beyond what they reserved

shared == <<mode, requireApproval>>
world  == <<late, done, sends>>
vars   == <<mode, phase, requireApproval, receipt, budget, req, ledger, late, done, stored,
            restarts, sends, overrun>>

NoCall == <<>>

Idle == [at |-> "idle", call |-> NoCall, reply |-> "none", outcome |-> "none", answer |-> "none",
         sent |-> FALSE, refs |-> {}, input |-> 0, output |-> 0]

Fresh == [tools |-> 0, requests |-> 0, tokens |-> 0, cost |-> 0, reserved |-> 0, reservedCost |-> 0]

NoReceipt == [id |-> "none", status |-> "none"]

InitialPhase(m) == IF m = "verifier" THEN "verify" ELSE "explore"

Init ==
    /\ mode \in {"agent", "verifier"} /\ requireApproval \in BOOLEAN
    /\ phase = InitialPhase(mode) /\ receipt = NoReceipt
    /\ budget = Fresh /\ req = [c \in Callers |-> Idle]
    /\ ledger = [k \in Key |-> "none"] /\ late = {} /\ done = [k \in Key |-> 0]
    /\ stored = {} /\ restarts = 0
    /\ sends = 0 /\ overrun = [tokens |-> 0, cost |-> 0]

-----------------------------------------------------------------------------
At(c, place) == req[c].at = place

Go(c, place) == req' = [req EXCEPT ![c].at = place]

\* What the properties tell apart of an answer.
Heard(a) == IF a \in Refusals THEN "refused" ELSE IF a = "succeeded" THEN a ELSE "answered"

Answer(c, a) ==
    req' = [req EXCEPT ![c] = [Idle EXCEPT !.answer = Heard(a), !.sent = req[c].sent]]

Refuse(c, a) == req' = [req EXCEPT ![c] = [Idle EXCEPT !.answer = Heard(a)]]

\* The next request of a caller takes the place of its last one.
Free(c) == At(c, "idle")

KeyOf(c) == req[c].call

ToolOf(c) == req[c].call[1]

Mutates(c) == ToolOf(c) \in Mutating

-----------------------------------------------------------------------------
(***************************************************************************)
(* Phases.                                                                 *)
(***************************************************************************)

Profile == CASE phase = "explore" -> Explore [] phase = "edit" -> Edit [] OTHER -> {}

\* The capability of the private handler authorises it; only the agent mode
\* has it.  A denial is remembered as well.
TransitionToEdit(id) ==
    IF mode = "agent"
    THEN phase' = "edit" /\ receipt' = [id |-> id, status |-> "granted"]
    ELSE phase' = phase /\ receipt' = [id |-> id, status |-> "denied"]

\* A request that is cancelled on the way is not remembered; a remembered one is
\* answered again, and any other is a conflict.
PhaseRequest(id) ==
    /\ \/ receipt = NoReceipt /\ TransitionToEdit(id)
       \/ UNCHANGED <<phase, receipt>>
    /\ UNCHANGED <<shared, budget, req, ledger, world, stored, restarts, overrun>>

-----------------------------------------------------------------------------
(***************************************************************************)
(* Tool calls.                                                             *)
(***************************************************************************)

Lookup(t) ==
    CASE t \notin Tools -> "unknown"
      [] t \in Profile -> "allowed"
      [] OTHER -> "phase denied"

\* MCPHandler.callTool: the tool is looked up by its name and the arguments
\* are an object.
CallTool(c, t, a) ==
    /\ Free(c) /\ mode = "agent"
    /\ \/ /\ Lookup(t) = "allowed"
          /\ req' = [req EXCEPT ![c] = [Idle EXCEPT !.at = "reserve", !.call = <<t, a>>]]
       \/ /\ Lookup(t) # "allowed"
          /\ Refuse(c, IF Lookup(t) = "unknown" THEN "denied" ELSE "phase denied")
       \/ Refuse(c, "invalid")
    /\ UNCHANGED <<shared, phase, receipt, budget, ledger, world, stored, restarts, overrun>>

\* The policy_check tool reads the policy of the run; it has no budget and no phase.
PolicyCheck(c) ==
    /\ Free(c) /\ mode = "agent"
    /\ Refuse(c, "checked")
    /\ UNCHANGED <<shared, phase, receipt, budget, ledger, world, stored, restarts, overrun>>

\* toolpolicy.Evaluate of the one grant.
Evaluate(c) ==
    CASE ToolOf(c) \in Exact /\ KeyOf(c)[2] # "fixed" -> "denied"
      [] ~(ToolOf(c) \in Exact /\ KeyOf(c)[2] # "fixed") /\ Mutates(c) /\ requireApproval -> "approval required"
      [] OTHER -> "allowed"

(***************************************************************************)
(* Broker.CallTool looks the tool up again, because the phase may have     *)
(* changed, and reserves the call; a call the policy refuses has spent its *)
(* budget.                                                                 *)
(***************************************************************************)
ReserveToolCall(c) ==
    /\ At(c, "reserve")
    /\ \/ Lookup(ToolOf(c)) = "phase denied" /\ Answer(c, "phase denied") /\ UNCHANGED budget
       \/ /\ Lookup(ToolOf(c)) # "phase denied" /\ budget.tools >= MaxToolCalls
          /\ Answer(c, "over budget") /\ UNCHANGED budget
       \/ /\ Lookup(ToolOf(c)) # "phase denied" /\ budget.tools < MaxToolCalls
          /\ budget' = [budget EXCEPT !.tools = @ + 1]
          /\ IF Evaluate(c) # "allowed" THEN Answer(c, Evaluate(c))
             ELSE Go(c, IF Mutates(c) THEN "claim" ELSE "credential")
    /\ UNCHANGED <<shared, phase, receipt, ledger, world, stored, restarts, overrun>>

\* Mutant: a failed effect is claimed again.
MutantClaimAgain(c) ==
    LET k == KeyOf(c) IN
    /\ At(c, "claim")
    /\ \/ ledger[k] \in {"none", "failed"} /\ ledger' = [ledger EXCEPT ![k] = "claimed"] /\ Go(c, "credential")
       \/ ledger[k] \notin {"none", "failed"} /\ Answer(c, "unknown") /\ UNCHANGED ledger
    /\ UNCHANGED <<shared, phase, receipt, budget, world, stored, restarts, overrun>>

(***************************************************************************)
(* A mutating call claims its effect.  A claim without an outcome, or with *)
(* an unknown one, is an unknown effect; a definite outcome is not         *)
(* replayed; and an error may or may not have left the claim.              *)
(***************************************************************************)
Claim(c) ==
    LET k == KeyOf(c) IN
    /\ At(c, "claim")
    /\ \/ ledger[k] = "none" /\ ledger' = [ledger EXCEPT ![k] = "claimed"] /\ Go(c, "credential")
       \/ ledger[k] \in {"claimed", "unknown"} /\ Answer(c, "unknown") /\ UNCHANGED ledger
       \/ ledger[k] \in {"succeeded", "failed"} /\ Answer(c, "already claimed") /\ UNCHANGED ledger
       \/ /\ ledger' \in {ledger, IF ledger[k] = "none" THEN [ledger EXCEPT ![k] = "claimed"] ELSE ledger}
          /\ Answer(c, "ledger unavailable")
    /\ UNCHANGED <<shared, phase, receipt, budget, world, stored, restarts, overrun>>

\* The outcome is recorded next, and the caller answered after that.
Conclude(c, o) == req' = [req EXCEPT ![c].at = "commit", ![c].outcome = o]

\* Without a credential nothing is sent: the effect has failed.
ResolveCredential(c) ==
    /\ At(c, "credential")
    /\ \/ req' = [req EXCEPT ![c].at = "invoke", ![c].sent = TRUE] /\ sends' = sends + 1
       \/ Mutates(c) /\ Conclude(c, "failed") /\ UNCHANGED sends
       \/ ~Mutates(c) /\ Answer(c, "no credential") /\ UNCHANGED sends
    /\ UNCHANGED <<shared, phase, receipt, budget, ledger, late, done, stored, restarts, overrun>>

\* The tool server performs a call.
Perform(k) == done' = [done EXCEPT ![k] = @ + 1]

\* What the broker makes of the reply: a write that is not a plain success is an
\* unknown effect.
Reply(c, r) ==
    IF Mutates(c) /\ r \in {"lost", "error"} THEN Conclude(c, "unknown")
    ELSE IF r = "lost" THEN Answer(c, "unavailable")
    ELSE req' = [req EXCEPT ![c].at = "shape", ![c].reply = r]

(***************************************************************************)
(* invokeMCP opens a session and sends the call once.  The reply is small, *)
(* large or an error, or it is lost; a lost call may take effect at once,  *)
(* later, or never.                                                        *)
(***************************************************************************)
Invoke(c) ==
    LET k == KeyOf(c) IN
    /\ At(c, "invoke")
    /\ \/ /\ Mutates(c) /\ Perform(k) /\ UNCHANGED late
          /\ \E r \in {"small", "large", "error", "lost"} : Reply(c, r)
       \/ /\ Reply(c, "error") /\ UNCHANGED <<done, late>>
       \/ /\ Reply(c, "lost") /\ late' = late \cup ({k} \cap (Mutating \X Arguments)) /\ UNCHANGED done
       \/ /\ ~Mutates(c) /\ UNCHANGED <<done, late>>
          /\ \E r \in {"small", "large"} : Reply(c, r)
    /\ UNCHANGED <<shared, phase, receipt, budget, ledger, sends, stored, restarts, overrun>>

\* A call whose sender has given up takes effect, or never does.
LateCall(k) ==
    /\ late' = late \ {k}
    /\ Perform(k) \/ UNCHANGED done
    /\ UNCHANGED <<shared, phase, receipt, budget, req, ledger, sends, stored, restarts,
                   overrun>>

\* What is stored of a result: its bytes name it.
Result(c) == <<ToolOf(c), KeyOf(c)[2], req[c].reply>>

\* A successful call is recorded, a read is answered.
Succeed(c, refs) ==
    req' = [req EXCEPT ![c] = IF Mutates(c) THEN [@ EXCEPT !.at = "commit", !.outcome = "succeeded", !.refs = refs]
                              ELSE [Idle EXCEPT !.answer = "answered", !.sent = TRUE, !.refs = refs]]

(***************************************************************************)
(* shapeToolResult: a small result is passed on; a large one, or an error, *)
(* is stored and only a reference passed on.  An object is named by its    *)
(* bytes, and putting it again finds it there; an error may have left it.  *)
(* A write whose result cannot be stored is an unknown effect.             *)
(***************************************************************************)
ShapeResult(c) ==
    /\ At(c, "shape")
    /\ \/ req[c].reply = "small" /\ Succeed(c, {}) /\ UNCHANGED stored
       \/ /\ req[c].reply # "small"
          /\ stored' = stored \cup {Result(c)}
          /\ Succeed(c, {Result(c)})
       \/ /\ req[c].reply # "small"
          /\ stored' \in {stored, stored \cup {Result(c)}}
          /\ IF Mutates(c) THEN Conclude(c, "unknown") ELSE Answer(c, "unavailable")
    /\ UNCHANGED <<shared, phase, receipt, budget, ledger, world, restarts, overrun>>

\* Mutant: an effect that is not known to have happened is told as not attempted.
MutantTold(o) == IF o = "succeeded" THEN "succeeded" ELSE "no credential"

\* What the agent is told of a call whose outcome is in the ledger.
Told(o) == CASE o = "succeeded" -> "succeeded" [] o = "failed" -> "no credential" [] OTHER -> "unknown"

(***************************************************************************)
(* commitEffect.  If success cannot be recorded the broker tries to record *)
(* the effect as unknown, which the ledger takes only if success did not   *)
(* arrive; either way the agent is told that the effect is unknown.  A     *)
(* reply that does not fit into the response is an internal error.         *)
(***************************************************************************)
Commit(c) ==
    LET k == KeyOf(c)
        o == req[c].outcome
    IN  /\ At(c, "commit")
        /\ \/ /\ ledger' = [ledger EXCEPT ![k] = o]
              /\ \/ o = "succeeded" /\ req' = [req EXCEPT ![c].at = "idle", ![c].answer = Heard(Told(o))]
                 \/ o # "succeeded" /\ Answer(c, Told(o))
                 \/ o = "succeeded" /\ Answer(c, "internal error")
           \/ /\ ledger' \in {ledger, [ledger EXCEPT ![k] = o]}
                     \cup (IF o = "succeeded" THEN {[ledger EXCEPT ![k] = "unknown"]} ELSE {})
              /\ Answer(c, "unknown")
        /\ UNCHANGED <<shared, phase, receipt, budget, world, stored, restarts, overrun>>

\* ArtifactHandler and UploadArtifact: the object is named by its bytes.
UploadArtifact(c) ==
    LET body == <<"artifact", "fixed", "body">> IN
    /\ Free(c)
    /\ \/ /\ stored' = stored \cup {body}
          /\ req' = [req EXCEPT ![c] = [Idle EXCEPT !.answer = "answered", !.refs = {body}]]
       \/ /\ stored' \in {stored, stored \cup {body}}
          /\ Refuse(c, "unavailable")
    /\ UNCHANGED <<shared, phase, receipt, budget, ledger, world, restarts, overrun>>

-----------------------------------------------------------------------------
(***************************************************************************)
(* Model requests.                                                         *)
(***************************************************************************)

\* estimateCost: a run without a cost limit uses a free route.
EstimateCost(input, output) ==
    IF MaxCost = 0 THEN 0 ELSE input * InputPrice + output * OutputPrice

\* Mutant: what other requests hold is available once more.
MutantRemaining == MaxTokens - budget.tokens

Remaining == MaxTokens - budget.tokens - budget.reserved

\* What is reserved for the output; a request that names no limit has limit 0.
OutputEstimate(input, limit) ==
    Min({Remaining - input, OutputCap} \cup (IF limit > 0 THEN {limit} ELSE {}))

Affordable(input, limit) ==
    /\ budget.requests < MaxRequests
    /\ Remaining > input
    /\ EstimateCost(input, OutputEstimate(input, limit)) <= MaxCost - budget.cost - budget.reservedCost

Reserve(input, output) ==
    budget' = [budget EXCEPT !.requests = @ + 1, !.reserved = @ + input + output,
                             !.reservedCost = @ + EstimateCost(input, output)]

(***************************************************************************)
(* invokeModelWire up to the provider request.  The body is checked, the   *)
(* budget reserved, and then the body is rewritten to the reserved output. *)
(* A body that cannot be rewritten (an explicit limit of zero, tools the   *)
(* provider's form cannot express) is refused with its reservation kept.   *)
(***************************************************************************)
InvokeModel(c, input, limit) ==
    /\ Free(c)
    /\ LET output == OutputEstimate(input, limit) IN
           \/ Refuse(c, "invalid") /\ UNCHANGED budget
           \/ ~Affordable(input, limit) /\ Refuse(c, "over budget") /\ UNCHANGED budget
           \/ /\ Affordable(input, limit) /\ Reserve(input, output)
              /\ req' = [req EXCEPT ![c] = [Idle EXCEPT !.at = "model", !.input = input, !.output = output]]
           \/ Affordable(input, limit) /\ Reserve(input, output) /\ Refuse(c, "invalid")
    /\ UNCHANGED <<shared, phase, receipt, ledger, world, stored, restarts, overrun>>

\* Subtraction that does not go below zero.
Less(a, b) == IF a >= b THEN a - b ELSE 0

Release(c) ==
    [budget EXCEPT !.reserved = Less(@, req[c].input + req[c].output),
                   !.reservedCost = Less(@, EstimateCost(req[c].input, req[c].output))]

\* A request that fails after its reservation gives it back and is not charged.
ModelFails(c) ==
    /\ At(c, "model")
    /\ budget' = Release(c)
    /\ Answer(c, "unavailable")
    /\ UNCHANGED <<shared, phase, receipt, ledger, world, stored, restarts, overrun>>

\* finishModel: the usage the provider reports is charged, whatever was reserved.
FinishModel(c, input, output) ==
    /\ At(c, "model")
    /\ budget' = [Release(c) EXCEPT !.tokens = @ + input + output,
                                    !.cost = @ + EstimateCost(input, output)]
    /\ overrun' = [tokens |-> overrun.tokens + Less(input + output, req[c].input + req[c].output),
                   cost |-> overrun.cost + Less(EstimateCost(input, output),
                                                EstimateCost(req[c].input, req[c].output))]
    /\ Answer(c, IF budget'.tokens <= MaxTokens /\ budget'.cost <= MaxCost THEN "completed" ELSE "over budget")
    /\ UNCHANGED <<shared, phase, receipt, ledger, world, stored, restarts>>

-----------------------------------------------------------------------------
\* The pod is created again: a new process, with the ledger, the store and the
\* tool servers as they are.
Restart ==
    /\ restarts < MaxRestarts
    /\ restarts' = restarts + 1
    /\ phase' = InitialPhase(mode) /\ receipt' = NoReceipt
    /\ budget' = Fresh /\ req' = [c \in Callers |-> Idle]
    /\ sends' = 0 /\ overrun' = [tokens |-> 0, cost |-> 0]
    /\ UNCHANGED <<shared, ledger, late, done, stored>>

Next ==
    \/ \E id \in PhaseRequests : PhaseRequest(id)
    \/ \E c \in Callers :
         \/ \E t \in Tools \cup {"unlisted"}, a \in Arguments : CallTool(c, t, a)
         \/ PolicyCheck(c) \/ ReserveToolCall(c) \/ Claim(c) \/ ResolveCredential(c)
         \/ Invoke(c) \/ ShapeResult(c) \/ Commit(c)
         \/ UploadArtifact(c)
         \/ \E input \in Inputs, limit \in Limits : InvokeModel(c, input, limit)
         \/ ModelFails(c)
         \/ \E input \in Inputs, output \in Outputs : FinishModel(c, input, output)
    \/ \E k \in late : LateCall(k)
    \/ Restart

Spec == Init /\ [][Next]_vars

-----------------------------------------------------------------------------
(***************************************************************************)
(* Properties.                                                             *)
(***************************************************************************)

Places == {"idle", "reserve", "claim", "credential", "invoke", "shape",
           "commit", "model"}

\* What a tool call or an upload may put in the store.
Objects == (Tools \X Arguments \X {"small", "large", "error"}) \cup {<<"artifact", "fixed", "body">>}

Request ==
    [at : Places, call : Key \cup {NoCall}, reply : {"none", "small", "large", "error"},
     outcome : Outcomes \cup {"none"}, answer : {"none", "refused", "succeeded", "answered"},
     sent : BOOLEAN, refs : SUBSET Objects, input : Nat, output : Nat]

\* Every variable keeps its type; the request counters stay within their limits.
TypeOK ==
    /\ mode \in {"agent", "verifier"} /\ requireApproval \in BOOLEAN
    /\ phase \in {"explore", "edit", "verify"}
    /\ receipt \in {NoReceipt} \cup [id : PhaseRequests, status : {"granted", "denied"}]
    /\ budget \in [tools : 0 .. MaxToolCalls, requests : 0 .. MaxRequests, tokens : Nat, cost : Nat,
                   reserved : Nat, reservedCost : Nat]
    /\ overrun \in [tokens : Nat, cost : Nat]
    /\ req \in [Callers -> Request]
    /\ ledger \in [Key -> Outcomes \cup {"none", "claimed"}]
    /\ late \subseteq Key /\ done \in [Key -> Nat] /\ stored \subseteq Objects
    /\ restarts \in 0 .. MaxRestarts /\ sends \in Nat

\* However often the agent repeats a mutating call, concurrently or after the
\* broker was replaced, the tool server is asked for the effect once: CallTool
\* sends it only under a claim it was granted.
OneWritePerKey == \A k \in Key : done[k] + Cardinality(late \cap {k}) <= 1

\* An agent told that its mutating call succeeded can rely on it: the tool server
\* performed it and the ledger says so, because CallTool records before it answers.
SuccessIsPerformed ==
    \A c \in Callers : req[c].answer = "succeeded" =>
        done[KeyOf(c)] = 1 /\ ledger[KeyOf(c)] = "succeeded"

\* A failure in the ledger is final: the tool server has not performed the effect
\* and no call that could is still on its way.  CallTool records a failure only when
\* there was no credential to send the call with.
FailureSentNothing ==
    \A k \in Key : ledger[k] = "failed" => done[k] = 0 /\ k \notin late

\* A refusal tells the agent that its own call was not sent: whatever CallTool
\* does after sending is answered as a result or as an unknown effect.
RefusalsSendNothing ==
    \A c \in Callers : req[c].answer = "refused" => ~req[c].sent

\* Concurrent calls cannot send more than the budget of tool calls between them.
SendsWithinBudget == sends <= MaxToolCalls

\* No call of an edit tool passes lookupToolForCall before the transition, the
\* supervisor is told "granted" only after it, and the verifier never leaves its phase.
PhaseGate ==
    /\ \A c \in Callers : req[c].at \notin {"idle", "reserve", "model"} /\ ToolOf(c) \notin Explore => phase = "edit"
    /\ receipt.status = "granted" => phase = "edit"
    /\ mode = "verifier" <=> phase = "verify"

\* Spending and open reservations together stay within the limits, up to what
\* providers reported beyond the reservation of the request: reserveModel counts
\* what concurrent requests hold.
SpendWithinReservations ==
    /\ budget.tokens + budget.reserved <= MaxTokens + overrun.tokens
    /\ budget.cost + budget.reservedCost <= MaxCost + overrun.cost

Serving == {c \in Callers : req[c].at = "model"}

Held == MapThenSumSet(LAMBDA c : req[c].input + req[c].output, Serving)

\* The reservation of a request that is being served is held until it ends:
\* finishModel never gives back what another request holds, and its clamp at zero
\* is never needed.
ReservationsHeld ==
    /\ budget.reserved >= Held
    /\ budget.reservedCost >= MapThenSumSet(LAMBDA c : EstimateCost(req[c].input, req[c].output), Serving)

\* A reference the agent was given resolves: shapeToolResult and UploadArtifact
\* hand it out after the object is in the store.
ReferencesResolve == \A c \in Callers : req[c].refs \subseteq stored

\* What an agent is told, and what the ledger says, is true of the tool server.
AnswersAreTrue ==
    SuccessIsPerformed /\ FailureSentNothing /\ RefusalsSendNothing /\ ReferencesResolve

\* Concurrent requests keep to the phase and the budgets of the run.
BudgetsHold == SendsWithinBudget /\ PhaseGate /\ SpendWithinReservations /\ ReservationsHeld

Effect(k) == INSTANCE ClaimedEffect WITH ledger <- ledger[k], done <- done[k] > 0

\* Every mutating call keeps the promise of a claimed effect across processes.
ImplementsEffect ==
    /\ \A k \in Mutating \X Arguments : Effect(k)!Init
    /\ [][\A k \in Mutating \X Arguments : Effect(k)!Next \/ UNCHANGED Effect(k)!vars]_vars
=============================================================================
