--------------------------- MODULE AgentRunProofs ---------------------------
(***************************************************************************)
(* The theorems about an AgentRun.  AgentRunViews shows that every step    *)
(* keeps what is known of the workers' copies; this module adds that every *)
(* step keeps the types, that at most one worker stands between the claim  *)
(* of the effect and its outcome, and that the records written outside the *)
(* run object agree with it.  Together they are the inductive invariant    *)
(* Inv, from which the properties follow.                                  *)
(***************************************************************************)
EXTENDS AgentRunViews

-----------------------------------------------------------------------------
(* Every step keeps the types *)

StoreTypes ==
    /\ saved \subseteq Digests /\ secrets \subseteq {"work", "verify"}
    /\ child \in Children /\ context \in BOOLEAN
    /\ stream \in Reports \cup {"none"} /\ completion \in Reports \cup {"none"}
    /\ capturer \in {"none", "running", "done", "failed"}
    /\ verifier \in {"none", "running", "Accepted", "Rejected"}
    /\ ledger \in {"none", "claimed", "succeeded", "failed", "unknown"} /\ pr \in BOOLEAN
    /\ reviews \in ReviewStates
    /\ made \in 0 .. MaxChildren /\ clock \in 0 .. MaxClock /\ faults \in 0 .. MaxFaults

RunTypes == LocalTypes /\ obj \in RunObjects

LEMMA TypeParts == TypeOK <=> RunTypes /\ StoreTypes
BY Zenon, Zenon DEF TypeOK, RunTypes, StoreTypes, LocalTypes

\* What most steps do to the worker that takes them.
Acts(w) ==
    \/ Requeue(w) \/ Done(w)
    \/ \E n \in RunObjects, c \in Calls : Edit(w, n, c)

LEMMA ActsTypes ==
    ASSUME RunTypes, NEW w \in Workers, Acts(w), UNCHANGED obj
    PROVE  RunTypes'
<1>1. CASE Requeue(w) \/ Done(w)
    BY Zenon, <1>1, RequeueTypes DEF RunTypes
<1>2. CASE \E n \in RunObjects, c \in Calls : Edit(w, n, c)
    BY Zenon, <1>2, EditTypes DEF RunTypes
<1> QED BY Zenon, <1>1, <1>2 DEF Acts

LEMMA PhaseActs ==
    ASSUME RunTypes, NEW w \in Workers, NEW x \in Active \cup Terminal,
           Edit(w, [run[w] EXCEPT !.phase = x], "update")
    PROVE  Acts(w)
<1>1. [run[w] EXCEPT !.phase = x] \in RunObjects
    BY Zenon, EditedTypes DEF RunTypes, LocalTypes
<1>2. "update" \in Calls
    BY Zenon DEF Calls
<1> QED BY Zenon, <1>1, <1>2 DEF Acts

LEMMA ContinueActs ==
    ASSUME RunTypes, NEW w \in Workers, NEW c \in Calls, Continue(w, c)
    PROVE  Acts(w)
<1>1. run[w] \in RunObjects
    BY Zenon DEF RunTypes, LocalTypes
<1> QED BY Zenon, <1>1 DEF Acts, Continue

LEMMA GetTypes ==
    ASSUME TypeOK, ViewsAndObject, NEW w \in Workers, Get(w)
    PROVE  RunTypes'
<1>1. RunTypes
    BY Zenon, TypeParts
<1>2. UNCHANGED <<failed, plan, cache, obj>>
    BY Zenon DEF Get
<1>3. queued' \in [Workers -> BOOLEAN]
    BY Zenon, <1>1 DEF Get, RunTypes, LocalTypes
<1>4. CASE obj.there /\ Branch(obj) # "idle"
  <2>1. Branch(obj) \in Calls
      BY Zenon, <1>1, <1>4, BranchAt DEF ViewsAndObject, RunTypes
  <2>2. /\ run' \in [Workers -> RunObjects] /\ fresh' \in [Workers -> BOOLEAN]
        /\ pc' \in [Workers -> Calls]
    <3>1. /\ run' = [run EXCEPT ![w] = obj] /\ fresh' = [fresh EXCEPT ![w] = TRUE]
          /\ pc' = [pc EXCEPT ![w] = Branch(obj)]
        BY Zenon, <1>4 DEF Get, Goto
    <3>2. TRUE \in BOOLEAN
        BY Zenon
    <3> QED BY <1>1, <2>1, <3>1, <3>2, UpdatedFunction, Zenon DEF RunTypes, LocalTypes
  <2> QED BY Zenon, <1>1, <1>2, <1>3, <2>2 DEF RunTypes, LocalTypes
<1>5. CASE ~(obj.there /\ Branch(obj) # "idle")
  <2>1. UNCHANGED <<run, fresh, pc>>
      BY Zenon, <1>5 DEF Get
  <2> QED BY Zenon, <1>1, <1>2, <1>3, <2>1 DEF RunTypes, LocalTypes
<1> QED BY Zenon, <1>4, <1>5

LEMMA TouchReturnTypes ==
    ASSUME RunTypes, NEW w \in Workers, NEW n \in RunObjects, Touch(n), Return(w)
    PROVE  RunTypes'
<1>1. /\ fresh' \in [Workers -> BOOLEAN] /\ queued' \in [Workers -> BOOLEAN]
      /\ obj' \in RunObjects
    BY Zenon DEF Touch
<1> QED BY Zenon, <1>1, ReturnTypes DEF RunTypes, LocalTypes

LEMMA AdmissionTypes ==
    ASSUME RunTypes, NEW w \in Workers,
           \/ AddFinalizer(w) \/ Resolve(w) \/ ResolveRejected(w) \/ LockResolution(w)
           \/ SaveResolvedSpec(w) \/ RecoverResolvedSpecRef(w) \/ UpdateStatus(w)
    PROVE  RunTypes'
<1>0. run[w] \in RunObjects /\ obj \in RunObjects
    BY Zenon DEF RunTypes, LocalTypes
<1>1. {"lock", "save", "update", "idle"} \subseteq Calls
    BY Zenon DEF Calls
<1>2. CASE AddFinalizer(w)
  <2>1. \/ Touch([obj EXCEPT !.finalizer = TRUE]) /\ Return(w)
        \/ Requeue(w) /\ UNCHANGED obj
      BY Zenon, <1>2 DEF AddFinalizer
  <2>2. [obj EXCEPT !.finalizer = TRUE] \in RunObjects
      BY Zenon, <1>0, EditedTypes
  <2> QED BY Zenon, <2>1, <2>2, TouchReturnTypes, ActsTypes DEF Acts
<1>3. CASE Resolve(w)
  <2>1. PICK d \in Digests : Edit(w, [run[w] EXCEPT !.phase = "Pending", !.digest = d], "lock")
      BY Zenon, <1>3 DEF Resolve
  <2>2. [run[w] EXCEPT !.phase = "Pending", !.digest = d] \in RunObjects
      BY Zenon, <1>0, EditedTypes
  <2> QED BY Zenon, <1>1, <1>3, <2>1, <2>2, ActsTypes DEF Acts, Resolve
<1>4. CASE ResolveRejected(w)
    BY Zenon, <1>4, PhaseActs, ActsTypes DEF ResolveRejected, Terminal
<1>5. CASE SaveResolvedSpec(w) \/ RecoverResolvedSpecRef(w)
  <2>1. [run[w] EXCEPT !.ref = TRUE] \in RunObjects
      BY Zenon, <1>0, EditedTypes
  <2>2. UNCHANGED obj /\ (Edit(w, [run[w] EXCEPT !.ref = TRUE], "update") \/ Requeue(w))
      BY Zenon, <1>5 DEF SaveResolvedSpec, RecoverResolvedSpecRef
  <2> QED BY Zenon, <1>1, <2>1, <2>2, ActsTypes DEF Acts
<1>6. CASE LockResolution(w) \/ UpdateStatus(w)
    BY Zenon, <1>1, <1>6, UpdateTypes DEF RunTypes, LockResolution, UpdateStatus
<1> QED BY Zenon, <1>2, <1>3, <1>4, <1>5, <1>6

LEMMA PendingTypes ==
    ASSUME RunTypes, NEW w \in Workers, clock \in 0 .. MaxClock,
           CheckExecution(w) \/ PlanWork(w) \/ Ensure(w) \/ ReadBack(w)
    PROVE  RunTypes'
<1>0. run[w] \in RunObjects /\ cache[w] \in Children
    BY Zenon DEF RunTypes, LocalTypes
<1>1. {"planWork", "ensure", "readBack", "update"} \subseteq Calls
    BY Zenon DEF Calls
<1>2. UNCHANGED obj
    BY Zenon DEF CheckExecution, PlanWork, Ensure, ReadBack
<1>3. ASSUME Adopt(w, cache[w]) PROVE Acts(w)
  <2>1. cache[w].uid \in 0 .. MaxChildren
      BY Zenon, <1>0 DEF Children
  <2>2. [run[w] EXCEPT !.work = cache[w].uid, !.phase = "Cloning"] \in RunObjects
      BY Zenon, <1>0, <2>1, EditedTypes
  <2> QED BY Zenon, <1>1, <1>3, <2>2 DEF Adopt, Acts
<1>4. CASE PlanWork(w)
  <2>1. pc' \in [Workers -> Calls] /\ plan' \in [Workers -> 0 .. MaxClock]
      BY <1>1, <1>4, UpdatedFunction, Zenon DEF PlanWork, Goto, RunTypes, LocalTypes
  <2>2. UNCHANGED <<run, fresh, failed, queued, cache>>
      BY Zenon, <1>4 DEF PlanWork
  <2> QED BY Zenon, <1>2, <2>1, <2>2 DEF RunTypes, LocalTypes
<1>5. CASE CheckExecution(w) \/ Ensure(w) \/ ReadBack(w)
  <2>1. Continue(w, "planWork") \/ Continue(w, "readBack") \/ Requeue(w) \/ Adopt(w, cache[w])
      BY Zenon, <1>5 DEF CheckExecution, Ensure, ReadBack
  <2>2. Acts(w)
      BY Zenon, <1>1, <1>3, <2>1, ContinueActs DEF Acts
  <2> QED BY Zenon, <1>2, <2>2, ActsTypes
<1> QED BY Zenon, <1>4, <1>5

LEMMA WorkingTypes ==
    ASSUME RunTypes, NEW w \in Workers, completion \in Reports \cup {"none"},
           pc[w] = "projectCompletion" => completion # "none",
           \/ ObserveClone(w) \/ ProjectContext(w) \/ LoadCompletion(w) \/ ObserveExit(w)
           \/ FinalizeObservedExit(w) \/ ProjectCompletion(w)
    PROVE  RunTypes'
<1>0. run[w] \in RunObjects
    BY Zenon DEF RunTypes, LocalTypes
<1>1. {"loadCompletion", "observeExit", "projectCompletion", "finalize0", "finalize1", "update"}
        \subseteq Calls
    BY Zenon DEF Calls
<1>2. UNCHANGED obj
    BY Zenon DEF ObserveClone, ProjectContext, LoadCompletion, ObserveExit, FinalizeObservedExit,
           ProjectCompletion
<1>3. {"Working", "Failed"} \subseteq Active \cup Terminal
    BY Zenon DEF Active, Terminal
<1>4. CASE ProjectContext(w)
  <2>1. [run[w] EXCEPT !.ctx = TRUE] \in RunObjects
      BY Zenon, <1>0, EditedTypes
  <2>2. \/ Requeue(w) \/ Edit(w, [run[w] EXCEPT !.ctx = TRUE], "update")
        \/ Continue(w, "loadCompletion")
      BY Zenon, <1>4 DEF ProjectContext
  <2>3. Acts(w)
      BY Zenon, <1>1, <2>1, <2>2, ContinueActs DEF Acts
  <2> QED BY Zenon, <1>2, <2>3, ActsTypes
<1>5. CASE ProjectCompletion(w)
  <2> DEFINE m == [run[w] EXCEPT !.events = TRUE, !.phase = PhaseOf[completion],
                                 !.effect = IF completion = "UnknownEffect" THEN "unknown" ELSE @]
  <2>1. completion \in {"Completed", "Failed", "Cancelled", "UnknownEffect"}
      BY Zenon, <1>5, ReportsAssumption DEF ProjectCompletion
  <2>2. PhaseOf[completion] \in Active \cup Terminal
      BY <2>1 DEF PhaseOf, Active, Terminal
  <2>3. m \in RunObjects
      BY Zenon, <1>0, <2>2 DEF RunObjects
  <2>4. Edit(w, m, "update")
      BY Zenon, <1>5 DEF ProjectCompletion
  <2> HIDE DEF m
  <2>5. Acts(w)
      BY Zenon, <1>1, <2>3, <2>4 DEF Acts
  <2> QED BY Zenon, <1>2, <2>5, ActsTypes
<1>6. CASE ObserveClone(w) \/ LoadCompletion(w) \/ ObserveExit(w) \/ FinalizeObservedExit(w)
  <2>1. \/ Requeue(w) \/ Edit(w, [run[w] EXCEPT !.phase = "Working"], "update")
        \/ Edit(w, [run[w] EXCEPT !.phase = "Failed"], "update")
        \/ Continue(w, "observeExit") \/ Continue(w, "projectCompletion")
        \/ Continue(w, "finalize0") \/ Continue(w, "finalize1")
      BY Zenon, <1>6 DEF ObserveClone, LoadCompletion, ObserveExit, FinalizeObservedExit, FailRun
  <2>2. ASSUME Requeue(w)
        PROVE  Acts(w)
      BY Zenon, <2>2 DEF Acts
  <2>3. ASSUME \/ Edit(w, [run[w] EXCEPT !.phase = "Working"], "update")
               \/ Edit(w, [run[w] EXCEPT !.phase = "Failed"], "update")
        PROVE  Acts(w)
      BY Zenon, <1>3, <2>3, PhaseActs
  <2>4. ASSUME \/ Continue(w, "observeExit") \/ Continue(w, "projectCompletion")
               \/ Continue(w, "finalize0") \/ Continue(w, "finalize1")
        PROVE  Acts(w)
      BY Zenon, <1>1, <2>4, ContinueActs
  <2> QED BY Zenon, <1>2, <2>1, <2>2, <2>3, <2>4, ActsTypes
<1> QED BY Zenon, <1>4, <1>5, <1>6

LEMMA CapturingTypes ==
    ASSUME RunTypes, NEW w \in Workers, capturer \in {"none", "running", "done", "failed"},
           Capture(w) \/ SavePatch(w) \/ ReapCapture(w) \/ ReapWork(w)
    PROVE  RunTypes'
<1>0. run[w] \in RunObjects
    BY Zenon DEF RunTypes, LocalTypes
<1>1. {"savePatch", "reapCapture", "reapWork"} \subseteq Calls
    BY Zenon DEF Calls
<1>2. {"Failed", "Verifying"} \subseteq Active \cup Terminal
    BY Zenon DEF Active, Terminal
<1>3. CASE SavePatch(w)
    BY Zenon, <1>1, <1>3, UpdateTypes DEF SavePatch, RunTypes
<1>4. CASE Capture(w) \/ ReapCapture(w) \/ ReapWork(w)
  <2>1. \/ Requeue(w) \/ Edit(w, [run[w] EXCEPT !.phase = "Failed"], "update")
        \/ Edit(w, [run[w] EXCEPT !.phase = "Verifying"], "update")
        \/ Edit(w, [run[w] EXCEPT !.patch = TRUE], "savePatch")
        \/ Continue(w, "reapWork")
      BY Zenon, <1>4 DEF Capture, ReapCapture, ReapWork, FailRun
  <2>2. [run[w] EXCEPT !.patch = TRUE] \in RunObjects
      BY Zenon, <1>0, EditedTypes
  <2>3. ASSUME Requeue(w) \/ Edit(w, [run[w] EXCEPT !.patch = TRUE], "savePatch")
        PROVE  Acts(w)
      BY Zenon, <1>1, <2>2, <2>3 DEF Acts
  <2>4. ASSUME \/ Edit(w, [run[w] EXCEPT !.phase = "Failed"], "update")
               \/ Edit(w, [run[w] EXCEPT !.phase = "Verifying"], "update")
        PROVE  Acts(w)
      BY Zenon, <1>2, <2>4, PhaseActs
  <2>5. ASSUME Continue(w, "reapWork")
        PROVE  Acts(w)
      BY Zenon, <1>1, <2>5, ContinueActs
  <2>6. UNCHANGED obj
      BY Zenon, <1>4 DEF Capture, ReapCapture, ReapWork
  <2> QED BY Zenon, <2>1, <2>3, <2>4, <2>5, <2>6, ActsTypes
<1> QED BY Zenon, <1>3, <1>4

LEMMA VerdictTypes ==
    ASSUME RunTypes, NEW w \in Workers, verifier \in {"none", "running", "Accepted", "Rejected"},
           ledger \in {"none", "claimed", "succeeded", "failed", "unknown"},
           \/ Verify(w) \/ Gate(w) \/ Publish(w) \/ Mutate(w) \/ CommitEffect(w) \/ PublishFindings(w)
    PROVE  RunTypes'
<1>0. run[w] \in RunObjects
    BY Zenon DEF RunTypes, LocalTypes
<1>1. {"mutate", "commitEffect", "publishFindings", "update"} \subseteq Calls
    BY Zenon DEF Calls
<1>2. UNCHANGED obj
    BY Zenon DEF Verify, Gate, Publish, Mutate, CommitEffect, PublishFindings
<1>3. {"Rejected", "Succeeded", "Publishing", "Failed", "UnknownEffect"} \subseteq Active \cup Terminal
    BY Zenon DEF Active, Terminal
<1>4. ASSUME NEW e \in {"skipped", "succeeded", "failed", "unknown"}, NEW g, Project(w, e, g)
      PROVE  Acts(w)
  <2> DEFINE s == CombinedState(e, g)
             x == CASE s = "succeeded" -> IF run[w].digest \in Shadow /\ run[w].gate = "Rejected"
                                          THEN "Rejected" ELSE "Succeeded"
                    [] s = "failed" -> "Failed" [] s = "unknown" -> "UnknownEffect"
             y == IF e = "skipped" THEN "none" ELSE e
             z == FindingsCondition(run[w].digest, g)
             m == [run[w] EXCEPT !.effect = y, !.findings = z, !.phase = x]
  <2>1. s \in {"succeeded", "failed", "unknown"}
      BY Zenon DEF CombinedState
  <2>2. Edit(w, m, "update")
      BY Zenon, <1>4 DEF Project
  <2>3. z \in {"none", "true", "false", "unknown"}
      BY Zenon DEF FindingsCondition
  <2> HIDE DEF s, z
  <2>4. x \in Active \cup Terminal /\ y \in {"none", "succeeded", "failed", "unknown"}
      BY Zenon, <1>3, <2>1
  <2> HIDE DEF x, y
  <2>5. m \in RunObjects
      BY Zenon, <1>0, <2>3, <2>4, EditedTypes
  <2> HIDE DEF m
  <2> QED BY Zenon, <1>1, <2>2, <2>5 DEF Acts
<1>5. CASE Verify(w)
  <2>1. \/ Requeue(w) \/ Edit(w, [run[w] EXCEPT !.verify = TRUE], "update")
        \/ /\ verifier \in {"Accepted", "Rejected"}
           /\ Edit(w, [run[w] EXCEPT !.verify = TRUE, !.gate = verifier, !.phase = "Gated"], "update")
      BY Zenon, <1>5 DEF Verify
  <2>2. /\ [run[w] EXCEPT !.verify = TRUE] \in RunObjects
        /\ verifier \in {"Accepted", "Rejected"}
             => [run[w] EXCEPT !.verify = TRUE, !.gate = verifier, !.phase = "Gated"] \in RunObjects
      BY Zenon, <1>0, EditedTypes
  <2>3. Acts(w)
      BY Zenon, <1>1, <2>1, <2>2 DEF Acts
  <2> QED BY Zenon, <1>2, <2>3, ActsTypes
<1>6. CASE Gate(w)
  <2>1. \/ Edit(w, [run[w] EXCEPT !.phase = "Rejected"], "update")
        \/ Edit(w, [run[w] EXCEPT !.phase = "Succeeded"], "update")
        \/ Edit(w, [run[w] EXCEPT !.phase = "Publishing"], "update")
      BY Zenon, <1>6 DEF Gate
  <2>2. Acts(w)
      BY Zenon, <1>3, <2>1, PhaseActs
  <2> QED BY Zenon, <1>2, <2>2, ActsTypes
<1>7. CASE Publish(w) \/ Mutate(w) \/ CommitEffect(w) \/ PublishFindings(w)
  <2>a. ASSUME Publish(w) \/ CommitEffect(w)
        PROVE  \/ Continue(w, "mutate")
               \/ \E e \in {"succeeded", "failed", "unknown"} : PatchTold(w, e)
      BY Zenon, <2>a DEF Publish, CommitEffect
  <2>1. \/ Continue(w, "mutate") \/ Continue(w, "commitEffect") \/ Continue(w, "publishFindings")
        \/ \E e \in {"skipped", "succeeded", "failed", "unknown"},
              g \in {"skipped", "succeeded", "failed", "unknown"} : Project(w, e, g)
      BY Zenon, <1>7, <2>a DEF Mutate, PublishFindings, PatchTold
  <2>2. Acts(w)
      BY Zenon, <1>1, <1>4, <2>1, ContinueActs
  <2> QED BY Zenon, <1>2, <2>2, ActsTypes
<1> QED BY Zenon, <1>5, <1>6, <1>7

LEMMA CleanupTypes ==
    ASSUME RunTypes, NEW w \in Workers,
           \/ CleanSecrets(w) \/ CleanWork(w) \/ CleanVerify(w) \/ CleanCapture(w)
           \/ CleanupFails(w) \/ RemoveFinalizer(w) \/ EndCleanup(w) \/ Abort(w) \/ CleanupCallFails(w)
    PROVE  RunTypes'
<1>0. run[w] \in RunObjects /\ obj \in RunObjects
    BY Zenon DEF RunTypes, LocalTypes
<1>1. {"cleanWork", "cleanVerify", "cleanCapture", "endCleanup", "update"} \subseteq Calls
    BY Zenon DEF Calls
<1>2. CASE \/ CleanSecrets(w) \/ CleanWork(w) \/ CleanVerify(w) \/ CleanCapture(w)
           \/ CleanupCallFails(w)
  <2>1. UNCHANGED obj
      BY Zenon, <1>2 DEF CleanSecrets, CleanWork, CleanVerify, CleanCapture, CleanupCallFails
  <2>2. PICK c \in Calls, bad \in BOOLEAN : Step(w, c, bad)
    <3>1. Step(w, "cleanWork", FALSE) \/ Step(w, "cleanWork", TRUE)
          \/ Step(w, "cleanVerify", FALSE) \/ Step(w, "cleanCapture", FALSE)
          \/ Step(w, "cleanCapture", TRUE) \/ Step(w, "endCleanup", FALSE)
          \/ Step(w, "endCleanup", TRUE) \/ Step(w, "endCleanup", run[w].digest # NoDigest)
        BY Zenon, <1>2 DEF CleanSecrets, CleanWork, CleanVerify, CleanCapture, CleanupCallFails
    <3>2. (run[w].digest # NoDigest) \in BOOLEAN
        BY Zenon
    <3> QED BY Zenon, <1>1, <3>1, <3>2
  <2> QED BY Zenon, <2>1, <2>2, StepTypes DEF RunTypes
<1>3. CASE CleanupFails(w) \/ Abort(w)
    BY Zenon, <1>3, ActsTypes DEF CleanupFails, Abort, Acts
<1>4. CASE RemoveFinalizer(w)
  <2>1. [obj EXCEPT !.finalizer = FALSE, !.there = FALSE] \in RunObjects
      BY Zenon, <1>0, EditedTypes
  <2> QED BY Zenon, <1>4, <2>1, TouchReturnTypes DEF RemoveFinalizer
<1>5. CASE EndCleanup(w)
  <2>1. /\ UNCHANGED obj
        /\ \/ Done(w) \/ Continue(w, "update")
           \/ Edit(w, [run[w] EXCEPT !.phase = "Cancelled"], "update")
      BY Zenon, <1>5 DEF EndCleanup
  <2>2. "Cancelled" \in Active \cup Terminal
      BY Zenon DEF Terminal
  <2>3. Acts(w)
      BY Zenon, <1>1, <2>1, <2>2, ContinueActs, PhaseActs DEF Acts
  <2> QED BY Zenon, <2>1, <2>3, ActsTypes
<1> QED BY Zenon, <1>2, <1>3, <1>4, <1>5

LEMMA OutsideTypes ==
    ASSUME TypeOK, Outside \/ \E w \in Workers : InformerSync(w)
    PROVE  RunTypes'
<1>0. RunTypes /\ child \in Children
    BY Zenon, TypeParts DEF StoreTypes
<1>1. CASE RequestCancel \/ RequestDelete
  <2>1. /\ UNCHANGED <<run, pc, failed, plan, cache>>
        /\ \/ Touch([obj EXCEPT !.cancel = TRUE]) \/ Touch([obj EXCEPT !.deleting = TRUE])
           \/ Touch([obj EXCEPT !.there = FALSE])
      BY Zenon, <1>1 DEF RequestCancel, RequestDelete
  <2>2. /\ [obj EXCEPT !.cancel = TRUE] \in RunObjects /\ [obj EXCEPT !.deleting = TRUE] \in RunObjects
        /\ [obj EXCEPT !.there = FALSE] \in RunObjects
      BY Zenon, <1>0, EditedTypes DEF RunTypes
  <2> QED BY Zenon, <1>0, <2>1, <2>2, TouchTypes DEF RunTypes
<1>2. ASSUME NEW w \in Workers, InformerSync(w) PROVE RunTypes'
  <2>1. TRUE \in BOOLEAN
      BY Zenon
  <2>2. cache' = [cache EXCEPT ![w] = child] /\ queued' = [queued EXCEPT ![w] = TRUE]
      BY Zenon, <1>2 DEF InformerSync
  <2>3. cache' \in [Workers -> Children] /\ queued' \in [Workers -> BOOLEAN]
      BY <1>0, <2>1, <2>2, UpdatedFunction, Zenon DEF RunTypes, LocalTypes
  <2>4. UNCHANGED <<run, fresh, pc, failed, plan, obj>>
      BY Zenon, <1>2 DEF InformerSync
  <2> QED BY Zenon, <1>0, <2>3, <2>4 DEF RunTypes, LocalTypes
<1>3. CASE UNCHANGED <<obj, local>>
    BY Zenon, <1>0, <1>3 DEF RunTypes, LocalTypes, local
<1>4. ASSUME Outside, ~RequestCancel, ~RequestDelete PROVE UNCHANGED <<obj, local>>
    BY Zenon, <1>4 DEF Outside, LoseChild, Tick, ChildStarts, ChildEnds, ChildMoves, PublishContextArtifact,
                EmitTerminal, CaptureEnds, VerifyEnds, GarbageCollect
<1> QED BY Zenon, <1>1, <1>2, <1>3, <1>4

\* The steps that change nothing outside the run object and the worker.
QuietStep(w) ==
    \/ Get(w) \/ AddFinalizer(w) \/ Resolve(w) \/ ResolveRejected(w) \/ LockResolution(w)
    \/ RecoverResolvedSpecRef(w) \/ UpdateStatus(w) \/ CheckExecution(w) \/ ReadBack(w)
    \/ ObserveClone(w) \/ ProjectContext(w) \/ LoadCompletion(w) \/ ObserveExit(w)
    \/ ProjectCompletion(w) \/ SavePatch(w) \/ Gate(w)
    \/ CleanupFails(w) \/ RemoveFinalizer(w) \/ EndCleanup(w) \/ InformerSync(w)

LEMMA QuietWorld ==
    ASSUME NEW w, QuietStep(w)
    PROVE  UNCHANGED <<world, bounds>>
BY Zenon DEF QuietStep, Get, AddFinalizer, Resolve, ResolveRejected, LockResolution,
       RecoverResolvedSpecRef, UpdateStatus, CheckExecution, ReadBack, ObserveClone, ProjectContext,
       LoadCompletion, ObserveExit, ProjectCompletion, SavePatch, Gate, CleanupFails,
       RemoveFinalizer, EndCleanup, InformerSync

LEMMA UnchangedStores ==
    ASSUME StoreTypes, UNCHANGED <<world, bounds>>
    PROVE  StoreTypes'
BY Zenon DEF StoreTypes, world, work, evidence, jobs, effect, bounds

LEMMA NewChildType ==
    ASSUME NEW c \in Children, NEW x \in ChildStates
    PROVE  [c EXCEPT !.state = x] \in Children
BY Zenon DEF Children

\* A counter below its bound may be advanced.
LEMMA Advance ==
    ASSUME NEW m \in Nat, NEW n \in 0 .. m, n < m
    PROVE  n + 1 \in 0 .. m
OBVIOUS

LEMMA WorkerStoreTypes ==
    ASSUME TypeOK, ViewsAndObject, NEW w \in Workers,
           \/ SaveResolvedSpec(w) \/ PlanWork(w) \/ Ensure(w) \/ FinalizeObservedExit(w)
           \/ Capture(w) \/ ReapCapture(w) \/ ReapWork(w)
           \/ Verify(w) \/ Publish(w) \/ Mutate(w) \/ CommitEffect(w) \/ PublishFindings(w)
           \/ CleanSecrets(w) \/ CleanWork(w) \/ CleanVerify(w) \/ CleanCapture(w)
           \/ Abort(w) \/ CleanupCallFails(w)
    PROVE  StoreTypes'
<1> USE DEF StoreTypes, work, evidence, jobs, effect, bounds
<1>0. /\ run[w] \in RunObjects /\ plan[w] \in 0 .. MaxClock /\ StoreTypes
      /\ At(run[w], pc[w], saved, completion, ledger)
    BY Zenon, TypeParts, WorkerFacts DEF View, RunTypes, LocalTypes
<1>a. made \in 0 .. MaxChildren /\ faults \in 0 .. MaxFaults
    BY Zenon, <1>0
<1>b. MaxChildren \in Nat /\ MaxFaults \in Nat
    BY Zenon, BoundsAssumption
<1>1. CASE SaveResolvedSpec(w)
  <2>1. run[w].digest \in Digests
      BY Zenon, <1>0, <1>1 DEF SaveResolvedSpec, At, RunObjects
  <2> QED BY Zenon, <1>0, <1>1, <2>1 DEF SaveResolvedSpec
<1>2. CASE PlanWork(w)
    BY Zenon, <1>0, <1>2 DEF PlanWork
<1>3. CASE Ensure(w)
  <2>1. CASE UNCHANGED work
      BY Zenon, <1>0, <1>3, <2>1 DEF Ensure
  <2>2. CASE ~UNCHANGED work
    <3>1. /\ child' = [uid |-> made + 1, digest |-> run[w].digest, plan |-> plan[w],
                       state |-> "starting"]
          /\ made' = made + 1 /\ made < MaxChildren
        BY Zenon, <1>3, <2>2 DEF Ensure
    <3>2. made + 1 \in 0 .. MaxChildren
        BY Zenon, <1>a, <1>b, <3>1, Advance
    <3>3. run[w].digest \in Digests \cup {NoDigest}
        BY Zenon, <1>0 DEF RunObjects
    <3>4. child' \in Children
        BY Zenon, <1>0, <3>1, <3>2, <3>3 DEF Children, ChildStates
    <3> QED BY Zenon, <1>0, <1>3, <3>1, <3>2, <3>4 DEF Ensure
  <2> QED BY Zenon, <2>1, <2>2
<1>4. CASE FinalizeObservedExit(w)
    BY Zenon, <1>0, <1>4 DEF FinalizeObservedExit
<1>5. CASE Capture(w) \/ ReapCapture(w)
    BY Zenon, <1>0, <1>5 DEF Capture, ReapCapture
<1>6. CASE ReapWork(w) \/ CleanWork(w)
  <2>1. child' \in {child, NoChild}
      BY Zenon, <1>6 DEF ReapWork, CleanWork, Deleted
  <2>2. child' \in Children
      BY Zenon, <1>0, <2>1, NoChildType
  <2>3. UNCHANGED <<saved, secrets, evidence, jobs, effect, made, bounds>>
      BY Zenon, <1>6 DEF ReapWork, CleanWork
  <2> QED BY Zenon, <1>0, <2>2, <2>3
<1>7. CASE Verify(w)
    BY Zenon, <1>0, <1>7 DEF Verify
<1>8. CASE Publish(w) \/ Mutate(w)
    BY Zenon, <1>0, <1>8 DEF Publish, Mutate
<1>9. CASE CommitEffect(w) \/ PublishFindings(w)
  <2>1. CASE CommitEffect(w)
      BY Zenon, <1>0, <2>1 DEF CommitEffect
  <2>2. CASE PublishFindings(w)
    <3>1. reviews \in ReviewStates
        BY Zenon, <1>0
    <3>2. reviews' \in {reviews, "partial", "posted"}
        BY Zenon, <2>2 DEF PublishFindings
    <3>3. reviews' \in ReviewStates
        BY Zenon, <3>1, <3>2 DEF ReviewStates
    <3>4. UNCHANGED <<saved, secrets, work, evidence, jobs, ledger, pr, bounds>>
        BY Zenon, <2>2 DEF PublishFindings
    <3> QED BY Zenon, <1>0, <3>3, <3>4
  <2> QED BY Zenon, <1>9, <2>1, <2>2
<1>10. CASE CleanSecrets(w) \/ CleanVerify(w) \/ CleanCapture(w)
  <2>1. CASE CleanSecrets(w)
      BY Zenon, <1>0, <2>1 DEF CleanSecrets
  <2>2. CASE CleanVerify(w)
      BY Zenon, <1>0, <2>2 DEF CleanVerify
  <2>3. CASE CleanCapture(w)
      BY Zenon, <1>0, <2>3 DEF CleanCapture
  <2> QED BY Zenon, <1>10, <2>1, <2>2, <2>3
<1>11. CASE Abort(w) \/ CleanupCallFails(w)
  <2>1. faults < MaxFaults /\ faults' = faults + 1 /\ UNCHANGED <<world, clock>>
      BY Zenon, <1>11 DEF Abort, CleanupCallFails, Fault
  <2>2. faults' \in 0 .. MaxFaults
      BY Zenon, <1>a, <1>b, <2>1, Advance
  <2> QED BY Zenon, <1>0, <2>1, <2>2 DEF world
<1> QED BY Zenon, <1>1, <1>2, <1>3, <1>4, <1>5, <1>6, <1>7, <1>8, <1>9, <1>10, <1>11

LEMMA OutsideStoreTypes ==
    ASSUME StoreTypes, Outside
    PROVE  StoreTypes'
<1> USE DEF StoreTypes, work, evidence, jobs, effect, bounds
<1>1. CASE LoseChild
    BY <1>1, NoChildType, BoundsAssumption DEF LoseChild, Fault
<1>2. CASE RequestCancel \/ RequestDelete
    BY Zenon, <1>2, UnchangedStores DEF RequestCancel, RequestDelete
<1>3. CASE Tick
    BY <1>3, BoundsAssumption DEF Tick, world
<1>4. CASE ChildStarts \/ ChildEnds
  <2>1. PICK from \in ChildStates, to \in ChildStates : ChildMoves(from, to)
      BY Zenon, <1>4 DEF ChildStarts, ChildEnds, ChildStates
  <2>2. child' \in Children
      BY Zenon, <2>1, NewChildType DEF ChildMoves
  <2> QED BY Zenon, <2>1, <2>2 DEF ChildMoves
<1>5. CASE PublishContextArtifact \/ EmitTerminal
    BY Zenon, <1>5 DEF PublishContextArtifact, EmitTerminal
<1>6. CASE CaptureEnds \/ VerifyEnds
    BY Zenon, <1>6 DEF CaptureEnds, VerifyEnds
<1>7. CASE GarbageCollect
    BY Zenon, <1>7, NoChildType DEF GarbageCollect
<1> QED BY Zenon, <1>1, <1>2, <1>3, <1>4, <1>5, <1>6, <1>7 DEF Outside

LEMMA TypesKept ==
    ASSUME TypeOK, ViewsAndObject, Next
    PROVE  TypeOK'
<1>0. RunTypes /\ StoreTypes
    BY Zenon, TypeParts
<1>1. CASE Outside
    BY <1>0, <1>1, OutsideTypes, OutsideStoreTypes, TypeParts, PTL
<1>2. ASSUME NEW w \in Workers, Reconcile(w) \/ Abort(w) \/ CleanupCallFails(w) \/ InformerSync(w)
      PROVE  TypeOK'
  <2>1. StoreTypes'
    <3>1. \/ QuietStep(w)
          \/ SaveResolvedSpec(w) \/ PlanWork(w) \/ Ensure(w) \/ FinalizeObservedExit(w)
          \/ Capture(w) \/ ReapCapture(w) \/ ReapWork(w)
          \/ Verify(w) \/ Publish(w) \/ Mutate(w) \/ CommitEffect(w) \/ PublishFindings(w)
          \/ CleanSecrets(w) \/ CleanWork(w) \/ CleanVerify(w) \/ CleanCapture(w)
          \/ Abort(w) \/ CleanupCallFails(w)
        BY Zenon, <1>2 DEF Reconcile, QuietStep
    <3> QED BY Zenon, <1>0, <3>1, QuietWorld, UnchangedStores, WorkerStoreTypes
  <2>2. RunTypes'
    <3>1. pc[w] = "projectCompletion" => completion # "none"
        BY Zenon, WorkerFacts DEF View, At
    <3>2. CASE Get(w)
        BY Zenon, <3>2, GetTypes
    <3>3. CASE \/ AddFinalizer(w) \/ Resolve(w) \/ ResolveRejected(w) \/ LockResolution(w)
               \/ SaveResolvedSpec(w) \/ RecoverResolvedSpecRef(w) \/ UpdateStatus(w)
        BY Zenon, <1>0, <3>3, AdmissionTypes
    <3>4. CASE CheckExecution(w) \/ PlanWork(w) \/ Ensure(w) \/ ReadBack(w)
        BY Zenon, <1>0, <3>4, PendingTypes DEF StoreTypes
    <3>5. CASE \/ ObserveClone(w) \/ ProjectContext(w) \/ LoadCompletion(w) \/ ObserveExit(w)
               \/ FinalizeObservedExit(w) \/ ProjectCompletion(w)
        BY Zenon, <1>0, <3>1, <3>5, WorkingTypes DEF StoreTypes
    <3>6. CASE Capture(w) \/ SavePatch(w) \/ ReapCapture(w) \/ ReapWork(w)
        BY Zenon, <1>0, <3>6, CapturingTypes DEF StoreTypes
    <3>7. CASE \/ Verify(w) \/ Gate(w) \/ Publish(w) \/ Mutate(w) \/ CommitEffect(w)
               \/ PublishFindings(w)
        BY Zenon, <1>0, <3>7, VerdictTypes DEF StoreTypes
    <3>8. CASE \/ CleanSecrets(w) \/ CleanWork(w) \/ CleanVerify(w) \/ CleanCapture(w)
               \/ CleanupFails(w) \/ RemoveFinalizer(w) \/ EndCleanup(w)
               \/ Abort(w) \/ CleanupCallFails(w)
        BY Zenon, <1>0, <3>8, CleanupTypes
    <3>9. CASE InformerSync(w)
        BY Zenon, <3>9, OutsideTypes
    <3> QED BY Zenon, <1>2, <3>2, <3>3, <3>4, <3>5, <3>6, <3>7, <3>8, <3>9 DEF Reconcile
  <2> QED BY <2>1, <2>2, TypeParts, PTL
<1> QED BY Zenon, <1>1, <1>2 DEF Next

LEMMA ViewsKept ==
    ASSUME TypeOK, ViewsAndObject, OnePublisher, completion \in {"none", stream},
           ledger = "succeeded" => pr, Next
    PROVE  ViewsAndObject'
<1>1. ASSUME NEW w \in Workers, Reconcile(w) \/ Abort(w) \/ CleanupCallFails(w)
      PROVE  ViewsAndObject'
  <2>1. CASE Get(w)
      BY Zenon, <2>1, GetKeeps
  <2>2. CASE \/ AddFinalizer(w) \/ Resolve(w) \/ ResolveRejected(w) \/ LockResolution(w)
             \/ SaveResolvedSpec(w) \/ RecoverResolvedSpecRef(w) \/ UpdateStatus(w)
      BY Zenon, <2>2, AdmissionKeeps
  <2>3. CASE CheckExecution(w) \/ PlanWork(w) \/ Ensure(w) \/ ReadBack(w)
      BY Zenon, <2>3, PendingKeeps
  <2>4. CASE \/ ObserveClone(w) \/ ProjectContext(w) \/ LoadCompletion(w) \/ ObserveExit(w)
      BY Zenon, <2>4, WorkingKeeps
  <2>5. CASE FinalizeObservedExit(w) \/ ProjectCompletion(w)
      BY Zenon, <2>5, FinalizeKeeps, ProjectCompletionKeeps
  <2>6. CASE Capture(w) \/ SavePatch(w) \/ ReapCapture(w) \/ ReapWork(w)
      BY Zenon, <2>6, CapturingKeeps
  <2>7. CASE Verify(w) \/ Gate(w)
      BY Zenon, <2>7, VerdictKeeps
  <2>8. CASE Publish(w) \/ Mutate(w) \/ CommitEffect(w) \/ PublishFindings(w)
      BY Zenon, <2>8, PublishingKeeps, FindingsKeep
  <2>9. CASE \/ CleanSecrets(w) \/ CleanWork(w) \/ CleanVerify(w) \/ CleanCapture(w)
             \/ CleanupFails(w) \/ RemoveFinalizer(w) \/ EndCleanup(w)
             \/ Abort(w) \/ CleanupCallFails(w)
      BY Zenon, <2>9, CleanupKeeps
  <2> QED BY Zenon, <1>1, <2>1, <2>2, <2>3, <2>4, <2>5, <2>6, <2>7, <2>8, <2>9 DEF Reconcile
<1> QED BY Zenon, <1>1, OutsideKeeps DEF Next

-----------------------------------------------------------------------------
(* What one step may do to the run object, and what the workers share *)

LEMMA ObjectStep ==
    ASSUME TypeOK, ViewsAndObject, Next
    PROVE  Grows(obj, obj') /\ Moves(obj, obj')
<1>1. CASE UNCHANGED obj
    BY Zenon, <1>1 DEF Grows, Moves
<1>2. ASSUME NEW w \in Workers, NEW c, pc[w] \in Writing, Update(w, c)
      PROVE  Grows(obj, obj') /\ Moves(obj, obj')
  <2>1. UNCHANGED obj \/ (fresh[w] /\ obj' = run[w])
      BY Zenon, <1>2 DEF Update
  <2>2. ASSUME fresh[w] PROVE Extends(obj, run[w])
      BY Zenon, <1>2, <2>2, WorkerFacts DEF View, Current
  <2>3. ASSUME fresh[w], obj' = run[w] PROVE Grows(obj, obj') /\ Moves(obj, obj')
      BY Zenon, <2>2, <2>3, ExtendsGrows DEF Extends
  <2> QED BY Zenon, <1>1, <2>1, <2>3
<1>3. ASSUME NEW m \in {[obj EXCEPT !.finalizer = TRUE], [obj EXCEPT !.finalizer = FALSE, !.there = FALSE],
                        [obj EXCEPT !.cancel = TRUE], [obj EXCEPT !.deleting = TRUE],
                        [obj EXCEPT !.there = FALSE]}, Touch(m)
      PROVE  Grows(obj, obj') /\ Moves(obj, obj')
  <2>1. Grows(obj, m) /\ m.phase = obj.phase /\ m.digest = obj.digest
      BY Zenon, <1>3, TouchedIsSound DEF ViewsAndObject, TypeOK
  <2>2. obj' = m
      BY Zenon, <1>3 DEF Touch
  <2> QED BY Zenon, <2>1, <2>2 DEF Moves
<1>4. ASSUME NEW w \in Workers, LockResolution(w) \/ SavePatch(w) \/ UpdateStatus(w)
      PROVE  Grows(obj, obj') /\ Moves(obj, obj')
    BY <1>2, <1>4 DEF LockResolution, SavePatch, UpdateStatus, Writing
<1>5. ASSUME NEW w \in Workers, AddFinalizer(w) \/ RemoveFinalizer(w)
      PROVE  Grows(obj, obj') /\ Moves(obj, obj')
  <2>1. \/ UNCHANGED obj \/ Touch([obj EXCEPT !.finalizer = TRUE])
        \/ Touch([obj EXCEPT !.finalizer = FALSE, !.there = FALSE])
      BY Zenon, <1>5 DEF AddFinalizer, RemoveFinalizer
  <2> QED BY Zenon, <1>1, <1>3, <2>1
<1>6. CASE RequestCancel \/ RequestDelete
  <2>1. \/ Touch([obj EXCEPT !.cancel = TRUE]) \/ Touch([obj EXCEPT !.deleting = TRUE])
        \/ Touch([obj EXCEPT !.there = FALSE])
      BY Zenon, <1>6 DEF RequestCancel, RequestDelete
  <2> QED BY Zenon, <1>3, <2>1
<1>7. ASSUME NEW w \in Workers, Reconcile(w) \/ Abort(w) \/ CleanupCallFails(w) \/ InformerSync(w),
             ~(LockResolution(w) \/ SavePatch(w) \/ UpdateStatus(w)),
             ~(AddFinalizer(w) \/ RemoveFinalizer(w))
      PROVE  UNCHANGED obj
    BY Zenon, <1>7 DEF Reconcile, Abort, CleanupCallFails, InformerSync, Get, Resolve, ResolveRejected,
       SaveResolvedSpec, RecoverResolvedSpecRef, CheckExecution, PlanWork, Ensure, ReadBack,
       ObserveClone, ProjectContext, LoadCompletion, ObserveExit, FinalizeObservedExit,
       ProjectCompletion, Capture, ReapCapture, ReapWork, Verify, Gate, Publish, Mutate,
       CommitEffect, PublishFindings, CleanSecrets, CleanWork, CleanVerify, CleanCapture, CleanupFails,
       EndCleanup
<1>8. ASSUME Outside, ~(RequestCancel \/ RequestDelete) PROVE UNCHANGED obj
    BY Zenon, <1>8 DEF Outside, LoseChild, Tick, ChildStarts, ChildEnds, ChildMoves, PublishContextArtifact,
                EmitTerminal, CaptureEnds, VerifyEnds, GarbageCollect
<1> QED BY Zenon, <1>1, <1>4, <1>5, <1>6, <1>7, <1>8 DEF Next

Acting == {"mutate", "commitEffect"}

\* A step of w leaves the other workers where they are.
Goes(w, c) == pc' = [pc EXCEPT ![w] = c]

LEMMA WhereStepsGo ==
    ASSUME TypeOK, ViewsAndObject, NEW w \in Workers,
           Reconcile(w) \/ Abort(w) \/ CleanupCallFails(w) \/ InformerSync(w)
    PROVE  \E c : Goes(w, c) /\ (c \in Acting => pc[w] \in Acting \/ (Publish(w) /\ ledger = "none"))
<1> USE DEF Goes, Acting, Goto, Edit, Continue, Return, Requeue, Done
<1>0. pc \in [Workers -> Calls]
    BY Zenon DEF TypeOK
<1>1. CASE Get(w)
  <2>1. ASSUME Branch(obj) # "idle" PROVE Branch(obj) \notin Acting
    <3>1. obj \in RunObjects /\ Sound(obj, completion, ledger, pr, reviews)
        BY Zenon DEF TypeOK, ViewsAndObject
    <3>2. \/ Branch(obj) \in {"idle", "cleanSecrets", "addFinalizer", "resolve", "recover"}
          \/ obj.digest # NoDigest /\ obj.phase \notin Terminal /\ Branch(obj) = PhaseCall(obj)
        BY Zenon, <3>1 DEF Branch
    <3>3. ASSUME obj.digest # NoDigest, obj.phase \notin Terminal PROVE obj.phase \in Active
        BY Zenon, <3>1, <3>3 DEF Sound, RunObjects
    <3>4. ASSUME obj.phase \in Active PROVE PhaseCall(obj) \notin Acting
        BY Zenon, <3>4 DEF PhaseCall, Active
    <3> QED BY Zenon, <3>2, <3>3, <3>4
  <2>2. CASE obj.there /\ Branch(obj) # "idle"
      BY Zenon, <1>1, <2>1, <2>2 DEF Get
  <2>3. CASE ~(obj.there /\ Branch(obj) # "idle")
    <3>1. pc' = [pc EXCEPT ![w] = pc[w]]
        BY Zenon, <1>0, <1>1, <2>3 DEF Get
    <3> QED BY Zenon, <3>1
  <2> QED BY Zenon, <2>2, <2>3
<1>2. CASE \/ AddFinalizer(w) \/ Resolve(w) \/ ResolveRejected(w) \/ SaveResolvedSpec(w)
           \/ RecoverResolvedSpecRef(w)
    BY Zenon, <1>2 DEF AddFinalizer, Resolve, ResolveRejected, SaveResolvedSpec, RecoverResolvedSpecRef
<1>3. CASE LockResolution(w) \/ UpdateStatus(w) \/ SavePatch(w)
    BY Zenon, <1>3 DEF LockResolution, UpdateStatus, SavePatch, Update
<1>4. CASE CheckExecution(w) \/ PlanWork(w) \/ Ensure(w) \/ ReadBack(w)
    BY Zenon, <1>4 DEF CheckExecution, PlanWork, Ensure, ReadBack, Adopt
<1>5. CASE \/ ObserveClone(w) \/ ProjectContext(w) \/ LoadCompletion(w) \/ ObserveExit(w)
           \/ FinalizeObservedExit(w) \/ ProjectCompletion(w)
    BY Zenon, <1>5 DEF ObserveClone, ProjectContext, LoadCompletion, ObserveExit, FinalizeObservedExit,
                ProjectCompletion, FailRun
<1>a. /\ capturer \in {"none", "running", "done", "failed"}
      /\ verifier \in {"none", "running", "Accepted", "Rejected"}
    BY Zenon DEF TypeOK
<1>6. CASE Capture(w) \/ ReapCapture(w) \/ ReapWork(w)
  <2>1. CASE Capture(w)
      BY Zenon, <1>a, <2>1 DEF Capture, FailRun
  <2> QED BY Zenon, <1>6, <2>1 DEF ReapCapture, ReapWork
<1>7. CASE Verify(w) \/ Gate(w)
  <2>1. CASE Verify(w)
      BY Zenon, <1>a, <2>1 DEF Verify
  <2> QED BY Zenon, <1>7, <2>1 DEF Gate
<1>8. CASE Publish(w) \/ Mutate(w) \/ CommitEffect(w) \/ PublishFindings(w)
  <2>1. ASSUME NEW e, PatchTold(w, e) PROVE \E c : Goes(w, c) /\ c \notin Acting
      BY Zenon, <2>1 DEF PatchTold, Project
  <2>2. CASE Publish(w)
      BY Zenon, <2>1, <2>2 DEF Publish
  <2>3. CASE CommitEffect(w)
      BY Zenon, <2>1, <2>3 DEF CommitEffect
  <2> QED BY Zenon, <1>8, <2>2, <2>3 DEF Mutate, PublishFindings, Project
<1>9. CASE \/ CleanSecrets(w) \/ CleanWork(w) \/ CleanVerify(w) \/ CleanCapture(w)
           \/ CleanupFails(w) \/ RemoveFinalizer(w) \/ EndCleanup(w)
           \/ Abort(w) \/ CleanupCallFails(w)
    BY Zenon, <1>9 DEF CleanSecrets, CleanWork, CleanVerify, CleanCapture, CleanupFails, RemoveFinalizer,
                EndCleanup, Abort, CleanupCallFails, Step
<1>10. CASE InformerSync(w)
  <2>1. pc' = [pc EXCEPT ![w] = pc[w]]
      BY Zenon, <1>0, <1>10 DEF InformerSync
  <2> QED BY Zenon, <2>1
<1> QED BY Zenon, <1>1, <1>2, <1>3, <1>4, <1>5, <1>6, <1>7, <1>8, <1>9, <1>10 DEF Reconcile

LEMMA OnePublisherKept ==
    ASSUME TypeOK, ViewsAndObject, OnePublisher, Next
    PROVE  OnePublisher'
<1>1. CASE Outside
    BY Zenon, <1>1 DEF OnePublisher, Outside, LoseChild, RequestCancel, RequestDelete, Tick, ChildStarts,
                ChildEnds, ChildMoves, PublishContextArtifact, EmitTerminal, CaptureEnds, VerifyEnds,
                GarbageCollect, local
<1>2. ASSUME NEW w \in Workers, Reconcile(w) \/ Abort(w) \/ CleanupCallFails(w) \/ InformerSync(w)
      PROVE  OnePublisher'
  <2>1. PICK c : Goes(w, c) /\ (c \in Acting => pc[w] \in Acting \/ (Publish(w) /\ ledger = "none"))
      BY Zenon, <1>2, WhereStepsGo
  <2>2. pc'[w] = c /\ \A v \in Workers \ {w} : pc'[v] = pc[v]
      BY Zenon, <2>1 DEF Goes, TypeOK
  <2>3. \A v \in Workers : pc[v] \in Acting => ledger = "claimed"
      BY Zenon DEF ViewsAndObject, Views, View, At, Acting
  <2>4. \A v \in Workers \ {w} : ~(pc[v] \in Acting /\ c \in Acting)
      BY Zenon, <2>1, <2>3 DEF OnePublisher, Acting
  <2> QED BY Zenon, <2>2, <2>4 DEF OnePublisher, Acting
<1> QED BY Zenon, <1>1, <1>2 DEF Next

Publishes(w) == Publish(w) \/ Mutate(w) \/ CommitEffect(w) \/ PublishFindings(w)

\* Who writes the effects, the completion record and the work child.
LEMMA Writers ==
    ASSUME Next
    PROVE  /\ UNCHANGED effect \/ \E w \in Workers : Publishes(w)
           /\ UNCHANGED <<stream, completion>> \/ EmitTerminal
                \/ \E w \in Workers : FinalizeObservedExit(w)
           /\ saved \subseteq saved'
           /\ \/ UNCHANGED child \/ LoseChild \/ GarbageCollect \/ ChildStarts \/ ChildEnds
              \/ \E w \in Workers : Ensure(w) \/ ReapWork(w) \/ CleanWork(w)
<1> USE DEF work, evidence, jobs, effect, world
<1>1. CASE Outside
    BY Zenon, <1>1 DEF Outside, LoseChild, RequestCancel, RequestDelete, Tick, ChildStarts, ChildEnds,
                ChildMoves, PublishContextArtifact, EmitTerminal, CaptureEnds, VerifyEnds,
                GarbageCollect
<1>2. ASSUME NEW w \in Workers, QuietStep(w) \/ Abort(w) \/ CleanupCallFails(w)
      PROVE  UNCHANGED world
    BY Zenon, <1>2, QuietWorld DEF Abort, CleanupCallFails
<1>3. ASSUME NEW w \in Workers, SaveResolvedSpec(w) \/ PlanWork(w) \/ Ensure(w) \/ FinalizeObservedExit(w)
                                \/ Capture(w) \/ ReapCapture(w) \/ ReapWork(w)
      PROVE  /\ UNCHANGED effect /\ saved \subseteq saved'
             /\ UNCHANGED <<stream, completion>> \/ FinalizeObservedExit(w)
             /\ UNCHANGED child \/ Ensure(w) \/ ReapWork(w)
    BY Zenon, <1>3 DEF SaveResolvedSpec, PlanWork, Ensure, FinalizeObservedExit, Capture, ReapCapture, ReapWork
<1>4. ASSUME NEW w \in Workers, Verify(w) \/ Publishes(w)
                                \/ CleanSecrets(w) \/ CleanWork(w) \/ CleanVerify(w) \/ CleanCapture(w)
      PROVE  /\ UNCHANGED effect \/ Publishes(w)
             /\ UNCHANGED <<saved, stream, completion>>
             /\ UNCHANGED child \/ CleanWork(w)
    BY Zenon, <1>4 DEF Verify, Publishes, Publish, Mutate, CommitEffect, PublishFindings, CleanSecrets,
                CleanWork, CleanVerify, CleanCapture
<1>5. ASSUME NEW w \in Workers, Reconcile(w) \/ Abort(w) \/ CleanupCallFails(w) \/ InformerSync(w)
      PROVE  \/ QuietStep(w) \/ Abort(w) \/ CleanupCallFails(w)
             \/ SaveResolvedSpec(w) \/ PlanWork(w) \/ Ensure(w) \/ FinalizeObservedExit(w)
             \/ Capture(w) \/ ReapCapture(w) \/ ReapWork(w)
             \/ Verify(w) \/ Publishes(w)
             \/ CleanSecrets(w) \/ CleanWork(w) \/ CleanVerify(w) \/ CleanCapture(w)
    BY Zenon, <1>5 DEF Reconcile, QuietStep, Publishes
<1>6. CASE \E w \in Workers : Reconcile(w) \/ Abort(w) \/ CleanupCallFails(w) \/ InformerSync(w)
  <2>1. PICK w \in Workers : Reconcile(w) \/ Abort(w) \/ CleanupCallFails(w) \/ InformerSync(w)
      BY Zenon, <1>6
  <2> QED BY Zenon, <1>2, <1>3, <1>4, <1>5, <2>1
<1> QED BY Zenon, <1>1, <1>6 DEF Next

LEMMA RecordsKept ==
    ASSUME TypeOK, ViewsAndObject, completion \in {"none", stream}, ledger = "succeeded" => pr, Next
    PROVE  completion' \in {"none", stream'} /\ (ledger' = "succeeded" => pr')
<1>1. completion' \in {"none", stream'}
    BY Zenon, Writers DEF EmitTerminal, FinalizeObservedExit
<1>2. ledger' = "succeeded" => pr'
  <2>1. CASE UNCHANGED effect
      BY Zenon, <2>1 DEF effect
  <2>2. ASSUME NEW w \in Workers, Publish(w) PROVE ledger' = "succeeded" => pr'
      BY Zenon, <2>2 DEF Publish
  <2>3. ASSUME NEW w \in Workers, Mutate(w) PROVE ledger' = "succeeded" => pr'
    <3>1. ledger = "claimed"
        BY Zenon, <2>3, WorkerFacts DEF Mutate, View, At
    <3> QED BY Zenon, <2>3, <3>1 DEF Mutate
  <2>4. ASSUME NEW w \in Workers, CommitEffect(w) \/ PublishFindings(w) PROVE ledger' = "succeeded" => pr'
      BY Zenon, <2>4 DEF CommitEffect, PublishFindings
  <2> QED BY Zenon, <2>1, <2>2, <2>3, <2>4, Writers DEF Publishes
<1> QED BY Zenon, <1>1, <1>2

LEMMA GateKept ==
    ASSUME TypeOK, ViewsAndObject, GateDecides, Next
    PROVE  GateDecides'
<1>0. Grows(obj, obj')
    BY Zenon, ObjectStep
<1>1. CASE ledger # "none" \/ reviews # "none"
  <2>1. /\ obj.digest \in PublishPR /\ obj.digest # NoDigest
        /\ obj.gate = "Accepted" \/ (obj.gate = "Rejected" /\ obj.digest \in Shadow)
      BY Zenon, <1>1, DigestAssumption, ModesAssumption DEF GateDecides
  <2>2. obj'.digest = obj.digest /\ obj'.gate = obj.gate
      BY Zenon, <1>0, <2>1 DEF Grows
  <2> QED BY Zenon, <2>1, <2>2 DEF GateDecides
<1>2. CASE ledger' = "none" /\ reviews' = "none"
    BY Zenon, <1>2 DEF GateDecides
<1>3. CASE ledger = "none" /\ reviews = "none" /\ (ledger' # "none" \/ reviews' # "none")
  <2>1. \A v \in Workers : ~Mutate(v) /\ ~CommitEffect(v)
      BY Zenon, <1>3, WorkerFacts DEF View, At, Mutate, CommitEffect
  <2>2. PICK w \in Workers : Publish(w) \/ PublishFindings(w)
      BY Zenon, <1>3, <2>1, Writers DEF effect, Publishes
  <2>3. /\ View(obj, run[w], fresh[w], pc[w], saved, completion, ledger, pr, reviews)
        /\ UNCHANGED obj /\ pc[w] \in {"publish", "publishFindings"}
      BY Zenon, <2>2, WorkerFacts DEF Publish, PublishFindings
  <2>4. /\ run[w].phase = "Publishing" /\ run[w].digest # NoDigest
        /\ Allowed(run[w])
      BY Zenon, <2>3 DEF View, At, Sound, PatchCalls, PublishingCalls
  <2>5. obj.digest = run[w].digest /\ obj.gate = run[w].gate
      BY Zenon, <2>3, <2>4 DEF View, Behind, Allowed
  <2> QED BY Zenon, <2>3, <2>4, <2>5 DEF GateDecides, Allowed
<1> QED BY Zenon, <1>1, <1>2, <1>3

LEMMA ApartKept ==
    ASSUME TypeOK, ViewsAndObject, GateDecides, Apart, Next
    PROVE  Apart'
<1>1. CASE UNCHANGED effect
  <2>1. Grows(obj, obj') /\ UNCHANGED <<ledger, pr, reviews>>
      BY Zenon, <1>1, ObjectStep DEF effect
  <2>2. CASE obj.digest = NoDigest
    <3>1. ledger = "none" /\ reviews = "none"
        BY Zenon, <2>2, DigestAssumption, ModesAssumption DEF GateDecides
    <3> QED BY Zenon, <2>1, <3>1 DEF Apart
  <2>3. CASE obj.digest # NoDigest
    <3>1. obj'.digest = obj.digest
        BY Zenon, <2>1, <2>3 DEF Grows
    <3> QED BY Zenon, <2>1, <3>1 DEF Apart
  <2> QED BY Zenon, <2>2, <2>3
<1>2. ASSUME NEW w \in Workers, pc[w] \in PublishingCalls PROVE obj.digest = run[w].digest
  <2>1. At(run[w], pc[w], saved, completion, ledger) /\ Behind(obj, run[w], pc[w])
      BY Zenon, WorkerFacts DEF View
  <2>2. run[w].digest # NoDigest
      BY Zenon, <1>2, <2>1 DEF At
  <2> QED BY Zenon, <1>2, <2>1, <2>2 DEF Behind, PatchCalls, PublishingCalls
<1>3. ASSUME NEW w \in Workers, Publish(w) \/ Mutate(w) \/ CommitEffect(w) PROVE Apart'
  <2>1. UNCHANGED <<obj, reviews>> /\ pc[w] \in PatchCalls /\ pc[w] \in PublishingCalls
      BY Zenon, <1>3 DEF Publish, Mutate, CommitEffect, PatchCalls, PublishingCalls
  <2>2. obj.digest \notin Findings /\ (pc[w] \in Acting => ledger = "claimed")
      BY Zenon, <1>2, <2>1, WorkerFacts DEF View, At, Acting
  <2>3. ledger' # "none" /\ (ledger = "succeeded" => ledger' = "succeeded")
    <3>1. CASE Publish(w)
        BY Zenon, <3>1 DEF Publish
    <3>2. CASE Mutate(w) \/ CommitEffect(w)
        BY Zenon, <2>2, <3>2 DEF Mutate, CommitEffect, Acting
    <3> QED BY Zenon, <1>3, <3>1, <3>2
  <2> QED BY Zenon, <2>1, <2>2, <2>3 DEF Apart
<1>4. ASSUME NEW w \in Workers, PublishFindings(w) PROVE Apart'
  <2>1. UNCHANGED <<obj, ledger, pr>> /\ pc[w] = "publishFindings" /\ pc[w] \in PublishingCalls
      BY Zenon, <1>4 DEF PublishFindings, PublishingCalls
  <2>2. obj.digest \in Findings \/ (obj.digest \in Both /\ ledger = "succeeded")
      BY Zenon, <1>2, <2>1, WorkerFacts DEF View, At
  <2> QED BY Zenon, <2>1, <2>2 DEF Apart
<1> QED BY Zenon, <1>1, <1>3, <1>4, Writers DEF Publishes

LEMMA ChildKept ==
    ASSUME TypeOK, ViewsAndObject, ExecutesLockedSpec, Next
    PROVE  ExecutesLockedSpec'
<1>0. Grows(obj, obj') /\ saved \subseteq saved' /\ saved \subseteq Digests
    BY Zenon, ObjectStep, Writers DEF TypeOK
<1>1. ASSUME child # NoChild
      PROVE  child.digest = obj'.digest /\ obj'.digest \in saved'
  <2>1. child.digest = obj.digest /\ obj.digest \in saved /\ obj.digest # NoDigest
      BY Zenon, <1>0, <1>1, DigestAssumption DEF ExecutesLockedSpec
  <2> QED BY Zenon, <1>0, <2>1 DEF Grows
<1>2. ASSUME child' # NoChild => child # NoChild /\ child'.digest = child.digest
      PROVE  ExecutesLockedSpec'
    BY Zenon, <1>1, <1>2 DEF ExecutesLockedSpec
<1>3. CASE UNCHANGED child \/ LoseChild \/ GarbageCollect
    BY Zenon, <1>2, <1>3 DEF LoseChild, GarbageCollect
<1>4. CASE ChildStarts \/ ChildEnds
  <2>1. child.state \in {"starting", "ready"} /\ child'.digest = child.digest
      BY Zenon, <1>4 DEF ChildStarts, ChildEnds, ChildMoves, TypeOK, Children
  <2>2. child # NoChild
      BY <2>1 DEF NoChild
  <2> QED BY Zenon, <1>2, <2>1, <2>2
<1>5. ASSUME NEW w \in Workers, ReapWork(w) \/ CleanWork(w) PROVE ExecutesLockedSpec'
  <2>1. child' \in {child, NoChild}
      BY Zenon, <1>5 DEF ReapWork, CleanWork, Deleted
  <2> QED BY Zenon, <1>2, <2>1
<1>6. ASSUME NEW w \in Workers, Ensure(w), ~UNCHANGED child PROVE ExecutesLockedSpec'
  <2>1. child'.digest = run[w].digest /\ pc[w] = "ensure" /\ UNCHANGED obj
      BY <1>6 DEF Ensure, work
  <2>2. run[w].digest # NoDigest /\ run[w].digest \in saved /\ obj.digest = run[w].digest
      BY Zenon, <2>1, WorkerFacts DEF View, At, Behind, PendingCalls
  <2> QED BY Zenon, <1>0, <2>1, <2>2 DEF ExecutesLockedSpec
<1> QED BY Zenon, <1>3, <1>4, <1>5, <1>6, Writers

-----------------------------------------------------------------------------
(* The invariant *)

LEMMA InvInit == Init => Inv
<1> SUFFICES ASSUME Init PROVE Inv
    BY Zenon
<1>1. TypeOK
  <2>1. RunTypes
      BY NewRunType, NoChildType, BoundsAssumption DEF Init, RunTypes, LocalTypes, Calls
  <2>2. 0 \in 0 .. MaxChildren /\ 0 \in 0 .. MaxClock /\ 0 \in 0 .. MaxFaults
      BY BoundsAssumption
  <2>3. StoreTypes
      BY Zenon, <2>2, NoChildType DEF Init, StoreTypes, ReviewStates
  <2> QED BY Zenon, <2>1, <2>3, TypeParts
<1>2. Views
    BY Zenon, IdleView DEF Init, Views
<1>3. Sound(obj, completion, ledger, pr, reviews)
    BY Zenon DEF Init, NewRun, Sound, Terminal
<1> QED BY Zenon, <1>1, <1>2, <1>3 DEF Init, Inv, OnePublisher, GateDecides, Apart, ExecutesLockedSpec

LEMMA InvNext == Inv /\ [Next]_vars => Inv'
<1> SUFFICES ASSUME Inv, [Next]_vars PROVE Inv'
    BY Zenon
<1>0. ViewsAndObject
    BY Zenon DEF Inv, ViewsAndObject
<1>1. CASE Next
  <2>1. TypeOK' /\ ViewsAndObject' /\ OnePublisher'
      BY Zenon, <1>0, <1>1, TypesKept, ViewsKept, OnePublisherKept DEF Inv
  <2>2. completion' \in {"none", stream'} /\ (ledger' = "succeeded" => pr')
      BY Zenon, <1>0, <1>1, RecordsKept DEF Inv
  <2>3. GateDecides' /\ Apart' /\ ExecutesLockedSpec'
      BY Zenon, <1>0, <1>1, GateKept, ApartKept, ChildKept DEF Inv
  <2> QED BY Zenon, <2>1, <2>2, <2>3 DEF Inv, ViewsAndObject
<1>2. CASE UNCHANGED vars
  <2>1. TypeOK'
      BY Zenon, <1>2 DEF Inv, TypeOK, vars, local, world, work, evidence, jobs, effect, bounds
  <2>2. Views' /\ Sound(obj, completion, ledger, pr, reviews)'
      BY Zenon, <1>2 DEF Inv, Views, vars, local, world, work, evidence, jobs, effect, bounds
  <2>3. OnePublisher' /\ GateDecides' /\ Apart' /\ ExecutesLockedSpec'
      BY Zenon, <1>2 DEF Inv, OnePublisher, GateDecides, Apart, ExecutesLockedSpec, vars, local, world,
                  work, evidence, jobs, effect, bounds
  <2> QED BY Zenon, <1>2, <2>1, <2>2, <2>3 DEF Inv, vars, world, evidence, effect
<1> QED BY Zenon, <1>1, <1>2

\* Inv is an invariant of the controller.
THEOREM Invariance == Spec => []Inv
BY InvInit, InvNext, PTL DEF Spec

(***************************************************************************)
(* Every value the controller, its children and its stores hold stays      *)
(* within its type, whatever the interleaving of workers and faults.       *)
(***************************************************************************)
THEOREM TypesHold == Spec => []TypeOK
<1>1. Inv => TypeOK
    BY Zenon DEF Inv
<1> QED BY <1>1, Invariance, PTL

(***************************************************************************)
(* However many operator processes drive the run on however stale copies,  *)
(* the work child runs the contract locked in status, and that contract is *)
(* in the object store (agentrun.go, SpecDigest as the execution lock).    *)
(***************************************************************************)
THEOREM LockedSpecExecutes == Spec => []ExecutesLockedSpec
<1>1. Inv => ExecutesLockedSpec
    BY Zenon DEF Inv
<1> QED BY <1>1, Invariance, PTL

(***************************************************************************)
(* A phase in status is backed by its evidence: the completion record, the *)
(* patch, the verdict.                                                     *)
(***************************************************************************)
THEOREM PhaseIsBacked == Spec => []EvidenceBacksPhase
<1>1. Inv => EvidenceBacksPhase
    BY Zenon DEF Inv, Sound, EvidenceBacksPhase
<1> QED BY <1>1, Invariance, PTL

(***************************************************************************)
(* The effect is claimed only under a verdict that allows it and for a     *)
(* contract that asks for it.                                              *)
(***************************************************************************)
THEOREM GateIsDecisive == Spec => []GateDecides
<1>1. Inv => GateDecides
    BY Zenon DEF Inv
<1> QED BY <1>1, Invariance, PTL

(***************************************************************************)
(* What status tells of the publication is what was recorded and done: the *)
(* effect is the ledger's, FindingsPublished the reviews', and a run that  *)
(* succeeded published all its contract asks for.  Findings alone never    *)
(* touch the patch's effect, and the findings of both follow its pull      *)
(* request (combinedState, projectPublicationStatus).                      *)
(***************************************************************************)
THEOREM StatusIsTrue == Spec => []StatusTellsEffect
<1>1. ASSUME Inv PROVE StatusTellsEffect
  <2>1. /\ Sound(obj, completion, ledger, pr, reviews) /\ Apart
        /\ ledger = "succeeded" => pr
      BY Zenon, <1>1 DEF Inv
  <2> QED BY Zenon, <2>1 DEF Sound, Apart, StatusTellsEffect
<1> QED BY <1>1, Invariance, PTL

LEMMA ReapStep ==
    ASSUME Inv, Next, child # NoChild, child' = NoChild, faults' = faults
    PROVE  obj.patch \/ ~obj.there \/ obj.cancel \/ obj.deleting \/ obj.phase \in Terminal
<1>0. TypeOK /\ ViewsAndObject
    BY Zenon DEF Inv, ViewsAndObject
<1>1. ~LoseChild
    BY <1>0 DEF LoseChild, Fault, TypeOK
<1>2. ~(ChildStarts \/ ChildEnds)
  <2>1. ASSUME ChildStarts \/ ChildEnds PROVE child'.state # "absent"
      BY Zenon, <1>0, <2>1 DEF ChildStarts, ChildEnds, ChildMoves, TypeOK, Children
  <2> QED BY Zenon, <2>1 DEF NoChild
<1>3. \A w \in Workers : ~Ensure(w)
  <2> SUFFICES ASSUME NEW w \in Workers, Ensure(w) PROVE FALSE
      BY Zenon
  <2>1. UNCHANGED child
      BY Zenon DEF Ensure, work
  <2> QED BY Zenon, <2>1
<1>4. ASSUME NEW w \in Workers, ReapWork(w) PROVE obj.patch
    BY Zenon, <1>0, <1>4, WorkerFacts DEF ReapWork, View, At, Behind, CapturingCalls
<1>5. ASSUME NEW w \in Workers, CleanWork(w)
      PROVE  obj.cancel \/ obj.deleting \/ obj.phase \in Terminal
    BY Zenon, <1>0, <1>5, WorkerFacts DEF CleanWork, View, At, Behind, CleanupCalls
<1>6. CASE GarbageCollect
    BY Zenon, <1>6 DEF GarbageCollect
<1> QED BY Zenon, <1>1, <1>2, <1>3, <1>4, <1>5, <1>6, Writers

(***************************************************************************)
(* No worker removes the work child of a live run before the patch is      *)
(* durable in status ("Persist the capture checkpoint before any work      *)
(* child is reaped"), however stale the copy it acts on.                   *)
(***************************************************************************)
THEOREM EvidenceOutlivesReap == Spec => EvidenceBeforeReap
<1>1. Inv /\ [Next]_vars =>
        [(child # NoChild /\ child' = NoChild /\ faults' = faults)
           => obj.patch \/ ~obj.there \/ obj.cancel \/ obj.deleting \/ obj.phase \in Terminal]_vars
    BY Zenon, ReapStep
<1> QED BY <1>1, Invariance, PTL DEF Spec, EvidenceBeforeReap

LEMMA PhaseStep ==
    ASSUME Inv, [Next]_vars
    PROVE  [P!Next]_(P!pvars)
<1>1. CASE Next
  <2>1. Moves(obj, obj')
      BY Zenon, <1>1, ObjectStep DEF Inv, ViewsAndObject
  <2> QED BY Zenon, <2>1 DEF Moves, P!Next, P!Lock, P!Advance, P!pvars, P!Terminal, Terminal
<1>2. CASE UNCHANGED vars
    BY Zenon, <1>2 DEF vars, P!pvars
<1> QED BY Zenon, <1>1, <1>2

(***************************************************************************)
(* The controller implements the table of fsm/agentrun.go: the phase moves *)
(* only along it and the digest is locked at most once.                    *)
(***************************************************************************)
THEOREM PhasesRefined == Spec => ImplementsPhases
<1>1. Init => P!Init
  <2>1. Init => obj = NewRun
      BY Zenon DEF Init
  <2>2. NewRun.phase = "" /\ NewRun.digest = NoDigest
      BY Zenon DEF NewRun
  <2> QED BY Zenon, <2>1, <2>2 DEF P!Init
<1>2. Inv /\ [Next]_vars => [P!Next]_(P!pvars)
    BY Zenon, PhaseStep
<1> QED BY <1>1, <1>2, Invariance, PTL DEF Spec, ImplementsPhases, P!Spec
=============================================================================
