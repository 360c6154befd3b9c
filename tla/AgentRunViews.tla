---------------------------- MODULE AgentRunViews ---------------------------
(***************************************************************************)
(* What holds of an AgentRun for any number of operator processes, digests,*)
(* children and faults.                                                    *)
(*                                                                         *)
(* A worker edits a private copy of the run.  The argument splits what is  *)
(* known of such a copy n, whose next call is c, into facts that stay true *)
(* however long the worker stalls (Sound, At, Behind) and one that is lost *)
(* as soon as somebody else writes (Current).  All four are operators on   *)
(* values, so that one lemma (ViewStable) carries them over the steps of   *)
(* everybody else.                                                         *)
(***************************************************************************)
EXTENDS AgentRun, TLAPS

Writing == {"lock", "savePatch", "update"}

PendingCalls    == {"checkExecution", "planWork", "ensure", "readBack"}
WorkingCalls    == {"projectContext", "loadCompletion", "observeExit", "finalize0", "finalize1",
                    "projectCompletion"}
CapturingCalls  == {"capture", "savePatch", "reapCapture", "reapWork"}
PatchCalls      == {"publish", "mutate", "commitEffect"}
PublishingCalls == PatchCalls \cup {"publishFindings"}
CleanupCalls    == {"cleanSecrets", "cleanWork", "cleanVerify", "cleanCapture", "endCleanup"}

\* An effect may be claimed for a run with this locked contract and verdict.
Allowed(n) ==
    /\ n.digest \in PublishPR
    /\ n.gate = "Accepted" \/ (n.gate = "Rejected" /\ n.digest \in Shadow)

(***************************************************************************)
(* What any version n of the run object says is true, with completion      *)
(* record k, ledger entry l, pull request p and reviews q.                 *)
(***************************************************************************)
Sound(n, k, l, p, q) ==
    /\ n.digest # NoDigest => n.phase # ""
    /\ n.digest = NoDigest => n.phase \in {"", "Pending"} \cup Terminal
    /\ n.phase \in {"Capturing", "Verifying", "Gated", "Publishing", "Succeeded", "Rejected"}
         => k = "Completed" /\ n.events
    /\ n.phase \in {"Verifying", "Gated", "Publishing", "Succeeded", "Rejected"} => n.patch
    /\ n.phase \in {"Gated", "Publishing", "Succeeded", "Rejected"} => n.gate # "none"
    /\ n.gate # "none" => n.phase \in {"Gated", "Publishing"} \cup Terminal
    /\ n.phase = "Publishing" => Allowed(n)
    /\ n.effect = "succeeded" => p /\ l = "succeeded"
    /\ n.effect = "failed" => l = "failed"
    /\ n.findings = "true" => q = "posted"
    /\ n.phase = "Succeeded" /\ n.digest \in PublishPR =>
         /\ n.digest \notin Findings => n.effect = "succeeded"
         /\ n.digest \in Findings \cup Both => n.findings = "true"

(***************************************************************************)
(* What the call c a worker is about to make tells of its copy n, with the *)
(* resolved specs S in the object store, completion k and ledger entry l.  *)
(***************************************************************************)
At(n, c, S, k, l) ==
    /\ c = "resolve" => n.digest = NoDigest /\ n.phase \in {"", "Pending"}
    /\ c \in {"lock", "save", "recover"} => n.digest # NoDigest
    /\ c \in {"lock", "save"} => n.phase = "Pending"
    /\ c \in PendingCalls => n.digest # NoDigest /\ n.phase = "Pending"
    /\ c \in PendingCalls \ {"checkExecution"} => n.digest \in S
    /\ c = "observeClone" => n.digest # NoDigest /\ n.phase = "Cloning"
    /\ c \in WorkingCalls => n.digest # NoDigest /\ n.phase = "Working"
    /\ c = "projectCompletion" => k # "none"
    /\ c \in CapturingCalls => n.digest # NoDigest /\ n.phase = "Capturing"
    /\ c \in CapturingCalls \ {"capture"} => n.patch
    /\ c = "verify" => n.digest # NoDigest /\ n.phase = "Verifying"
    /\ c = "gate" => n.digest # NoDigest /\ n.phase = "Gated"
    /\ c \in PublishingCalls => n.digest # NoDigest /\ n.phase = "Publishing"
    /\ c \in PatchCalls => n.digest \notin Findings
    /\ c \in {"mutate", "commitEffect"} => l = "claimed"
    /\ c = "publishFindings" => n.digest \in Findings \/ (n.digest \in Both /\ l = "succeeded")
    /\ c \in CleanupCalls => n.deleting \/ n.cancel \/ n.phase \in Terminal

(***************************************************************************)
(* What a copy n has recorded for good is recorded in the object o too,    *)
(* unless the copy's own next write is to record it.                       *)
(***************************************************************************)
Behind(o, n, c) ==
    /\ n.digest # NoDigest /\ c # "lock" => o.digest = n.digest
    /\ n.patch /\ c # "savePatch" => o.patch
    /\ n.gate # "none" /\ c # "update" => o.gate = n.gate
    /\ n.phase \in Terminal /\ c # "update" => o.phase \in Terminal
    /\ n.cancel => o.cancel
    /\ n.deleting => o.deleting

\* The steps AgentRunPhases allows from object o to object n.
Moves(o, n) ==
    \/ n.phase = o.phase /\ n.digest = o.digest
    \/ /\ o.digest = NoDigest /\ o.phase \in {"", "Pending"}
       /\ n.phase = "Pending" /\ n.digest \in Digests
    \/ /\ n.phase \in P!Successors(o.phase)
       /\ n.phase \in {"Pending"} \cup Terminal \/ o.digest # NoDigest
       /\ n.digest = o.digest

(***************************************************************************)
(* A write of copy n over object o keeps what is recorded for good.        *)
(***************************************************************************)
Extends(o, n) ==
    /\ Moves(o, n)
    /\ o.patch => n.patch
    /\ o.gate # "none" => n.gate = o.gate
    /\ n.there = o.there /\ n.cancel = o.cancel /\ n.deleting = o.deleting

\* A copy whose resourceVersion is current is the object, or what is to replace it.
Current(o, n, c) == c # "idle" /\ IF c \in Writing THEN Extends(o, n) ELSE n = o

View(o, n, f, c, S, k, l, p, q) ==
    /\ Sound(n, k, l, p, q)
    /\ At(n, c, S, k, l)
    /\ Behind(o, n, c)
    /\ f => Current(o, n, c)

Views ==
    \A w \in Workers : View(obj, run[w], fresh[w], pc[w], saved, completion, ledger, pr, reviews)

OnePublisher ==
    \A v, w \in Workers :
        pc[v] \in {"mutate", "commitEffect"} /\ pc[w] \in {"mutate", "commitEffect"} => v = w

(***************************************************************************)
(* Each kind of contract has its own effects: findings alone never claim   *)
(* the patch's, and the reviews of both follow its success.                *)
(***************************************************************************)
Apart ==
    /\ pr => ledger # "none"
    /\ obj.digest \in Findings => ledger = "none"
    /\ reviews # "none" => obj.digest \in Findings \/ (obj.digest \in Both /\ ledger = "succeeded")

Inv ==
    /\ TypeOK
    /\ Sound(obj, completion, ledger, pr, reviews)
    /\ Views
    /\ OnePublisher
    /\ completion \in {"none", stream}
    /\ ledger = "succeeded" => pr
    /\ GateDecides
    /\ Apart
    /\ ExecutesLockedSpec

-----------------------------------------------------------------------------
(* Types *)

LocalTypes ==
    /\ run \in [Workers -> RunObjects] /\ fresh \in [Workers -> BOOLEAN]
    /\ failed \in [Workers -> BOOLEAN] /\ queued \in [Workers -> BOOLEAN]
    /\ pc \in [Workers -> Calls] /\ plan \in [Workers -> 0 .. MaxClock]
    /\ cache \in [Workers -> Children]

LEMMA NewRunType == NewRun \in RunObjects
BY BoundsAssumption DEF NewRun, RunObjects

LEMMA NoChildType == NoChild \in Children
BY BoundsAssumption DEF NoChild, Children, ChildStates

LEMMA EditTypes ==
    ASSUME LocalTypes, NEW w \in Workers, NEW n \in RunObjects, NEW c \in Calls, Edit(w, n, c)
    PROVE  LocalTypes'
BY Zenon DEF LocalTypes, Edit, Goto

LEMMA UpdatedFunction ==
    ASSUME NEW S, NEW T, NEW f \in [S -> T], NEW x \in S, NEW y \in T
    PROVE  [f EXCEPT ![x] = y] \in [S -> T]
BY Zenon

LEMMA ReturnTypes ==
    ASSUME LocalTypes, NEW w \in Workers, Return(w)
    PROVE  /\ run' \in [Workers -> RunObjects] /\ failed' \in [Workers -> BOOLEAN]
           /\ pc' \in [Workers -> Calls] /\ plan' \in [Workers -> 0 .. MaxClock]
           /\ cache' \in [Workers -> Children]
<1>1. 0 \in 0 .. MaxClock /\ "idle" \in Calls /\ FALSE \in BOOLEAN
    BY BoundsAssumption DEF Calls
<1> QED BY <1>1, NewRunType, UpdatedFunction, Zenon DEF LocalTypes, Return, Goto

LEMMA RequeueTypes ==
    ASSUME LocalTypes, NEW w \in Workers, Requeue(w) \/ Done(w)
    PROVE  LocalTypes'
<1>1. fresh' \in [Workers -> BOOLEAN] /\ queued' \in [Workers -> BOOLEAN]
    BY Zenon DEF LocalTypes, Requeue, Done
<1> QED BY Zenon, <1>1, ReturnTypes DEF LocalTypes, Requeue, Done

LEMMA StepTypes ==
    ASSUME LocalTypes, NEW w \in Workers, NEW c \in Calls, NEW bad \in BOOLEAN, Step(w, c, bad)
    PROVE  LocalTypes'
BY Zenon DEF LocalTypes, Step, Goto

LEMMA UpdateTypes ==
    ASSUME LocalTypes, obj \in RunObjects, NEW w \in Workers, NEW c \in Calls, Update(w, c)
    PROVE  LocalTypes' /\ obj' \in RunObjects
<1>1. CASE ~(obj.there /\ fresh[w])
    BY Zenon, <1>1, RequeueTypes DEF Update
<1>2. CASE obj.there /\ fresh[w]
  <2>1. fresh' \in [Workers -> BOOLEAN] /\ queued' \in [Workers -> BOOLEAN]
      BY Zenon, <1>2 DEF LocalTypes, Update
  <2>2. obj' \in RunObjects
      BY Zenon, <1>2 DEF LocalTypes, Update
  <2>3. CASE c = "idle"
      BY Zenon, <1>2, <2>1, <2>2, <2>3, ReturnTypes DEF LocalTypes, Update
  <2>4. CASE c # "idle"
    <3>1. pc' \in [Workers -> Calls] /\ UNCHANGED <<run, failed, plan, cache>>
        BY <1>2, <2>4 DEF LocalTypes, Update, Goto
    <3> QED BY Zenon, <2>1, <2>2, <3>1 DEF LocalTypes
  <2> QED BY Zenon, <2>3, <2>4
<1> QED BY Zenon, <1>1, <1>2

LEMMA TouchTypes ==
    ASSUME LocalTypes, NEW n \in RunObjects, Touch(n), UNCHANGED <<run, pc, failed, plan, cache>>
    PROVE  LocalTypes' /\ obj' \in RunObjects
BY Zenon DEF LocalTypes, Touch

LEMMA EditedTypes ==
    ASSUME NEW n \in RunObjects
    PROVE  /\ \A x \in Active \cup Terminal : [n EXCEPT !.phase = x] \in RunObjects
           /\ \A d \in Digests : [n EXCEPT !.phase = "Pending", !.digest = d] \in RunObjects
           /\ \A u \in 0 .. MaxChildren : [n EXCEPT !.work = u, !.phase = "Cloning"] \in RunObjects
           /\ [n EXCEPT !.ref = TRUE] \in RunObjects /\ [n EXCEPT !.ctx = TRUE] \in RunObjects
           /\ [n EXCEPT !.patch = TRUE] \in RunObjects /\ [n EXCEPT !.verify = TRUE] \in RunObjects
           /\ \A g \in {"Accepted", "Rejected"} :
                [n EXCEPT !.verify = TRUE, !.gate = g, !.phase = "Gated"] \in RunObjects
           /\ \A e \in {"none", "succeeded", "failed", "unknown"}, g \in {"none", "true", "false", "unknown"},
                x \in Active \cup Terminal :
                [n EXCEPT !.effect = e, !.findings = g, !.phase = x] \in RunObjects
           /\ [n EXCEPT !.finalizer = TRUE] \in RunObjects
           /\ [n EXCEPT !.finalizer = FALSE, !.there = FALSE] \in RunObjects
           /\ [n EXCEPT !.cancel = TRUE] \in RunObjects
           /\ [n EXCEPT !.deleting = TRUE] \in RunObjects /\ [n EXCEPT !.there = FALSE] \in RunObjects
<1> USE DEF RunObjects
<1>1. ASSUME NEW x \in Active \cup Terminal PROVE [n EXCEPT !.phase = x] \in RunObjects
    BY Zenon, <1>1
<1>2. ASSUME NEW d \in Digests PROVE [n EXCEPT !.phase = "Pending", !.digest = d] \in RunObjects
    BY Zenon, <1>2 DEF Active
<1>3. ASSUME NEW u \in 0 .. MaxChildren
      PROVE  [n EXCEPT !.work = u, !.phase = "Cloning"] \in RunObjects
    BY Zenon, <1>3 DEF Active
<1>4. ASSUME NEW g \in {"Accepted", "Rejected"}
      PROVE  [n EXCEPT !.verify = TRUE, !.gate = g, !.phase = "Gated"] \in RunObjects
    BY Zenon, <1>4 DEF Active
<1>5. ASSUME NEW e \in {"none", "succeeded", "failed", "unknown"},
             NEW g \in {"none", "true", "false", "unknown"}, NEW x \in Active \cup Terminal
      PROVE  [n EXCEPT !.effect = e, !.findings = g, !.phase = x] \in RunObjects
    BY Zenon, <1>5
<1>6. /\ [n EXCEPT !.ref = TRUE] \in RunObjects /\ [n EXCEPT !.ctx = TRUE] \in RunObjects
      /\ [n EXCEPT !.patch = TRUE] \in RunObjects /\ [n EXCEPT !.verify = TRUE] \in RunObjects
    BY Zenon
<1>7. /\ [n EXCEPT !.finalizer = TRUE] \in RunObjects
      /\ [n EXCEPT !.finalizer = FALSE, !.there = FALSE] \in RunObjects
      /\ [n EXCEPT !.cancel = TRUE] \in RunObjects
      /\ [n EXCEPT !.deleting = TRUE] \in RunObjects /\ [n EXCEPT !.there = FALSE] \in RunObjects
    BY Zenon
<1> HIDE DEF RunObjects
<1> QED BY Zenon, <1>1, <1>2, <1>3, <1>4, <1>5, <1>6, <1>7

-----------------------------------------------------------------------------
(* What a worker knows outlives the steps of the others *)

\* What is recorded for good in object o is in object o2.
Grows(o, o2) ==
    /\ o.digest # NoDigest => o2.digest = o.digest
    /\ o.patch => o2.patch
    /\ o.gate # "none" => o2.gate = o.gate
    /\ o.phase \in Terminal => o2.phase \in Terminal
    /\ o.cancel => o2.cancel
    /\ o.deleting => o2.deleting

LEMMA ExtendsGrows ==
    ASSUME NEW o, NEW n, Extends(o, n)
    PROVE  Grows(o, n)
BY Zenon DEF Extends, Moves, Grows, P!Successors, P!Transitions, P!Active, Terminal

LEMMA SoundStable ==
    ASSUME NEW n, NEW k, NEW k2, NEW l, NEW l2, NEW p, NEW p2, NEW q, NEW q2, Sound(n, k, l, p, q),
           k # "none" => k2 = k,
           l \in {"succeeded", "failed"} => l2 = l /\ (p => p2), q = "posted" => q2 = "posted"
    PROVE  Sound(n, k2, l2, p2, q2)
BY Zenon DEF Sound

\* What the stores hold is never taken back, and a claimed effect is its claimant's.
WorldGrows ==
    /\ saved \subseteq saved'
    /\ completion # "none" => completion' = completion
    /\ ledger \in {"succeeded", "failed"} => ledger' = ledger /\ (pr => pr')
    /\ reviews = "posted" => reviews' = "posted"

LEMMA ViewStable ==
    ASSUME NEW n, NEW f, NEW g, NEW c,
           View(obj, n, f, c, saved, completion, ledger, pr, reviews), Grows(obj, obj'), WorldGrows,
           c \in {"mutate", "commitEffect"} => ledger' = "claimed", g => f /\ obj' = obj
    PROVE  View(obj', n, g, c, saved', completion', ledger', pr', reviews')
<1>1. Sound(n, completion', ledger', pr', reviews')
    BY Zenon, SoundStable DEF View, WorldGrows
<1>2. At(n, c, saved', completion', ledger')
    BY Zenon DEF View, At, WorldGrows
<1>3. Behind(obj', n, c)
    BY Zenon DEF View, Behind, Grows
<1>4. g => Current(obj', n, c)
    BY Zenon DEF View
<1> QED BY Zenon, <1>1, <1>2, <1>3, <1>4 DEF View

\* The same of the object the worker has seen.
LEMMA ViewLasts ==
    ASSUME NEW n, NEW f, NEW c, View(obj, n, f, c, saved, completion, ledger, pr, reviews),
           WorldGrows, c \notin {"mutate", "commitEffect"}
    PROVE  View(obj, n, f, c, saved', completion', ledger', pr', reviews')
<1>1. Sound(n, completion', ledger', pr', reviews')
    BY Zenon, SoundStable DEF View, WorldGrows
<1>2. At(n, c, saved', completion', ledger')
    BY Zenon DEF View, At, WorldGrows
<1> QED BY Zenon, <1>1, <1>2 DEF View

\* A worker that holds nothing of the run.
LEMMA IdleView ==
    ASSUME NEW o, NEW S, NEW k, NEW l, NEW p, NEW q
    PROVE  View(o, NewRun, FALSE, "idle", S, k, l, p, q)
BY Zenon, DigestAssumption
DEF View, Sound, At, Behind, NewRun, Terminal, PendingCalls, WorkingCalls, CapturingCalls,
    PatchCalls, PublishingCalls, CleanupCalls

MyView(w) == View(obj, run[w], fresh[w], pc[w], saved, completion, ledger, pr, reviews)

LEMMA OthersKeepViews ==
    ASSUME Views, NEW w \in Workers, Grows(obj, obj'), WorldGrows, MyView(w)',
           \A v \in Workers \ {w} :
              /\ run'[v] = run[v] /\ pc'[v] = pc[v]
              /\ fresh'[v] => fresh[v] /\ obj' = obj
              /\ pc[v] \in {"mutate", "commitEffect"} => ledger' = "claimed"
    PROVE  Views'
<1>1. ASSUME NEW v \in Workers \ {w} PROVE MyView(v)'
  <2>1. MyView(v)
      BY Zenon DEF Views, MyView
  <2>2. View(obj', run[v], fresh'[v], pc[v], saved', completion', ledger', pr', reviews')
      BY Zenon, <2>1, ViewStable DEF MyView
  <2> QED BY Zenon, <2>2 DEF MyView
<1> QED BY Zenon, <1>1 DEF Views, MyView

-----------------------------------------------------------------------------
(* The kinds of steps *)

\* A step of worker w leaves what the others rely on.
Undisturbed(w) ==
    /\ WorldGrows
    /\ \A v \in Workers \ {w} : pc[v] \in {"mutate", "commitEffect"} => ledger' = "claimed"

stores == <<saved, completion, ledger, pr, reviews>>

LEMMA StoresUntouched ==
    ASSUME Views, NEW w \in Workers, UNCHANGED stores
    PROVE  Undisturbed(w)
BY Zenon DEF Views, View, At, Undisturbed, WorldGrows, stores

ViewsAndObject == Views /\ Sound(obj, completion, ledger, pr, reviews)

LEMMA ObjectStable ==
    ASSUME ViewsAndObject, UNCHANGED obj, WorldGrows
    PROVE  Sound(obj', completion', ledger', pr', reviews') /\ Grows(obj, obj')
<1>1. Sound(obj, completion', ledger', pr', reviews')
    BY Zenon, SoundStable DEF ViewsAndObject, WorldGrows
<1> QED BY Zenon, <1>1 DEF Grows

\* Worker w goes on with copy n and call c.
GoesOn(w, n, c) ==
    /\ run'[w] = n /\ fresh'[w] = fresh[w] /\ pc'[w] = c
    /\ \A v \in Workers \ {w} : run'[v] = run[v] /\ pc'[v] = pc[v] /\ fresh'[v] = fresh[v]

LEMMA GoesOnKeeps ==
    ASSUME ViewsAndObject, NEW w \in Workers, NEW n, NEW c, GoesOn(w, n, c), UNCHANGED obj,
           Undisturbed(w), View(obj, n, fresh[w], c, saved', completion', ledger', pr', reviews')
    PROVE  ViewsAndObject'
<1>1. MyView(w)'
    BY Zenon DEF MyView, GoesOn
<1> QED BY Zenon, <1>1, ObjectStable, OthersKeepViews DEF ViewsAndObject, Undisturbed, GoesOn

LEMMA EditKeeps ==
    ASSUME TypeOK, ViewsAndObject, NEW w \in Workers, NEW n, NEW c, Edit(w, n, c), UNCHANGED obj,
           Undisturbed(w), View(obj, n, fresh[w], c, saved', completion', ledger', pr', reviews')
    PROVE  ViewsAndObject'
<1>1. GoesOn(w, n, c)
    BY Zenon DEF TypeOK, Edit, Goto, GoesOn
<1> QED BY Zenon, <1>1, GoesOnKeeps

LEMMA RequeueKeeps ==
    ASSUME TypeOK, ViewsAndObject, NEW w \in Workers, Requeue(w) \/ Done(w), UNCHANGED obj,
           Undisturbed(w)
    PROVE  ViewsAndObject'
<1>1. /\ run'[w] = NewRun /\ fresh'[w] = FALSE /\ pc'[w] = "idle"
      /\ \A v \in Workers \ {w} : run'[v] = run[v] /\ pc'[v] = pc[v] /\ fresh'[v] = fresh[v]
    BY Zenon DEF TypeOK, Requeue, Done, Return, Goto
<1>2. MyView(w)'
    BY Zenon, <1>1, IdleView DEF MyView
<1> QED BY Zenon, <1>1, <1>2, ObjectStable, OthersKeepViews DEF ViewsAndObject, Undisturbed

LEMMA CleanupIsCleanup ==
    ASSUME NEW c \in CleanupCalls
    PROVE  /\ c \notin {"idle", "lock", "savePatch", "update", "resolve", "save", "recover"}
           /\ c \notin PendingCalls \cup WorkingCalls \cup CapturingCalls \cup PublishingCalls
           /\ c \notin {"observeClone", "verify", "gate"}
BY Zenon DEF PendingCalls, WorkingCalls, CapturingCalls, PatchCalls, PublishingCalls, CleanupCalls

LEMMA StepKeeps ==
    ASSUME TypeOK, ViewsAndObject, NEW w \in Workers, pc[w] \in CleanupCalls,
           NEW c \in CleanupCalls, NEW bad, Step(w, c, bad), UNCHANGED obj, UNCHANGED stores
    PROVE  ViewsAndObject'
<1>1. GoesOn(w, run[w], c)
    BY Zenon DEF TypeOK, Step, Goto, GoesOn
<1>2. MyView(w)
    BY Zenon DEF ViewsAndObject, Views, MyView
<1>3. View(obj, run[w], fresh[w], c, saved, completion, ledger, pr, reviews)
  <2>1. Sound(run[w], completion, ledger, pr, reviews)
      BY Zenon, <1>2 DEF MyView, View
  <2>2. At(run[w], c, saved, completion, ledger)
      BY Zenon, <1>2, CleanupIsCleanup DEF MyView, View, At, WorkingCalls, PatchCalls, PublishingCalls
  <2>3. Behind(obj, run[w], c)
      BY Zenon, <1>2, CleanupIsCleanup DEF MyView, View, Behind
  <2>4. fresh[w] => Current(obj, run[w], c)
      BY Zenon, <1>2, CleanupIsCleanup DEF MyView, View, Current, Writing
  <2> QED BY Zenon, <2>1, <2>2, <2>3, <2>4 DEF View
<1>4. View(obj, run[w], fresh[w], c, saved', completion', ledger', pr', reviews')
    BY Zenon, <1>3 DEF stores
<1>5. Undisturbed(w)
    BY Zenon, StoresUntouched DEF ViewsAndObject
<1> QED BY Zenon, <1>1, <1>4, <1>5, GoesOnKeeps

LEMMA UpdateKeeps ==
    ASSUME TypeOK, ViewsAndObject, NEW w \in Workers, NEW c, pc[w] \in Writing, Update(w, c),
           UNCHANGED stores,
           c # "idle" => View(run[w], run[w], TRUE, c, saved, completion, ledger, pr, reviews)
    PROVE  ViewsAndObject'
<1>1. CASE ~(obj.there /\ fresh[w])
    BY Zenon, <1>1, RequeueKeeps, StoresUntouched DEF Update, ViewsAndObject
<1>2. CASE obj.there /\ fresh[w]
  <2>1. /\ obj' = run[w] /\ pc' = [pc EXCEPT ![w] = c]
        /\ IF c = "idle" THEN run' = [run EXCEPT ![w] = NewRun] ELSE run' = run
        /\ fresh' = [v \in Workers |-> IF v = w THEN c # "idle" ELSE fresh[v] /\ run[w] = obj]
      BY Zenon, <1>2 DEF Update, Return, Goto
  <2>a. /\ pc'[w] = c /\ fresh'[w] = (c # "idle")
        /\ c = "idle" => run'[w] = NewRun
        /\ c # "idle" => run'[w] = run[w]
      BY Zenon, <2>1 DEF TypeOK
  <2>b. \A v \in Workers \ {w} : /\ run'[v] = run[v] /\ pc'[v] = pc[v]
                                 /\ fresh'[v] => fresh[v] /\ obj' = obj
      BY Zenon, <2>1 DEF TypeOK
  <2>2. MyView(w)
      BY Zenon DEF ViewsAndObject, Views, MyView
  <2>3. Grows(obj, obj')
      BY Zenon, <1>2, <2>1, <2>2, ExtendsGrows DEF MyView, View, Current
  <2>4. MyView(w)'
    <3>1. CASE c = "idle"
        BY Zenon, <3>1, <2>a, IdleView DEF MyView
    <3>2. CASE c # "idle"
        BY Zenon, <3>2, <2>1, <2>a DEF MyView, stores
    <3> QED BY Zenon, <3>1, <3>2
  <2>5. Sound(obj', completion', ledger', pr', reviews')
      BY Zenon, <2>1, <2>2 DEF MyView, View, stores
  <2>6. Undisturbed(w)
      BY Zenon, StoresUntouched DEF ViewsAndObject
  <2> QED BY Zenon, <2>b, <2>3, <2>4, <2>5, <2>6, OthersKeepViews DEF ViewsAndObject, Undisturbed
<1> QED BY Zenon, <1>1, <1>2

-----------------------------------------------------------------------------
(* The views of a worker that goes on *)

LEMMA ViewOfCall ==
    ASSUME NEW o, NEW n, NEW f, NEW c, NEW c2, NEW S, NEW k, NEW l, NEW p, NEW q,
           View(o, n, f, c, S, k, l, p, q), c \notin Writing, c2 \notin Writing \cup {"idle"},
           At(n, c2, S, k, l)
    PROVE  View(o, n, f, c2, S, k, l, p, q)
BY Zenon DEF View, Behind, Current, Writing

LEMMA ViewOfWrite ==
    ASSUME NEW o, NEW n, NEW m, NEW f, NEW c, NEW S, NEW k, NEW l, NEW p, NEW q,
           View(o, n, f, c, S, k, l, p, q), c \notin Writing,
           Sound(m, k, l, p, q), Extends(n, m), m.digest = n.digest, m.patch = n.patch
    PROVE  View(o, m, f, "update", S, k, l, p, q)
<1>1. At(m, "update", S, k, l)
    BY Zenon DEF At, PendingCalls, WorkingCalls, CapturingCalls, PatchCalls, PublishingCalls, CleanupCalls
<1>2. Behind(o, m, "update")
    BY Zenon DEF View, Behind, Extends, Writing
<1>3. f => Current(o, m, "update")
    BY Zenon DEF View, Current, Writing
<1> QED BY Zenon, <1>1, <1>2, <1>3 DEF View

LEMMA WorkerFacts ==
    ASSUME TypeOK, ViewsAndObject, NEW w \in Workers
    PROVE  /\ run[w] \in RunObjects /\ fresh[w] \in BOOLEAN /\ pc[w] \in Calls
           /\ View(obj, run[w], fresh[w], pc[w], saved, completion, ledger, pr, reviews)
BY Zenon DEF TypeOK, ViewsAndObject, Views

LEMMA ContinueKeeps ==
    ASSUME TypeOK, ViewsAndObject, NEW w \in Workers, NEW c, Continue(w, c), UNCHANGED obj,
           UNCHANGED stores, pc[w] \notin Writing, c \notin Writing \cup {"idle"},
           At(run[w], c, saved, completion, ledger)
    PROVE  ViewsAndObject'
<1>1. View(obj, run[w], fresh[w], c, saved', completion', ledger', pr', reviews')
    BY Zenon, WorkerFacts, ViewOfCall DEF stores
<1>2. Undisturbed(w)
    BY Zenon, StoresUntouched DEF ViewsAndObject
<1> QED BY Zenon, <1>1, <1>2, EditKeeps DEF Continue

LEMMA WriteKeeps ==
    ASSUME TypeOK, ViewsAndObject, NEW w \in Workers, NEW m, Edit(w, m, "update"), UNCHANGED obj,
           UNCHANGED stores, pc[w] \notin Writing, Sound(m, completion, ledger, pr, reviews),
           Extends(run[w], m), m.digest = run[w].digest, m.patch = run[w].patch
    PROVE  ViewsAndObject'
<1>1. View(obj, m, fresh[w], "update", saved', completion', ledger', pr', reviews')
    BY Zenon, WorkerFacts, ViewOfWrite DEF stores
<1>2. Undisturbed(w)
    BY Zenon, StoresUntouched DEF ViewsAndObject
<1> QED BY Zenon, <1>1, <1>2, EditKeeps

LEMMA QuietKeeps ==
    ASSUME TypeOK, ViewsAndObject, NEW w \in Workers, Requeue(w) \/ Done(w), UNCHANGED obj,
           UNCHANGED stores
    PROVE  ViewsAndObject'
BY Zenon, StoresUntouched, RequeueKeeps DEF ViewsAndObject

\* The phase becomes terminal, or stays and status records something of the work.
LEMMA FailedIsSound ==
    ASSUME NEW n \in RunObjects, NEW k, NEW l, NEW p, NEW q, Sound(n, k, l, p, q),
           n.phase \in Active \cup {""}, NEW x \in {"Failed", "Cancelled"}
    PROVE  LET m == [n EXCEPT !.phase = x]
           IN  /\ Sound(m, k, l, p, q) /\ Extends(n, m)
               /\ m.digest = n.digest /\ m.patch = n.patch
BY Zenon DEF RunObjects, Sound, Extends, Moves, Allowed, Active, Terminal,
       P!Successors, P!Transitions, P!Pipeline, P!Active, P!Terminal

LEMMA RecordIsSound ==
    ASSUME NEW n \in RunObjects, NEW k, NEW l, NEW p, NEW q, Sound(n, k, l, p, q),
           NEW m \in {[n EXCEPT !.ref = TRUE], [n EXCEPT !.ctx = TRUE], [n EXCEPT !.verify = TRUE]}
    PROVE  /\ Sound(m, k, l, p, q) /\ Extends(n, m)
           /\ m.digest = n.digest /\ m.patch = n.patch
<1>1. /\ m.digest = n.digest /\ m.patch = n.patch /\ m.phase = n.phase /\ m.gate = n.gate
      /\ m.events = n.events /\ m.effect = n.effect /\ m.findings = n.findings /\ m.there = n.there /\ m.cancel = n.cancel
      /\ m.deleting = n.deleting
    BY Zenon DEF RunObjects
<1> QED BY Zenon, <1>1 DEF Sound, Extends, Moves, Allowed

-----------------------------------------------------------------------------
(* Reading the run, admission *)

LEMMA BranchAt ==
    ASSUME NEW o \in RunObjects, NEW S, NEW k, NEW l, NEW p, NEW q, Sound(o, k, l, p, q), Branch(o) # "idle"
    PROVE  /\ At(o, Branch(o), S, k, l)
           /\ Branch(o) \in Calls \ (Writing \cup {"idle"})
<1> DEFINE c == Branch(o)
<1>1. CASE o.deleting
  <2>1. c = "cleanSecrets"
      BY Zenon, <1>1 DEF Branch
  <2> QED BY Zenon, <1>1, <2>1 DEF At, Writing, Calls, PendingCalls, WorkingCalls, CapturingCalls,
                            PatchCalls, PublishingCalls
<1>2. CASE ~o.deleting /\ ~o.finalizer
  <2>1. c = "addFinalizer"
      BY Zenon, <1>2 DEF Branch
  <2> QED BY Zenon, <2>1 DEF At, Writing, Calls, PendingCalls, WorkingCalls, CapturingCalls,
                      PatchCalls, PublishingCalls, CleanupCalls
<1>3. CASE ~o.deleting /\ o.finalizer /\ (o.cancel \/ o.phase \in Terminal)
  <2>1. c = "cleanSecrets"
      BY Zenon, <1>3 DEF Branch
  <2> QED BY Zenon, <1>3, <2>1 DEF At, Writing, Calls, PendingCalls, WorkingCalls, CapturingCalls,
                            PatchCalls, PublishingCalls
<1>4. CASE ~o.deleting /\ o.finalizer /\ ~(o.cancel \/ o.phase \in Terminal)
  <2>1. c = IF o.digest = NoDigest THEN "resolve" ELSE IF ~o.ref THEN "recover" ELSE PhaseCall(o)
      BY Zenon, <1>4 DEF Branch
  <2>2. CASE o.digest = NoDigest
      BY Zenon, <1>4, <2>1, <2>2 DEF At, Writing, Calls, PendingCalls, WorkingCalls, CapturingCalls,
                              PatchCalls, PublishingCalls, CleanupCalls, Sound
  <2>3. CASE o.digest # NoDigest /\ ~o.ref
      BY Zenon, <2>1, <2>3 DEF At, Writing, Calls, PendingCalls, WorkingCalls, CapturingCalls,
                        PatchCalls, PublishingCalls, CleanupCalls
  <2>4. CASE o.digest # NoDigest /\ o.ref
    <3>1. o.phase \in Active /\ c = PhaseCall(o)
        BY Zenon, <1>4, <2>1, <2>4 DEF Sound, RunObjects, Active, Terminal
    <3> QED BY Zenon, <2>4, <3>1 DEF PhaseCall, At, Writing, Calls, PendingCalls, WorkingCalls,
                 CapturingCalls, PatchCalls, PublishingCalls, CleanupCalls, Active
  <2> QED BY Zenon, <2>2, <2>3, <2>4
<1> QED BY Zenon, <1>1, <1>2, <1>3, <1>4 DEF RunObjects

LEMMA GetKeeps ==
    ASSUME TypeOK, ViewsAndObject, NEW w \in Workers, Get(w)
    PROVE  ViewsAndObject'
<1>1. UNCHANGED stores /\ UNCHANGED obj
    BY Zenon DEF Get, world, effect, evidence, stores
<1>2. Undisturbed(w) /\ WorldGrows
    BY Zenon, <1>1, StoresUntouched DEF ViewsAndObject, Undisturbed
<1>3. CASE obj.there /\ Branch(obj) # "idle"
  <2>1. /\ run'[w] = obj /\ fresh'[w] = TRUE /\ pc'[w] = Branch(obj)
        /\ \A v \in Workers \ {w} : run'[v] = run[v] /\ pc'[v] = pc[v] /\ fresh'[v] = fresh[v]
      BY Zenon, <1>3 DEF TypeOK, Get, Goto
  <2>2. View(obj, obj, TRUE, Branch(obj), saved, completion, ledger, pr, reviews)
    <3>1. At(obj, Branch(obj), saved, completion, ledger) /\ Branch(obj) \notin Writing \cup {"idle"}
        BY Zenon, <1>3, BranchAt DEF TypeOK, ViewsAndObject
    <3> QED BY Zenon, <3>1 DEF View, ViewsAndObject, Behind, Current
  <2>3. MyView(w)'
      BY Zenon, <1>1, <2>1, <2>2 DEF MyView, stores
  <2> QED BY Zenon, <1>1, <1>2, <2>1, <2>3, ObjectStable, OthersKeepViews DEF ViewsAndObject, Undisturbed
<1>4. CASE ~(obj.there /\ Branch(obj) # "idle")
    BY Zenon, <1>1, <1>4 DEF Get, ViewsAndObject, Views, stores
<1> QED BY Zenon, <1>3, <1>4

LEMMA TouchKeeps ==
    ASSUME TypeOK, ViewsAndObject, NEW n, Touch(n), Grows(obj, n),
           Sound(n, completion, ledger, pr, reviews), UNCHANGED stores,
           UNCHANGED <<run, pc>> \/ \E w \in Workers : Return(w)
    PROVE  ViewsAndObject'
<1>1. ASSUME NEW v \in Workers PROVE MyView(v)'
  <2>1. fresh'[v] = FALSE /\ obj' = n
      BY Zenon DEF Touch
  <2>2. CASE run'[v] = run[v] /\ pc'[v] = pc[v]
    <3>1. View(obj, run[v], fresh[v], pc[v], saved, completion, ledger, pr, reviews)
        BY Zenon, WorkerFacts
    <3>2. pc[v] \in {"mutate", "commitEffect"} => ledger = "claimed"
        BY Zenon, <3>1 DEF View, At
    <3>3. View(obj', run[v], fresh'[v], pc[v], saved', completion', ledger', pr', reviews')
      <4>1. WorldGrows /\ ledger' = ledger /\ Grows(obj, obj') /\ ~fresh'[v]
          BY Zenon, <2>1 DEF stores, WorldGrows
      <4> QED BY Zenon, <3>1, <3>2, <4>1, ViewStable
    <3> QED BY Zenon, <2>2, <3>3 DEF MyView
  <2>3. CASE run'[v] = NewRun /\ pc'[v] = "idle"
      BY Zenon, <2>1, <2>3, IdleView DEF MyView
  <2> QED BY Zenon, <2>2, <2>3 DEF TypeOK, Return, Goto
<1> QED BY Zenon, <1>1 DEF ViewsAndObject, Views, MyView, Touch, stores

LEMMA TouchedIsSound ==
    ASSUME NEW o \in RunObjects, NEW k, NEW l, NEW p, NEW q, Sound(o, k, l, p, q),
           NEW m \in {[o EXCEPT !.finalizer = TRUE], [o EXCEPT !.finalizer = FALSE, !.there = FALSE],
                      [o EXCEPT !.cancel = TRUE], [o EXCEPT !.deleting = TRUE],
                      [o EXCEPT !.there = FALSE]}
    PROVE  Grows(o, m) /\ Sound(m, k, l, p, q) /\ m.phase = o.phase /\ m.digest = o.digest
<1>1. /\ m.digest = o.digest /\ m.patch = o.patch /\ m.phase = o.phase /\ m.gate = o.gate
      /\ m.events = o.events /\ m.effect = o.effect /\ m.findings = o.findings
      /\ o.cancel => m.cancel
      /\ o.deleting => m.deleting
    BY Zenon DEF RunObjects
<1> QED BY Zenon, <1>1 DEF Grows, Sound, Allowed

LEMMA AdmissionKeeps ==
    ASSUME TypeOK, ViewsAndObject, NEW w \in Workers,
           \/ AddFinalizer(w) \/ Resolve(w) \/ ResolveRejected(w) \/ LockResolution(w)
           \/ SaveResolvedSpec(w) \/ RecoverResolvedSpecRef(w) \/ UpdateStatus(w)
    PROVE  ViewsAndObject'
<1> DEFINE n == run[w]
<1>0. /\ n \in RunObjects
      /\ View(obj, n, fresh[w], pc[w], saved, completion, ledger, pr, reviews)
      /\ Sound(n, completion, ledger, pr, reviews) /\ At(n, pc[w], saved, completion, ledger)
      /\ obj \in RunObjects /\ Sound(obj, completion, ledger, pr, reviews)
    BY Zenon, WorkerFacts DEF View, TypeOK, ViewsAndObject
<1> HIDE DEF n
<1>1. CASE AddFinalizer(w)
  <2>1. UNCHANGED stores
      BY Zenon, <1>1 DEF AddFinalizer, world, effect, evidence, stores
  <2>2. CASE obj.there /\ ~obj.deleting
    <3> DEFINE o == [obj EXCEPT !.finalizer = TRUE]
    <3>1. Grows(obj, o) /\ Sound(o, completion, ledger, pr, reviews)
        BY Zenon, <1>0, TouchedIsSound
    <3>2. Touch(o) /\ Return(w)
        BY Zenon, <1>1, <2>2 DEF AddFinalizer
    <3> HIDE DEF o
    <3> QED BY Zenon, <2>1, <3>1, <3>2, TouchKeeps
  <2>3. CASE ~(obj.there /\ ~obj.deleting)
      BY Zenon, <1>1, <2>1, <2>3, QuietKeeps DEF AddFinalizer
  <2> QED BY Zenon, <2>2, <2>3
<1>2. CASE Resolve(w)
  <2>1. UNCHANGED stores /\ UNCHANGED obj
      BY Zenon, <1>2 DEF Resolve, world, effect, evidence, stores
  <2>2. PICK d \in Digests : Edit(w, [n EXCEPT !.phase = "Pending", !.digest = d], "lock")
      BY Zenon, <1>2 DEF Resolve, n
  <2> DEFINE m == [n EXCEPT !.phase = "Pending", !.digest = d]
  <2>3. n.digest = NoDigest /\ n.phase \in {"", "Pending"} /\ pc[w] = "resolve"
      BY Zenon, <1>0, <1>2 DEF Resolve, At
  <2>4. /\ m.phase = "Pending" /\ m.digest = d /\ m.patch = n.patch /\ m.gate = n.gate
        /\ m.events = n.events /\ m.effect = n.effect /\ m.findings = n.findings /\ m.there = n.there
        /\ m.cancel = n.cancel /\ m.deleting = n.deleting
      BY Zenon, <1>0 DEF RunObjects
  <2> HIDE DEF m
  <2>5. Sound(m, completion, ledger, pr, reviews)
      BY Zenon, <1>0, <2>3, <2>4 DEF Sound, Terminal
  <2>6. Extends(n, m) /\ d # NoDigest
      BY Zenon, <2>3, <2>4, DigestAssumption DEF Extends, Moves
  <2>7. At(m, "lock", saved, completion, ledger)
      BY Zenon, <2>4, <2>6 DEF At, PendingCalls, WorkingCalls, CapturingCalls, PatchCalls, PublishingCalls, CleanupCalls
  <2>8. Behind(obj, m, "lock") /\ (fresh[w] => Current(obj, m, "lock"))
      BY Zenon, <1>0, <2>3, <2>4, <2>6 DEF View, Behind, Current, Writing, Terminal
  <2>9. View(obj, m, fresh[w], "lock", saved', completion', ledger', pr', reviews')
      BY Zenon, <2>1, <2>5, <2>7, <2>8 DEF View, stores
  <2> QED BY Zenon, <2>1, <2>2, <2>9, EditKeeps, StoresUntouched DEF ViewsAndObject, m
<1>3. CASE ResolveRejected(w)
  <2>1. UNCHANGED stores /\ UNCHANGED obj /\ pc[w] = "resolve"
        /\ Edit(w, [n EXCEPT !.phase = "Failed"], "update")
      BY Zenon, <1>3 DEF ResolveRejected, world, effect, evidence, stores, n
  <2>2. n.phase \in Active \cup {""}
      BY Zenon, <1>0, <2>1 DEF At, Active
  <2> DEFINE m == [n EXCEPT !.phase = "Failed"]
  <2>3. Sound(m, completion, ledger, pr, reviews) /\ Extends(n, m) /\ m.digest = n.digest /\ m.patch = n.patch
      BY Zenon, <1>0, <2>2, FailedIsSound
  <2>4. Edit(w, m, "update") /\ pc[w] \notin Writing
      BY Zenon, <2>1 DEF Writing
  <2> HIDE DEF m
  <2> QED BY Zenon, <2>1, <2>3, <2>4, WriteKeeps DEF n
<1>4. CASE LockResolution(w)
  <2>1. UNCHANGED stores /\ pc[w] = "lock" /\ Update(w, "save")
      BY Zenon, <1>4 DEF LockResolution, world, effect, evidence, stores
  <2>2. View(n, n, TRUE, "save", saved, completion, ledger, pr, reviews)
      BY Zenon, <1>0, <2>1 DEF View, At, Behind, Current, Writing, PendingCalls, WorkingCalls,
                        CapturingCalls, PatchCalls, PublishingCalls, CleanupCalls
  <2>3. pc[w] \in Writing
      BY Zenon, <2>1 DEF Writing
  <2> QED BY Zenon, <2>1, <2>2, <2>3, UpdateKeeps DEF n
<1>5. CASE SaveResolvedSpec(w)
  <2>1. /\ UNCHANGED <<obj, completion, ledger, pr, reviews>> /\ saved' = saved \cup {n.digest}
        /\ pc[w] = "save" /\ Edit(w, [n EXCEPT !.ref = TRUE], "update")
      BY Zenon, <1>5 DEF SaveResolvedSpec, effect, evidence, n
  <2>2. Undisturbed(w)
      BY Zenon, <1>0, <2>1 DEF ViewsAndObject, Views, View, At, Undisturbed, WorldGrows
  <2> DEFINE m == [n EXCEPT !.ref = TRUE]
  <2>3. Sound(m, completion, ledger, pr, reviews) /\ Extends(n, m) /\ m.digest = n.digest /\ m.patch = n.patch
      BY Zenon, <1>0, RecordIsSound
  <2> HIDE DEF m
  <2>4. View(obj, m, fresh[w], "update", saved, completion, ledger, pr, reviews)
      BY Zenon, <1>0, <2>1, <2>3, ViewOfWrite DEF Writing
  <2>5. View(obj, m, fresh[w], "update", saved', completion', ledger', pr', reviews')
      BY Zenon, <2>1, <2>4 DEF View, At
  <2> QED BY Zenon, <2>1, <2>2, <2>5, EditKeeps DEF m
<1>6. CASE RecoverResolvedSpecRef(w)
  <2>1. /\ UNCHANGED stores /\ UNCHANGED obj /\ pc[w] = "recover"
        /\ Edit(w, [n EXCEPT !.ref = TRUE], "update") \/ Requeue(w)
      BY Zenon, <1>6 DEF RecoverResolvedSpecRef, world, effect, evidence, stores, n
  <2> DEFINE m == [n EXCEPT !.ref = TRUE]
  <2>2. Sound(m, completion, ledger, pr, reviews) /\ Extends(n, m) /\ m.digest = n.digest /\ m.patch = n.patch
      BY Zenon, <1>0, RecordIsSound
  <2>3. (Edit(w, m, "update") \/ Requeue(w)) /\ pc[w] \notin Writing
      BY Zenon, <2>1 DEF Writing
  <2> HIDE DEF m
  <2> QED BY Zenon, <2>1, <2>2, <2>3, WriteKeeps, QuietKeeps DEF n
<1>7. CASE UpdateStatus(w)
  <2>1. UNCHANGED stores /\ pc[w] = "update" /\ Update(w, "idle")
      BY Zenon, <1>7 DEF UpdateStatus, world, effect, evidence, stores
  <2>2. pc[w] \in Writing
      BY Zenon, <2>1 DEF Writing
  <2> QED BY Zenon, <2>1, <2>2, UpdateKeeps
<1> QED BY Zenon, <1>1, <1>2, <1>3, <1>4, <1>5, <1>6, <1>7

-----------------------------------------------------------------------------
(* The phases: what each of them writes is sound and follows the table *)

LEMMA Table ==
    /\ "Cloning" \in P!Successors("Pending") /\ "Working" \in P!Successors("Cloning")
    /\ {"Capturing", "Failed", "Cancelled", "UnknownEffect"} \subseteq P!Successors("Working")
    /\ "Verifying" \in P!Successors("Capturing") /\ "Gated" \in P!Successors("Verifying")
    /\ {"Publishing", "Rejected", "Succeeded"} \subseteq P!Successors("Gated")
    /\ {"Succeeded", "Rejected", "Failed", "UnknownEffect"} \subseteq P!Successors("Publishing")
BY Zenon DEF P!Successors, P!Transitions, P!Pipeline, P!Active

LEMMA AdvanceExtends ==
    ASSUME NEW n, NEW m, m.phase \in P!Successors(n.phase), n.digest # NoDigest,
           m.digest = n.digest, m.patch = n.patch, m.gate = n.gate \/ n.gate = "none",
           m.there = n.there, m.cancel = n.cancel, m.deleting = n.deleting
    PROVE  Extends(n, m)
BY Zenon DEF Extends, Moves

LEMMA CloningIsSound ==
    ASSUME NEW n \in RunObjects, NEW k, NEW l, NEW p, NEW q, Sound(n, k, l, p, q), NEW u,
           n.phase = "Pending", n.digest # NoDigest
    PROVE  LET m == [n EXCEPT !.work = u, !.phase = "Cloning"]
           IN  Sound(m, k, l, p, q) /\ Extends(n, m) /\ m.digest = n.digest /\ m.patch = n.patch
<1> DEFINE m == [n EXCEPT !.work = u, !.phase = "Cloning"]
<1>1. /\ m.phase = "Cloning" /\ m.gate = n.gate /\ m.events = n.events
      /\ m.effect = n.effect /\ m.findings = n.findings
      /\ m.digest = n.digest /\ m.patch = n.patch
      /\ m.there = n.there /\ m.cancel = n.cancel /\ m.deleting = n.deleting
    BY Zenon DEF RunObjects
<1>2. m.phase \in P!Successors(n.phase)
    BY Zenon, <1>1, Table
<1> HIDE DEF m
<1>3. Sound(m, k, l, p, q)
    BY Zenon, <1>1 DEF Sound, Allowed, Terminal
<1>4. Extends(n, m)
    BY Zenon, <1>1, <1>2, AdvanceExtends
<1> QED BY Zenon, <1>1, <1>3, <1>4 DEF m

LEMMA WorkingIsSound ==
    ASSUME NEW n \in RunObjects, NEW k, NEW l, NEW p, NEW q, Sound(n, k, l, p, q),
           n.phase = "Cloning", n.digest # NoDigest
    PROVE  LET m == [n EXCEPT !.phase = "Working"]
           IN  Sound(m, k, l, p, q) /\ Extends(n, m) /\ m.digest = n.digest /\ m.patch = n.patch
<1> DEFINE m == [n EXCEPT !.phase = "Working"]
<1>1. /\ m.phase = "Working" /\ m.gate = n.gate /\ m.events = n.events
      /\ m.effect = n.effect /\ m.findings = n.findings
      /\ m.digest = n.digest /\ m.patch = n.patch
      /\ m.there = n.there /\ m.cancel = n.cancel /\ m.deleting = n.deleting
    BY Zenon DEF RunObjects
<1>2. m.phase \in P!Successors(n.phase)
    BY Zenon, <1>1, Table
<1> HIDE DEF m
<1>3. Sound(m, k, l, p, q)
    BY Zenon, <1>1 DEF Sound, Allowed, Terminal
<1>4. Extends(n, m)
    BY Zenon, <1>1, <1>2, AdvanceExtends
<1> QED BY Zenon, <1>1, <1>3, <1>4 DEF m

LEMMA CompletionIsSound ==
    ASSUME NEW n \in RunObjects, NEW k \in {"Completed", "Failed", "Cancelled", "UnknownEffect"},
           NEW l, NEW p, NEW q, Sound(n, k, l, p, q), n.phase = "Working", n.digest # NoDigest
    PROVE  LET m == [n EXCEPT !.events = TRUE, !.phase = PhaseOf[k],
                              !.effect = IF k = "UnknownEffect" THEN "unknown" ELSE @]
           IN  Sound(m, k, l, p, q) /\ Extends(n, m) /\ m.digest = n.digest /\ m.patch = n.patch
<1> DEFINE m == [n EXCEPT !.events = TRUE, !.phase = PhaseOf[k],
                            !.effect = IF k = "UnknownEffect" THEN "unknown" ELSE @]
<1>1. /\ m.phase = PhaseOf[k] /\ m.gate = n.gate /\ m.events = TRUE
      /\ m.effect = (IF k = "UnknownEffect" THEN "unknown" ELSE n.effect)
      /\ m.findings = n.findings
      /\ m.digest = n.digest /\ m.patch = n.patch
      /\ m.there = n.there /\ m.cancel = n.cancel /\ m.deleting = n.deleting
    BY Zenon DEF RunObjects, PhaseOf
<1>2. m.phase \in P!Successors(n.phase)
    BY <1>1, Table DEF PhaseOf
<1>a. /\ m.phase \in {"Capturing", "Failed", "Cancelled", "UnknownEffect"}
      /\ m.phase = "Capturing" => k = "Completed"
    BY <1>1 DEF PhaseOf
<1> HIDE DEF m
<1>3. Sound(m, k, l, p, q)
    BY Zenon, <1>1, <1>a DEF Sound, Allowed, Terminal
<1>4. Extends(n, m)
    BY Zenon, <1>1, <1>2, AdvanceExtends
<1> QED BY Zenon, <1>1, <1>3, <1>4 DEF m

LEMMA VerifyingIsSound ==
    ASSUME NEW n \in RunObjects, NEW k, NEW l, NEW p, NEW q, Sound(n, k, l, p, q),
           n.phase = "Capturing", n.digest # NoDigest, n.patch
    PROVE  LET m == [n EXCEPT !.phase = "Verifying"]
           IN  Sound(m, k, l, p, q) /\ Extends(n, m) /\ m.digest = n.digest /\ m.patch = n.patch
<1> DEFINE m == [n EXCEPT !.phase = "Verifying"]
<1>1. /\ m.phase = "Verifying" /\ m.gate = n.gate /\ m.events = n.events
      /\ m.effect = n.effect /\ m.findings = n.findings
      /\ m.digest = n.digest /\ m.patch = n.patch
      /\ m.there = n.there /\ m.cancel = n.cancel /\ m.deleting = n.deleting
    BY Zenon DEF RunObjects
<1>2. m.phase \in P!Successors(n.phase)
    BY Zenon, <1>1, Table
<1> HIDE DEF m
<1>3. Sound(m, k, l, p, q)
    BY Zenon, <1>1 DEF Sound, Allowed, Terminal
<1>4. Extends(n, m)
    BY Zenon, <1>1, <1>2, AdvanceExtends
<1> QED BY Zenon, <1>1, <1>3, <1>4 DEF m

LEMMA GatedIsSound ==
    ASSUME NEW n \in RunObjects, NEW k, NEW l, NEW p, NEW q, Sound(n, k, l, p, q),
           n.phase = "Verifying", n.digest # NoDigest, NEW g \in {"Accepted", "Rejected"}
    PROVE  LET m == [n EXCEPT !.verify = TRUE, !.gate = g, !.phase = "Gated"]
           IN  Sound(m, k, l, p, q) /\ Extends(n, m) /\ m.digest = n.digest /\ m.patch = n.patch
<1> DEFINE m == [n EXCEPT !.verify = TRUE, !.gate = g, !.phase = "Gated"]
<1>1. /\ m.phase = "Gated" /\ m.gate = g /\ m.events = n.events
      /\ m.effect = n.effect /\ m.findings = n.findings
      /\ m.digest = n.digest /\ m.patch = n.patch
      /\ m.there = n.there /\ m.cancel = n.cancel /\ m.deleting = n.deleting
    BY Zenon DEF RunObjects
<1>2. m.phase \in P!Successors(n.phase)
    BY Zenon, <1>1, Table
<1> HIDE DEF m
<1>3. Sound(m, k, l, p, q)
    BY Zenon, <1>1 DEF Sound, Allowed, Terminal
<1>4. Extends(n, m)
    BY Zenon, <1>1, <1>2, AdvanceExtends DEF Sound, Terminal
<1> QED BY Zenon, <1>1, <1>3, <1>4 DEF m

LEMMA DecisionIsSound ==
    ASSUME NEW n \in RunObjects, NEW k, NEW l, NEW p, NEW q, Sound(n, k, l, p, q),
           n.phase = "Gated", n.digest # NoDigest
    PROVE  LET x == IF n.gate = "Rejected" /\ n.digest \notin Shadow THEN "Rejected"
                    ELSE IF n.digest \notin PublishPR THEN "Succeeded" ELSE "Publishing"
               m == [n EXCEPT !.phase = x]
           IN  Sound(m, k, l, p, q) /\ Extends(n, m) /\ m.digest = n.digest /\ m.patch = n.patch
<1> DEFINE x == IF n.gate = "Rejected" /\ n.digest \notin Shadow THEN "Rejected"
                  ELSE IF n.digest \notin PublishPR THEN "Succeeded" ELSE "Publishing"
           m == [n EXCEPT !.phase = x]
<1>1. /\ m.phase = x /\ m.gate = n.gate /\ m.events = n.events
      /\ m.effect = n.effect /\ m.findings = n.findings
      /\ m.digest = n.digest /\ m.patch = n.patch
      /\ m.there = n.there /\ m.cancel = n.cancel /\ m.deleting = n.deleting
    BY Zenon DEF RunObjects
<1>2. m.phase \in P!Successors(n.phase)
    BY Zenon, <1>1, Table
<1> HIDE DEF m
<1>a. n.gate \in {"none", "Accepted", "Rejected"}
    BY Zenon DEF RunObjects
<1>3. Sound(m, k, l, p, q)
    BY Zenon, <1>1, <1>a DEF Sound, Allowed, Terminal
<1>4. Extends(n, m)
    BY Zenon, <1>1, <1>2, AdvanceExtends
<1> QED BY Zenon, <1>1, <1>3, <1>4 DEF m

LEMMA PendingKeeps ==
    ASSUME TypeOK, ViewsAndObject, NEW w \in Workers,
           CheckExecution(w) \/ PlanWork(w) \/ Ensure(w) \/ ReadBack(w)
    PROVE  ViewsAndObject'
<1> DEFINE n == run[w]
<1>0. /\ n \in RunObjects
      /\ Sound(n, completion, ledger, pr, reviews) /\ At(n, pc[w], saved, completion, ledger)
    BY Zenon, WorkerFacts DEF View
<1>1. UNCHANGED stores /\ UNCHANGED obj
    BY Zenon DEF CheckExecution, PlanWork, Ensure, ReadBack, world, effect, evidence, stores
<1>2. pc[w] \in PendingCalls /\ pc[w] \notin Writing
    BY Zenon DEF CheckExecution, PlanWork, Ensure, ReadBack, PendingCalls, Writing
<1>3. n.phase = "Pending" /\ n.digest # NoDigest
    BY Zenon, <1>0, <1>2 DEF At
<1>4. ASSUME NEW c \in {"planWork", "ensure", "readBack"}, n.digest \in saved
      PROVE  At(n, c, saved, completion, ledger) /\ c \notin Writing \cup {"idle"}
    BY Zenon, <1>3, <1>4 DEF At, Writing, PendingCalls, WorkingCalls, CapturingCalls, PatchCalls, PublishingCalls,
                      CleanupCalls
<1>5. ASSUME NEW c, Adopt(w, c)
      PROVE  ViewsAndObject'
  <2> DEFINE m == [n EXCEPT !.work = c.uid, !.phase = "Cloning"]
  <2>1. Sound(m, completion, ledger, pr, reviews) /\ Extends(n, m) /\ m.digest = n.digest /\ m.patch = n.patch
      BY Zenon, <1>0, <1>3, CloningIsSound
  <2>2. Edit(w, m, "update") \/ Requeue(w)
      BY Zenon, <1>5 DEF Adopt
  <2> HIDE DEF m
  <2> QED BY Zenon, <1>1, <1>2, <2>1, <2>2, WriteKeeps, QuietKeeps
<1>6. CASE CheckExecution(w)
  <2>1. (n.digest \in saved /\ Continue(w, "planWork")) \/ Requeue(w)
      BY Zenon, <1>6 DEF CheckExecution
  <2> QED BY Zenon, <1>1, <1>2, <1>4, <2>1, ContinueKeeps, QuietKeeps
<1>7. CASE PlanWork(w)
  <2>1. n.digest \in saved /\ GoesOn(w, n, "ensure")
      BY Zenon, <1>0, <1>7 DEF PlanWork, TypeOK, Goto, GoesOn, At, PendingCalls
  <2>2. View(obj, n, fresh[w], "ensure", saved', completion', ledger', pr', reviews')
      BY Zenon, <1>1, <1>2, <1>4, <2>1, WorkerFacts, ViewOfCall DEF stores
  <2> QED BY Zenon, <1>1, <2>1, <2>2, GoesOnKeeps, StoresUntouched DEF ViewsAndObject
<1>8. CASE Ensure(w)
  <2>1. n.digest \in saved
      BY Zenon, <1>0, <1>8 DEF Ensure, At, PendingCalls
  <2>2. Adopt(w, cache[w]) \/ Continue(w, "readBack")
      BY Zenon, <1>8 DEF Ensure
  <2> QED BY Zenon, <1>1, <1>2, <1>4, <1>5, <2>1, <2>2, ContinueKeeps
<1>9. CASE ReadBack(w)
    BY Zenon, <1>1, <1>5, <1>9, QuietKeeps DEF ReadBack
<1> QED BY Zenon, <1>6, <1>7, <1>8, <1>9

LEMMA FailRunKeeps ==
    ASSUME TypeOK, ViewsAndObject, NEW w \in Workers, FailRun(w), UNCHANGED obj, UNCHANGED stores,
           run[w].phase \in Active, pc[w] \notin Writing
    PROVE  ViewsAndObject'
<1> DEFINE n == run[w]
<1>0. /\ n \in RunObjects
      /\ Sound(n, completion, ledger, pr, reviews) /\ At(n, pc[w], saved, completion, ledger)
    BY Zenon, WorkerFacts DEF View
<1> DEFINE m == [n EXCEPT !.phase = "Failed"]
<1>1. Sound(m, completion, ledger, pr, reviews) /\ Extends(n, m) /\ m.digest = n.digest /\ m.patch = n.patch
    BY Zenon, <1>0, FailedIsSound
<1>2. Edit(w, m, "update")
    BY Zenon DEF FailRun
<1> HIDE DEF m
<1> QED BY Zenon, <1>1, <1>2, WriteKeeps

LEMMA WorkingKeeps ==
    ASSUME TypeOK, ViewsAndObject, NEW w \in Workers,
           \/ ObserveClone(w) \/ ProjectContext(w) \/ LoadCompletion(w) \/ ObserveExit(w)
    PROVE  ViewsAndObject'
<1> DEFINE n == run[w]
<1>0. /\ n \in RunObjects
      /\ Sound(n, completion, ledger, pr, reviews) /\ At(n, pc[w], saved, completion, ledger)
    BY Zenon, WorkerFacts DEF View
<1>1. UNCHANGED stores /\ UNCHANGED obj
    BY Zenon DEF ObserveClone, ProjectContext, LoadCompletion, ObserveExit, world, effect, evidence, stores
<1>2. pc[w] \in WorkingCalls \cup {"observeClone"} /\ pc[w] \notin Writing
    BY Zenon DEF ObserveClone, ProjectContext, LoadCompletion, ObserveExit, WorkingCalls, Writing
<1>3. n.phase \in Active /\ n.digest # NoDigest
    BY Zenon, <1>0, <1>2 DEF At, Active
<1>4. CASE ObserveClone(w)
  <2> DEFINE m == [n EXCEPT !.phase = "Working"]
  <2>1. n.phase = "Cloning"
      BY Zenon, <1>0, <1>4 DEF ObserveClone, At
  <2>2. Sound(m, completion, ledger, pr, reviews) /\ Extends(n, m) /\ m.digest = n.digest /\ m.patch = n.patch
      BY Zenon, <1>0, <1>3, <2>1, WorkingIsSound
  <2>3. Edit(w, m, "update") \/ FailRun(w) \/ Requeue(w)
      BY Zenon, <1>4 DEF ObserveClone
  <2> HIDE DEF m
  <2> QED BY Zenon, <1>1, <1>2, <1>3, <2>2, <2>3, WriteKeeps, FailRunKeeps, QuietKeeps
<1>5. ASSUME pc[w] \in WorkingCalls,
             NEW c \in {"loadCompletion", "observeExit", "finalize0", "finalize1", "projectCompletion"},
             c = "projectCompletion" => completion # "none"
      PROVE  At(n, c, saved, completion, ledger) /\ c \notin Writing \cup {"idle"}
    BY Zenon, <1>0, <1>5 DEF At, Writing, PendingCalls, WorkingCalls, CapturingCalls, PatchCalls, PublishingCalls,
                      CleanupCalls
<1>6. CASE ProjectContext(w)
  <2> DEFINE m == [n EXCEPT !.ctx = TRUE]
  <2>1. Sound(m, completion, ledger, pr, reviews) /\ Extends(n, m) /\ m.digest = n.digest /\ m.patch = n.patch
      BY Zenon, <1>0, RecordIsSound
  <2>2. /\ Edit(w, m, "update") \/ Continue(w, "loadCompletion") \/ Requeue(w)
        /\ pc[w] \in WorkingCalls
      BY Zenon, <1>6 DEF ProjectContext, WorkingCalls
  <2> HIDE DEF m
  <2> QED BY Zenon, <1>1, <1>2, <1>5, <2>1, <2>2, WriteKeeps, ContinueKeeps, QuietKeeps
<1>7. CASE LoadCompletion(w)
  <2>1. /\ \/ Continue(w, "observeExit")
           \/ completion # "none" /\ Continue(w, "projectCompletion")
        /\ pc[w] \in WorkingCalls
      BY Zenon, <1>7 DEF LoadCompletion, WorkingCalls
  <2> QED BY Zenon, <1>1, <1>2, <1>5, <2>1, ContinueKeeps
<1>8. CASE ObserveExit(w)
  <2>1. /\ Continue(w, "finalize0") \/ Continue(w, "finalize1") \/ FailRun(w) \/ Requeue(w)
        /\ pc[w] \in WorkingCalls
      BY Zenon, <1>8 DEF ObserveExit, WorkingCalls
  <2> QED BY Zenon, <1>1, <1>2, <1>3, <1>5, <2>1, ContinueKeeps, FailRunKeeps, QuietKeeps
<1> QED BY Zenon, <1>4, <1>6, <1>7, <1>8

LEMMA FinalizeKeeps ==
    ASSUME TypeOK, ViewsAndObject, NEW w \in Workers, FinalizeObservedExit(w),
           completion \in {"none", stream}
    PROVE  ViewsAndObject'
<1> DEFINE n == run[w]
<1>0. /\ n \in RunObjects
      /\ Sound(n, completion, ledger, pr, reviews) /\ At(n, pc[w], saved, completion, ledger)
    BY Zenon, WorkerFacts DEF View
<1>1. UNCHANGED <<obj, saved, ledger, pr, reviews>>
    BY Zenon DEF FinalizeObservedExit, effect
<1>2. pc[w] \in {"finalize0", "finalize1"}
    BY Zenon DEF FinalizeObservedExit
<1>3. n.phase = "Working" /\ n.digest # NoDigest /\ pc[w] \notin Writing
    BY Zenon, <1>0, <1>2 DEF At, WorkingCalls, Writing
<1>4. \/ FailRun(w) /\ UNCHANGED completion
      \/ stream # "none" /\ Edit(w, n, "projectCompletion") /\ completion' = stream
    BY Zenon DEF FinalizeObservedExit, Continue
<1>5. CASE FailRun(w) /\ UNCHANGED completion
    BY Zenon, <1>1, <1>3, <1>5, FailRunKeeps DEF stores, Active
<1>6. CASE stream # "none" /\ Edit(w, n, "projectCompletion") /\ completion' = stream
  <2>a. /\ saved' = saved /\ ledger' = ledger /\ pr' = pr /\ reviews' = reviews
        /\ completion # "none" => completion' = completion
        /\ pc[w] \notin {"mutate", "commitEffect"}
      BY Zenon, <1>1, <1>2, <1>6
  <2>b. View(obj, n, fresh[w], pc[w], saved, completion, ledger, pr, reviews)
      BY Zenon, WorkerFacts
  <2>1. View(obj, n, fresh[w], pc[w], saved', completion', ledger', pr', reviews')
    <3>1. WorldGrows
        BY Zenon, <2>a DEF WorldGrows
    <3> QED BY Zenon, <2>a, <2>b, <3>1, ViewLasts
  <2>2. At(n, "projectCompletion", saved', completion', ledger')
      BY Zenon, <1>3, <1>6 DEF At, PendingCalls, WorkingCalls, CapturingCalls, PatchCalls, PublishingCalls, CleanupCalls
  <2>3. "projectCompletion" \notin Writing \cup {"idle"}
      BY Zenon DEF Writing
  <2>4. View(obj, n, fresh[w], "projectCompletion", saved', completion', ledger', pr', reviews')
      BY Zenon, <1>3, <2>1, <2>2, <2>3, ViewOfCall
  <2>5. Undisturbed(w)
      BY Zenon, <1>1, <1>6 DEF Undisturbed, WorldGrows, ViewsAndObject, Views, View, At
  <2> QED BY Zenon, <1>1, <1>6, <2>4, <2>5, EditKeeps
<1> QED BY Zenon, <1>4, <1>5, <1>6

LEMMA ProjectCompletionKeeps ==
    ASSUME TypeOK, ViewsAndObject, NEW w \in Workers, ProjectCompletion(w)
    PROVE  ViewsAndObject'
<1> DEFINE n == run[w]
<1>0. /\ n \in RunObjects
      /\ Sound(n, completion, ledger, pr, reviews) /\ At(n, pc[w], saved, completion, ledger)
    BY Zenon, WorkerFacts DEF View
<1> DEFINE m == [n EXCEPT !.events = TRUE, !.phase = PhaseOf[completion],
                        !.effect = IF completion = "UnknownEffect" THEN "unknown" ELSE @]
<1>1. UNCHANGED stores /\ UNCHANGED obj /\ Edit(w, m, "update") /\ pc[w] = "projectCompletion"
    BY Zenon DEF ProjectCompletion, world, effect, evidence, stores
<1>2. n.phase = "Working" /\ n.digest # NoDigest /\ completion # "none" /\ pc[w] \notin Writing
    BY Zenon, <1>0, <1>1 DEF At, WorkingCalls, Writing
<1>3. completion \in {"Completed", "Failed", "Cancelled", "UnknownEffect"}
    BY Zenon, <1>2, ReportsAssumption DEF TypeOK
<1>4. Sound(m, completion, ledger, pr, reviews) /\ Extends(n, m) /\ m.digest = n.digest /\ m.patch = n.patch
    BY Zenon, <1>0, <1>2, <1>3, CompletionIsSound
<1> HIDE DEF m
<1> QED BY Zenon, <1>1, <1>2, <1>4, WriteKeeps

LEMMA PatchIsSound ==
    ASSUME NEW o, NEW n \in RunObjects, NEW f, NEW S, NEW k, NEW l, NEW p, NEW q,
           View(o, n, f, "capture", S, k, l, p, q)
    PROVE  View(o, [n EXCEPT !.patch = TRUE], f, "savePatch", S, k, l, p, q)
<1> DEFINE m == [n EXCEPT !.patch = TRUE]
<1>1. /\ m.phase = n.phase /\ m.gate = n.gate /\ m.events = n.events /\ m.effect = n.effect /\ m.findings = n.findings
      /\ m.digest = n.digest /\ m.patch = TRUE
      /\ m.there = n.there /\ m.cancel = n.cancel /\ m.deleting = n.deleting
    BY Zenon DEF RunObjects
<1> HIDE DEF m
<1>2. n.phase = "Capturing" /\ n.digest # NoDigest /\ n.gate = "none"
    BY Zenon DEF View, At, Sound, CapturingCalls, Terminal
<1>3. Sound(m, k, l, p, q)
    BY Zenon, <1>1, <1>2 DEF View, Sound, Allowed, Terminal
<1>4. At(m, "savePatch", S, k, l)
    BY Zenon, <1>1, <1>2 DEF At, PendingCalls, WorkingCalls, CapturingCalls, PatchCalls, PublishingCalls, CleanupCalls
<1>5. Behind(o, m, "savePatch")
    BY Zenon, <1>1, <1>2 DEF View, Behind, Terminal
<1>6. ASSUME f PROVE Current(o, m, "savePatch")
    BY Zenon, <1>1, <1>6 DEF View, Current, Writing, Extends, Moves
<1> QED BY Zenon, <1>3, <1>4, <1>5, <1>6 DEF View, m

LEMMA CapturingKeeps ==
    ASSUME TypeOK, ViewsAndObject, NEW w \in Workers,
           Capture(w) \/ SavePatch(w) \/ ReapCapture(w) \/ ReapWork(w)
    PROVE  ViewsAndObject'
<1> DEFINE n == run[w]
<1>0. /\ n \in RunObjects
      /\ Sound(n, completion, ledger, pr, reviews) /\ At(n, pc[w], saved, completion, ledger)
    BY Zenon, WorkerFacts DEF View
<1>1. UNCHANGED stores
    BY Zenon DEF Capture, SavePatch, ReapCapture, ReapWork, world, effect, evidence, stores
<1>2. n.phase = "Capturing" /\ n.digest # NoDigest
    BY Zenon, <1>0 DEF Capture, SavePatch, ReapCapture, ReapWork, At, CapturingCalls
<1>3. CASE Capture(w)
  <2>1. /\ UNCHANGED obj /\ pc[w] = "capture" /\ pc[w] \notin Writing
        /\ Requeue(w) \/ FailRun(w) \/ Edit(w, [n EXCEPT !.patch = TRUE], "savePatch")
      BY Zenon, <1>3 DEF Capture, TypeOK, Writing
  <2>2. View(obj, [n EXCEPT !.patch = TRUE], fresh[w], "savePatch", saved, completion, ledger, pr, reviews)
      BY Zenon, <1>0, <2>1, WorkerFacts, PatchIsSound
  <2>3. /\ View(obj, [n EXCEPT !.patch = TRUE], fresh[w], "savePatch", saved', completion', ledger', pr', reviews')
        /\ Undisturbed(w)
      BY Zenon, <1>1, <2>2, StoresUntouched DEF stores, ViewsAndObject
  <2>4. ASSUME Edit(w, [n EXCEPT !.patch = TRUE], "savePatch") PROVE ViewsAndObject'
      BY Zenon, <2>1, <2>3, <2>4, EditKeeps
  <2>5. n.phase \in Active
      BY Zenon, <1>2 DEF Active
  <2> QED BY Zenon, <1>1, <2>1, <2>4, <2>5, QuietKeeps, FailRunKeeps
<1>4. CASE SavePatch(w)
  <2>1. pc[w] = "savePatch" /\ pc[w] \in Writing /\ Update(w, "reapCapture")
      BY Zenon, <1>4 DEF SavePatch, Writing
  <2>2. At(n, "reapCapture", saved, completion, ledger)
      BY Zenon, <1>0, <2>1 DEF At, PendingCalls, WorkingCalls, CapturingCalls, PatchCalls, PublishingCalls, CleanupCalls
  <2>3. View(n, n, TRUE, "reapCapture", saved, completion, ledger, pr, reviews)
      BY Zenon, <1>0, <2>2 DEF View, Behind, Current, Writing
  <2> QED BY Zenon, <1>1, <2>1, <2>3, UpdateKeeps
<1>5. CASE ReapCapture(w)
  <2>1. pc[w] = "reapCapture" /\ UNCHANGED obj /\ Continue(w, "reapWork")
      BY Zenon, <1>5 DEF ReapCapture
  <2>2. At(n, "reapWork", saved, completion, ledger)
      BY Zenon, <1>0, <2>1 DEF At, PendingCalls, WorkingCalls, CapturingCalls, PatchCalls, PublishingCalls, CleanupCalls
  <2>3. pc[w] \notin Writing /\ "reapWork" \notin Writing \cup {"idle"}
      BY Zenon, <2>1 DEF Writing
  <2> QED BY Zenon, <1>1, <2>1, <2>2, <2>3, ContinueKeeps
<1>6. CASE ReapWork(w)
  <2> DEFINE m == [n EXCEPT !.phase = "Verifying"]
  <2>1. pc[w] = "reapWork" /\ UNCHANGED obj /\ (Requeue(w) \/ Edit(w, m, "update"))
      BY Zenon, <1>6 DEF ReapWork
  <2>2. n.patch /\ pc[w] \notin Writing
      BY Zenon, <1>0, <2>1 DEF At, CapturingCalls, Writing
  <2>3. Sound(m, completion, ledger, pr, reviews) /\ Extends(n, m) /\ m.digest = n.digest /\ m.patch = n.patch
      BY Zenon, <1>0, <1>2, <2>2, VerifyingIsSound
  <2> HIDE DEF m
  <2> QED BY Zenon, <1>1, <2>1, <2>2, <2>3, QuietKeeps, WriteKeeps
<1> QED BY Zenon, <1>3, <1>4, <1>5, <1>6

LEMMA VerdictKeeps ==
    ASSUME TypeOK, ViewsAndObject, NEW w \in Workers, Verify(w) \/ Gate(w)
    PROVE  ViewsAndObject'
<1> DEFINE n == run[w]
<1>0. /\ n \in RunObjects
      /\ Sound(n, completion, ledger, pr, reviews) /\ At(n, pc[w], saved, completion, ledger)
    BY Zenon, WorkerFacts DEF View
<1>1. UNCHANGED stores /\ UNCHANGED obj
    BY Zenon DEF Verify, Gate, world, effect, evidence, stores
<1>2. pc[w] \in {"verify", "gate"} /\ pc[w] \notin Writing
    BY Zenon DEF Verify, Gate, Writing
<1>3. n.digest # NoDigest
    BY Zenon, <1>0, <1>2 DEF At
<1>4. CASE Verify(w)
  <2> DEFINE r == [n EXCEPT !.verify = TRUE]
             m(g) == [n EXCEPT !.verify = TRUE, !.gate = g, !.phase = "Gated"]
  <2>1. n.phase = "Verifying"
      BY Zenon, <1>0, <1>4 DEF Verify, At
  <2>2. \/ Edit(w, r, "update") \/ Requeue(w)
        \/ verifier \in {"Accepted", "Rejected"} /\ Edit(w, m(verifier), "update")
      BY Zenon, <1>4 DEF Verify, TypeOK
  <2>3. Sound(r, completion, ledger, pr, reviews) /\ Extends(n, r) /\ r.digest = n.digest /\ r.patch = n.patch
      BY Zenon, <1>0, RecordIsSound
  <2>4. ASSUME NEW g \in {"Accepted", "Rejected"}
        PROVE  /\ Sound(m(g), completion, ledger, pr, reviews) /\ Extends(n, m(g))
               /\ m(g).digest = n.digest /\ m(g).patch = n.patch
      BY Zenon, <1>0, <1>3, <2>1, GatedIsSound
  <2> HIDE DEF r, m
  <2>5. CASE Edit(w, r, "update")
      BY Zenon, <1>1, <1>2, <2>3, <2>5, WriteKeeps
  <2>6. CASE verifier \in {"Accepted", "Rejected"} /\ Edit(w, m(verifier), "update")
      BY Zenon, <1>1, <1>2, <2>4, <2>6, WriteKeeps
  <2> QED BY Zenon, <1>1, <2>2, <2>5, <2>6, QuietKeeps
<1>5. CASE Gate(w)
  <2> DEFINE x == IF n.gate = "Rejected" /\ n.digest \notin Shadow THEN "Rejected"
                  ELSE IF n.digest \notin PublishPR THEN "Succeeded" ELSE "Publishing"
             m == [n EXCEPT !.phase = x]
  <2>1. n.phase = "Gated" /\ Edit(w, m, "update")
      BY Zenon, <1>0, <1>5 DEF Gate, At
  <2>2. Sound(m, completion, ledger, pr, reviews) /\ Extends(n, m) /\ m.digest = n.digest /\ m.patch = n.patch
      BY Zenon, <1>0, <1>3, <2>1, DecisionIsSound
  <2> HIDE DEF m
  <2> QED BY Zenon, <1>1, <1>2, <2>1, <2>2, WriteKeeps
<1> QED BY Zenon, <1>4, <1>5

\* A worker that publishes the patch sees its copy the same way whatever becomes of the effect.
LEMMA PublisherView ==
    ASSUME TypeOK, ViewsAndObject, NEW w \in Workers, pc[w] \in PatchCalls,
           UNCHANGED <<saved, completion, reviews>>, ledger \notin {"succeeded", "failed"} \/ UNCHANGED effect
    PROVE  View(obj, run[w], fresh[w], "publish", saved', completion', ledger', pr', reviews')
<1> DEFINE n == run[w]
<1>1. View(obj, n, fresh[w], pc[w], saved, completion, ledger, pr, reviews)
    BY Zenon, WorkerFacts
<1>2. n.digest # NoDigest /\ n.phase = "Publishing" /\ pc[w] \notin Writing /\ n.digest \notin Findings
    BY Zenon, <1>1 DEF View, At, PatchCalls, PublishingCalls, Writing
<1>3. At(n, "publish", saved, completion, ledger) /\ "publish" \notin Writing \cup {"idle"}
    BY Zenon, <1>2 DEF At, Writing, PendingCalls, WorkingCalls, CapturingCalls, PatchCalls, PublishingCalls,
                      CleanupCalls
<1>4. View(obj, n, fresh[w], "publish", saved, completion, ledger, pr, reviews)
    BY Zenon, <1>1, <1>2, <1>3, ViewOfCall
<1>5. /\ saved' = saved /\ completion' = completion /\ reviews' = reviews
      /\ ledger \in {"succeeded", "failed"} => ledger' = ledger /\ pr' = pr
    BY Zenon DEF effect
<1>6. WorldGrows
    BY <1>5 DEF WorldGrows
<1> QED BY Zenon, <1>4, <1>6, ViewLasts

\* Both outputs have their outcome: the patch is skipped for findings alone, and findings
\* are skipped only where the contract asks for none or the patch did not succeed.
LEMMA ProjectKeeps ==
    ASSUME TypeOK, ViewsAndObject, NEW w \in Workers, NEW c, c \notin Writing,
           NEW e \in {"skipped", "succeeded", "failed", "unknown"},
           NEW g \in {"skipped", "succeeded", "failed", "unknown"},
           Project(w, e, g), UNCHANGED obj, Undisturbed(w), run[w].phase = "Publishing",
           run[w].digest # NoDigest, e = "succeeded" => pr' /\ ledger' = "succeeded",
           e = "failed" => ledger' = "failed", g = "succeeded" => reviews' = "posted",
           e = "skipped" => run[w].digest \in Findings,
           g = "skipped" /\ run[w].digest \in Findings \cup Both => e \in {"failed", "unknown"},
           View(obj, run[w], fresh[w], c, saved', completion', ledger', pr', reviews')
    PROVE  ViewsAndObject'
<1> DEFINE n == run[w]
           s == CombinedState(e, g)
           x == CASE s = "succeeded" -> IF n.digest \in Shadow /\ n.gate = "Rejected"
                                        THEN "Rejected" ELSE "Succeeded"
                  [] s = "failed" -> "Failed" [] s = "unknown" -> "UnknownEffect"
           y == IF e = "skipped" THEN "none" ELSE e
           z == FindingsCondition(n.digest, g)
           m == [n EXCEPT !.effect = y, !.findings = z, !.phase = x]
<1>0. n \in RunObjects
    BY Zenon, WorkerFacts
<1>1. Edit(w, m, "update")
    BY Zenon DEF Project
<1>2. Sound(n, completion', ledger', pr', reviews')
    BY Zenon DEF View
<1>3. /\ s \in {"succeeded", "failed", "unknown"}
      /\ s = "succeeded" => e \in {"skipped", "succeeded"} /\ g \in {"skipped", "succeeded"}
    BY Zenon DEF CombinedState
<1>4. /\ z = "true" => g = "succeeded"
      /\ n.digest \in Findings \cup Both /\ g = "succeeded" => z = "true"
    BY Zenon DEF FindingsCondition
<1>b. /\ m.phase = x /\ m.gate = n.gate /\ m.events = n.events /\ m.effect = y /\ m.findings = z
      /\ m.digest = n.digest /\ m.patch = n.patch
      /\ m.there = n.there /\ m.cancel = n.cancel /\ m.deleting = n.deleting
    BY Zenon, <1>0 DEF RunObjects
<1> HIDE DEF m, s, z
<1>5. /\ x \in {"Succeeded", "Rejected", "Failed", "UnknownEffect"}
      /\ x = "Succeeded" => s = "succeeded" /\ ~(n.digest \in Shadow /\ n.gate = "Rejected")
      /\ x = "Rejected" => n.gate = "Rejected"
    BY Zenon, <1>3
<1> HIDE DEF x
<1>c. Extends(n, m)
  <2>1. m.phase \in P!Successors(n.phase)
      BY Zenon, <1>b, <1>5, Table
  <2> QED BY Zenon, <1>b, <2>1, AdvanceExtends
<1>6. /\ y = "succeeded" => pr' /\ ledger' = "succeeded"
      /\ y = "failed" => ledger' = "failed"
      /\ z = "true" => reviews' = "posted"
    BY Zenon, <1>4
<1>7. ASSUME x = "Succeeded"
      PROVE  /\ n.digest \notin Findings => y = "succeeded"
             /\ n.digest \in Findings \cup Both => z = "true"
    BY Zenon, <1>3, <1>4, <1>5, <1>7
<1> HIDE DEF y
<1>d. Sound(m, completion', ledger', pr', reviews')
    BY Zenon, <1>b, <1>2, <1>5, <1>6, <1>7 DEF Sound, Allowed, Terminal
<1>e. View(obj, m, fresh[w], "update", saved', completion', ledger', pr', reviews')
    BY Zenon, <1>b, <1>c, <1>d, ViewOfWrite
<1> QED BY Zenon, <1>1, <1>e, EditKeeps

LEMMA PatchToldKeeps ==
    ASSUME TypeOK, ViewsAndObject, NEW w \in Workers, NEW e \in {"succeeded", "failed", "unknown"},
           PatchTold(w, e), UNCHANGED obj, Undisturbed(w), run[w].phase = "Publishing",
           run[w].digest # NoDigest, e = "succeeded" => pr' /\ ledger' = "succeeded",
           e = "failed" => ledger' = "failed",
           View(obj, run[w], fresh[w], "publish", saved', completion', ledger', pr', reviews')
    PROVE  ViewsAndObject'
<1> DEFINE n == run[w]
<1>1. "publish" \notin Writing /\ "publishFindings" \notin Writing \cup {"idle"}
    BY Zenon DEF Writing
<1>2. n.digest \notin Findings
    BY Zenon DEF View, At, PatchCalls
<1>3. CASE e = "succeeded" /\ n.digest \in Both
  <2>1. Continue(w, "publishFindings")
      BY Zenon, <1>3 DEF PatchTold
  <2>2. At(n, "publishFindings", saved', completion', ledger')
      BY Zenon, <1>3 DEF At, PendingCalls, WorkingCalls, CapturingCalls, PatchCalls, PublishingCalls,
                        CleanupCalls
  <2>3. View(obj, n, fresh[w], "publishFindings", saved', completion', ledger', pr', reviews')
      BY Zenon, <1>1, <2>2, ViewOfCall
  <2> QED BY Zenon, <2>1, <2>3, EditKeeps DEF Continue
<1>4. CASE ~(e = "succeeded" /\ n.digest \in Both)
  <2>1. Project(w, e, "skipped")
      BY Zenon, <1>4 DEF PatchTold
  <2>2. n.digest \in Findings \cup Both => e \in {"failed", "unknown"}
      BY Zenon, <1>2, <1>4
  <2> QED BY Zenon, <1>1, <2>1, <2>2, ProjectKeeps
<1> QED BY Zenon, <1>3, <1>4

LEMMA PublishingKeeps ==
    ASSUME TypeOK, ViewsAndObject, OnePublisher, ledger = "succeeded" => pr, NEW w \in Workers,
           Publish(w) \/ Mutate(w) \/ CommitEffect(w)
    PROVE  ViewsAndObject'
<1> DEFINE n == run[w]
<1>0. /\ n \in RunObjects
      /\ Sound(n, completion, ledger, pr, reviews) /\ At(n, pc[w], saved, completion, ledger)
    BY Zenon, WorkerFacts DEF View
<1>1. UNCHANGED <<obj, saved, completion, reviews>>
    BY Zenon DEF Publish, Mutate, CommitEffect, evidence
<1>2. pc[w] \in PatchCalls /\ pc[w] \in PublishingCalls /\ pc[w] \notin Writing
    BY Zenon DEF Publish, Mutate, CommitEffect, PatchCalls, PublishingCalls, Writing
<1>3. n.digest # NoDigest /\ n.phase = "Publishing" /\ n.digest \notin Findings
    BY Zenon, <1>0, <1>2 DEF At
<1>4. pc[w] \in {"mutate", "commitEffect"} => ledger = "claimed"
    BY Zenon, <1>0 DEF At
<1>5. \A v \in Workers : pc[v] \in {"mutate", "commitEffect"} => ledger = "claimed"
    BY Zenon DEF ViewsAndObject, Views, View, At
<1>6. ASSUME NEW c \in {"mutate", "commitEffect"}, Continue(w, c), ledger' = "claimed",
             ledger \in {"none", "claimed"}
      PROVE  ViewsAndObject'
  <2>1. View(obj, n, fresh[w], "publish", saved', completion', ledger', pr', reviews')
      BY Zenon, <1>1, <1>2, <1>6, PublisherView
  <2>2. At(n, c, saved', completion', ledger') /\ c \notin Writing \cup {"idle"}
      BY Zenon, <1>3, <1>6 DEF At, Writing, PendingCalls, WorkingCalls, CapturingCalls, PatchCalls, PublishingCalls,
                        CleanupCalls
  <2>a. "publish" \notin Writing
      BY Zenon DEF Writing
  <2>3. View(obj, n, fresh[w], c, saved', completion', ledger', pr', reviews')
      BY Zenon, <2>1, <2>2, <2>a, ViewOfCall
  <2>4. Undisturbed(w)
      BY Zenon, <1>1, <1>6 DEF Undisturbed, WorldGrows
  <2> QED BY Zenon, <1>1, <1>6, <2>3, <2>4, EditKeeps DEF Continue
<1>7. CASE Publish(w)
  <2>1. \/ ledger = "none" /\ ledger' = "claimed" /\ Continue(w, "mutate")
        \/ UNCHANGED effect /\ ledger = "claimed" /\ PatchTold(w, "unknown")
        \/ /\ UNCHANGED effect /\ ledger \in {"succeeded", "failed", "unknown"}
           /\ PatchTold(w, ledger)
      BY Zenon, <1>7 DEF Publish, TypeOK, effect
  <2>2. ASSUME UNCHANGED effect
        PROVE  /\ Undisturbed(w)
               /\ View(obj, n, fresh[w], "publish", saved', completion', ledger', pr', reviews')
      BY Zenon, <1>1, <1>2, <1>5, <2>2, PublisherView DEF Undisturbed, WorldGrows, effect
  <2>3. CASE UNCHANGED effect /\ ledger = "claimed" /\ PatchTold(w, "unknown")
      BY Zenon, <1>1, <1>3, <2>2, <2>3, PatchToldKeeps
  <2>4. CASE UNCHANGED effect /\ ledger \in {"succeeded", "failed", "unknown"} /\ PatchTold(w, ledger)
      BY Zenon, <1>1, <1>3, <2>2, <2>4, PatchToldKeeps DEF effect
  <2> QED BY Zenon, <1>6, <2>1, <2>3, <2>4
<1>8. CASE Mutate(w)
  <2>1. ledger = "claimed" /\ ledger' = "claimed" /\ Continue(w, "commitEffect")
      BY Zenon, <1>4, <1>8 DEF Mutate
  <2> QED BY Zenon, <1>6, <2>1
<1>9. CASE CommitEffect(w)
  <2>1. PICK e \in {IF pr THEN "succeeded" ELSE "failed", "unknown"} : ledger' = e /\ PatchTold(w, e)
      BY Zenon, <1>9 DEF CommitEffect
  <2>2. /\ pc[w] = "commitEffect" /\ ledger = "claimed" /\ UNCHANGED pr
        /\ e \in {"succeeded", "failed", "unknown"} /\ (e = "succeeded" => pr')
      BY Zenon, <1>4, <1>9, <2>1 DEF CommitEffect
  <2>3. View(obj, n, fresh[w], "publish", saved', completion', ledger', pr', reviews')
      BY Zenon, <1>1, <1>2, <2>2, PublisherView
  <2>4. Undisturbed(w)
      BY Zenon, <1>1, <2>2 DEF Undisturbed, WorldGrows, OnePublisher
  <2> QED BY Zenon, <1>1, <1>3, <2>1, <2>2, <2>3, <2>4, PatchToldKeeps
<1> QED BY Zenon, <1>7, <1>8, <1>9

LEMMA FindingsKeep ==
    ASSUME TypeOK, ViewsAndObject, ledger = "succeeded" => pr, NEW w \in Workers, PublishFindings(w)
    PROVE  ViewsAndObject'
<1> DEFINE n == run[w]
           e == IF n.digest \in Findings THEN "skipped" ELSE "succeeded"
<1>1. /\ UNCHANGED <<obj, saved, completion, ledger, pr>> /\ pc[w] = "publishFindings"
      /\ reviews = "posted" => reviews' = "posted"
    BY Zenon DEF PublishFindings, evidence
<1>2. PICK g \in {"succeeded", "failed", "unknown"} :
        (g = "succeeded" => reviews' = "posted") /\ Project(w, e, g)
    BY Zenon DEF PublishFindings
<1>3. View(obj, n, fresh[w], "publishFindings", saved, completion, ledger, pr, reviews)
    BY Zenon, <1>1, WorkerFacts
<1>4. View(obj, n, fresh[w], "publishFindings", saved', completion', ledger', pr', reviews')
  <2>1. WorldGrows
      BY Zenon, <1>1 DEF WorldGrows
  <2> QED BY Zenon, <1>3, <2>1, ViewLasts
<1>5. /\ n.digest # NoDigest /\ n.phase = "Publishing" /\ "publishFindings" \notin Writing
      /\ n.digest \in Findings \/ ledger = "succeeded"
    BY Zenon, <1>3 DEF View, At, PublishingCalls, Writing
<1>6. /\ e \in {"skipped", "succeeded"} /\ (e = "skipped" => n.digest \in Findings)
      /\ e = "succeeded" => pr' /\ ledger' = "succeeded"
    BY Zenon, <1>1, <1>5
<1>7. \A v \in Workers : pc[v] \in {"mutate", "commitEffect"} => ledger = "claimed"
    BY Zenon DEF ViewsAndObject, Views, View, At
<1>8. Undisturbed(w)
    BY Zenon, <1>1, <1>7 DEF Undisturbed, WorldGrows
<1> HIDE DEF e
<1> QED BY Zenon, <1>1, <1>2, <1>4, <1>5, <1>6, <1>8, ProjectKeeps

LEMMA CleanupKeeps ==
    ASSUME TypeOK, ViewsAndObject, NEW w \in Workers,
           \/ CleanSecrets(w) \/ CleanWork(w) \/ CleanVerify(w) \/ CleanCapture(w)
           \/ CleanupFails(w) \/ RemoveFinalizer(w) \/ EndCleanup(w) \/ Abort(w) \/ CleanupCallFails(w)
    PROVE  ViewsAndObject'
<1> DEFINE n == run[w]
<1>0. /\ n \in RunObjects
      /\ Sound(n, completion, ledger, pr, reviews) /\ At(n, pc[w], saved, completion, ledger)
    BY Zenon, WorkerFacts DEF View
<1>1. UNCHANGED stores
    BY Zenon DEF CleanSecrets, CleanWork, CleanVerify, CleanCapture, CleanupFails, RemoveFinalizer,
           EndCleanup, Abort, CleanupCallFails, world, effect, evidence, stores
<1>2. CASE \/ CleanSecrets(w) \/ CleanWork(w) \/ CleanVerify(w) \/ CleanCapture(w)
           \/ CleanupCallFails(w)
  <2>1. UNCHANGED obj
      BY Zenon, <1>2 DEF CleanSecrets, CleanWork, CleanVerify, CleanCapture, CleanupCallFails
  <2>2. PICK c \in CleanupCalls, bad \in BOOLEAN : Step(w, c, bad)
    <3>1. Step(w, "cleanWork", FALSE) \/ Step(w, "cleanWork", TRUE)
          \/ Step(w, "cleanVerify", FALSE) \/ Step(w, "cleanCapture", FALSE)
          \/ Step(w, "cleanCapture", TRUE) \/ Step(w, "endCleanup", FALSE)
          \/ Step(w, "endCleanup", TRUE) \/ Step(w, "endCleanup", run[w].digest # NoDigest)
        BY Zenon, <1>2 DEF CleanSecrets, CleanWork, CleanVerify, CleanCapture, CleanupCallFails
    <3>2. (run[w].digest # NoDigest) \in BOOLEAN
        BY Zenon
    <3>3. {"cleanWork", "cleanVerify", "cleanCapture", "endCleanup"} \subseteq CleanupCalls
        BY Zenon DEF CleanupCalls
    <3> QED BY Zenon, <3>1, <3>2, <3>3
  <2>3. pc[w] \in CleanupCalls
      BY Zenon, <1>2 DEF CleanSecrets, CleanWork, CleanVerify, CleanCapture, CleanupCallFails, CleanupCalls
  <2> QED BY Zenon, <1>1, <2>1, <2>2, <2>3, StepKeeps
<1>3. CASE CleanupFails(w) \/ Abort(w)
    BY Zenon, <1>1, <1>3, QuietKeeps DEF CleanupFails, Abort
<1>4. CASE RemoveFinalizer(w)
  <2> DEFINE m == [obj EXCEPT !.finalizer = FALSE, !.there = FALSE]
  <2>1. Touch(m) /\ Return(w)
      BY Zenon, <1>4 DEF RemoveFinalizer
  <2>2. Grows(obj, m) /\ Sound(m, completion, ledger, pr, reviews)
      BY Zenon, TouchedIsSound DEF ViewsAndObject, TypeOK
  <2> HIDE DEF m
  <2> QED BY Zenon, <1>1, <2>1, <2>2, TouchKeeps
<1>5. CASE EndCleanup(w)
  <2> DEFINE m == [n EXCEPT !.phase = "Cancelled"]
  <2>1. /\ UNCHANGED obj /\ pc[w] \notin Writing
        /\ \/ n.phase \notin Terminal /\ Edit(w, m, "update")
           \/ Edit(w, n, "update") \/ Done(w)
      BY Zenon, <1>5 DEF EndCleanup, Continue, Writing
  <2>2. ASSUME n.phase \notin Terminal
        PROVE  /\ Sound(m, completion, ledger, pr, reviews) /\ Extends(n, m)
               /\ m.digest = n.digest /\ m.patch = n.patch
    <3>1. n.phase \in Active \cup {""}
        BY Zenon, <1>0, <2>2 DEF RunObjects
    <3> QED BY Zenon, <1>0, <3>1, FailedIsSound
  <2>3. Extends(n, n)
      BY Zenon DEF Extends, Moves
  <2> HIDE DEF m
  <2>4. CASE n.phase \notin Terminal /\ Edit(w, m, "update")
      BY Zenon, <1>1, <2>1, <2>2, <2>4, WriteKeeps
  <2>5. CASE Edit(w, n, "update")
      BY Zenon, <1>0, <1>1, <2>1, <2>3, <2>5, WriteKeeps
  <2> QED BY Zenon, <1>1, <2>1, <2>4, <2>5, QuietKeeps
<1> QED BY Zenon, <1>2, <1>3, <1>4, <1>5

LEMMA OutsideKeeps ==
    ASSUME TypeOK, ViewsAndObject, Outside \/ \E w \in Workers : InformerSync(w)
    PROVE  ViewsAndObject'
<1>1. UNCHANGED stores
    BY Zenon DEF Outside, InformerSync, LoseChild, RequestCancel, RequestDelete, Tick, ChildStarts, ChildEnds,
           ChildMoves, PublishContextArtifact, EmitTerminal, CaptureEnds, VerifyEnds, GarbageCollect,
           world, effect, evidence, stores
<1>2. CASE UNCHANGED <<obj, run, fresh, pc>>
    BY Zenon, <1>1, <1>2 DEF ViewsAndObject, Views, stores
<1>3. CASE RequestCancel
  <2> DEFINE m == [obj EXCEPT !.cancel = TRUE]
  <2>1. Touch(m) /\ UNCHANGED <<run, pc>>
      BY Zenon, <1>3 DEF RequestCancel
  <2>2. Grows(obj, m) /\ Sound(m, completion, ledger, pr, reviews)
      BY Zenon, TouchedIsSound DEF ViewsAndObject, TypeOK
  <2> HIDE DEF m
  <2> QED BY Zenon, <1>1, <2>1, <2>2, TouchKeeps
<1>4. CASE RequestDelete
  <2>1. /\ UNCHANGED <<run, pc>>
        /\ Touch([obj EXCEPT !.deleting = TRUE]) \/ Touch([obj EXCEPT !.there = FALSE])
      BY Zenon, <1>4 DEF RequestDelete
  <2>2. obj \in RunObjects /\ Sound(obj, completion, ledger, pr, reviews)
      BY Zenon DEF ViewsAndObject, TypeOK
  <2>3. CASE Touch([obj EXCEPT !.deleting = TRUE])
    <3> DEFINE m == [obj EXCEPT !.deleting = TRUE]
    <3>1. Grows(obj, m) /\ Sound(m, completion, ledger, pr, reviews)
        BY Zenon, <2>2, TouchedIsSound
    <3> HIDE DEF m
    <3> QED BY Zenon, <1>1, <2>1, <2>3, <3>1, TouchKeeps DEF m
  <2>4. CASE Touch([obj EXCEPT !.there = FALSE])
    <3> DEFINE m == [obj EXCEPT !.there = FALSE]
    <3>1. Grows(obj, m) /\ Sound(m, completion, ledger, pr, reviews)
        BY Zenon, <2>2, TouchedIsSound
    <3> HIDE DEF m
    <3> QED BY Zenon, <1>1, <2>1, <2>4, <3>1, TouchKeeps DEF m
  <2> QED BY Zenon, <2>1, <2>3, <2>4
<1> QED
  <2>1. ASSUME ~RequestCancel, ~RequestDelete PROVE UNCHANGED <<obj, run, fresh, pc>>
      BY Zenon, <2>1 DEF Outside, InformerSync, LoseChild, Tick, ChildStarts, ChildEnds,
           ChildMoves, PublishContextArtifact, EmitTerminal, CaptureEnds, VerifyEnds, GarbageCollect,
           local
  <2> QED BY Zenon, <1>2, <1>3, <1>4, <2>1
=============================================================================
