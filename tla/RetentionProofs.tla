--------------------------- MODULE RetentionProofs ---------------------------
(***************************************************************************)
(* The retention controllers take only what is due, and the ledger records *)
(* last, for any number of controllers, runs, artifacts, effects, days and *)
(* faults.                                                                 *)
(*                                                                         *)
(* A controller deletes on the strength of listings that are old by then.  *)
(* The argument collects what the cluster never takes back (Grows), shows  *)
(* that every step respects it, and that it keeps alive what a listing or  *)
(* a plan was based on (Listed, Planned).                                  *)
(***************************************************************************)
EXTENDS Retention, TLAPS

\* Nothing but its ledger records is left of run r, and its ledger window is over.
Retired(r) ==
    /\ run[r].phase = "ended"
    /\ run[r].completed + LedgerDays <= clock
    /\ \A k \in Kinds : objects[r][k] = 0
    /\ pvc[r] = "absent"

Expired(r, e) ==
    outcomes[r][e].state = "definite" /\ outcomes[r][e].at + LedgerDays <= clock

\* What is stored was uploaded, and what was fenced is due and its outcome known.
Stored ==
    /\ \A r \in Runs, k \in Kinds : objects[r][k] # 0 => <<r, k>> \in uploaded
    /\ \A r \in Runs, e \in Effects : outcomes[r][e].state = "none" => outcomes[r][e] = NoOutcome
    /\ \A p \in tombs : Retired(p[1]) /\ (outcomes[p[1]][p[2]] = NoOutcome \/ Expired(p[1], p[2]))

\* What the listing of controller c still tells of the cluster.
ListedRun(c, r) ==
    /\ run[r].phase = "ended" /\ inv[c].runs[r].completed = run[r].completed
    /\ pc[c] \in {"objects", "bodies"} /\ inv[c].pvc[r] = "absent" => pvc[r] = "absent"
    /\ pc[c] = "bodies" =>
        /\ \A k \in Kinds :
             IF inv[c].objects[r][k] = 0
             THEN run[r].completed < now[c] => objects[r][k] = 0
             ELSE /\ <<r, k>> \in uploaded
                  /\ objects[r][k] \in {0, inv[c].objects[r][k]}
        /\ \A e \in Effects :
             inv[c].outcomes[r][e].state = "definite"
               => outcomes[r][e] = inv[c].outcomes[r][e] \/ <<r, e>> \in tombs

Listed(c) ==
    /\ now[c] <= clock
    /\ \A r \in Runs : inv[c].runs[r].there => ListedRun(c, r)

\* What a plan of controller c takes is due, whatever happened since it was made.
Planned(c) ==
    /\ \A r \in plan[c].pvcs :
         run[r].phase = "ended" /\ run[r].completed + WorktreeDays <= clock
    /\ \A r \in plan[c].secrets : run[r].phase = "ended"
    /\ \A a \in plan[c].artifacts :
         /\ run[a[1]].phase = "ended" /\ a \in uploaded
         /\ objects[a[1]][a[2]] # 0 => objects[a[1]][a[2]] + ArtifactDays <= clock
    /\ \A p \in plan[c].pairs : Retired(p[1]) /\ (p \in tombs \/ Expired(p[1], p[2]))
    /\ plan[c].hand \subseteq tombs

Inv == TypeOK /\ Stored /\ \A c \in Controllers : Listed(c) /\ Planned(c)

-----------------------------------------------------------------------------
(* Types *)

ClusterTypes ==
    /\ clock \in Days \ {0}
    /\ run \in [Runs -> RunStatus]
    /\ objects \in [Runs -> [Kinds -> Days]]
    /\ uploaded \subseteq Runs \X Kinds
    /\ secrets \subseteq Runs
    /\ pvc \in [Runs -> Claims]
    /\ claims \subseteq Runs \X Effects
    /\ outcomes \in [Runs -> [Effects -> Outcome]]
    /\ tombs \subseteq Runs \X Effects
    /\ faults \in 0 .. MaxFaults

CycleTypes ==
    /\ pc \in [Controllers -> Steps]
    /\ now \in [Controllers -> Days]
    /\ inv \in [Controllers -> Inventory]
    /\ plan \in [Controllers -> Plans]

LEMMA TypeParts == TypeOK <=> ClusterTypes /\ CycleTypes
BY Zenon, Zenon DEF TypeOK, ClusterTypes, CycleTypes

LEMMA Constants ==
    /\ 0 \in Days /\ NoOutcome \in Outcome /\ NewRun \in RunStatus
    /\ EmptyInventory \in Inventory /\ EmptyPlan \in Plans
<1>1. 0 \in Days
    BY BoundAssumption DEF Days
<1>2. NoOutcome \in Outcome
    BY Zenon, <1>1 DEF NoOutcome, Outcome
<1>3. NewRun \in RunStatus /\ [NewRun EXCEPT !.there = FALSE] \in RunStatus
    BY Zenon, <1>1 DEF NewRun, RunStatus
<1>4. EmptyInventory \in Inventory
    BY Zenon, <1>1, <1>2, <1>3 DEF EmptyInventory, Inventory, Claims
<1>5. EmptyPlan \in Plans
    BY Zenon DEF EmptyPlan, Plans
<1> QED BY Zenon, <1>1, <1>2, <1>3, <1>4, <1>5

LEMMA EndCycleTypes ==
    ASSUME CycleTypes, NEW c \in Controllers, EndCycle(c)
    PROVE  CycleTypes'
BY Zenon, Constants DEF CycleTypes, EndCycle, Goto, Steps

\* One field of a listing is replaced by a value of its type.
LEMMA InventoryField ==
    ASSUME NEW i \in Inventory
    PROVE  /\ \A x \in [Runs -> RunStatus] : [i EXCEPT !.runs = x] \in Inventory
           /\ \A x \in SUBSET Runs : [i EXCEPT !.secrets = x] \in Inventory
           /\ \A x \in [Runs -> Claims] : [i EXCEPT !.pvc = x] \in Inventory
           /\ \A x \in [Runs -> [Kinds -> Days]], y \in SUBSET (Runs \X Effects),
                 z \in [Runs -> [Effects -> Outcome]] :
                [i EXCEPT !.objects = x, !.claims = y, !.outcomes = z] \in Inventory
BY Zenon DEF Inventory

LEMMA PlanType ==
    ASSUME NEW i, NEW t
    PROVE  PlanOf(i, t) \in Plans
BY Zenon DEF PlanOf, Plans

LEMMA PlanField ==
    ASSUME NEW q \in Plans
    PROVE  /\ \A r : [q EXCEPT !.pvcs = @ \ {r}] \in Plans
           /\ \A r : [q EXCEPT !.secrets = @ \ {r}] \in Plans
           /\ \A r : [q EXCEPT !.artifacts = @ \ {r}] \in Plans
           /\ \A r : [q EXCEPT !.pairs = @ \ {r}] \in Plans
           /\ \A r \in q.pairs : [q EXCEPT !.pairs = @ \ {r}, !.hand = {r}] \in Plans
           /\ [q EXCEPT !.hand = {}] \in Plans
BY Zenon DEF Plans

LEMMA ListTypes ==
    ASSUME TypeOK, NEW c \in Controllers,
           ListRuns(c) \/ ListSecrets(c) \/ ListPVCs(c) \/ ListObjects(c)
    PROVE  CycleTypes'
<1>0. /\ ClusterTypes /\ CycleTypes /\ inv[c] \in Inventory
      /\ {"secrets", "pvcs", "objects", "bodies"} \subseteq Steps
    BY Zenon, TypeParts DEF CycleTypes, Steps
<1>1. CASE ListRuns(c)
  <2>1. EligibleRuns(now[c]) \in [Runs -> RunStatus]
      BY Zenon, <1>0, Constants DEF EligibleRuns, ClusterTypes, Inventory
  <2>2. CASE EndCycle(c)
      BY Zenon, <1>0, <2>2, EndCycleTypes
  <2>3. CASE ~EndCycle(c)
    <3>1. /\ inv' = [inv EXCEPT ![c] = [inv[c] EXCEPT !.runs = EligibleRuns(now[c])]]
          /\ Goto(c, "secrets") /\ UNCHANGED <<now, plan>>
        BY Zenon, <1>0, <1>1, <2>3 DEF ListRuns, CycleTypes
    <3> QED BY Zenon, <1>0, <2>1, <3>1, InventoryField DEF CycleTypes, Goto
  <2> QED BY Zenon, <2>2, <2>3
<1>2. CASE ListSecrets(c)
  <2>1. {r \in secrets : inv[c].runs[r].there} \in SUBSET Runs
      BY Zenon, <1>0 DEF ClusterTypes
  <2>2. [inv[c] EXCEPT !.secrets = {r \in secrets : inv[c].runs[r].there}] \in Inventory
      BY Zenon, <1>0, <2>1, InventoryField
  <2> QED BY Zenon, <1>0, <1>2, <2>2 DEF ListSecrets, CycleTypes, Goto
<1>3. CASE ListPVCs(c)
  <2>1. Kept(c, pvc, EmptyInventory.pvc) \in [Runs -> Claims]
      BY Zenon, <1>0, Constants DEF ClusterTypes, Kept, Inventory
  <2>2. [inv[c] EXCEPT !.pvc = Kept(c, pvc, EmptyInventory.pvc)] \in Inventory
      BY Zenon, <1>0, <2>1, InventoryField
  <2> QED BY Zenon, <1>0, <1>3, <2>2 DEF ListPVCs, CycleTypes, Goto
<1>4. CASE ListObjects(c)
  <2> DEFINE x == Kept(c, objects, EmptyInventory.objects)
             y == {p \in claims : inv[c].runs[p[1]].there}
             z == Kept(c, outcomes, EmptyInventory.outcomes)
  <2>1. x \in [Runs -> [Kinds -> Days]]
      BY Zenon, <1>0, Constants DEF ClusterTypes, Kept, Inventory
  <2>2. y \in SUBSET (Runs \X Effects)
      BY Zenon, <1>0 DEF ClusterTypes
  <2>3. z \in [Runs -> [Effects -> Outcome]]
      BY Zenon, <1>0, Constants DEF ClusterTypes, Kept, Inventory
  <2>4. /\ inv' = [inv EXCEPT ![c] = [inv[c] EXCEPT !.objects = x, !.claims = y, !.outcomes = z]]
        /\ Goto(c, "bodies") /\ UNCHANGED <<now, plan>>
      BY Zenon, <1>0, <1>4 DEF ListObjects, CycleTypes
  <2> HIDE DEF x, y, z
  <2>5. [inv[c] EXCEPT !.objects = x, !.claims = y, !.outcomes = z] \in Inventory
      BY Zenon, <1>0, <2>1, <2>2, <2>3, InventoryField
  <2> QED BY Zenon, <1>0, <2>4, <2>5 DEF CycleTypes, Goto
<1> QED BY Zenon, <1>1, <1>2, <1>3, <1>4

LEMMA CycleTypesKept ==
    ASSUME TypeOK, NEW c \in Controllers, Cycle(c) \/ Fail(c)
    PROVE  CycleTypes'
<1>0. /\ ClusterTypes /\ CycleTypes /\ plan[c] \in Plans
      /\ {"runs", "apply", "outcome", "claim"} \subseteq Steps
    BY Zenon, TypeParts DEF CycleTypes, Steps
<1>1. CASE RunOnce(c)
    BY Zenon, <1>0, <1>1 DEF RunOnce, CycleTypes, ClusterTypes, Goto
<1>2. CASE ListRuns(c) \/ ListSecrets(c) \/ ListPVCs(c) \/ ListObjects(c)
    BY Zenon, <1>2, ListTypes
<1>3. CASE ReadBodies(c)
  <2>1. CASE EndCycle(c)
      BY Zenon, <1>0, <2>1, EndCycleTypes
  <2>2. CASE ~EndCycle(c)
    <3>1. /\ plan' = [plan EXCEPT ![c] = PlanOf(inv[c], now[c])]
          /\ inv' = [inv EXCEPT ![c] = EmptyInventory]
          /\ Goto(c, "apply") /\ UNCHANGED now
        BY Zenon, <1>3, <2>2 DEF ReadBodies
    <3> QED BY Zenon, <1>0, <3>1, PlanType, Constants DEF CycleTypes, Goto
  <2> QED BY Zenon, <2>1, <2>2
<1>4. CASE Finish(c) \/ Fail(c)
    BY Zenon, <1>0, <1>4, EndCycleTypes DEF Finish, Fail
<1>5. ASSUME DeletePVC(c) \/ DeleteSecret(c) \/ DeleteArtifact(c) \/ EnsureTombstone(c)
             \/ DeleteOutcome(c) \/ DeleteClaim(c)
      PROVE  /\ \E q \in Plans : plan' = [plan EXCEPT ![c] = q]
             /\ \E x \in Steps : Goto(c, x)
             /\ UNCHANGED <<now, inv>>
  <2>a. plan = [plan EXCEPT ![c] = plan[c]] /\ pc = [pc EXCEPT ![c] = pc[c]] /\ pc[c] \in Steps
      BY Zenon, <1>0 DEF CycleTypes
  <2>1. CASE DeletePVC(c)
    <3>1. PICK r \in plan[c].pvcs : plan' = [plan EXCEPT ![c] = [plan[c] EXCEPT !.pvcs = @ \ {r}]]
        BY Zenon, <1>0, <2>1 DEF DeletePVC, CycleTypes
    <3> QED BY Zenon, <1>0, <2>a, <2>1, <3>1, PlanField DEF DeletePVC, Goto
  <2>2. CASE DeleteSecret(c)
    <3>1. PICK r : plan' = [plan EXCEPT ![c] = [plan[c] EXCEPT !.secrets = @ \ {r}]]
        BY Zenon, <1>0, <2>2 DEF DeleteSecret, CycleTypes
    <3> QED BY Zenon, <1>0, <2>a, <2>2, <3>1, PlanField DEF DeleteSecret, Goto
  <2>3. CASE DeleteArtifact(c)
    <3>1. PICK r : plan' = [plan EXCEPT ![c] = [plan[c] EXCEPT !.artifacts = @ \ {r}]]
        BY Zenon, <1>0, <2>3 DEF DeleteArtifact, CycleTypes
    <3> QED BY Zenon, <1>0, <2>a, <2>3, <3>1, PlanField DEF DeleteArtifact, Goto
  <2>4. CASE EnsureTombstone(c)
    <3>1. PICK p \in plan[c].pairs :
            \/ /\ plan' = [plan EXCEPT ![c] = [plan[c] EXCEPT !.pairs = @ \ {p}, !.hand = {p}]]
               /\ Goto(c, "outcome")
            \/ /\ plan' = [plan EXCEPT ![c] = [plan[c] EXCEPT !.pairs = @ \ {p}]]
               /\ UNCHANGED pc
        BY Zenon, <1>0, <2>4 DEF EnsureTombstone, CycleTypes
    <3> QED BY Zenon, <1>0, <2>a, <2>4, <3>1, PlanField DEF EnsureTombstone, Goto
  <2>5. CASE DeleteOutcome(c) \/ DeleteClaim(c)
    <3>1. /\ plan' \in {plan, [plan EXCEPT ![c] = [plan[c] EXCEPT !.hand = {}]]}
          /\ Goto(c, "claim") \/ Goto(c, "apply")
          /\ UNCHANGED <<now, inv>>
        BY Zenon, <1>0, <2>5 DEF DeleteOutcome, DeleteClaim, CycleTypes
    <3> QED BY Zenon, <1>0, <2>a, <3>1, PlanField
  <2> QED BY Zenon, <1>5, <2>1, <2>2, <2>3, <2>4, <2>5
<1>6. CASE DeletePVC(c) \/ DeleteSecret(c) \/ DeleteArtifact(c) \/ EnsureTombstone(c)
           \/ DeleteOutcome(c) \/ DeleteClaim(c)
    BY Zenon, <1>0, <1>5, <1>6 DEF CycleTypes, Goto
<1> QED BY Zenon, <1>1, <1>2, <1>3, <1>4, <1>6 DEF Cycle

ClusterSteps(c) ==
    \/ DeletePVC(c) \/ DeleteSecret(c) \/ DeleteArtifact(c)
    \/ EnsureTombstone(c) \/ DeleteOutcome(c) \/ DeleteClaim(c)

LEMMA QuietCycle ==
    ASSUME NEW c \in Controllers, Cycle(c), ~ClusterSteps(c)
    PROVE  UNCHANGED <<clock, cluster, faults>>
BY Zenon DEF Cycle, ClusterSteps, RunOnce, ListRuns, ListSecrets, ListPVCs, ListObjects, ReadBodies, Finish

LEMMA RunField ==
    ASSUME NEW s \in RunStatus
    PROVE  /\ [s EXCEPT !.digest = TRUE] \in RunStatus
           /\ [s EXCEPT !.there = FALSE] \in RunStatus
           /\ \A p \in {"ended", "unknown"}, d \in Days, R \in SUBSET Kinds,
                 e \in {"none", "settled", "open"} :
                [s EXCEPT !.phase = p, !.completed = d, !.refs = R, !.effect = e] \in RunStatus
BY Zenon DEF RunStatus

LEMMA ClusterTypesKept ==
    ASSUME TypeOK, Next
    PROVE  ClusterTypes'
<1>0. ClusterTypes /\ CycleTypes
    BY Zenon, TypeParts
<1>1. ASSUME NEW c \in Controllers, Cycle(c), ~ClusterSteps(c) PROVE ClusterTypes'
    BY Zenon, <1>0, <1>1, QuietCycle DEF ClusterTypes, cluster
<1>f. ASSUME Faulty PROVE faults' \in 0 .. MaxFaults
    BY <1>0, <1>f, BoundAssumption DEF ClusterTypes, Faulty
<1>2. ASSUME NEW c \in Controllers, Fail(c) PROVE ClusterTypes'
    BY Zenon, <1>0, <1>2, <1>f DEF ClusterTypes, cluster, Fail, Faulty
<1>3. ASSUME NEW c \in Controllers, DeletePVC(c) PROVE ClusterTypes'
    BY Zenon, <1>0, <1>3, <1>f DEF ClusterTypes, DeletePVC, Claims
<1>4. ASSUME NEW c \in Controllers, DeleteSecret(c) PROVE ClusterTypes'
    BY Zenon, <1>0, <1>4, <1>f DEF ClusterTypes, DeleteSecret
<1>5. ASSUME NEW c \in Controllers, DeleteArtifact(c) PROVE ClusterTypes'
  <2>1. PICK a : objects' = objects \/ objects' = [objects EXCEPT ![a[1]][a[2]] = 0]
      BY Zenon, <1>5, Zenon DEF DeleteArtifact
  <2>2. [objects EXCEPT ![a[1]][a[2]] = 0] \in [Runs -> [Kinds -> Days]]
      BY Zenon, <1>0, Constants DEF ClusterTypes
  <2>3. objects' \in [Runs -> [Kinds -> Days]]
      BY Zenon, <1>0, <2>1, <2>2, Zenon DEF ClusterTypes
  <2>4. faults' \in 0 .. MaxFaults
      BY Zenon, <1>0, <1>5, <1>f DEF ClusterTypes, DeleteArtifact
  <2> QED BY Zenon, <1>0, <1>5, <2>3, <2>4 DEF ClusterTypes, DeleteArtifact
<1>6. ASSUME NEW c \in Controllers, EnsureTombstone(c) PROVE ClusterTypes'
  <2>1. plan[c].pairs \subseteq Runs \X Effects
      BY Zenon, <1>0 DEF CycleTypes, Plans
  <2> QED BY Zenon, <1>0, <1>6, <1>f, <2>1 DEF ClusterTypes, EnsureTombstone
<1>7. ASSUME NEW c \in Controllers, DeleteOutcome(c) PROVE ClusterTypes'
  <2>1. \A p : WithoutOutcome(p) \in [Runs -> [Effects -> Outcome]]
      BY Zenon, <1>0, Constants DEF ClusterTypes, WithoutOutcome
  <2>2. outcomes' \in [Runs -> [Effects -> Outcome]] /\ faults' \in 0 .. MaxFaults
      BY Zenon, <1>0, <1>7, <1>f, <2>1 DEF ClusterTypes, DeleteOutcome
  <2> QED BY Zenon, <1>0, <1>7, <2>2 DEF ClusterTypes, DeleteOutcome
<1>8. ASSUME NEW c \in Controllers, DeleteClaim(c) PROVE ClusterTypes'
    BY Zenon, <1>0, <1>8, <1>f DEF ClusterTypes, DeleteClaim
<1>9. ASSUME NEW r \in Runs, Admit(r) PROVE ClusterTypes'
  <2>1. run' = [run EXCEPT ![r] = [run[r] EXCEPT !.digest = TRUE]] /\ run[r] \in RunStatus
      BY Zenon, <1>0, <1>9 DEF ClusterTypes, Admit
  <2>2. run' \in [Runs -> RunStatus]
      BY Zenon, <1>0, <2>1, RunField DEF ClusterTypes
  <2> QED BY Zenon, <1>0, <1>9, <2>2 DEF ClusterTypes, Admit, Claims, controllers
<1>10. ASSUME NEW r \in Runs, NEW k \in Kinds, Store(r, k) PROVE ClusterTypes'
    BY <1>0, <1>10 DEF ClusterTypes, Store, controllers
<1>11. ASSUME NEW r \in Runs, NEW e \in Effects, Claim(r, e) PROVE ClusterTypes'
    BY <1>0, <1>11 DEF ClusterTypes, Claim, controllers
<1>12. ASSUME NEW r \in Runs, NEW e \in Effects, Commit(r, e) PROVE ClusterTypes'
  <2>1. \A s \in {"definite", "unknown"} : [state |-> s, at |-> clock] \in Outcome
      BY Zenon, <1>0 DEF ClusterTypes, Outcome
  <2> QED BY <1>0, <1>12, <2>1 DEF ClusterTypes, Commit, controllers
<1>13. ASSUME NEW r \in Runs, EndRun(r) PROVE ClusterTypes'
  <2>1. PICK p \in {"ended", "unknown"}, R \in SUBSET Kinds, e \in {"none", "settled", "open"} :
          run' = [run EXCEPT ![r].phase = p, ![r].completed = clock, ![r].refs = R, ![r].effect = e]
      BY Zenon, <1>13, Zenon DEF EndRun
  <2>a. run' = [run EXCEPT ![r] = [run[r] EXCEPT !.phase = p, !.completed = clock,
                                                 !.refs = R, !.effect = e]]
      BY Zenon, <1>0, <2>1 DEF ClusterTypes
  <2>2. run[r] \in RunStatus /\ clock \in Days
      BY Zenon, <1>0 DEF ClusterTypes
  <2>3. run' \in [Runs -> RunStatus]
      BY Zenon, <1>0, <2>a, <2>2, RunField DEF ClusterTypes
  <2> QED BY Zenon, <1>0, <1>13, <2>3 DEF ClusterTypes, EndRun, controllers
<1>14. ASSUME NEW r \in Runs, RemoveRun(r) PROVE ClusterTypes'
  <2>1. run' = [run EXCEPT ![r] = [run[r] EXCEPT !.there = FALSE]] /\ run[r] \in RunStatus
      BY Zenon, <1>0, <1>14 DEF ClusterTypes, RemoveRun
  <2>2. run' \in [Runs -> RunStatus]
      BY Zenon, <1>0, <2>1, RunField DEF ClusterTypes
  <2> QED BY Zenon, <1>0, <1>14, <2>2 DEF ClusterTypes, RemoveRun, Claims, controllers
<1>15. ASSUME NEW r \in Runs, ReleasePVC(r) PROVE ClusterTypes'
    BY Zenon, <1>0, <1>15 DEF ClusterTypes, ReleasePVC, Claims, controllers
<1>16. CASE Tick
    BY <1>0, <1>16, BoundAssumption DEF ClusterTypes, Tick, cluster, controllers, Days
<1> QED BY Zenon, <1>1, <1>2, <1>3, <1>4, <1>5, <1>6, <1>7, <1>8, <1>9, <1>10, <1>11, <1>12, <1>13, <1>14,
           <1>15, <1>16 DEF Next, ClusterSteps

\* Every step of every controller, run and clock keeps the types.
LEMMA TypesKept ==
    ASSUME TypeOK, Next
    PROVE  TypeOK'
<1>1. CASE \E c \in Controllers : Cycle(c) \/ Fail(c)
  <2>1. CycleTypes'
      BY Zenon, <1>1, CycleTypesKept
  <2> QED BY <2>1, ClusterTypesKept, TypeParts, PTL
<1>2. CASE ~\E c \in Controllers : Cycle(c) \/ Fail(c)
  <2>1. UNCHANGED controllers
      BY Zenon, <1>2 DEF Next, Admit, EndRun, RemoveRun, ReleasePVC, Store, Claim, Commit, Tick
  <2>2. CycleTypes'
      BY Zenon, <2>1, TypeParts DEF controllers, CycleTypes
  <2> QED BY <2>2, ClusterTypesKept, TypeParts, PTL
<1> QED BY Zenon, <1>1, <1>2

-----------------------------------------------------------------------------
(* What the cluster never takes back *)

Grows ==
    /\ clock <= clock' /\ uploaded \subseteq uploaded' /\ tombs \subseteq tombs'
    /\ \A r \in Runs : run[r].phase = "ended" =>
         /\ run'[r].phase = "ended" /\ run'[r].completed = run[r].completed
         /\ pvc[r] = "absent" => pvc'[r] = "absent"
    /\ \A r \in Runs, k \in Kinds :
         /\ <<r, k>> \in uploaded => objects'[r][k] \in {0, objects[r][k]}
         /\ run[r].phase = "ended" /\ run[r].completed < clock /\ objects[r][k] = 0
              => objects'[r][k] = 0
    /\ \A r \in Runs, e \in Effects :
         /\ outcomes[r][e].state = "definite" /\ <<r, e>> \notin tombs
              => outcomes'[r][e] = outcomes[r][e]
         /\ <<r, e>> \in tombs => outcomes'[r][e] \in {outcomes[r][e], NoOutcome}

LEMMA NestedUpdate ==
    ASSUME NEW S, NEW T, NEW V, NEW f \in [S -> [T -> V]], NEW a \in S, NEW b \in T, NEW v
    PROVE  \A x \in S, y \in T :
             [f EXCEPT ![a][b] = v][x][y] = IF x = a /\ y = b THEN v ELSE f[x][y]
BY Zenon

LEMMA ClusterGrows ==
    ASSUME Inv, Next
    PROVE  Grows
<1>0. ClusterTypes /\ CycleTypes /\ Stored
    BY Zenon, TypeParts DEF Inv
<1>a. clock \in Int /\ clock <= clock
    BY <1>0 DEF ClusterTypes, Days
<1>1. ASSUME UNCHANGED <<run, objects, uploaded, pvc, outcomes>>, clock <= clock', tombs \subseteq tombs'
      PROVE  Grows
    BY Zenon, <1>1 DEF Grows
<1>2. ASSUME NEW c \in Controllers, Cycle(c), ~ClusterSteps(c) PROVE Grows
    BY Zenon, <1>a, <1>1, <1>2, QuietCycle DEF cluster
<1>3. ASSUME NEW c \in Controllers, Fail(c) \/ DeleteSecret(c) \/ EnsureTombstone(c) \/ DeleteClaim(c)
      PROVE  Grows
    BY Zenon, <1>a, <1>1, <1>3 DEF cluster, Fail, DeleteSecret, EnsureTombstone, DeleteClaim
<1>4. ASSUME NEW c \in Controllers, DeletePVC(c) PROVE Grows
  <2>1. \A r \in Runs : pvc[r] = "absent" => pvc'[r] = "absent"
      BY Zenon, <1>0, <1>4 DEF ClusterTypes, DeletePVC
  <2> QED BY Zenon, <1>a, <1>4, <2>1 DEF Grows, DeletePVC
<1>5. ASSUME NEW c \in Controllers, DeleteArtifact(c) PROVE Grows
  <2>1. \A r \in Runs, k \in Kinds : objects'[r][k] \in {0, objects[r][k]}
    <3>1. PICK a \in plan[c].artifacts :
            objects' = objects \/ objects' = [objects EXCEPT ![a[1]][a[2]] = 0]
        BY Zenon, <1>5, Zenon DEF DeleteArtifact
    <3>2. a[1] \in Runs /\ a[2] \in Kinds
        BY <1>0 DEF CycleTypes, Plans
    <3>3. CASE objects' = [objects EXCEPT ![a[1]][a[2]] = 0]
        BY <1>0, <3>2, <3>3, NestedUpdate DEF ClusterTypes
    <3> QED BY Zenon, <3>1, <3>3
  <2> QED BY Zenon, <1>a, <1>5, <2>1 DEF Grows, DeleteArtifact
<1>6. ASSUME NEW c \in Controllers, DeleteOutcome(c) PROVE Grows
  <2>1. PICK p \in plan[c].hand : outcomes' \in {outcomes, WithoutOutcome(p)}
      BY Zenon, <1>6 DEF DeleteOutcome
  <2>2. p \in tombs /\ p \in Runs \X Effects
      BY Zenon, <1>0, <2>1 DEF Inv, Planned, ClusterTypes
  <2>3. \A r \in Runs, e \in Effects :
          /\ outcomes'[r][e] \in {outcomes[r][e], NoOutcome}
          /\ <<r, e>> \notin tombs => outcomes'[r][e] = outcomes[r][e]
    <3>1. CASE outcomes' = WithoutOutcome(p)
      <4>1. \A x \in Runs, y \in Effects :
              outcomes'[x][y] = IF x = p[1] /\ y = p[2] THEN NoOutcome ELSE outcomes[x][y]
          BY <1>0, <2>2, <3>1, NestedUpdate DEF ClusterTypes, WithoutOutcome
      <4> QED BY <2>2, <4>1
    <3> QED BY Zenon, <2>1, <3>1
  <2> QED BY Zenon, <1>a, <1>6, <2>3 DEF Grows, DeleteOutcome
<1>7. ASSUME NEW r \in Runs, Admit(r) PROVE Grows
  <2>1. \A q \in Runs : run[q].phase = "ended" => run'[q] = run[q] /\ pvc'[q] = pvc[q]
      BY Zenon, <1>0, <1>7 DEF ClusterTypes, Admit, Live
  <2> QED BY Zenon, <1>a, <1>7, <2>1 DEF Grows, Admit, controllers
<1>8. ASSUME NEW r \in Runs, NEW k \in Kinds, Store(r, k) PROVE Grows
  <2>1. \A q \in Runs, j \in Kinds : <<q, j>> \in uploaded => objects'[q][j] = objects[q][j]
      BY Zenon, <1>0, <1>8 DEF ClusterTypes, Store
  <2>2. \A q \in Runs, j \in Kinds :
          run[q].phase = "ended" /\ run[q].completed < clock => objects'[q][j] = objects[q][j]
      BY <1>0, <1>a, <1>8 DEF ClusterTypes, Store, Live
  <2> QED BY Zenon, <1>a, <1>8, <2>1, <2>2 DEF Grows, Store, controllers
<1>9. ASSUME NEW r \in Runs, NEW e \in Effects, Claim(r, e) PROVE Grows
    BY Zenon, <1>a, <1>1, <1>9 DEF Claim
<1>10. ASSUME NEW r \in Runs, NEW e \in Effects, Commit(r, e) PROVE Grows
  <2>1. \A q \in Runs, f \in Effects :
          outcomes[q][f].state = "definite" \/ <<q, f>> \in tombs => outcomes'[q][f] = outcomes[q][f]
    <3>1. PICK s : outcomes' = [outcomes EXCEPT ![r][e] = [state |-> s, at |-> clock]]
        BY Zenon, <1>10, Zenon DEF Commit
    <3>2. \A x \in Runs, y \in Effects :
            outcomes'[x][y] = IF x = r /\ y = e THEN [state |-> s, at |-> clock] ELSE outcomes[x][y]
        BY <1>0, <3>1, NestedUpdate DEF ClusterTypes
    <3>3. outcomes[r][e].state = "none" /\ <<r, e>> \notin tombs
        BY <1>10 DEF Commit, NoOutcome
    <3> QED BY Zenon, <3>2, <3>3
  <2> QED BY Zenon, <1>a, <1>10, <2>1 DEF Grows, Commit
<1>11. ASSUME NEW r \in Runs, EndRun(r) PROVE Grows
  <2>1. \A q \in Runs : run[q].phase = "ended" => run'[q] = run[q]
      BY Zenon, <1>0, <1>11 DEF ClusterTypes, EndRun, Live
  <2> QED BY Zenon, <1>a, <1>11, <2>1 DEF Grows, EndRun
<1>12. ASSUME NEW r \in Runs, RemoveRun(r) \/ ReleasePVC(r) PROVE Grows
  <2>1. \A q \in Runs : pvc[q] = "absent" => pvc'[q] = "absent"
      BY Zenon, <1>0, <1>12 DEF ClusterTypes, RemoveRun, ReleasePVC
  <2>2. \A q \in Runs : run'[q].phase = run[q].phase /\ run'[q].completed = run[q].completed
    <3>1. CASE RemoveRun(r)
      <4>1. run' = [run EXCEPT ![r] = [run[r] EXCEPT !.there = FALSE]]
          BY Zenon, <1>0, <3>1 DEF ClusterTypes, RemoveRun
      <4>2. /\ [run[r] EXCEPT !.there = FALSE].phase = run[r].phase
            /\ [run[r] EXCEPT !.there = FALSE].completed = run[r].completed
          BY Zenon, <1>0 DEF ClusterTypes, RunStatus
      <4> QED BY Zenon, <1>0, <4>1, <4>2 DEF ClusterTypes
    <3>2. CASE ReleasePVC(r)
        BY Zenon, <3>2 DEF ReleasePVC
    <3> QED BY Zenon, <1>12, <3>1, <3>2
  <2> QED BY Zenon, <1>a, <1>12, <2>1, <2>2 DEF Grows, RemoveRun, ReleasePVC
<1>13. CASE Tick
    BY <1>a, <1>1, <1>13 DEF Tick, cluster
<1> QED BY Zenon, <1>2, <1>3, <1>4, <1>5, <1>6, <1>7, <1>8, <1>9, <1>10, <1>11, <1>12, <1>13
        DEF Next, ClusterSteps

LEMMA RetiredStable ==
    ASSUME TypeOK, TypeOK', Grows, NEW r \in Runs, Retired(r)
    PROVE  Retired(r)'
<1>1. run[r].completed \in Int /\ clock \in Int /\ clock' \in Int /\ LedgerDays \in Nat \ {0}
    BY WindowAssumption DEF TypeOK, RunStatus, Days
<1>2. run[r].completed < clock /\ run[r].completed + LedgerDays <= clock'
    BY <1>1 DEF Grows, Retired
<1> QED BY Zenon, <1>2 DEF Grows, Retired

\* What a listing tells survives every step that leaves the listing alone.
LEMMA ListedStable ==
    ASSUME TypeOK, TypeOK', Grows, NEW c \in Controllers, Listed(c),
           now'[c] = now[c], inv'[c] = inv[c],
           pc'[c] = pc[c] \/ pc'[c] \in {"apply", "outcome", "claim"}
    PROVE  Listed(c)'
<1>1. now[c] \in Int /\ clock \in Int /\ clock' \in Int
    BY DEF TypeOK, Days
<1>2. (now[c] <= clock)'
    BY <1>1 DEF Listed, Grows
<1>3. ASSUME NEW r \in Runs, inv[c].runs[r].there PROVE ListedRun(c, r)'
  <2>1. ListedRun(c, r)
      BY Zenon, <1>3 DEF Listed
  <2>2. /\ run'[r].phase = "ended" /\ run'[r].completed = run[r].completed
        /\ pvc[r] = "absent" => pvc'[r] = "absent"
        /\ uploaded \subseteq uploaded' /\ tombs \subseteq tombs'
      BY Zenon, <2>1 DEF ListedRun, Grows
  <2>3. ASSUME pc[c] = "bodies", NEW k \in Kinds
        PROVE  IF inv[c].objects[r][k] = 0
               THEN run[r].completed < now[c] => objects'[r][k] = 0
               ELSE /\ <<r, k>> \in uploaded'
                    /\ objects'[r][k] \in {0, inv[c].objects[r][k]}
    <3>1. CASE inv[c].objects[r][k] = 0
      <4>1. run[r].completed \in Int
          BY DEF TypeOK, RunStatus, Days
      <4>2. run[r].completed < now[c] => run[r].completed < clock
          BY <1>1, <4>1 DEF Listed
      <4> QED BY Zenon, <2>1, <2>3, <3>1, <4>2 DEF ListedRun, Grows
    <3>2. CASE inv[c].objects[r][k] # 0
      <4>1. <<r, k>> \in uploaded /\ objects[r][k] \in {0, inv[c].objects[r][k]}
          BY Zenon, <2>1, <2>3, <3>2 DEF ListedRun
      <4> QED BY Zenon, <3>2, <4>1 DEF Grows
    <3> QED BY Zenon, <3>1, <3>2
  <2>4. ASSUME pc[c] = "bodies", NEW e \in Effects, inv[c].outcomes[r][e].state = "definite"
        PROVE  outcomes'[r][e] = inv[c].outcomes[r][e] \/ <<r, e>> \in tombs'
      BY <2>1, <2>4 DEF ListedRun, Grows
  <2> QED BY Zenon, <2>1, <2>2, <2>3, <2>4 DEF ListedRun
<1> QED BY Zenon, <1>2, <1>3 DEF Listed

\* A plan stays due as it shrinks; what is taken in hand has been fenced.
LEMMA PlannedStable ==
    ASSUME TypeOK, TypeOK', Grows, NEW c \in Controllers, Planned(c),
           plan'[c].pvcs \subseteq plan[c].pvcs, plan'[c].secrets \subseteq plan[c].secrets,
           plan'[c].artifacts \subseteq plan[c].artifacts, plan'[c].pairs \subseteq plan[c].pairs,
           plan'[c].hand \subseteq tombs'
    PROVE  Planned(c)'
<1>0. /\ plan[c].pvcs \subseteq Runs /\ plan[c].secrets \subseteq Runs
      /\ plan[c].artifacts \subseteq Runs \X Kinds /\ plan[c].pairs \subseteq Runs \X Effects
    BY Zenon DEF TypeOK, Plans
<1>1. /\ clock \in Int /\ clock' \in Int /\ clock <= clock'
      /\ {WorktreeDays, ArtifactDays, LedgerDays} \subseteq Int
    BY WindowAssumption DEF TypeOK, Days, Grows
<1>2. ASSUME NEW r \in plan[c].pvcs
      PROVE  run'[r].phase = "ended" /\ run'[r].completed + WorktreeDays <= clock'
  <2>1. run[r].completed \in Int
      BY <1>0 DEF TypeOK, RunStatus, Days
  <2> QED BY <1>0, <1>1, <2>1 DEF Planned, Grows
<1>3. ASSUME NEW r \in plan[c].secrets PROVE run'[r].phase = "ended"
    BY Zenon, <1>0 DEF Planned, Grows
<1>4. ASSUME NEW a \in plan[c].artifacts
      PROVE  /\ run'[a[1]].phase = "ended" /\ a \in uploaded'
             /\ objects'[a[1]][a[2]] # 0 => objects'[a[1]][a[2]] + ArtifactDays <= clock'
  <2>1. PICK r \in Runs, k \in Kinds : a = <<r, k>>
      BY <1>0
  <2>2. objects[r][k] \in Int
      BY DEF TypeOK, Days
  <2>3. /\ run[r].phase = "ended" /\ <<r, k>> \in uploaded
        /\ objects[r][k] # 0 => objects[r][k] + ArtifactDays <= clock
      BY Zenon, <2>1 DEF Planned
  <2>4. run'[r].phase = "ended" /\ <<r, k>> \in uploaded' /\ objects'[r][k] \in {0, objects[r][k]}
      BY Zenon, <2>3 DEF Grows
  <2> QED BY <1>1, <2>1, <2>2, <2>3, <2>4
<1>5. ASSUME NEW p \in plan[c].pairs
      PROVE  Retired(p[1])' /\ (p \in tombs' \/ Expired(p[1], p[2])')
  <2>1. PICK r \in Runs, e \in Effects : p = <<r, e>>
      BY <1>0
  <2>2. Retired(r) /\ (<<r, e>> \in tombs \/ Expired(r, e))
      BY Zenon, <2>1 DEF Planned
  <2>3. Retired(r)'
      BY Zenon, <2>2, RetiredStable
  <2>4. outcomes[r][e].at \in Int
      BY DEF TypeOK, Outcome, Days
  <2>5. <<r, e>> \in tombs' \/ Expired(r, e)'
      BY <1>1, <2>2, <2>4 DEF Expired, Grows
  <2> QED BY Zenon, <2>1, <2>3, <2>5
<1> QED BY Zenon, <1>2, <1>3, <1>4, <1>5 DEF Planned

-----------------------------------------------------------------------------
(* The invariant is inductive *)

LEMMA UploadsKept ==
    ASSUME Inv, Next, NEW r \in Runs, NEW k \in Kinds, objects'[r][k] # 0
    PROVE  <<r, k>> \in uploaded'
<1>0. ClusterTypes /\ Grows /\ (objects[r][k] # 0 => <<r, k>> \in uploaded)
    BY Zenon, TypeParts, ClusterGrows DEF Inv, Stored
<1>1. CASE <<r, k>> \in uploaded
    BY Zenon, <1>0, <1>1 DEF Grows
<1>2. CASE <<r, k>> \notin uploaded
  <2>1. objects[r][k] = 0
      BY Zenon, <1>0, <1>2
  <2>2. PICK q \in Runs, j \in Kinds : Store(q, j)
    <3>1. ASSUME NEW c \in Controllers, DeleteArtifact(c) PROVE FALSE
      <4>1. PICK a \in plan[c].artifacts :
              objects' = objects \/ objects' = [objects EXCEPT ![a[1]][a[2]] = 0]
          BY <3>1, Zenon DEF DeleteArtifact
      <4>2. a[1] \in Runs /\ a[2] \in Kinds
          BY DEF Inv, TypeOK, Plans
      <4>3. CASE objects' = [objects EXCEPT ![a[1]][a[2]] = 0]
          BY <1>0, <2>1, <4>2, <4>3, NestedUpdate DEF ClusterTypes
      <4> QED BY Zenon, <2>1, <4>1, <4>3
    <3>2. objects' # objects
        BY Zenon, <2>1
    <3> QED BY Zenon, <3>1, <3>2, QuietCycle DEF Next, ClusterSteps, cluster, Fail, DeletePVC, DeleteSecret,
               EnsureTombstone, DeleteOutcome, DeleteClaim, Admit, EndRun, RemoveRun, ReleasePVC,
               Claim, Commit, Tick
  <2>3. objects' = [objects EXCEPT ![q][j] = clock] /\ uploaded' = uploaded \cup {<<q, j>>}
      BY Zenon, <2>2 DEF Store
  <2>4. r = q /\ k = j
      BY <1>0, <2>1, <2>3, NestedUpdate DEF ClusterTypes
  <2> QED BY Zenon, <2>3, <2>4
<1> QED BY Zenon, <1>1, <1>2

LEMMA OutcomesKept ==
    ASSUME Inv, Next, NEW r \in Runs, NEW e \in Effects, outcomes'[r][e].state = "none"
    PROVE  outcomes'[r][e] = NoOutcome
<1>0. ClusterTypes /\ (outcomes[r][e].state = "none" => outcomes[r][e] = NoOutcome)
    BY Zenon, TypeParts DEF Inv, Stored
<1>1. ASSUME NEW c \in Controllers, DeleteOutcome(c) PROVE outcomes'[r][e] = NoOutcome
  <2>1. PICK p \in plan[c].hand : outcomes' \in {outcomes, WithoutOutcome(p)}
      BY Zenon, <1>1 DEF DeleteOutcome
  <2>2. p[1] \in Runs /\ p[2] \in Effects
      BY DEF Inv, TypeOK, Plans
  <2>3. CASE outcomes' = WithoutOutcome(p)
    <3>1. outcomes'[r][e] = IF r = p[1] /\ e = p[2] THEN NoOutcome ELSE outcomes[r][e]
        BY <1>0, <2>2, <2>3, NestedUpdate DEF ClusterTypes, WithoutOutcome
    <3> QED BY Zenon, <1>0, <3>1
  <2> QED BY Zenon, <1>0, <2>1, <2>3
<1>2. ASSUME NEW q \in Runs, NEW f \in Effects, Commit(q, f) PROVE outcomes'[r][e] = NoOutcome
  <2>1. PICK s \in {"definite", "unknown"} :
          outcomes' = [outcomes EXCEPT ![q][f] = [state |-> s, at |-> clock]]
      BY <1>2, Zenon DEF Commit
  <2>2. outcomes'[r][e] = IF r = q /\ e = f THEN [state |-> s, at |-> clock] ELSE outcomes[r][e]
      BY <1>0, <2>1, NestedUpdate DEF ClusterTypes
  <2>3. [state |-> s, at |-> clock].state # "none"
      BY Zenon, <2>1
  <2> QED BY Zenon, <1>0, <2>2, <2>3
<1>3. CASE UNCHANGED outcomes
    BY Zenon, <1>0, <1>3
<1> QED BY Zenon, <1>1, <1>2, <1>3, QuietCycle DEF Next, ClusterSteps, cluster, Fail, DeletePVC, DeleteSecret,
           DeleteArtifact, EnsureTombstone, DeleteClaim, Admit, EndRun, RemoveRun, ReleasePVC, Store,
           Claim, Tick

LEMMA NewTombs ==
    ASSUME Inv, Next, NEW p \in tombs' \ tombs
    PROVE  \E c \in Controllers : p \in plan[c].pairs /\ UNCHANGED outcomes
<1>1. PICK c \in Controllers : EnsureTombstone(c)
    BY Zenon, QuietCycle DEF Next, ClusterSteps, cluster, Fail, DeletePVC, DeleteSecret, DeleteArtifact,
       DeleteOutcome, DeleteClaim, Admit, EndRun, RemoveRun, ReleasePVC, Store, Claim, Commit, Tick
<1> QED BY Zenon, <1>1 DEF EnsureTombstone

LEMMA StoredKept ==
    ASSUME Inv, Next
    PROVE  Stored'
<1>0. TypeOK /\ TypeOK' /\ Grows
    BY Zenon, TypesKept, ClusterGrows DEF Inv
<1>1. clock \in Int /\ clock' \in Int /\ clock <= clock' /\ LedgerDays \in Int
    BY <1>0, WindowAssumption DEF TypeOK, Days, Grows
<1>2. ASSUME NEW p \in tombs'
      PROVE  Retired(p[1])' /\ (outcomes'[p[1]][p[2]] = NoOutcome \/ Expired(p[1], p[2])')
  <2>1. PICK r \in Runs, e \in Effects : p = <<r, e>>
      BY <1>0 DEF TypeOK
  <2>2. outcomes[r][e].at \in Int
      BY <1>0 DEF TypeOK, Outcome, Days
  <2>3. CASE p \in tombs
    <3>1. Retired(r) /\ (outcomes[r][e] = NoOutcome \/ Expired(r, e))
        BY Zenon, <2>1, <2>3 DEF Inv, Stored
    <3>2. outcomes'[r][e] \in {outcomes[r][e], NoOutcome}
        BY Zenon, <1>0, <2>1, <2>3 DEF Grows
    <3>3. outcomes'[r][e] = NoOutcome \/ Expired(r, e)'
        BY <1>1, <2>2, <3>1, <3>2 DEF Expired
    <3> QED BY Zenon, <1>0, <2>1, <3>1, <3>3, RetiredStable
  <2>4. CASE p \notin tombs
    <3>1. PICK c \in Controllers : p \in plan[c].pairs /\ UNCHANGED outcomes
        BY Zenon, <2>4, NewTombs
    <3>2. Retired(r) /\ Expired(r, e)
        BY Zenon, <2>1, <2>4, <3>1 DEF Inv, Planned
    <3>3. Expired(r, e)'
        BY <1>1, <2>2, <3>1, <3>2 DEF Expired
    <3> QED BY Zenon, <1>0, <2>1, <3>2, <3>3, RetiredStable
  <2> QED BY Zenon, <2>3, <2>4
<1> QED BY Zenon, <1>2, UploadsKept, OutcomesKept DEF Stored

LEMMA OthersKept ==
    ASSUME Inv, Next, NEW c \in Controllers,
           pc'[c] = pc[c], now'[c] = now[c], inv'[c] = inv[c], plan'[c] = plan[c]
    PROVE  Listed(c)' /\ Planned(c)'
<1>1. TypeOK /\ TypeOK' /\ Grows /\ Listed(c) /\ Planned(c)
    BY Zenon, TypesKept, ClusterGrows DEF Inv
<1>2. plan'[c].hand \subseteq tombs'
    BY Zenon, <1>1 DEF Planned, Grows
<1> QED BY Zenon, <1>1, <1>2, ListedStable, PlannedStable

LEMMA EndCycleKeeps ==
    ASSUME Inv, NEW c \in Controllers, EndCycle(c), UNCHANGED <<clock, cluster>>
    PROVE  Listed(c)' /\ Planned(c)'
<1>1. now'[c] = 0 /\ inv'[c] = EmptyInventory /\ plan'[c] = EmptyPlan
    BY Zenon DEF EndCycle, Inv, TypeOK
<1>2. 0 <= clock
    BY DEF Inv, TypeOK, Days
<1>3. \A r \in Runs : ~EmptyInventory.runs[r].there
    BY Zenon DEF EmptyInventory, NewRun
<1>4. Listed(c)'
    BY Zenon, <1>1, <1>2, <1>3 DEF Listed
<1>5. Planned(c)'
    BY <1>1 DEF Planned, EmptyPlan
<1> QED BY Zenon, <1>4, <1>5

LEMMA PlanKeeps ==
    ASSUME Inv, NEW c \in Controllers, plan'[c] = plan[c], UNCHANGED <<clock, cluster>>
    PROVE  Planned(c)'
BY Zenon DEF Inv, Planned, Retired, Expired, cluster

LEMMA RunOnceKeeps ==
    ASSUME Inv, NEW c \in Controllers, RunOnce(c)
    PROVE  Listed(c)' /\ Planned(c)'
<1>1. /\ now'[c] = clock /\ pc'[c] = "runs" /\ inv' = inv /\ plan' = plan
      /\ UNCHANGED <<clock, cluster>>
    BY Zenon DEF RunOnce, Goto, Inv, TypeOK
<1>2. clock <= clock
    BY DEF Inv, TypeOK, Days
<1>3. Listed(c)'
    BY Zenon, <1>1, <1>2 DEF Inv, Listed, ListedRun, cluster
<1> QED BY Zenon, <1>1, <1>3, PlanKeeps

LEMMA ListRunsKeeps ==
    ASSUME Inv, NEW c \in Controllers, ListRuns(c)
    PROVE  Listed(c)' /\ Planned(c)'
<1>0. UNCHANGED <<clock, cluster>>
    BY Zenon DEF ListRuns
<1>1. CASE EndCycle(c)
    BY Zenon, <1>0, <1>1, EndCycleKeeps
<1>2. CASE ~EndCycle(c)
  <2>1. /\ inv'[c].runs = EligibleRuns(now[c]) /\ pc'[c] = "secrets" /\ now' = now /\ plan' = plan
      BY <1>2 DEF ListRuns, Goto, Inv, TypeOK, Inventory
  <2>2. ASSUME NEW r \in Runs, EligibleRuns(now[c])[r].there
        PROVE  run[r].phase = "ended" /\ EligibleRuns(now[c])[r] = run[r]
      BY Zenon, <2>2 DEF EligibleRuns, TerminalEligible, EmptyInventory, NewRun
  <2>3. Listed(c)'
      BY <1>0, <2>1, <2>2 DEF Inv, Listed, ListedRun, cluster
  <2> QED BY Zenon, <1>0, <2>1, <2>3, PlanKeeps
<1> QED BY Zenon, <1>1, <1>2

LEMMA ListSecretsKeeps ==
    ASSUME Inv, NEW c \in Controllers, ListSecrets(c)
    PROVE  Listed(c)' /\ Planned(c)'
<1>1. /\ inv'[c].runs = inv[c].runs /\ pc'[c] = "pvcs" /\ now' = now /\ plan' = plan
      /\ UNCHANGED <<clock, cluster>>
    BY DEF ListSecrets, Goto, Inv, TypeOK, Inventory
<1>2. Listed(c)'
    BY <1>1 DEF Inv, Listed, ListedRun, cluster
<1> QED BY Zenon, <1>1, <1>2, PlanKeeps

LEMMA ListPVCsKeeps ==
    ASSUME Inv, NEW c \in Controllers, ListPVCs(c)
    PROVE  Listed(c)' /\ Planned(c)'
<1>1. /\ inv'[c].runs = inv[c].runs /\ pc'[c] = "objects" /\ now' = now /\ plan' = plan
      /\ inv'[c].pvc = Kept(c, pvc, EmptyInventory.pvc)
      /\ UNCHANGED <<clock, cluster>>
    BY DEF ListPVCs, Goto, Inv, TypeOK, Inventory
<1>2. ASSUME NEW r \in Runs, inv[c].runs[r].there PROVE inv'[c].pvc[r] = pvc[r]
    BY Zenon, <1>1, <1>2 DEF Kept
<1>3. Listed(c)'
    BY <1>1, <1>2 DEF Inv, Listed, ListedRun, cluster
<1> QED BY Zenon, <1>1, <1>3, PlanKeeps

LEMMA ListObjectsKeeps ==
    ASSUME Inv, NEW c \in Controllers, ListObjects(c)
    PROVE  Listed(c)' /\ Planned(c)'
<1> DEFINE x == Kept(c, objects, EmptyInventory.objects)
           y == {p \in claims : inv[c].runs[p[1]].there}
           z == Kept(c, outcomes, EmptyInventory.outcomes)
<1>a. /\ inv'[c] = [inv[c] EXCEPT !.objects = x, !.claims = y, !.outcomes = z]
      /\ pc[c] = "objects" /\ pc'[c] = "bodies"
      /\ now' = now /\ plan' = plan /\ UNCHANGED <<clock, cluster>>
    BY Zenon DEF ListObjects, Goto, Inv, TypeOK
<1>b. inv[c] \in Inventory
    BY Zenon DEF Inv, TypeOK
<1> HIDE DEF x, y, z
<1>1. /\ inv'[c].runs = inv[c].runs /\ inv'[c].pvc = inv[c].pvc
      /\ inv'[c].objects = x /\ inv'[c].outcomes = z
    BY Zenon, <1>a, <1>b DEF Inventory
<1>2. ASSUME NEW r \in Runs, inv[c].runs[r].there
      PROVE  inv'[c].objects[r] = objects[r] /\ inv'[c].outcomes[r] = outcomes[r]
    BY Zenon, <1>1, <1>2 DEF Kept, x, z
<1>3. ASSUME NEW r \in Runs, inv[c].runs[r].there PROVE ListedRun(c, r)'
  <2>1. ListedRun(c, r)
      BY Zenon, <1>3 DEF Inv, Listed
  <2>2. \A k \in Kinds : objects[r][k] # 0 => <<r, k>> \in uploaded
      BY Zenon DEF Inv, Stored
  <2> QED BY Zenon, <1>a, <1>1, <1>2, <1>3, <2>1, <2>2 DEF ListedRun, cluster
<1>4. Listed(c)'
    BY Zenon, <1>a, <1>1, <1>3 DEF Inv, Listed, cluster
<1> QED BY Zenon, <1>a, <1>4, PlanKeeps

\* What a fresh plan takes is due now, not only on the day and in the state that were listed.
LEMMA ReadBodiesKeeps ==
    ASSUME Inv, NEW c \in Controllers, ReadBodies(c)
    PROVE  Listed(c)' /\ Planned(c)'
<1>0. UNCHANGED <<clock, cluster>>
    BY Zenon DEF ReadBodies
<1>1. CASE EndCycle(c)
    BY Zenon, <1>0, <1>1, EndCycleKeeps
<1>2. CASE ~EndCycle(c)
  <2> DEFINE i == inv[c]
             t == now[c]
  <2>1. /\ plan'[c] = PlanOf(i, t) /\ inv'[c] = EmptyInventory /\ now' = now /\ pc[c] = "bodies"
      BY Zenon, <1>2 DEF ReadBodies, Inv, TypeOK
  <2>2. Listed(c)'
    <3>1. \A r \in Runs : ~EmptyInventory.runs[r].there
        BY Zenon DEF EmptyInventory, NewRun
    <3> QED BY Zenon, <1>0, <2>1, <3>1 DEF Inv, Listed
  <2>3. /\ t \in Int /\ clock \in Int /\ t <= clock
        /\ {WorktreeDays, ArtifactDays, LedgerDays} \subseteq Nat \ {0}
      BY WindowAssumption DEF Inv, TypeOK, Days, Listed
  <2>4. ASSUME NEW r \in Runs, TerminalEligible(i.runs[r], t)
        PROVE  ListedRun(c, r) /\ run[r].phase = "ended" /\ i.runs[r].completed = run[r].completed
      BY Zenon, <2>4 DEF TerminalEligible, Inv, Listed, ListedRun
  <2>5. \A r \in Runs : run[r].completed \in Int
      BY DEF Inv, TypeOK, RunStatus, Days
  <2>6. ASSUME NEW r \in PlanOf(i, t).pvcs
        PROVE  run[r].phase = "ended" /\ run[r].completed + WorktreeDays <= clock
      BY <2>3, <2>4, <2>5 DEF PlanOf, WorkspaceDue
  <2>7. ASSUME NEW r \in PlanOf(i, t).secrets PROVE run[r].phase = "ended"
      BY Zenon, <2>4 DEF PlanOf, SecretDue
  <2>8. ASSUME NEW a \in PlanOf(i, t).artifacts
        PROVE  /\ run[a[1]].phase = "ended" /\ a \in uploaded
               /\ objects[a[1]][a[2]] # 0 => objects[a[1]][a[2]] + ArtifactDays <= clock
    <3>1. a \in Runs \X Kinds /\ ArtifactDue(i, t, a[1], a[2])
        BY Zenon DEF PlanOf
    <3>2. PICK r \in Runs, k \in Kinds : a = <<r, k>> /\ ArtifactDue(i, t, r, k)
        BY <3>1
    <3>3. ListedRun(c, r) /\ i.objects[r][k] # 0 /\ i.objects[r][k] + ArtifactDays <= t
          /\ run[r].phase = "ended"
        BY Zenon, <2>4, <3>2 DEF ArtifactDue
    <3>4. <<r, k>> \in uploaded /\ objects[r][k] \in {0, i.objects[r][k]}
        BY Zenon, <2>1, <3>3 DEF ListedRun
    <3>5. i.objects[r][k] \in Int
        BY DEF Inv, TypeOK, Inventory, Days
    <3> QED BY <2>3, <3>2, <3>3, <3>4, <3>5
  <2>9. ASSUME NEW p \in PlanOf(i, t).pairs
        PROVE  Retired(p[1]) /\ (p \in tombs \/ Expired(p[1], p[2]))
    <3>1. p \in Runs \X Effects /\ PairDue(i, t, p[1], p[2])
        BY Zenon DEF PlanOf
    <3>2. PICK r \in Runs, e \in Effects : p = <<r, e>> /\ PairDue(i, t, r, e)
        BY <3>1
    <3>3. /\ ListedRun(c, r) /\ run[r].phase = "ended" /\ run[r].completed + LedgerDays <= t
          /\ i.outcomes[r][e].state = "definite" /\ i.outcomes[r][e].at + LedgerDays <= t
          /\ i.pvc[r] = "absent" /\ \A k \in Kinds : i.objects[r][k] = 0
        BY Zenon, <2>4, <3>2 DEF PairDue, HasRetainedArtifact, HasRetainedWorkspace
    <3>4. run[r].completed < now[c] /\ run[r].completed + LedgerDays <= clock
        BY <2>3, <2>5, <3>3
    <3>5. pvc[r] = "absent" /\ \A k \in Kinds : objects[r][k] = 0
        BY Zenon, <2>1, <3>3, <3>4 DEF ListedRun
    <3>6. outcomes[r][e] = i.outcomes[r][e] \/ <<r, e>> \in tombs
        BY Zenon, <2>1, <3>3 DEF ListedRun
    <3>7. i.outcomes[r][e].at \in Int
        BY DEF Inv, TypeOK, Inventory, Outcome, Days
    <3>8. <<r, e>> \in tombs \/ Expired(r, e)
        BY <2>3, <3>3, <3>6, <3>7 DEF Expired
    <3> QED BY Zenon, <3>2, <3>3, <3>4, <3>5, <3>8 DEF Retired
  <2>10. PlanOf(i, t).hand = {}
      BY Zenon DEF PlanOf
  <2> HIDE DEF i, t
  <2>11. Planned(c)'
      BY Zenon, <1>0, <2>1, <2>6, <2>7, <2>8, <2>9, <2>10 DEF Planned, Retired, Expired, cluster
  <2> QED BY Zenon, <2>2, <2>11
<1> QED BY Zenon, <1>1, <1>2

\* A delete takes one item off the plan; a ledger pair is fenced before it is taken in hand.
LEMMA DeletesKeep ==
    ASSUME Inv, Next, NEW c \in Controllers, ClusterSteps(c)
    PROVE  Listed(c)' /\ Planned(c)'
<1>0. TypeOK /\ TypeOK' /\ Grows /\ Listed(c) /\ Planned(c) /\ plan[c] \in Plans
    BY Zenon, TypesKept, ClusterGrows DEF Inv, TypeOK
<1>1. /\ now' = now /\ inv' = inv
      /\ pc'[c] = pc[c] \/ pc'[c] \in {"apply", "outcome", "claim"}
    BY Zenon, <1>0 DEF TypeOK, ClusterSteps, DeletePVC, DeleteSecret, DeleteArtifact, EnsureTombstone,
       DeleteOutcome, DeleteClaim, Goto
<1>2. Listed(c)'
    BY Zenon, <1>0, <1>1, ListedStable
<1>3. plan[c].hand \subseteq tombs'
    BY Zenon, <1>0 DEF Planned, Grows
<1>4. /\ plan'[c].pvcs \subseteq plan[c].pvcs /\ plan'[c].secrets \subseteq plan[c].secrets
      /\ plan'[c].artifacts \subseteq plan[c].artifacts /\ plan'[c].pairs \subseteq plan[c].pairs
      /\ plan'[c].hand \subseteq tombs'
  <2>1. CASE DeletePVC(c)
      BY <1>0, <1>3, <2>1 DEF DeletePVC, TypeOK, Plans
  <2>2. CASE DeleteSecret(c)
      BY <1>0, <1>3, <2>2 DEF DeleteSecret, TypeOK, Plans
  <2>3. CASE DeleteArtifact(c)
      BY <1>0, <1>3, <2>3 DEF DeleteArtifact, TypeOK, Plans
  <2>4. CASE EnsureTombstone(c)
    <3>1. PICK p \in plan[c].pairs :
            \/ /\ plan' = [plan EXCEPT ![c] = [plan[c] EXCEPT !.pairs = @ \ {p}, !.hand = {p}]]
               /\ tombs' = tombs \cup {p}
            \/ plan' = [plan EXCEPT ![c] = [plan[c] EXCEPT !.pairs = @ \ {p}]]
        BY Zenon, <1>0, <2>4 DEF EnsureTombstone, TypeOK
    <3>2. CASE /\ plan' = [plan EXCEPT ![c] = [plan[c] EXCEPT !.pairs = @ \ {p}, !.hand = {p}]]
               /\ tombs' = tombs \cup {p}
      <4>1. plan'[c] = [plan[c] EXCEPT !.pairs = @ \ {p}, !.hand = {p}]
          BY Zenon, <1>0, <3>2 DEF TypeOK
      <4>2. /\ plan'[c].pvcs = plan[c].pvcs /\ plan'[c].secrets = plan[c].secrets
            /\ plan'[c].artifacts = plan[c].artifacts
            /\ plan'[c].pairs = plan[c].pairs \ {p} /\ plan'[c].hand = {p}
          BY Zenon, <1>0, <4>1 DEF Plans
      <4> QED BY Zenon, <3>2, <4>2
    <3>3. CASE plan' = [plan EXCEPT ![c] = [plan[c] EXCEPT !.pairs = @ \ {p}]]
      <4>1. plan'[c] = [plan[c] EXCEPT !.pairs = @ \ {p}]
          BY Zenon, <1>0, <3>3 DEF TypeOK
      <4> QED BY Zenon, <1>0, <1>3, <4>1 DEF Plans
    <3> QED BY Zenon, <3>1, <3>2, <3>3
  <2>5. CASE DeleteOutcome(c) \/ DeleteClaim(c)
    <3>1. plan'[c] \in {plan[c], [plan[c] EXCEPT !.hand = {}]}
        BY Zenon, <1>0, <2>5 DEF DeleteOutcome, DeleteClaim, TypeOK
    <3> QED BY Zenon, <1>0, <1>3, <3>1 DEF Plans
  <2> QED BY Zenon, <2>1, <2>2, <2>3, <2>4, <2>5 DEF ClusterSteps
<1> QED BY Zenon, <1>0, <1>2, <1>4, PlannedStable

LEMMA InvInit == Init => Inv
<1> SUFFICES ASSUME Init PROVE Inv
    BY Zenon
<1>0. 1 \in Days \ {0} /\ 0 \in Days /\ 0 \in 0 .. MaxFaults
    BY BoundAssumption DEF Days, Init
<1>1. TypeOK
  <2>1. ClusterTypes
      BY Zenon, <1>0, Constants DEF Init, ClusterTypes, Inventory
  <2>2. CycleTypes
      BY Zenon, <1>0, Constants DEF Init, CycleTypes, Steps
  <2> QED BY Zenon, <2>1, <2>2, TypeParts
<1>2. Stored
  <2>1. \A r \in Runs : (\A k \in Kinds : objects[r][k] = 0) /\ (\A e \in Effects : outcomes[r][e] = NoOutcome)
      BY Zenon DEF Init, EmptyInventory
  <2> QED BY Zenon, <2>1 DEF Init, Stored
<1>3. ASSUME NEW c \in Controllers PROVE Listed(c)
    BY <1>3 DEF Init, Listed, EmptyInventory, NewRun
<1>4. ASSUME NEW c \in Controllers PROVE Planned(c)
    BY Zenon, <1>4 DEF Init, Planned, EmptyPlan
<1> QED BY Zenon, <1>1, <1>2, <1>3, <1>4 DEF Inv

LEMMA CycleKeeps ==
    ASSUME Inv, Next, NEW c \in Controllers, Cycle(c) \/ Fail(c)
    PROVE  \A d \in Controllers : Listed(d)' /\ Planned(d)'
<1>1. Listed(c)' /\ Planned(c)'
    BY Zenon, RunOnceKeeps, ListRunsKeeps, ListSecretsKeeps, ListPVCsKeeps, ListObjectsKeeps, ReadBodiesKeeps,
       DeletesKeep, EndCycleKeeps DEF Cycle, ClusterSteps, Finish, Fail
<1>2. ASSUME NEW d \in Controllers, d # c
      PROVE  pc'[d] = pc[d] /\ now'[d] = now[d] /\ inv'[d] = inv[d] /\ plan'[d] = plan[d]
  <2>0. CycleTypes
      BY Zenon, TypeParts DEF Inv
  <2>1. CASE EndCycle(c)
      BY Zenon, <1>2, <2>0, <2>1 DEF EndCycle, Goto, CycleTypes
  <2>2. CASE ListRuns(c) /\ ~EndCycle(c)
      BY Zenon, <1>2, <2>0, <2>2 DEF ListRuns, Goto, CycleTypes
  <2>3. CASE ReadBodies(c) /\ ~EndCycle(c)
    <3>1. UNCHANGED now /\ Goto(c, "apply") /\ inv' = [inv EXCEPT ![c] = EmptyInventory]
          /\ plan' = [plan EXCEPT ![c] = PlanOf(inv[c], now[c])]
        BY <2>3, Zenon DEF ReadBodies
    <3> QED BY Zenon, <1>2, <2>0, <3>1 DEF Goto, CycleTypes
  <2>4. CASE RunOnce(c) \/ ListSecrets(c) \/ ListPVCs(c)
      BY Zenon, <1>2, <2>0, <2>4 DEF RunOnce, ListSecrets, ListPVCs, Goto, CycleTypes
  <2>5. CASE ListObjects(c)
      BY Zenon, <1>2, <2>0, <2>5 DEF ListObjects, Goto, CycleTypes
  <2>6. CASE DeletePVC(c) \/ DeleteSecret(c) \/ DeleteArtifact(c)
      BY Zenon, <1>2, <2>0, <2>6 DEF DeletePVC, DeleteSecret, DeleteArtifact, CycleTypes
  <2>7. CASE EnsureTombstone(c)
      BY Zenon, <1>2, <2>0, <2>7 DEF EnsureTombstone, Goto, CycleTypes
  <2>8. CASE DeleteOutcome(c) \/ DeleteClaim(c)
      BY Zenon, <1>2, <2>0, <2>8 DEF DeleteOutcome, DeleteClaim, Goto, CycleTypes
  <2> QED BY Zenon, <2>1, <2>2, <2>3, <2>4, <2>5, <2>6, <2>7, <2>8 DEF Cycle, Finish, Fail
<1> QED BY Zenon, <1>1, <1>2, OthersKept

LEMMA InvNext == Inv /\ [Next]_vars => Inv'
<1> SUFFICES ASSUME Inv, [Next]_vars PROVE Inv'
    BY Zenon
<1>1. CASE UNCHANGED vars
  <2>1. TypeOK' /\ Stored'
      BY Zenon, <1>1 DEF Inv, TypeOK, Stored, Retired, Expired, vars, cluster
  <2>2. ASSUME NEW c \in Controllers PROVE Listed(c)' /\ Planned(c)'
    <3>1. Listed(c)'
        BY Zenon, <1>1 DEF Inv, Listed, ListedRun, vars, cluster
    <3>2. Planned(c)'
        BY Zenon, <1>1 DEF Inv, Planned, Retired, Expired, vars, cluster
    <3> QED BY Zenon, <3>1, <3>2
  <2> QED BY Zenon, <2>1, <2>2 DEF Inv
<1>2. CASE Next
  <2>1. CASE \E c \in Controllers : Cycle(c) \/ Fail(c)
      BY Zenon, <1>2, <2>1, TypesKept, StoredKept, CycleKeeps DEF Inv
  <2>2. CASE ~\E c \in Controllers : Cycle(c) \/ Fail(c)
    <3>1. UNCHANGED controllers
        BY Zenon, <1>2, <2>2 DEF Next, Admit, EndRun, RemoveRun, ReleasePVC, Store, Claim, Commit, Tick
    <3>2. \A c \in Controllers : Listed(c)' /\ Planned(c)'
        BY Zenon, <1>2, <3>1, OthersKept DEF controllers
    <3> QED BY Zenon, <1>2, <3>2, TypesKept, StoredKept DEF Inv
  <2> QED BY Zenon, <2>1, <2>2
<1> QED BY Zenon, <1>1, <1>2

\* Inv is an invariant of the controllers and the runs.
THEOREM Invariance == Spec => []Inv
BY InvInit, InvNext, PTL DEF Spec

\* Every value of the controllers, their listings and the cluster stays within its type.
THEOREM TypesHold == Spec => []TypeOK
<1>1. Inv => TypeOK
    BY Zenon DEF Inv
<1> QED BY <1>1, Invariance, PTL

(***************************************************************************)
(* Once a ledger record of a run has been fenced, none of its artifacts    *)
(* and no workspace is left or comes back (retention.go: ledger pairs are  *)
(* planned only behind the artifact and workspace blockers).               *)
(***************************************************************************)
THEOREM RecordsLast == Spec => []RecordsGoLast
<1>1. Inv => RecordsGoLast
    BY Zenon DEF Inv, Stored, Retired, RecordsGoLast
<1> QED BY <1>1, Invariance, PTL

-----------------------------------------------------------------------------
(* What a step may remove *)

LEMMA ArtifactLost ==
    ASSUME Inv, Next, NEW r \in Runs, NEW k \in Kinds, objects[r][k] # 0, objects'[r][k] = 0
    PROVE  run[r].phase = "ended" /\ clock - objects[r][k] >= ArtifactDays
<1>0. ClusterTypes
    BY Zenon, TypeParts DEF Inv
<1>1. ASSUME NEW c \in Controllers, DeleteArtifact(c)
      PROVE  run[r].phase = "ended" /\ clock - objects[r][k] >= ArtifactDays
  <2>1. PICK a \in plan[c].artifacts :
          objects' = objects \/ objects' = [objects EXCEPT ![a[1]][a[2]] = 0]
      BY <1>1, Zenon DEF DeleteArtifact
  <2>2. a[1] \in Runs /\ a[2] \in Kinds /\ a = <<a[1], a[2]>>
      BY DEF Inv, TypeOK, Plans
  <2>3. objects' = [objects EXCEPT ![a[1]][a[2]] = 0]
      BY Zenon, <2>1
  <2>4. a[1] = r /\ a[2] = k
      BY <1>0, <2>2, <2>3, NestedUpdate DEF ClusterTypes
  <2>5. run[r].phase = "ended" /\ objects[r][k] + ArtifactDays <= clock
      BY <2>1, <2>4 DEF Inv, Planned
  <2>6. objects[r][k] \in Int /\ clock \in Int /\ ArtifactDays \in Int
      BY <1>0, WindowAssumption DEF ClusterTypes, Days
  <2> QED BY <2>5, <2>6
<1>2. ASSUME NEW q \in Runs, NEW j \in Kinds, Store(q, j) PROVE FALSE
  <2>1. objects'[r][k] = IF r = q /\ k = j THEN clock ELSE objects[r][k]
      BY <1>0, <1>2, NestedUpdate DEF ClusterTypes, Store
  <2>2. clock # 0
      BY Zenon, <1>0 DEF ClusterTypes
  <2> QED BY Zenon, <2>1, <2>2
<1>3. objects' # objects
    BY Zenon
<1> QED BY Zenon, <1>1, <1>2, <1>3, QuietCycle DEF Next, ClusterSteps, cluster, Fail, DeletePVC, DeleteSecret,
           EnsureTombstone, DeleteOutcome, DeleteClaim, Admit, EndRun, RemoveRun, ReleasePVC,
           Claim, Commit, Tick

LEMMA WorkspaceLost ==
    ASSUME Inv, Next, NEW r \in Runs, LosesWorkspace(r)
    PROVE  run[r].phase = "ended" /\ clock - run[r].completed >= WorktreeDays
<1>0. ClusterTypes
    BY Zenon, TypeParts DEF Inv
<1>1. ASSUME NEW c \in Controllers, DeletePVC(c)
      PROVE  run[r].phase = "ended" /\ clock - run[r].completed >= WorktreeDays
  <2>1. r \in plan[c].pvcs
      BY Zenon, <1>0, <1>1 DEF DeletePVC, LosesWorkspace, ClusterTypes
  <2>2. run[r].phase = "ended" /\ run[r].completed + WorktreeDays <= clock
      BY Zenon, <2>1 DEF Inv, Planned
  <2>3. run[r].completed \in Int /\ clock \in Int /\ WorktreeDays \in Int
      BY <1>0, WindowAssumption DEF ClusterTypes, RunStatus, Days
  <2> QED BY <2>2, <2>3
<1>2. ASSUME NEW q \in Runs, Admit(q) \/ ReleasePVC(q) PROVE FALSE
    BY Zenon, <1>0, <1>2 DEF Admit, ReleasePVC, LosesWorkspace, ClusterTypes
<1>3. ASSUME NEW q \in Runs, RemoveRun(q) PROVE FALSE
  <2>1. q = r
      BY Zenon, <1>0, <1>3 DEF RemoveRun, LosesWorkspace, ClusterTypes
  <2>2. ~run'[r].there
      BY Zenon, <1>0, <1>3, <2>1 DEF RemoveRun, ClusterTypes, RunStatus
  <2> QED BY Zenon, <2>2 DEF LosesWorkspace
<1>4. pvc' # pvc
    BY Zenon DEF LosesWorkspace
<1> QED BY Zenon, <1>1, <1>2, <1>3, <1>4, QuietCycle DEF Next, ClusterSteps, cluster, Fail, DeleteSecret,
           DeleteArtifact, EnsureTombstone, DeleteOutcome, DeleteClaim, EndRun, Store, Claim,
           Commit, Tick

LEMMA SecretLost ==
    ASSUME Inv, Next, NEW r \in Runs, LosesSecret(r)
    PROVE  run[r].phase = "ended"
<1>0. ClusterTypes
    BY Zenon, TypeParts DEF Inv
<1>1. ASSUME NEW c \in Controllers, DeleteSecret(c) PROVE run[r].phase = "ended"
  <2>1. r \in plan[c].secrets
      BY Zenon, <1>1 DEF DeleteSecret, LosesSecret
  <2> QED BY Zenon, <2>1 DEF Inv, Planned
<1>2. ASSUME NEW q \in Runs, RemoveRun(q) PROVE FALSE
  <2>1. q = r
      BY Zenon, <1>2 DEF RemoveRun, LosesSecret
  <2>2. ~run'[r].there
      BY Zenon, <1>0, <1>2, <2>1 DEF RemoveRun, ClusterTypes, RunStatus
  <2> QED BY Zenon, <2>2 DEF LosesSecret
<1>3. ~(secrets \subseteq secrets')
    BY Zenon DEF LosesSecret
<1> QED BY Zenon, <1>1, <1>2, <1>3, QuietCycle DEF Next, ClusterSteps, cluster, Fail, DeletePVC,
           DeleteArtifact, EnsureTombstone, DeleteOutcome, DeleteClaim, Admit, EndRun, ReleasePVC,
           Store, Claim, Commit, Tick

\* A record goes only behind its fence.
LEMMA RecordLost ==
    ASSUME Inv, Next, NEW r \in Runs, NEW e \in Effects,
           \/ <<r, e>> \in claims \ claims'
           \/ outcomes[r][e] # NoOutcome /\ outcomes'[r][e] # outcomes[r][e]
    PROVE  <<r, e>> \in tombs /\ Retired(r) /\ (outcomes[r][e] = NoOutcome \/ Expired(r, e))
<1>0. ClusterTypes
    BY Zenon, TypeParts DEF Inv
<1>a. SUFFICES <<r, e>> \in tombs
    BY Zenon DEF Inv, Stored
<1>1. ASSUME NEW c \in Controllers, DeleteClaim(c) PROVE <<r, e>> \in tombs
    BY Zenon, <1>1 DEF DeleteClaim, Inv, Planned
<1>2. ASSUME NEW c \in Controllers, DeleteOutcome(c) PROVE <<r, e>> \in tombs
  <2>1. PICK p \in plan[c].hand : outcomes' \in {outcomes, WithoutOutcome(p)}
      BY Zenon, <1>2 DEF DeleteOutcome
  <2>2. p \in tombs /\ p[1] \in Runs /\ p[2] \in Effects /\ p = <<p[1], p[2]>>
      BY DEF Inv, TypeOK, Plans, Planned
  <2>3. outcomes' = WithoutOutcome(p)
      BY Zenon, <1>2, <2>1 DEF DeleteOutcome
  <2>4. outcomes'[r][e] = IF r = p[1] /\ e = p[2] THEN NoOutcome ELSE outcomes[r][e]
      BY <1>0, <2>2, <2>3, NestedUpdate DEF ClusterTypes, WithoutOutcome
  <2>5. claims' = claims
      BY Zenon, <1>2 DEF DeleteOutcome
  <2> QED BY Zenon, <2>2, <2>4, <2>5
<1>3. ASSUME NEW q \in Runs, NEW f \in Effects, Commit(q, f) PROVE FALSE
  <2>1. PICK s : outcomes' = [outcomes EXCEPT ![q][f] = [state |-> s, at |-> clock]]
      BY <1>3, Zenon DEF Commit
  <2>2. outcomes'[r][e] = IF r = q /\ e = f THEN [state |-> s, at |-> clock] ELSE outcomes[r][e]
      BY <1>0, <2>1, NestedUpdate DEF ClusterTypes
  <2> QED BY Zenon, <1>3, <2>2 DEF Commit
<1>4. ~(claims \subseteq claims' /\ UNCHANGED outcomes)
    BY Zenon
<1> QED BY Zenon, <1>1, <1>2, <1>3, <1>4, QuietCycle DEF Next, ClusterSteps, cluster, Fail, DeletePVC,
           DeleteSecret, DeleteArtifact, EnsureTombstone, Admit, EndRun, RemoveRun, ReleasePVC,
           Store, Claim, Tick

LEMMA LossIsDue ==
    ASSUME Inv, Next, NEW r \in Runs
    PROVE  /\ LosesArtifact(r) \/ LosesWorkspace(r) \/ LosesSecret(r) \/ LosesRecord(r)
                => run[r].phase = "ended"
           /\ \A k \in Kinds :
                objects[r][k] # 0 /\ objects'[r][k] = 0 => clock - objects[r][k] >= ArtifactDays
           /\ LosesWorkspace(r) => clock - run[r].completed >= WorktreeDays
           /\ LosesRecord(r) => clock - run[r].completed >= LedgerDays
           /\ \A e \in Effects :
                /\ outcomes[r][e] # NoOutcome /\ outcomes'[r][e] = NoOutcome
                     => clock - outcomes[r][e].at >= LedgerDays
                /\ outcomes[r][e].state = "unknown" => outcomes'[r][e] = outcomes[r][e]
                /\ <<r, e>> \in claims \ claims' => <<r, e>> \in tombs
<1>0. /\ clock \in Int /\ LedgerDays \in Int /\ run[r].completed \in Int
      /\ \A e \in Effects : outcomes[r][e].at \in Int
    BY WindowAssumption DEF Inv, TypeOK, RunStatus, Outcome, Days
<1>1. LosesRecord(r) => Retired(r)
    BY Zenon, RecordLost DEF LosesRecord
<1>2. ASSUME NEW e \in Effects, outcomes[r][e] # NoOutcome, outcomes'[r][e] = NoOutcome
      PROVE  clock - outcomes[r][e].at >= LedgerDays
  <2>1. Expired(r, e)
      BY Zenon, <1>2, RecordLost
  <2> QED BY <1>0, <2>1 DEF Expired
<1>3. ASSUME NEW e \in Effects, outcomes[r][e].state = "unknown"
      PROVE  outcomes'[r][e] = outcomes[r][e]
  <2>1. outcomes[r][e] # NoOutcome /\ ~Expired(r, e)
      BY <1>3 DEF NoOutcome, Expired
  <2> QED BY Zenon, <2>1, RecordLost
<1>4. LosesArtifact(r) => run[r].phase = "ended"
    BY Zenon, ArtifactLost DEF LosesArtifact
<1>5. LosesRecord(r) => run[r].phase = "ended" /\ clock - run[r].completed >= LedgerDays
    BY <1>0, <1>1 DEF Retired
<1>6. ASSUME NEW e \in Effects, <<r, e>> \in claims \ claims' PROVE <<r, e>> \in tombs
    BY Zenon, <1>6, RecordLost
<1> QED BY Zenon, <1>2, <1>3, <1>4, <1>5, <1>6, ArtifactLost, WorkspaceLost, SecretLost

(***************************************************************************)
(* However many operator processes delete from however old listings, only  *)
(* ended runs lose anything, no artifact, workspace or record goes before  *)
(* its window is over at that moment, and an effect without a definite     *)
(* outcome keeps its records (retention.go, Plan and Apply).               *)
(***************************************************************************)
THEOREM RemovalsAreDue == Spec => RemovalIsDue
<1>1. Inv /\ [Next]_vars =>
        [\A r \in Runs :
           LosesArtifact(r) \/ LosesWorkspace(r) \/ LosesSecret(r) \/ LosesRecord(r)
             => run[r].phase = "ended"]_vars
    BY Zenon, LossIsDue
<1>2. Inv /\ [Next]_vars =>
        [\A r \in Runs :
           /\ \A k \in Kinds :
                 objects[r][k] # 0 /\ objects'[r][k] = 0 => clock - objects[r][k] >= ArtifactDays
           /\ LosesWorkspace(r) => clock - run[r].completed >= WorktreeDays
           /\ LosesRecord(r) => clock - run[r].completed >= LedgerDays
           /\ \A e \in Effects :
                 outcomes[r][e] # NoOutcome /\ outcomes'[r][e] = NoOutcome
                     => clock - outcomes[r][e].at >= LedgerDays]_vars
    BY Zenon, LossIsDue
<1>3. Inv /\ [Next]_vars =>
        [\A r \in Runs, e \in Effects :
           /\ outcomes[r][e].state = "unknown" => outcomes'[r][e] = outcomes[r][e]
           /\ <<r, e>> \in claims \ claims' => <<r, e>> \in tombs]_vars
    BY Zenon, LossIsDue
<1> QED BY <1>1, <1>2, <1>3, Invariance, PTL
        DEF Spec, RemovalIsDue, OnlyEndedRunsLose, WindowsKept, UnresolvedRecordsStay
==============================================================================
