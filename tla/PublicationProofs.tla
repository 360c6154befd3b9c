------------------------- MODULE PublicationProofs --------------------------
(***************************************************************************)
(* The publication sends every request at most once, keeps all reviews on  *)
(* one commit, and records and tells only what is true, for any number of  *)
(* operators, reports, findings and jobs, and whatever other people do.    *)
(*                                                                         *)
(* A key is claimed once, and only the worker that claimed it acts on its  *)
(* items, in order; what a worker relies on meanwhile (Local) is never     *)
(* taken back by a step of anybody else (Grows).                           *)
(***************************************************************************)
EXTENDS Publication, WellFoundedInduction, TLAPS

\* The stages of a worker that holds the claim of its item's effect.
Acting  == {"base", "probe", "objects", "send", "answered", "refused", "lost", "record"}
Dealing == Acting \cup {"claim"}
Unsent  == {"base", "probe", "objects", "send"}

\* The items of the patch that come after item i.
Ahead(i) ==
    CASE i = "branch" -> {"commit", "pr", "labels"}
      [] i = "commit" -> {"pr", "labels"}
      [] i = "pr"     -> {"labels"}
      [] OTHER        -> {}

\* The first review of all, whatever the report.
Lead == Following(0)

Digested == {<<d>> : d \in Digests}

Reviewing(p) == p.stage \in Dealing /\ p.item \notin Patch

PatchFirst == job.output = "both" => outcome["publish"] = "succeeded"

Digest(p) == IF KeyOf(p.item) = "publish" THEN <<p.digest[1]>> ELSE <<p.digest[1], p.head>>

\* What the body of the pull request, now or when it was read, says of the past.
Body(b) ==
    /\ b \in {"ours", "edited"} => "pr" \in applied
    /\ b = "edited" => "edit" \in meddled
    /\ b = "foreign" => ~WantsPatch

\* A worker past its artifacts publishes for a job that may be published.
Bound(p) ==
    /\ p.stage # "idle" => p.digest \in Digested
    /\ p.stage \notin {"idle", "load"} => ~Refused
    /\ p.stage \in Dealing /\ p.item \in Patch => WantsPatch /\ (p.stage \in {"claim", "base"} => p.item = "branch")
    /\ p.stage = "target" \/ Reviewing(p) => PatchFirst
    /\ p.stage = "record" => p.end \in Outcomes
    /\ p.patch = "succeeded" => outcome["publish"] = "succeeded"
    /\ Body(p.body)

\* Findings are published in order, all reviews under the head of the first.
InOrder(p) ==
    Reviewing(p) =>
      /\ p.item \in Plan(p.digest[1]) /\ p.head # "absent"
      /\ p.item \in Reviews /\ p.item # Lead => claims[Lead] = <<p.digest[1], p.head>>
      /\ \A k \in Plan(p.digest[1]) : Place(k) < Place(p.item) => outcome[k] = "succeeded"

\* A worker that acts holds the claim, and has yet to send what comes next.
Holds(p) ==
    p.stage \in Acting =>
      /\ claims[KeyOf(p.item)] = Digest(p) /\ outcome[KeyOf(p.item)] = "none"
      /\ \A i \in Ahead(p.item) : sent[i] = 0
      /\ p.stage \in Unsent => sent[p.item] = 0

\* What was ensured so far is on the forge.
Ensures(p) ==
    p.stage \in Acting =>
      /\ p.item = "commit" => shown # "absent"
      /\ p.item \in {"pr", "labels"} => "commit" \in applied
      /\ p.item = "labels" => "pr" \in applied
      /\ p.stage = "answered" => p.item \in applied

\* The patch got no further, and what was asked for can no longer be had.
Settled ==
    /\ sent["branch"] = 0 \/ ref # "absent"
    /\ sent["commit"] = 0 \/ ref \notin {"absent", "base"}
    /\ sent["pr"] = 0 \/ ("pr" \in applied /\ "edit" \in meddled)

\* How an effect ends has a reason.
Ends(p) ==
    p.stage = "record" =>
      /\ p.end = "succeeded" => IF p.item \in Patch THEN p.item = "labels" ELSE p.item \in applied
      /\ p.end = "failed" /\ p.item \in Patch => Settled

Local(p) == Bound(p) /\ InOrder(p) /\ Holds(p) /\ Ensures(p) /\ Ends(p)

-----------------------------------------------------------------------------
\* Nothing is sent, and no outcome is recorded, without a claim.
Unclaimed ==
    \A k \in Keys :
      claims[k] = <<>> => outcome[k] = "none" /\ \A i \in Items : KeyOf(i) = k => sent[i] = 0

Sole ==
    \A v, w \in Workers :
      /\ pc[v].stage \in Acting /\ pc[w].stage \in Acting
      /\ KeyOf(pc[v].item) = KeyOf(pc[w].item)
      => v = w

Counted ==
    /\ \A i \in Items : sent[i] <= 1
    /\ \A i \in applied : sent[i] # 0
    /\ \A r \in late : sent[r.item] # 0 /\ r.item \notin applied
    /\ \A r, x \in late : r.item = x.item => r = x

\* All reviews are claimed, and made, under one head.
Heads ==
    /\ \A f \in Range(Findings) :
         claims[f] # <<>> => f \in Reviews /\ claims[Lead] # <<>> /\ claims[f][2] = claims[Lead][2]
    /\ \A f \in Range(Findings) :
         review[f] # "absent" => claims[f] # <<>> /\ review[f] = claims[f][2]
    /\ \A r \in late : r.item \in Range(Findings) => claims[r.item] # <<>> /\ r.head = claims[r.item][2]

\* What is on the forge, and who put it there.
Forge ==
    /\ Body(pr) /\ \A r \in late : Body(r.body)
    /\ WantsPatch /\ "patch" \in {ref, shown} => "commit" \in applied
    /\ section \in Digests => section \in applied
    /\ \A f \in Range(Findings) : review[f] # "absent" => f \in applied
    /\ shown # "absent" => ref # "absent"
    /\ shown \notin {"absent", "base"} \/ "commit" \in applied => ref \notin {"absent", "base"}

Silent == Refused => \A k \in Keys : claims[k] = <<>>

\* An answer the controller was given is true of the ledger, and stays true.
Recorded(a) ==
    /\ a.digest \in Digested
    /\ a.patch = "succeeded" => outcome["publish"] = "succeeded"
    /\ a.patch = "failed" => outcome["publish"] = "failed" \/ claims["publish"] \notin {<<>>, a.digest}
    /\ a.findings = "succeeded" => \A k \in Plan(a.digest[1]) : outcome[k] = "succeeded"
    /\ a.findings = "failed" => \E k \in Reviews : outcome[k] = "failed" \/ claims[k] # <<>>

FailureIsSettled == outcome["publish"] = "failed" => Settled

World ==
    /\ Unclaimed /\ Counted /\ Heads /\ Forge /\ Silent
    /\ SuccessIsOnTheForge /\ FailureIsSettled /\ FindingsFollowPatch

Answers == \A a \in told : Recorded(a)

Locals == \A w \in Workers : \A p \in Position : p = pc[w] => Local(p)

Inv == TypeOK /\ World /\ Answers /\ Sole /\ Locals

-----------------------------------------------------------------------------
(* Keys, and the order of the findings *)

LEMMA Keyed ==
    /\ \A i \in Items : KeyOf(i) \in Keys /\ (i \notin Patch => KeyOf(i) = i)
    /\ \A i : KeyOf(i) = "publish" <=> i \in Patch \cup {"publish"}
    /\ "publish" \notin Items
    /\ \A f \in Range(Findings) : f \notin Patch /\ f \notin Digests /\ f # "publish"
    /\ \A d \in Digests : d \notin Patch /\ d # "publish"
BY Zenon, FindingsAssumption DEF Keys, KeyOf, Items, Patch

LEMMA Named == \A x \in Digested : x[1] \in Digests /\ x = <<x[1]>>
BY DEF Digested

LEMMA PlanItems ==
    ASSUME NEW d \in Digests
    PROVE  Plan(d) \subseteq Items \ Patch /\ Plan(d) \subseteq Keys \ {"publish"}
<1>1. \A k \in Plan(d) : k = d \/ k \in Range(Findings)
    BY Zenon DEF Plan, Reviews
<1> QED BY Zenon, <1>1, Keyed DEF Items, Keys

\* A non-empty set of numbers has a least one.
LEMMA Least ==
    ASSUME NEW S, S \subseteq Nat, S # {}
    PROVE  Min(S) \in S /\ \A n \in S : Min(S) <= n
<1>1. PICK m \in S : \A n \in S : <<n, m>> \notin OpToRel(<, Nat)
    BY Zenon, WFMin, NatLessThanWellFounded
<1>2. ASSUME NEW n \in S PROVE m <= n
  <2>1. n \in Nat /\ m \in Nat
      BY Zenon, <1>1
  <2>2. ~(n < m)
      BY Zenon, <1>1, <2>1 DEF OpToRel
  <2> QED BY <2>1, <2>2
<1> QED BY Zenon, <1>2 DEF Min

LEMMA Placed ==
    /\ \A f \in Range(Findings) :
         Place(f) \in DOMAIN Findings /\ Place(f) \in Nat \ {0} /\ Findings[Place(f)] = f
    /\ \A n \in DOMAIN Findings : n \in Nat \ {0} /\ Findings[n] \in Range(Findings) /\ Place(Findings[n]) = n
    /\ \A d \in Digests : Place(d) = 0
<1>1. \A n \in DOMAIN Findings : n \in Nat \ {0} /\ Findings[n] \in Range(Findings)
    BY FindingsAssumption DEF Range
<1>2. \A f \in Range(Findings) : Place(f) \in DOMAIN Findings /\ Findings[Place(f)] = f
    BY Zenon, Keyed DEF Place, Range
<1>3. \A n \in DOMAIN Findings : Place(Findings[n]) = n
    BY Zenon, <1>1, <1>2, FindingsAssumption DEF IsInjective
<1> QED BY Zenon, <1>1, <1>2, <1>3 DEF Place

\* The review that follows the first n findings.
LEMMA FollowingReview ==
    ASSUME NEW n \in Nat, ReviewsAfter(n) # {}
    PROVE  /\ Following(n) \in Reviews
           /\ \A f \in Reviews : Place(f) < Place(Following(n)) => Place(f) <= n
<1>1. ReviewsAfter(n) \subseteq Nat
    BY Zenon, Placed DEF ReviewsAfter
<1> DEFINE m == Min(ReviewsAfter(n))
<1>2. m \in ReviewsAfter(n) /\ \A x \in ReviewsAfter(n) : m <= x
    BY Zenon, <1>1, Least
<1> HIDE DEF m
<1>3. Following(n) = Findings[m] /\ m \in DOMAIN Findings /\ Findings[m] \in Reviews /\ Place(Findings[m]) = m
    BY Zenon, <1>2, Placed DEF Following, ReviewsAfter, m
<1>4. ASSUME NEW f \in Reviews, Place(f) < m PROVE Place(f) <= n
  <2>1. Place(f) \in DOMAIN Findings /\ Findings[Place(f)] = f /\ Place(f) \in Nat
      BY Zenon, Placed DEF Reviews
  <2>2. m \in Nat
      BY Zenon, <1>3, Placed
  <2> QED BY <1>2, <1>4, <2>1, <2>2 DEF ReviewsAfter
<1> QED BY Zenon, <1>3, <1>4

LEMMA PlanPlaces ==
    ASSUME NEW d \in Digests
    PROVE  /\ Place(d) = 0 /\ d \notin Reviews
           /\ \A k \in Plan(d) : Place(k) \in Nat /\ (k # d => k \in Reviews /\ Place(k) # 0)
BY Placed, Keyed DEF Plan, Reviews

LEMMA NextInPlan ==
    ASSUME NEW d \in Digests, NEW i \in Plan(d), ReviewsAfter(Place(i)) # {}
    PROVE  /\ Following(Place(i)) \in Reviews
           /\ \A k \in Plan(d) : Place(k) < Place(Following(Place(i))) => k = i \/ Place(k) < Place(i)
<1>1. Place(i) \in Nat
    BY Zenon, PlanPlaces
<1>2. Following(Place(i)) \in Reviews
    BY Zenon, <1>1, FollowingReview
<1>3. ASSUME NEW k \in Plan(d), Place(k) < Place(Following(Place(i))), k # i PROVE Place(k) < Place(i)
  <2>1. CASE k = d
      BY <1>1, <1>3, <2>1, PlanPlaces
  <2>2. CASE k # d
    <3>1. Place(k) \in Nat /\ Place(k) <= Place(i)
        BY Zenon, <1>1, <1>3, <2>2, PlanPlaces, FollowingReview
    <3>2. Place(k) # Place(i)
        BY Zenon, <1>3, <2>2, PlanPlaces, Placed DEF Reviews
    <3> QED BY <1>1, <3>1, <3>2
  <2> QED BY Zenon, <2>1, <2>2
<1> QED BY Zenon, <1>2, <1>3

LEMMA LastInPlan ==
    ASSUME NEW d \in Digests, NEW i \in Plan(d), ReviewsAfter(Place(i)) = {}, NEW k \in Plan(d)
    PROVE  k = i \/ Place(k) < Place(i)
<1> SUFFICES ASSUME k # i PROVE Place(k) < Place(i)
    BY Zenon
<1>1. Place(i) \in Nat /\ Place(k) \in Nat
    BY Zenon, PlanPlaces
<1>2. CASE k = d
    BY <1>1, <1>2, PlanPlaces
<1>3. CASE k # d
  <2>1. k \in Reviews /\ Place(k) \in DOMAIN Findings /\ Findings[Place(k)] = k
      BY Zenon, <1>3, PlanPlaces, Placed DEF Reviews
  <2>2. ~(Place(k) > Place(i))
      BY Zenon, <2>1 DEF ReviewsAfter
  <2>3. Place(k) # Place(i)
      BY Zenon, <1>3, <2>1, PlanPlaces, Placed DEF Reviews
  <2> QED BY <1>1, <2>2, <2>3
<1> QED BY Zenon, <1>2, <1>3

LEMMA LeadIsReview ==
    ASSUME Reviews # {}
    PROVE  Lead \in Reviews /\ Lead \in Keys /\ \A f \in Reviews : ~(Place(f) < Place(Lead))
<1>1. ReviewsAfter(0) # {}
    BY Placed DEF ReviewsAfter, Reviews
<1>2. \A f \in Reviews : Place(f) \in Nat \ {0}
    BY Zenon, Placed DEF Reviews
<1>3. Lead \in Reviews /\ \A f \in Reviews : Place(f) < Place(Lead) => Place(f) <= 0
    BY Zenon, <1>1, FollowingReview DEF Lead
<1>4. Lead \in Keys
    BY Zenon, <1>3 DEF Reviews, Keys
<1> QED BY <1>2, <1>3, <1>4

LEMMA FirstInPlan ==
    ASSUME NEW d \in Digests, Plan(d) # {}
    PROVE  /\ First(d) \in Plan(d) /\ (First(d) \in Reviews => First(d) = Lead)
           /\ \A k \in Plan(d) : ~(Place(k) < Place(First(d)))
<1>1. CASE job.advisory # {}
  <2>1. First(d) = d /\ d \in Plan(d) /\ d \notin Reviews
      BY Zenon, <1>1, PlanPlaces DEF First, Plan
  <2> QED BY <2>1, PlanPlaces
<1>2. CASE job.advisory = {}
  <2>1. Plan(d) = Reviews /\ First(d) = Lead
      BY Zenon, <1>2 DEF Plan, First, Lead
  <2> QED BY Zenon, <2>1, LeadIsReview
<1> QED BY Zenon, <1>1, <1>2

-----------------------------------------------------------------------------
(* Where a worker goes *)

LEMMA Goes ==
    ASSUME NEW p \in Position, NEW s \in Stages, NEW q, q = [p EXCEPT !.stage = s]
    PROVE  /\ q \in Position /\ q.stage = s /\ q.item = p.item /\ q.digest = p.digest
           /\ q.head = p.head /\ q.body = p.body /\ q.end = p.end /\ q.patch = p.patch
BY Zenon DEF Position

LEMMA Idles == Idle \in Position /\ Idle.stage = "idle" /\ Idle.patch = "skipped" /\ Idle.body = "absent"
BY Zenon DEF Idle, Position, Stages, Items, Patch, Commits, PullRequests

LEMMA IdleLocal == Local(Idle)
BY Zenon, Idles DEF Local, Bound, InOrder, Holds, Ensures, Ends, Reviewing, Acting, Dealing, Body

-----------------------------------------------------------------------------
(* What is never taken back *)

\* A branch that is there stays, and one that has moved off the base never returns.
Onward ==
    /\ ref # "absent" => ref' # "absent"
    /\ ref \notin {"absent", "base"} => ref' \notin {"absent", "base"}

Grows ==
    /\ UNCHANGED job /\ Onward
    /\ \A k \in Keys : claims[k] # <<>> => claims'[k] = claims[k]
    /\ \A k \in Keys : outcome[k] # "none" => outcome'[k] = outcome[k]
    /\ applied \subseteq applied' /\ meddled \subseteq meddled'
    /\ shown # "absent" => shown' # "absent"

\* A step leaves alone what position p acts on.
Spared(p) ==
    p.stage \in Acting =>
      /\ outcome'[KeyOf(p.item)] = outcome[KeyOf(p.item)]
      /\ \A i \in Items : KeyOf(i) = KeyOf(p.item) => sent'[i] = sent[i]

LEMMA SameJob ==
    ASSUME UNCHANGED job
    PROVE  /\ (WantsPatch' <=> WantsPatch) /\ (WantsFindings' <=> WantsFindings) /\ (Refused' <=> Refused)
           /\ Reviews' = Reviews /\ Lead' = Lead /\ \A d : Plan(d)' = Plan(d)
           /\ \A n : ReviewsAfter(n)' = ReviewsAfter(n)
BY Zenon DEF WantsPatch, WantsFindings, Refused, Reviews, Plan, Lead, Following, ReviewsAfter

LEMMA BodyKept ==
    ASSUME Grows, NEW b, Body(b)
    PROVE  Body(b)'
BY Zenon, SameJob DEF Grows, Body

LEMMA BoundKept ==
    ASSUME Grows, NEW p, Bound(p)
    PROVE  Bound(p)'
<1>1. "publish" \in Keys
    BY Zenon DEF Keys
<1> QED BY Zenon, <1>1, SameJob, BodyKept DEF Grows, Bound, PatchFirst, Reviewing

LEMMA InOrderKept ==
    ASSUME Grows, NEW p, Bound(p), InOrder(p)
    PROVE  InOrder(p)'
<1> SUFFICES ASSUME Reviewing(p) PROVE InOrder(p)'
    BY Zenon DEF InOrder, Reviewing
<1>1. p.item \in Plan(p.digest[1]) /\ p.head # "absent"
    BY Zenon DEF InOrder
<1>2. \A k \in Plan(p.digest[1]) : k \in Keys
  <2>1. p.digest[1] \in Digests
      BY Zenon, Named DEF Bound, Reviewing, Dealing, Acting
  <2> QED BY Zenon, <2>1, PlanItems
<1>3. p.item \in Reviews /\ p.item # Lead => claims'[Lead] = <<p.digest[1], p.head>>
  <2>1. <<p.digest[1], p.head>> # <<>>
      BY Zenon
  <2> QED BY Zenon, <2>1, LeadIsReview DEF InOrder, Grows
<1>4. \A k \in Plan(p.digest[1]) : Place(k) < Place(p.item) => outcome'[k] = "succeeded"
    BY Zenon, <1>2 DEF InOrder, Grows
<1> QED BY Zenon, <1>1, <1>3, <1>4, SameJob DEF InOrder, Grows

LEMMA AheadKeys == \A i \in Items : \A j \in Ahead(i) : j \in Items /\ KeyOf(j) = KeyOf(i) /\ j # i
BY Zenon DEF Ahead, KeyOf, Items, Patch

LEMMA LocalKept ==
    ASSUME Grows, NEW p \in Position, Local(p), Spared(p)
    PROVE  Local(p)'
<1>1. Bound(p)' /\ InOrder(p)'
    BY Zenon, BoundKept, InOrderKept DEF Local
<1>2. KeyOf(p.item) \in Keys
    BY Zenon, Keyed DEF Position
<1>3. Holds(p)'
  <2>1. Digest(p) # <<>>
      BY Zenon DEF Digest
  <2>2. p.item \in Items /\ \A i \in Ahead(p.item) : i \in Items /\ KeyOf(i) = KeyOf(p.item)
      BY Zenon, AheadKeys DEF Position
  <2> QED BY Zenon, <1>2, <2>1, <2>2 DEF Local, Holds, Grows, Spared, Digest
<1>4. Ensures(p)'
    BY Zenon DEF Local, Ensures, Grows
<1>5. p.stage = "record" /\ p.item \in Patch /\ Settled => Settled'
  <2>1. p.stage = "record" /\ p.item \in Patch =>
          \A i \in {"branch", "commit", "pr"} : sent'[i] = sent[i]
      BY Zenon DEF Spared, Acting, KeyOf, Items, Patch
  <2> QED BY Zenon, <2>1 DEF Settled, Grows, Onward
<1>6. Ends(p)'
    BY Zenon, <1>5 DEF Local, Ends, Grows
<1> QED BY Zenon, <1>1, <1>3, <1>4, <1>6 DEF Local

LEMMA RecordedKept ==
    ASSUME Grows, NEW a, Recorded(a)
    PROVE  Recorded(a)'
<1>1. a.digest[1] \in Digests
    BY Zenon, Named DEF Recorded
<1>2. "publish" \in Keys /\ Plan(a.digest[1]) \subseteq Keys /\ Reviews \subseteq Keys
    BY Zenon, <1>1, PlanItems DEF Keys, Reviews
<1> QED BY Zenon, <1>2, SameJob DEF Recorded, Grows

-----------------------------------------------------------------------------
(* What a step has to keep *)

Tellings == [digest : {<<>>} \cup {<<d>> : d \in Digests}, patch : States, findings : States]

\* The step tells the controller nothing, or something true.
Tells == told' = told \/ \E a \in Tellings : told' = told \cup {a} /\ Recorded(a)'

LEMMA AnswersKept ==
    ASSUME Answers, Grows, Tells
    PROVE  Answers'
<1>1. \A a \in told : Recorded(a)'
    BY Zenon, RecordedKept DEF Answers
<1> QED BY Zenon, <1>1 DEF Tells, Answers

LEMMA Moves ==
    ASSUME TypeOK, NEW w \in Workers, NEW q \in Position, Become(w, q)
    PROVE  /\ pc'[w] = q /\ pc' \in [Workers -> Position]
           /\ \A v \in Workers : v # w => pc'[v] = pc[v]
BY Zenon DEF TypeOK, Become

LEMMA LocalsKept ==
    ASSUME Inv, Grows, NEW w \in Workers, NEW q \in Position, Become(w, q), Local(q)',
           \A v \in Workers \ {w} : Spared(pc[v])
    PROVE  Locals'
<1>1. pc'[w] = q /\ \A v \in Workers : v # w => pc'[v] = pc[v]
    BY Zenon, Moves DEF Inv
<1>2. ASSUME NEW v \in Workers, NEW p \in Position, p = pc'[v] PROVE Local(p)'
  <2>1. CASE v = w
      BY Zenon, <1>1, <1>2, <2>1
  <2>2. CASE v # w
    <3>1. p = pc[v]
        BY Zenon, <1>1, <1>2, <2>2
    <3>2. Local(p) /\ Spared(p)
        BY Zenon, <2>2, <3>1 DEF Inv, Locals
    <3> QED BY Zenon, <3>2, LocalKept
  <2> QED BY Zenon, <2>1, <2>2
<1> QED BY Zenon, <1>2 DEF Locals

LEMMA Assemble ==
    ASSUME Inv, TypeOK', World', Grows, Tells,
           NEW w \in Workers, NEW q \in Position, Become(w, q), Local(q)',
           \A v \in Workers \ {w} : Spared(pc[v]),
           q.stage \in Acting => \A v \in Workers \ {w} :
               pc[v].stage \in Acting => KeyOf(pc[v].item) # KeyOf(q.item)
    PROVE  Inv'
<1>1. Answers' /\ Locals'
    BY Zenon, AnswersKept, LocalsKept DEF Inv
<1>2. pc'[w] = q /\ \A v \in Workers : v # w => pc'[v] = pc[v]
    BY Zenon, Moves DEF Inv
<1>3. Sole'
  <2> SUFFICES ASSUME NEW u \in Workers, NEW v \in Workers, pc'[u].stage \in Acting, pc'[v].stage \in Acting,
                      KeyOf(pc'[u].item) = KeyOf(pc'[v].item), u # v
               PROVE  FALSE
      BY Zenon DEF Sole, KeyOf
  <2>1. CASE u = w
      BY Zenon, <1>2, <2>1
  <2>2. CASE v = w
      BY Zenon, <1>2, <2>2
  <2>3. CASE u # w /\ v # w
      BY Zenon, <1>2, <2>3 DEF Inv, Sole
  <2> QED BY Zenon, <2>1, <2>2, <2>3
<1> QED BY Zenon, <1>1, <1>3 DEF Inv

\* A step of somebody who is not a worker.
LEMMA Outside ==
    ASSUME Inv, TypeOK', World', Grows, UNCHANGED <<pc, told, sent, outcome>>
    PROVE  Inv'
<1>1. Answers'
    BY Zenon, AnswersKept DEF Inv, Tells
<1>2. Locals'
  <2>1. ASSUME NEW v \in Workers, NEW p \in Position, p = pc'[v] PROVE Local(p)'
      BY Zenon, <2>1, LocalKept DEF Inv, Locals, Spared
  <2> QED BY Zenon, <2>1 DEF Locals
<1>3. Sole'
    BY Zenon DEF Inv, Sole, KeyOf
<1> QED BY Zenon, <1>1, <1>2, <1>3 DEF Inv

Untouched == UNCHANGED <<job, forge, late, ledger, meddled, sent, applied>>

LEMMA SameWorld ==
    ASSUME World, Untouched
    PROVE  World'
<1> USE DEF Untouched, forge, ledger
<1>1. WantsPatch' = WantsPatch /\ Refused' = Refused /\ Reviews' = Reviews /\ Lead' = Lead
    BY Zenon DEF WantsPatch, Refused, Reviews, Lead, Following, ReviewsAfter
<1>2. Unclaimed' /\ Counted' /\ Silent'
    BY Zenon, <1>1 DEF World, Unclaimed, Counted, Silent
<1>3. Heads'
    BY Zenon, <1>1 DEF World, Heads
<1>4. Forge'
    BY Zenon, <1>1 DEF World, Forge, Body
<1>5. SuccessIsOnTheForge' /\ FailureIsSettled' /\ FindingsFollowPatch'
    BY Zenon DEF World, SuccessIsOnTheForge, FailureIsSettled, Settled, FindingsFollowPatch
<1> QED BY Zenon, <1>2, <1>3, <1>4, <1>5 DEF World

\* A step that only moves a worker, and perhaps tells the controller something.
LEMMA Quiet ==
    ASSUME Inv, Untouched, Tells, attempts' \in 0 .. MaxAttempts,
           NEW w \in Workers, NEW p \in Position, p = pc[w], NEW q \in Position, Become(w, q), Local(q),
           q.stage \in Acting => p.stage \in Acting /\ KeyOf(q.item) = KeyOf(p.item)
    PROVE  Inv'
<1>1. World'
    BY Zenon, SameWorld DEF Inv
<1>2. Grows /\ \A r : Spared(r)
    BY Zenon DEF Untouched, forge, ledger, Grows, Onward, Spared
<1>3. TypeOK'
  <2>1. told' \subseteq Tellings
      BY Zenon DEF Tells, Inv, TypeOK, Tellings
  <2> QED BY Zenon, <2>1, Moves DEF Inv, TypeOK, Untouched, forge, ledger, Tellings
<1>4. Local(q)'
    BY Zenon, <1>2, LocalKept
<1>5. q.stage \in Acting => \A v \in Workers \ {w} :
          pc[v].stage \in Acting => KeyOf(pc[v].item) # KeyOf(q.item)
    BY Zenon DEF Inv, Sole
<1> QED BY Zenon, <1>1, <1>2, <1>3, <1>4, <1>5, Assemble

-----------------------------------------------------------------------------
(* A worker that acts goes on *)

LEMMA StaysLocal ==
    ASSUME NEW p \in Position, Local(p), p.stage \in Acting,
           NEW q \in Position, q.item = p.item, q.digest = p.digest, q.head = p.head, q.patch = p.patch, Body(q.body),
           q.stage \in Acting, q.stage \in Unsent => p.stage \in Unsent, q.stage \notin {"answered", "base"},
           q.stage = "record" => q.end \in Outcomes /\ Ends(q)
    PROVE  Local(q)
<1>1. p.stage \in Dealing /\ q.stage \in Dealing /\ q.stage # "target" /\ q.stage \notin {"claim", "base"} /\ p.stage \notin {"idle", "load"}
    BY Zenon DEF Acting, Dealing
<1>2. Bound(q)
    BY Zenon, <1>1 DEF Local, Bound, Reviewing
<1>3. InOrder(q)
    BY Zenon, <1>1 DEF Local, InOrder, Reviewing
<1>4. Holds(q) /\ Ensures(q) /\ Ends(q)
    BY Zenon DEF Local, Holds, Ensures, Ends, Digest
<1> QED BY Zenon, <1>2, <1>3, <1>4 DEF Local

LEMMA EndLocal ==
    ASSUME NEW p \in Position, Local(p), p.stage \in Acting, NEW o \in Outcomes, NEW q,
           q = [p EXCEPT !.stage = "record", !.end = o],
           o = "succeeded" => IF p.item \in Patch THEN p.item = "labels" ELSE p.item \in applied,
           o = "failed" /\ p.item \in Patch => Settled
    PROVE  q \in Position /\ Local(q) /\ KeyOf(q.item) = KeyOf(p.item)
<1>1. /\ q \in Position /\ q.stage = "record" /\ q.item = p.item /\ q.digest = p.digest
      /\ q.head = p.head /\ q.body = p.body /\ q.end = o /\ q.patch = p.patch
    BY Zenon DEF Position, Stages
<1>2. Ends(q) /\ Body(q.body) /\ q.stage \in Acting /\ q.stage \notin Unsent /\ q.stage \notin {"answered", "base"}
    BY Zenon, <1>1 DEF Ends, Local, Bound, Acting, Unsent
<1> QED BY Zenon, <1>1, <1>2, StaysLocal

\* The item of position p is on the forge.
Present(p) ==
    /\ p.item = "branch" => shown # "absent"
    /\ p.item \in {"commit", "pr"} \/ p.item \notin Patch => p.item \in applied

LEMMA NextItem ==
    ASSUME NEW p \in Position, Local(p), p.stage \in Acting, Present(p), p.item \in DOMAIN Then, NEW q,
           q = [p EXCEPT !.stage = "probe", !.item = Then[p.item]]
    PROVE  q \in Position /\ Local(q) /\ KeyOf(q.item) = KeyOf(p.item)
<1>1. p.item \in {"branch", "commit", "pr"} /\ Then[p.item] \in Patch /\ Then[p.item] \in Ahead(p.item)
      /\ Ahead(Then[p.item]) \subseteq Ahead(p.item)
    BY DEF Then, Patch, Ahead
<1>2. /\ q \in Position /\ q.stage = "probe" /\ q.item = Then[p.item] /\ q.digest = p.digest
      /\ q.head = p.head /\ q.body = p.body /\ q.patch = p.patch
    BY Zenon, <1>1 DEF Position, Items, Stages
<1>3. p.item \in Patch /\ p.stage \in Dealing /\ p.stage \notin {"idle", "load"}
    BY Zenon, <1>1 DEF Patch, Acting, Dealing
<1>4. KeyOf(q.item) = "publish" /\ KeyOf(p.item) = "publish" /\ Digest(q) = Digest(p)
  <2>1. KeyOf(q.item) = "publish" /\ KeyOf(p.item) = "publish"
      BY Zenon, <1>1, <1>2, <1>3, Keyed
  <2> QED BY <1>2, <2>1 DEF Digest
<1>5. Bound(q) /\ InOrder(q)
    BY Zenon, <1>1, <1>2, <1>3 DEF Local, Bound, InOrder, Reviewing
<1>6. Holds(q)
    BY Zenon, <1>1, <1>2, <1>4 DEF Local, Holds
<1>7. Ensures(q)
    BY <1>1, <1>2 DEF Local, Ensures, Present, Then
<1>8. Ends(q)
    BY Zenon, <1>2 DEF Ends
<1> QED BY Zenon, <1>2, <1>4, <1>5, <1>6, <1>7, <1>8 DEF Local

\* A worker that acts takes a quiet step to position q.
LEMMA ActorMoves ==
    ASSUME Inv, NEW w \in Workers, NEW p \in Position, p = pc[w], p.stage \in Acting,
           NEW q \in Position, Become(w, q), Local(q), KeyOf(q.item) = KeyOf(p.item),
           Untouched, UNCHANGED <<attempts, told>>
    PROVE  Inv'
<1>1. attempts' \in 0 .. MaxAttempts /\ Tells
    BY Zenon DEF Inv, TypeOK, Tells
<1> QED BY Zenon, <1>1, Quiet

LEMMA ActorEnds ==
    ASSUME Inv, NEW w \in Workers, NEW p \in Position, p = pc[w], p.stage \in Acting, NEW o \in Outcomes, End(w, o),
           o = "succeeded" => IF p.item \in Patch THEN p.item = "labels" ELSE p.item \in applied,
           o = "failed" /\ p.item \in Patch => Settled,
           Untouched, UNCHANGED <<attempts, told>>
    PROVE  Inv'
<1> DEFINE q == [p EXCEPT !.stage = "record", !.end = o]
<1>1. Become(w, q) /\ Local(p)
    BY Zenon DEF End, Inv, Locals
<1>2. q \in Position /\ Local(q) /\ KeyOf(q.item) = KeyOf(p.item)
    BY Zenon, <1>1, EndLocal
<1> HIDE DEF q
<1> QED BY Zenon, <1>1, <1>2, ActorMoves

LEMMA ActorEnsures ==
    ASSUME Inv, NEW w \in Workers, NEW p \in Position, p = pc[w], p.stage \in Acting, Present(p), Ensured(w),
           Untouched, UNCHANGED <<attempts, told>>
    PROVE  Inv'
<1>1. CASE p.item \in DOMAIN Then
  <2> DEFINE q == [p EXCEPT !.stage = "probe", !.item = Then[p.item]]
  <2>1. Become(w, q) /\ Local(p)
      BY Zenon, <1>1 DEF Ensured, GoItem, Inv, Locals
  <2>2. q \in Position /\ Local(q) /\ KeyOf(q.item) = KeyOf(p.item)
      BY Zenon, <1>1, <2>1, NextItem
  <2> HIDE DEF q
  <2> QED BY Zenon, <2>1, <2>2, ActorMoves
<1>2. CASE p.item \notin DOMAIN Then
  <2>1. End(w, "succeeded") /\ "succeeded" \in Outcomes /\ "succeeded" # "failed"
      BY Zenon, <1>2 DEF Ensured, Outcomes
  <2>2. IF p.item \in Patch THEN p.item = "labels" ELSE p.item \in applied
      BY Zenon, <1>2 DEF Patch, Then, Present
  <2> QED BY Zenon, <2>1, <2>2, ActorEnds
<1> QED BY Zenon, <1>1, <1>2

LEMMA ActorGoes ==
    ASSUME Inv, NEW w \in Workers, NEW p \in Position, p = pc[w], p.stage \in Unsent, NEW s \in {"probe", "send"}, Go(w, s),
           Untouched, UNCHANGED <<attempts, told>>
    PROVE  Inv'
<1> DEFINE q == [p EXCEPT !.stage = s]
<1>1. Become(w, q) /\ Local(p) /\ p.stage \in Acting /\ s \in Acting /\ s \in Unsent /\ s \in Stages
    BY Zenon DEF Go, Inv, Locals, Unsent, Acting, Stages
<1>2. /\ q \in Position /\ q.stage = s /\ q.item = p.item /\ q.digest = p.digest
      /\ q.head = p.head /\ q.body = p.body /\ q.patch = p.patch
    BY <1>1, Goes
<1> HIDE DEF q
<1>3. Local(q)
  <2>1. Body(q.body) /\ q.stage \notin {"record", "answered", "base"}
      BY Zenon, <1>1, <1>2 DEF Local, Bound, Unsent
  <2> QED BY Zenon, <1>1, <1>2, <2>1, StaysLocal
<1> QED BY Zenon, <1>1, <1>2, <1>3, ActorMoves

-----------------------------------------------------------------------------
(* The steps that only look *)

LEMMA Rests ==
    ASSUME Inv, NEW w \in Workers, Become(w, Idle), Untouched, Tells, UNCHANGED attempts
    PROVE  Inv'
<1>1. PICK p \in Position : p = pc[w]
    BY Zenon DEF Inv, TypeOK
<1>2. Idle.stage \notin Acting /\ attempts' \in 0 .. MaxAttempts
    BY Zenon, Idles DEF Acting, Inv, TypeOK
<1> QED BY Zenon, <1>1, <1>2, Idles, IdleLocal, Quiet

LEMMA StartInv ==
    ASSUME Inv, NEW w \in Workers, NEW d \in Digests, Start(w, d)
    PROVE  Inv'
<1> DEFINE q == [Idle EXCEPT !.stage = "load", !.digest = <<d>>]
<1>1. PICK p \in Position : p = pc[w]
    BY Zenon DEF Inv, TypeOK
<1>2. Become(w, q) /\ Untouched /\ Tells
    BY Zenon DEF Start, Untouched, Tells
<1>3. /\ q \in Position /\ q.stage = "load" /\ q.digest = <<d>> /\ q.body = "absent" /\ q.patch = "skipped"
    BY Zenon DEF Idle, Position, Stages, Items, Patch, Commits, PullRequests
<1>4. attempts' \in 0 .. MaxAttempts
    BY PublicationBounds DEF Start, Inv, TypeOK
<1> HIDE DEF q
<1>5. Local(q)
    BY Zenon, <1>3 DEF Local, Bound, InOrder, Holds, Ensures, Ends, Reviewing, Acting, Dealing, Body, Digested
<1>6. q.stage \notin Acting
    BY Zenon, <1>3 DEF Acting
<1> QED BY Zenon, <1>1, <1>2, <1>3, <1>4, <1>5, <1>6, Quiet

LEMMA RestingInv ==
    ASSUME Inv, NEW w \in Workers, LoadFails(w) \/ Crash(w)
    PROVE  Inv'
<1>1. Become(w, Idle) /\ Untouched /\ Tells /\ UNCHANGED attempts
    BY Zenon DEF LoadFails, Crash, Untouched, Tells
<1> QED BY Zenon, <1>1, Rests

\* An answer that is true of the ledger, which the step leaves alone.
LEMMA AnswerInv ==
    ASSUME Inv, NEW w \in Workers, NEW p \in Position, p = pc[w],
           NEW x \in States, NEW y \in States, Answer(w, x, y), Untouched, UNCHANGED attempts,
           Recorded([digest |-> p.digest, patch |-> x, findings |-> y])
    PROVE  Inv'
<1>1. PICK a : a = [digest |-> p.digest, patch |-> x, findings |-> y]
    BY Zenon
<1>2. a \in Tellings
    BY Zenon, <1>1 DEF Tellings, Position
<1>3. Recorded(a)'
  <2>1. Recorded(a) /\ Grows
      BY Zenon, <1>1 DEF Untouched, forge, ledger, Grows, Onward
  <2> QED BY Zenon, <2>1, RecordedKept
<1>4. Become(w, Idle) /\ Tells
    BY Zenon, <1>1, <1>2, <1>3 DEF Answer, Tells
<1> QED BY Zenon, <1>4, Rests

LEMMA DecideInv ==
    ASSUME Inv, NEW w \in Workers, Decide(w)
    PROVE  Inv'
<1>1. PICK p \in Position : p = pc[w]
    BY Zenon DEF Inv, TypeOK
<1>2. Local(p) /\ p.stage = "load" /\ Untouched /\ UNCHANGED attempts
    BY Zenon, <1>1 DEF Inv, Locals, Decide, At, Untouched
<1>3. CASE \E x \in {"skipped", "rejected"} : Answer(w, x, "skipped")
  <2>1. PICK x \in {"skipped", "rejected"} : Answer(w, x, "skipped")
      BY Zenon, <1>3
  <2>2. Recorded([digest |-> p.digest, patch |-> x, findings |-> "skipped"])
    <3>1. p.digest \in Digested
        BY Zenon, <1>2 DEF Local, Bound
    <3> QED BY Zenon, <2>1, <3>1 DEF Recorded
  <2>3. x \in States /\ "skipped" \in States
      BY Zenon, <2>1 DEF States
  <2> QED BY Zenon, <1>1, <1>2, <2>1, <2>2, <2>3, AnswerInv
<1>4. CASE ~Refused /\ ~WantsPatch /\ Go(w, "target") /\ UNCHANGED told
  <2> DEFINE q == [p EXCEPT !.stage = "target"]
  <2>1. Become(w, q) /\ Tells /\ attempts' \in 0 .. MaxAttempts
      BY Zenon, <1>1, <1>2, <1>4 DEF Go, Tells, Inv, TypeOK
  <2>2. /\ q \in Position /\ q.stage = "target" /\ q.digest = p.digest
        /\ q.body = p.body /\ q.patch = p.patch
      BY Goes DEF Stages
  <2> HIDE DEF q
  <2>3. PatchFirst
      BY Zenon, <1>4 DEF PatchFirst, WantsPatch
  <2>4. Local(q) /\ q.stage \notin Acting
      BY Zenon, <1>2, <1>4, <2>2, <2>3 DEF Local, Bound, InOrder, Holds, Ensures, Ends, Reviewing, Acting, Dealing
  <2> QED BY Zenon, <1>1, <1>2, <2>1, <2>2, <2>4, Quiet
<1>5. CASE ~Refused /\ WantsPatch /\ GoItem(w, "claim", "branch") /\ UNCHANGED told
  <2> DEFINE q == [p EXCEPT !.stage = "claim", !.item = "branch"]
  <2>1. Become(w, q) /\ Tells /\ attempts' \in 0 .. MaxAttempts
      BY Zenon, <1>1, <1>2, <1>5 DEF GoItem, Tells, Inv, TypeOK
  <2>2. /\ q \in Position /\ q.stage = "claim" /\ q.item = "branch" /\ q.digest = p.digest
        /\ q.body = p.body /\ q.patch = p.patch
      BY Zenon DEF Position, Stages, Items, Patch
  <2> HIDE DEF q
  <2>3. Local(q) /\ q.stage \notin Acting
      BY Zenon, <1>2, <1>5, <2>2 DEF Local, Bound, InOrder, Holds, Ensures, Ends, Reviewing, Acting, Patch
  <2> QED BY Zenon, <1>1, <1>2, <2>1, <2>2, <2>3, Quiet
<1> QED BY Zenon, <1>3, <1>4, <1>5 DEF Decide, Refused, PublisherRefuses

\* Where an acting worker of the patch may give up, the patch is settled.
LEMMA ActorSettled ==
    ASSUME Inv, NEW p \in Position, Local(p), p.stage \in Acting,
           \/ p.item \in {"branch", "commit", "pr"} /\ p.stage \in Unsent
           \/ p.item = "branch" /\ shown \notin {"absent", "base"}
           \/ p.item = "commit" /\ shown = "other"
           \/ p.item = "pr" /\ "pr" \in applied /\ "edit" \in meddled
    PROVE  Settled
<1>1. /\ shown # "absent" => ref # "absent"
      /\ shown \notin {"absent", "base"} \/ "commit" \in applied => ref \notin {"absent", "base"}
    BY Zenon DEF Inv, World, Forge
<1>2. p.stage \in Unsent => sent[p.item] = 0
    BY Zenon DEF Local, Holds
<1>3. CASE p.item = "branch"
  <2>1. sent["commit"] = 0 /\ sent["pr"] = 0
      BY Zenon, <1>3 DEF Local, Holds, Ahead
  <2> QED BY Zenon, <1>1, <1>2, <1>3, <2>1 DEF Settled
<1>4. CASE p.item = "commit"
  <2>1. sent["pr"] = 0 /\ shown # "absent"
      BY Zenon, <1>4 DEF Local, Holds, Ensures, Ahead
  <2> QED BY Zenon, <1>1, <1>2, <1>4, <2>1 DEF Settled
<1>5. CASE p.item = "pr"
  <2>1. "commit" \in applied
      BY Zenon, <1>5 DEF Local, Ensures
  <2> QED BY Zenon, <1>1, <1>2, <1>5, <2>1 DEF Settled
<1> QED BY Zenon, <1>3, <1>4, <1>5

LEMMA CheckBaseInv ==
    ASSUME Inv, NEW w \in Workers, CheckBase(w)
    PROVE  Inv'
<1>1. PICK p \in Position : p = pc[w]
    BY Zenon DEF Inv, TypeOK
<1>2. p.stage = "base" /\ Untouched /\ UNCHANGED <<attempts, told>> /\ Local(p)
    BY Zenon, <1>1 DEF CheckBase, At, Untouched, Inv, Locals
<1>3. p.stage \in Acting /\ p.stage \in Unsent /\ p.stage \in Dealing /\ {"failed", "unknown"} \subseteq Outcomes
      /\ "failed" # "succeeded" /\ "unknown" # "succeeded" /\ "unknown" # "failed"
    BY Zenon, <1>2 DEF Acting, Unsent, Dealing, Outcomes
<1>4. CASE Go(w, "probe")
    BY Zenon, <1>1, <1>2, <1>3, <1>4, ActorGoes
<1>5. CASE End(w, "failed")
  <2>1. p.item \in Patch => Settled
      BY Zenon, <1>2, <1>3, ActorSettled DEF Local, Bound
  <2> QED BY Zenon, <1>1, <1>2, <1>3, <1>5, <2>1, ActorEnds
<1>6. CASE End(w, "unknown")
    BY Zenon, <1>1, <1>2, <1>3, <1>6, ActorEnds
<1> QED BY Zenon, <1>4, <1>5, <1>6 DEF CheckBase

LEMMA WriteObjectsInv ==
    ASSUME Inv, NEW w \in Workers, WriteObjects(w)
    PROVE  Inv'
<1>1. PICK p \in Position : p = pc[w]
    BY Zenon DEF Inv, TypeOK
<1>2. p.stage = "objects" /\ Untouched /\ UNCHANGED <<attempts, told>>
    BY Zenon, <1>1 DEF WriteObjects, At, Untouched
<1>3. p.stage \in Acting /\ p.stage \in Unsent /\ "unknown" \in Outcomes
      /\ "unknown" # "succeeded" /\ "unknown" # "failed"
    BY Zenon, <1>2 DEF Acting, Unsent, Outcomes
<1>4. CASE Go(w, "send")
    BY Zenon, <1>1, <1>2, <1>3, <1>4, ActorGoes
<1>5. CASE End(w, "unknown")
    BY Zenon, <1>1, <1>2, <1>3, <1>5, ActorEnds
<1> QED BY Zenon, <1>4, <1>5 DEF WriteObjects

LEMMA ReadTargetInv ==
    ASSUME Inv, NEW w \in Workers, ReadTarget(w)
    PROVE  Inv'
<1>1. PICK p \in Position : p = pc[w]
    BY Zenon DEF Inv, TypeOK
<1>2. Local(p) /\ p.stage = "target" /\ Untouched /\ UNCHANGED attempts
    BY Zenon, <1>1 DEF Inv, Locals, ReadTarget, At, Untouched
<1> DEFINE d == p.digest[1]
<1>0. d \in Digests /\ p.digest \in Digested
    BY Zenon, <1>2, Named DEF Local, Bound
<1>3. CASE \E y \in {"succeeded", "unknown"} : Answer(w, p.patch, y) /\ (y = "succeeded" => Plan(d) = {})
  <2>1. PICK y \in {"succeeded", "unknown"} : Answer(w, p.patch, y) /\ (y = "succeeded" => Plan(d) = {})
      BY Zenon, <1>3
  <2>2. p.patch \in {"skipped", "succeeded"} /\ (p.patch = "succeeded" => outcome["publish"] = "succeeded")
      BY Zenon, <1>2 DEF Local, Bound, Position
  <2>3. p.patch \in States /\ y \in States
      BY Zenon, <2>1, <2>2 DEF States, Outcomes
  <2>4. Recorded([digest |-> p.digest, patch |-> p.patch, findings |-> y])
      BY Zenon, <1>0, <2>1, <2>2 DEF Recorded
  <2> QED BY Zenon, <1>1, <1>2, <2>1, <2>3, <2>4, AnswerInv
<1>4. CASE /\ ref # "absent" /\ Plan(d) # {} /\ UNCHANGED told
           /\ Become(w, [pc[w] EXCEPT !.stage = "claim", !.item = First(d), !.head = ref])
  <2> DEFINE q == [p EXCEPT !.stage = "claim", !.item = First(d), !.head = ref]
  <2>1. Become(w, q) /\ Tells /\ attempts' \in 0 .. MaxAttempts
      BY Zenon, <1>1, <1>2, <1>4 DEF Tells, Inv, TypeOK
  <2>2. First(d) \in Plan(d) /\ First(d) \in Items /\ First(d) \notin Patch
        /\ (First(d) \in Reviews => First(d) = Lead) /\ \A k \in Plan(d) : ~(Place(k) < Place(First(d)))
      BY Zenon, <1>0, <1>4, FirstInPlan, PlanItems
  <2>3. /\ q \in Position /\ q.stage = "claim" /\ q.item = First(d) /\ q.digest = p.digest /\ q.head = ref
        /\ q.body = p.body /\ q.patch = p.patch
      BY Zenon, <2>2 DEF Position, Stages, Inv, TypeOK
  <2> HIDE DEF q
  <2>4. Bound(q)
      BY Zenon, <1>2, <2>2, <2>3 DEF Local, Bound
  <2>5. InOrder(q)
      BY Zenon, <1>4, <2>2, <2>3 DEF InOrder
  <2>6. q.stage \notin Acting /\ q.stage # "record"
      BY Zenon, <2>3 DEF Acting
  <2>7. Local(q)
      BY Zenon, <2>4, <2>5, <2>6 DEF Local, Holds, Ensures, Ends
  <2> QED BY Zenon, <1>1, <1>2, <2>1, <2>3, <2>6, <2>7, Quiet
<1> QED BY Zenon, <1>1, <1>3, <1>4 DEF ReadTarget

\* What an acting worker may conclude from what it sees.
LEMMA Sights ==
    ASSUME Inv, NEW p \in Position, Local(p), p.stage \in Acting
    PROVE  /\ p.item = "commit" /\ shown = "patch" => "commit" \in applied
           /\ p.item = "pr" /\ pr # "absent" => "pr" \in applied
           /\ p.item = "pr" /\ pr \notin {"absent", "ours"} => "edit" \in meddled
           /\ p.item \in Digests /\ section = p.item => p.item \in applied
           /\ p.item \in Range(Findings) /\ review[p.item] = p.head => p.item \in applied
<1>1. p.item \in Patch => WantsPatch
    BY Zenon DEF Local, Bound, Acting, Dealing
<1>2. {"commit", "pr"} \subseteq Patch
    BY Zenon DEF Patch
<1>3. shown = "patch" /\ WantsPatch => "commit" \in applied
    BY Zenon DEF Inv, World, Forge
<1>4. /\ pr \in PullRequests
      /\ pr = "edited" => "edit" \in meddled
      /\ pr = "foreign" => ~WantsPatch
      /\ pr \in {"ours", "edited"} => "pr" \in applied
    BY Zenon DEF Inv, TypeOK, World, Forge, Body
<1>5. p.item \in Range(Findings) => p.head # "absent"
    BY Zenon, Keyed DEF Local, InOrder, Reviewing, Acting, Dealing
<1>6. /\ section \in Digests => section \in applied
      /\ \A f \in Range(Findings) : review[f] # "absent" => f \in applied
    BY Zenon DEF Inv, World, Forge
<1> QED BY Zenon, <1>1, <1>2, <1>3, <1>4, <1>5, <1>6 DEF PullRequests

LEMMA ItemCases ==
    /\ \A i \in Items : i \in {"branch", "commit", "pr", "labels"} \/ i \in Digests \/ i \in Range(Findings)
    /\ \A i \in Digests : i \notin {"branch", "commit", "pr", "labels"}
    /\ \A i \in Range(Findings) : i \notin {"branch", "commit", "pr", "labels"} /\ i \notin Digests
BY Zenon, Keyed DEF Items, Patch

LEMMA ProbeInv ==
    ASSUME Inv, NEW w \in Workers, Probe(w)
    PROVE  Inv'
<1>1. PICK p \in Position : p = pc[w]
    BY Zenon DEF Inv, TypeOK
<1>2. p.stage = "probe" /\ Untouched /\ UNCHANGED <<attempts, told>> /\ Local(p)
    BY Zenon, <1>1 DEF Probe, At, Untouched, Inv, Locals
<1>3. p.stage \in Acting /\ p.stage \in Unsent /\ {"failed", "unknown"} \subseteq Outcomes
      /\ "failed" # "succeeded" /\ "unknown" # "succeeded" /\ "unknown" # "failed"
    BY Zenon, <1>2 DEF Acting, Unsent, Outcomes
<1>4. p.item \in {"branch", "commit", "pr", "labels"} \/ p.item \in Digests \/ p.item \in Range(Findings)
    BY Zenon, ItemCases DEF Position
<1>5. /\ \A i \in Digests : i \notin {"branch", "commit", "pr", "labels"}
      /\ \A i \in Range(Findings) : i \notin {"branch", "commit", "pr", "labels"} /\ i \notin Digests
    BY Zenon, ItemCases
<1>6. CASE Seen(p.item, p.head) = "there" /\ Ensured(w)
  <2>1. Present(p)
      BY Zenon, <1>2, <1>3, <1>4, <1>5, <1>6, Sights
         DEF Present, Patch, Seen, SeenBranch, SeenCommit, SeenPullRequest, SeenLabels, SeenSection, SeenReview,
             Inv, TypeOK
  <2> QED BY Zenon, <1>1, <1>2, <1>3, <1>6, <2>1, ActorEnsures
<1>7. CASE (Seen(p.item, p.head) = "conflict" \/ MayRefuse(p.item)) /\ End(w, "failed")
  <2>1. p.item # "labels"
      BY Zenon, <1>5, <1>7 DEF Seen, SeenLabels, MayRefuse
  <2>2. p.item \in Patch => Settled
      BY Zenon, <1>2, <1>3, <2>1, ActorSettled DEF Patch
  <2> QED BY Zenon, <1>1, <1>2, <1>3, <1>7, <2>2, ActorEnds
<1>8. CASE End(w, "unknown")
    BY Zenon, <1>1, <1>2, <1>3, <1>8, ActorEnds
<1>9. ASSUME NEW s \in {"objects", "send"}, Become(w, [p EXCEPT !.stage = s, !.body = pr]) PROVE Inv'
  <2> DEFINE q == [p EXCEPT !.stage = s, !.body = pr]
  <2>1. Become(w, q) /\ s \in Unsent /\ s \in Acting /\ s # "answered" /\ s # "record" /\ Body(pr)
      BY Zenon, <1>9 DEF Unsent, Acting, Inv, World, Forge
  <2>2. /\ q \in Position /\ q.stage = s /\ q.item = p.item /\ q.digest = p.digest /\ q.head = p.head
        /\ q.body = pr /\ q.patch = p.patch
      BY Zenon, <1>9 DEF Position, Stages, Inv, TypeOK
  <2> HIDE DEF q
  <2>3. Local(q)
      BY Zenon, <1>2, <1>3, <2>1, <2>2, StaysLocal
  <2> QED BY Zenon, <1>1, <1>2, <1>3, <2>1, <2>2, <2>3, ActorMoves
<1> QED BY Zenon, <1>1, <1>6, <1>7, <1>8, <1>9 DEF Probe

LEMMA ProveInv ==
    ASSUME Inv, NEW w \in Workers, Prove(w)
    PROVE  Inv'
<1>1. PICK p \in Position : p = pc[w]
    BY Zenon DEF Inv, TypeOK
<1>2. p.stage \in {"answered", "refused", "lost"} /\ Untouched /\ UNCHANGED <<attempts, told>> /\ Local(p)
    BY Zenon, <1>1 DEF Prove, Untouched, Inv, Locals
<1>3. p.stage \in Acting /\ {"failed", "unknown"} \subseteq Outcomes
      /\ "failed" # "succeeded" /\ "unknown" # "succeeded" /\ "unknown" # "failed"
    BY Zenon, <1>2 DEF Acting, Outcomes
<1>4. p.item \in {"branch", "commit", "pr", "labels"} \/ p.item \in Digests \/ p.item \in Range(Findings)
    BY Zenon, ItemCases DEF Position
<1>5. /\ \A i \in Digests : i \notin {"branch", "commit", "pr", "labels"}
      /\ \A i \in Range(Findings) : i \notin {"branch", "commit", "pr", "labels"} /\ i \notin Digests
    BY Zenon, ItemCases
<1>6. CASE Proof(p.item, p.stage, p.head) = "there" /\ Ensured(w)
  <2>1. p.stage = "answered" => p.item \in applied
      BY Zenon, <1>2, <1>3 DEF Local, Ensures
  <2>2. Present(p)
      BY Zenon, <1>2, <1>3, <1>4, <1>5, <1>6, <2>1, Sights
         DEF Present, Patch, Proof, ProofOfBranch, ProofOfCommit, ProofOfPullRequest, ProofOfLabels,
             ProofOfSection, ProofOfReview
  <2> QED BY Zenon, <1>1, <1>2, <1>3, <1>6, <2>2, ActorEnsures
<1>7. CASE Proof(p.item, p.stage, p.head) = "conflict" /\ End(w, "failed")
  <2>1. p.item \in Patch =>
          \/ p.item = "branch" /\ shown \notin {"absent", "base"}
          \/ p.item = "commit" /\ shown = "other"
          \/ p.item = "pr" /\ pr \notin {"absent", "ours"}
      BY Zenon, <1>5, <1>7 DEF Patch, Proof, ProofOfBranch, ProofOfCommit, ProofOfPullRequest, ProofOfLabels
  <2>2. p.item \in Patch => Settled
      BY Zenon, <1>2, <1>3, <2>1, Sights, ActorSettled
  <2> QED BY Zenon, <1>1, <1>2, <1>3, <1>7, <2>2, ActorEnds
<1>8. CASE End(w, "unknown")
    BY Zenon, <1>1, <1>2, <1>3, <1>8, ActorEnds
<1> QED BY Zenon, <1>1, <1>6, <1>7, <1>8 DEF Prove

-----------------------------------------------------------------------------
(* Claims and records *)

\* The effect of position p's item ended as o, according to the ledger.
Truth(p, o) ==
    /\ o \in Outcomes
    /\ o = "succeeded" => outcome[KeyOf(p.item)] = "succeeded" /\ claims[KeyOf(p.item)] = Digest(p)
    /\ o = "failed" => /\ claims[KeyOf(p.item)] # <<>>
                       /\ p.item \in Patch =>
                            outcome[KeyOf(p.item)] = "failed" \/ claims[KeyOf(p.item)] # Digest(p)

\* A worker is done with its effect: it answers, or goes on to the findings.
Done(w) == \E q \in Position : Become(w, q) /\ Local(q)' /\ q.stage \notin Acting /\ Tells

LEMMA Answering ==
    ASSUME NEW w \in Workers, NEW p \in Position, p = pc[w], NEW x \in States, NEW y \in States, Answer(w, x, y),
           NEW a, a = [digest |-> p.digest, patch |-> x, findings |-> y], Recorded(a)'
    PROVE  Done(w)
<1>1. a \in Tellings
    BY Zenon DEF Tellings, Position
<1>2. Become(w, Idle) /\ Tells
    BY Zenon, <1>1 DEF Answer, Tells
<1>3. Idle \in Position /\ Idle.stage \notin Acting
    BY Zenon, Idles DEF Acting
<1>4. Local(Idle)'
    BY IdleLocal, PTL
<1> QED BY Zenon, <1>2, <1>3, <1>4 DEF Done

LEMMA FinishPatch ==
    ASSUME NEW w \in Workers, NEW p \in Position, p = pc[w], NEW o, p.stage \in Dealing, p.item \in Patch,
           Bound(p)', Truth(p, o)', UNCHANGED job, Finish(w, o)
    PROVE  Done(w)
<1>1. KeyOf(p.item) = "publish" /\ p.stage # "idle" /\ p.stage # "load" /\ o \in Outcomes
    BY Zenon DEF KeyOf, Dealing, Acting, Truth
<1>2. p.digest \in Digested /\ ~Refused' /\ Body(p.body)'
    BY Zenon, <1>1 DEF Bound
<1>3. Digest(p) = p.digest
    BY Zenon, <1>1, <1>2, Named DEF Digest
<1>4. /\ o = "succeeded" => outcome'["publish"] = "succeeded"
      /\ o = "failed" => outcome'["publish"] = "failed" \/ claims'["publish"] \notin {<<>>, p.digest}
    BY Zenon, <1>1, <1>3 DEF Truth, Digest
<1>5. CASE ToFindings(w, o) /\ o = "succeeded"
  <2> DEFINE q == [p EXCEPT !.stage = "target", !.patch = o]
  <2>1. Become(w, q) /\ Tells
      BY Zenon, <1>5 DEF ToFindings, Tells
  <2>2. /\ q \in Position /\ q.stage = "target" /\ q.digest = p.digest /\ q.body = p.body /\ q.patch = o
      BY Zenon, <1>5 DEF Position, Stages
  <2> HIDE DEF q
  <2>3. PatchFirst'
      BY Zenon, <1>4, <1>5 DEF PatchFirst
  <2>4. Bound(q)'
      BY Zenon, <1>2, <1>4, <1>5, <2>2, <2>3 DEF Bound, Reviewing, Dealing, Acting, Body
  <2>5. q.stage \notin Acting /\ q.stage \notin Dealing /\ q.stage # "record"
      BY Zenon, <2>2 DEF Acting, Dealing
  <2>6. Local(q)'
      BY Zenon, <2>4, <2>5 DEF Local, InOrder, Holds, Ensures, Ends, Reviewing
  <2> QED BY Zenon, <2>1, <2>2, <2>5, <2>6 DEF Done
<1>6. CASE Answer(w, o, "skipped")
  <2>1. PICK a : a = [digest |-> p.digest, patch |-> o, findings |-> "skipped"]
      BY Zenon
  <2>2. Recorded(a)'
      BY Zenon, <1>2, <1>4, <2>1 DEF Recorded
  <2>3. o \in States /\ "skipped" \in States
      BY Zenon, <1>1 DEF States
  <2> QED BY Zenon, <1>6, <2>1, <2>2, <2>3, Answering
<1>7. p.item \notin Digests /\ p.item \notin Range(Findings)
    BY Zenon, Keyed
<1> QED BY Zenon, <1>1, <1>5, <1>6, <1>7 DEF Finish

LEMMA FinishFinding ==
    ASSUME NEW w \in Workers, NEW p \in Position, p = pc[w], NEW o, p.stage \in Dealing, p.item \notin Patch,
           Bound(p)', InOrder(p)', Truth(p, o)', UNCHANGED job, Finish(w, o)
    PROVE  Done(w)
<1>1. p.item \in Items /\ KeyOf(p.item) = p.item /\ KeyOf(p.item) # "publish" /\ p.stage \notin {"idle", "load"}
      /\ o \in Outcomes
    BY Keyed DEF Position, Dealing, Acting, Truth
<1> DEFINE d == p.digest[1]
<1>0. d \in Digests /\ p.digest \in Digested
    BY Zenon, <1>1, Named DEF Bound
<1>2. Plan(d)' = Plan(d) /\ Reviews' = Reviews /\ Lead' = Lead
    BY Zenon DEF Plan, Reviews, Lead, Following, ReviewsAfter
<1>3. p.item \in Plan(d) /\ p.head # "absent"
      /\ (p.item \in Reviews /\ p.item # Lead => claims'[Lead] = <<d, p.head>>)
      /\ \A k \in Plan(d) : Place(k) < Place(p.item) => outcome'[k] = "succeeded"
    BY Zenon, <1>2 DEF InOrder, Reviewing
<1>4. p.patch \in {"skipped", "succeeded"} /\ (p.patch = "succeeded" => outcome'["publish"] = "succeeded")
    BY Zenon DEF Bound, Position
<1>5. p.patch \in States /\ o \in States /\ "unknown" \in States /\ "succeeded" \in States
    BY Zenon, <1>1, <1>4 DEF States, Outcomes
<1>6. CASE Answer(w, p.patch, "unknown")
  <2>1. PICK a : a = [digest |-> p.digest, patch |-> p.patch, findings |-> "unknown"]
      BY Zenon
  <2>2. Recorded(a)'
      BY Zenon, <1>0, <1>4, <2>1 DEF Recorded
  <2> QED BY Zenon, <1>5, <1>6, <2>1, <2>2, Answering
<1>7. CASE Answer(w, p.patch, o) /\ o # "succeeded" /\ p.item \in Range(Findings)
  <2>1. PICK a : a = [digest |-> p.digest, patch |-> p.patch, findings |-> o]
      BY Zenon
  <2>2. p.item \in Reviews
      BY Zenon, <1>0, <1>3, <1>7, PlanPlaces, Keyed
  <2>3. o = "failed" => claims'[p.item] # <<>>
      BY Zenon, <1>1 DEF Truth
  <2>4. Recorded(a)'
      BY Zenon, <1>0, <1>2, <1>4, <1>7, <2>1, <2>2, <2>3 DEF Recorded
  <2> QED BY Zenon, <1>5, <1>7, <2>1, <2>4, Answering
<1>8. CASE NextFinding(w, p.item) /\ o = "succeeded"
  <2>1. outcome'[p.item] = "succeeded" /\ claims'[p.item] = <<d, p.head>>
      BY Zenon, <1>1, <1>8 DEF Truth, Digest
  <2>2. CASE ReviewsAfter(Place(p.item)) = {}
    <3>1. PICK a : a = [digest |-> p.digest, patch |-> p.patch, findings |-> "succeeded"]
        BY Zenon
    <3>2. \A k \in Plan(d) : outcome'[k] = "succeeded"
        BY Zenon, <1>0, <1>3, <2>1, <2>2, LastInPlan
    <3>3. Recorded(a)'
        BY Zenon, <1>0, <1>2, <1>4, <3>1, <3>2 DEF Recorded
    <3> QED BY Zenon, <1>5, <1>8, <2>2, <3>1, <3>3, Answering DEF NextFinding
  <2>3. CASE ReviewsAfter(Place(p.item)) # {}
    <3>1. PICK i : i = Following(Place(p.item))
        BY Zenon
    <3>2. i \in Reviews /\ \A k \in Plan(d) : Place(k) < Place(i) => k = p.item \/ Place(k) < Place(p.item)
        BY Zenon, <1>0, <1>3, <2>3, <3>1, NextInPlan
    <3>3. i \in Plan(d) /\ i \in Items /\ i \notin Patch
        BY Zenon, <1>0, <3>2, PlanItems DEF Plan
    <3> DEFINE q == [p EXCEPT !.stage = "claim", !.item = i]
    <3>4. Become(w, q) /\ Tells
        BY Zenon, <1>8, <2>3, <3>1 DEF NextFinding, GoItem, Tells
    <3>5. /\ q \in Position /\ q.stage = "claim" /\ q.item = i /\ q.digest = p.digest
          /\ q.head = p.head /\ q.body = p.body /\ q.patch = p.patch
        BY Zenon, <3>3 DEF Position, Stages
    <3> HIDE DEF q
    <3>6. Bound(q)'
        BY Zenon, <1>1, <3>3, <3>5 DEF Bound, Reviewing
    <3>7. InOrder(q)'
      <4>1. p.item \in Reviews \/ i = Lead
          BY Zenon, <1>0, <1>3, <3>1, PlanPlaces DEF Lead
      <4>2. i # Lead => claims'[Lead] = <<d, p.head>>
          BY Zenon, <1>3, <2>1, <4>1
      <4> QED BY Zenon, <1>2, <1>3, <2>1, <3>2, <3>3, <3>5, <4>2 DEF InOrder
    <3>8. q.stage \notin Acting /\ q.stage # "record"
        BY Zenon, <3>5 DEF Acting
    <3>9. Local(q)'
        BY Zenon, <3>6, <3>7, <3>8 DEF Local, Holds, Ensures, Ends
    <3> QED BY Zenon, <3>4, <3>5, <3>8, <3>9 DEF Done
  <2> QED BY Zenon, <2>2, <2>3
<1>9. p.item \in Digests \/ p.item \in Range(Findings)
    BY Zenon, <1>1 DEF Items
<1> QED BY Zenon, <1>1, <1>6, <1>7, <1>8, <1>9 DEF Finish

OnlyLedger == UNCHANGED <<job, forge, late, attempts, meddled, sent, applied>>

LEMMA LedgerTypes ==
    ASSUME TypeOK, OnlyLedger, Tells, claims' \in [Keys -> Claimed], outcome' \in [Keys -> Outcomes \cup {"none"}],
           NEW w \in Workers, NEW q \in Position, Become(w, q)
    PROVE  TypeOK'
<1>1. told' \subseteq Tellings
    BY Zenon DEF Tells, TypeOK, Tellings
<1> QED BY Zenon, <1>1, Moves DEF TypeOK, OnlyLedger, forge, Tellings

LEMMA DoneInv ==
    ASSUME Inv, OnlyLedger, World', Grows,
           claims' \in [Keys -> Claimed], outcome' \in [Keys -> Outcomes \cup {"none"}],
           NEW w \in Workers, \A v \in Workers \ {w} : Spared(pc[v]), Done(w)
    PROVE  Inv'
<1>1. PICK q \in Position : Become(w, q) /\ Local(q)' /\ q.stage \notin Acting /\ Tells
    BY Zenon DEF Done
<1>2. TypeOK'
    BY Zenon, <1>1, LedgerTypes DEF Inv
<1> QED BY Zenon, <1>1, <1>2, Assemble

LEMMA FinishInv ==
    ASSUME Inv, OnlyLedger, World', Grows,
           claims' \in [Keys -> Claimed], outcome' \in [Keys -> Outcomes \cup {"none"}],
           NEW w \in Workers, \A v \in Workers \ {w} : Spared(pc[v]),
           NEW p \in Position, p = pc[w], p.stage \in Dealing, NEW o, Truth(p, o)', Finish(w, o)
    PROVE  Inv'
<1>1. Bound(p)' /\ InOrder(p)' /\ UNCHANGED job
    BY Zenon, BoundKept, InOrderKept DEF Inv, Locals, Local, OnlyLedger
<1>2. Done(w)
    BY Zenon, <1>1, FinishPatch, FinishFinding
<1> QED BY Zenon, <1>2, DoneInv

\* A worker about to claim claims its key, or nothing, and others keep theirs.
LEMMA Claims ==
    ASSUME Inv, NEW p \in Position, Local(p), p.stage = "claim", OnlyLedger, UNCHANGED outcome,
           NEW k, k = KeyOf(p.item),
           \/ UNCHANGED claims
           \/ claims[k] = <<>> /\ claims' = [claims EXCEPT ![k] = Digest(p)]
    PROVE  World' /\ Grows /\ claims' \in [Keys -> Claimed]
<1> USE DEF OnlyLedger, forge
<1>1. CASE UNCHANGED claims
  <2>1. Untouched
      BY Zenon, <1>1 DEF Untouched, ledger
  <2>2. World'
      BY Zenon, <2>1, SameWorld DEF Inv
  <2> QED BY Zenon, <1>1, <2>2 DEF Grows, Onward, Inv, TypeOK
<1>2. CASE claims[k] = <<>> /\ claims' = [claims EXCEPT ![k] = Digest(p)]
  <2>1. k \in Keys /\ p.stage \in Dealing /\ p.stage \notin {"idle", "load"}
      BY Zenon, Keyed DEF Position, Dealing
  <2>2. p.digest[1] \in Digests /\ p.head \in Commits /\ ~Refused
      BY Zenon, <2>1, Named DEF Local, Bound, Position
  <2>3. Digest(p) \in Claimed /\ Digest(p) # <<>>
      BY <2>2 DEF Digest, Claimed
  <2>4. claims'[k] = Digest(p) /\ (\A j \in Keys : j # k => claims'[j] = claims[j]) /\ claims' \in [Keys -> Claimed]
      BY Zenon, <1>2, <2>1, <2>3 DEF Inv, TypeOK
  <2>5. \A j \in Keys : claims[j] # <<>> => claims'[j] = claims[j]
      BY Zenon, <1>2, <2>4
  <2>6. Grows
      BY Zenon, <2>5 DEF Grows, Onward
  <2>7. WantsPatch' = WantsPatch /\ Refused' = Refused /\ Reviews' = Reviews /\ Lead' = Lead
      BY Zenon DEF WantsPatch, Refused, Reviews, Lead, Following, ReviewsAfter
  <2>8. Unclaimed' /\ Counted' /\ Silent'
      BY Zenon, <2>2, <2>3, <2>4, <2>7 DEF Inv, World, Unclaimed, Counted, Silent, KeyOf
  <2>9. Forge'
      BY Zenon, <2>7 DEF Inv, World, Forge, Body
  <2>10. SuccessIsOnTheForge' /\ FailureIsSettled' /\ FindingsFollowPatch'
      BY Zenon DEF Inv, World, SuccessIsOnTheForge, FailureIsSettled, Settled, FindingsFollowPatch
  <2>11. Heads'
    <3>1. \A f \in Range(Findings) : f \in Keys
        BY Zenon DEF Keys
    <3>2. ASSUME k \in Range(Findings)
          PROVE  /\ k \in Reviews /\ claims'[k] = <<p.digest[1], p.head>>
                 /\ k # Lead => claims[Lead] = <<p.digest[1], p.head>>
      <4>1. p.item \notin Patch /\ k = p.item /\ KeyOf(p.item) # "publish" /\ k \notin Digests
          BY Zenon, <3>2, Keyed DEF KeyOf
      <4>2. k \in Plan(p.digest[1]) /\ (k \in Reviews /\ k # Lead => claims[Lead] = <<p.digest[1], p.head>>)
          BY Zenon, <2>1, <4>1 DEF Local, InOrder, Reviewing
      <4>3. k \in Reviews
          BY Zenon, <2>2, <4>1, <4>2, PlanPlaces
      <4>4. claims'[k] = <<p.digest[1], p.head>>
          BY Zenon, <2>4, <4>1 DEF Digest
      <4> QED BY Zenon, <4>2, <4>3, <4>4
    <3>3. ASSUME NEW f \in Range(Findings), claims'[f] # <<>>
          PROVE  f \in Reviews /\ claims'[Lead] # <<>> /\ claims'[f][2] = claims'[Lead][2]
      <4>1. CASE f = k
        <5>1. CASE k = Lead
            BY Zenon, <3>2, <3>3, <4>1, <5>1
        <5>2. CASE k # Lead
          <6>1. Lead \in Keys
              BY Zenon, <3>2, <3>3, <4>1, LeadIsReview
          <6>2. claims'[Lead] = <<p.digest[1], p.head>>
              BY Zenon, <2>4, <3>2, <3>3, <4>1, <5>2, <6>1
          <6> QED BY Zenon, <3>2, <3>3, <4>1, <6>2
        <5> QED BY Zenon, <5>1, <5>2
      <4>2. CASE f # k
        <5>1. claims[f] # <<>> /\ claims'[f] = claims[f]
            BY Zenon, <2>4, <3>1, <3>3, <4>2
        <5>2. f \in Reviews /\ claims[Lead] # <<>> /\ claims[f][2] = claims[Lead][2]
            BY Zenon, <3>3, <5>1 DEF Inv, World, Heads
        <5>3. Lead \in Keys
            BY Zenon, <5>2, LeadIsReview
        <5> QED BY Zenon, <2>5, <5>1, <5>2, <5>3
      <4> QED BY Zenon, <4>1, <4>2
    <3> QED BY Zenon, <2>5, <2>7, <3>1, <3>3 DEF Inv, World, Heads
  <2> QED BY Zenon, <2>4, <2>6, <2>8, <2>9, <2>10, <2>11 DEF World
<1> QED BY Zenon, <1>1, <1>2

LEMMA ClaimInv ==
    ASSUME Inv, NEW w \in Workers, Claim(w)
    PROVE  Inv'
<1>1. PICK p \in Position : p = pc[w]
    BY Zenon DEF Inv, TypeOK
<1>2. PICK k \in Keys : k = KeyOf(p.item)
    BY Zenon, Keyed DEF Position
<1>3. Local(p) /\ p.stage = "claim" /\ p.stage \in Dealing /\ OnlyLedger /\ UNCHANGED outcome /\ \A r : Spared(r)
    BY Zenon, <1>1 DEF Inv, Locals, Claim, At, Dealing, OnlyLedger, Spared
<1>4. Digest(p) # <<>> /\ RequestDigest(w) = Digest(p)
    BY Zenon, <1>1 DEF Digest, RequestDigest
<1>5. outcome' \in [Keys -> Outcomes \cup {"none"}] /\ outcome[k] \in Outcomes \cup {"none"}
    BY Zenon, <1>3 DEF Inv, TypeOK
<1>6. UNCHANGED claims \/ (claims[k] = <<>> /\ claims' = [claims EXCEPT ![k] = Digest(p)])
    BY Zenon, <1>1, <1>2, <1>4 DEF Claim
<1>7. World' /\ Grows /\ claims' \in [Keys -> Claimed]
    BY Zenon, <1>2, <1>3, <1>6, Claims
<1>8. CASE claims[k] = <<>> /\ claims' = [claims EXCEPT ![k] = Digest(p)] /\ Begin(w) /\ UNCHANGED told
  <2> DEFINE q == [p EXCEPT !.stage = IF KeyOf(p.item) = "publish" THEN "base" ELSE "probe"]
  <2>1. PICK s \in {"base", "probe"} : s = IF KeyOf(p.item) = "publish" THEN "base" ELSE "probe"
      BY Zenon
  <2>2. s \in Stages /\ s \in Acting /\ s \in Dealing /\ s \notin {"idle", "load", "target", "claim", "record", "answered"}
      BY Zenon, <2>1 DEF Stages, Acting, Dealing
  <2>3. Become(w, q) /\ Tells
      BY Zenon, <1>1, <1>8 DEF Begin, Go, Tells
  <2>4. /\ q \in Position /\ q.stage = s /\ q.item = p.item /\ q.digest = p.digest
        /\ q.head = p.head /\ q.body = p.body /\ q.patch = p.patch
      BY <2>1, <2>2, Goes
  <2> HIDE DEF q
  <2>5. Bound(p)' /\ InOrder(p)'
      BY Zenon, <1>3, <1>7, BoundKept, InOrderKept DEF Local
  <2>6. Bound(q)' /\ InOrder(q)'
      BY Zenon, <1>3, <2>2, <2>4, <2>5 DEF Bound, InOrder, Reviewing
  <2>7. Holds(q)'
    <3>1. claims'[k] = Digest(p)
        BY Zenon, <1>2, <1>8 DEF Inv, TypeOK
    <3>2. outcome[k] = "none" /\ \A i \in Items : KeyOf(i) = k => sent[i] = 0
        BY Zenon, <1>8 DEF Inv, World, Unclaimed
    <3>3. p.item \in Items /\ \A i \in Ahead(p.item) : i \in Items /\ KeyOf(i) = k
        BY Zenon, <1>2 DEF Position, Ahead, KeyOf, Patch, Items
    <3> QED BY Zenon, <1>2, <1>3, <2>4, <3>1, <3>2, <3>3 DEF Holds, Digest, OnlyLedger
  <2>8. Ensures(q)' /\ Ends(q)'
    <3>1. p.item \notin {"commit", "pr", "labels"}
        BY Zenon, <1>3 DEF Local, Bound, Patch
    <3> QED BY Zenon, <2>2, <2>4, <3>1 DEF Ensures, Ends
  <2>9. Local(q)'
      BY Zenon, <2>6, <2>7, <2>8 DEF Local
  <2>10. \A v \in Workers \ {w} : pc[v].stage \in Acting => KeyOf(pc[v].item) # KeyOf(q.item)
    <3> SUFFICES ASSUME NEW v \in Workers, pc[v].stage \in Acting, KeyOf(pc[v].item) = k PROVE FALSE
        BY Zenon, <1>2, <2>4
    <3>1. PICK r \in Position : r = pc[v]
        BY Zenon DEF Inv, TypeOK
    <3>2. claims[k] = Digest(r)
        BY Zenon, <3>1 DEF Inv, Locals, Local, Holds
    <3>3. Digest(r) # <<>>
        BY Zenon DEF Digest
    <3> QED BY Zenon, <1>8, <3>2, <3>3
  <2>11. TypeOK'
      BY Zenon, <1>3, <1>5, <1>7, <2>3, <2>4, LedgerTypes DEF Inv
  <2> QED BY Zenon, <1>3, <1>7, <2>3, <2>4, <2>9, <2>10, <2>11, Assemble
<1>9. CASE \E o : Finish(w, o) /\ Truth(p, o)'
    BY Zenon, <1>1, <1>3, <1>5, <1>7, <1>9, FinishInv
<1>10. CASE claims[k] \notin {<<>>, Digest(p)} /\ UNCHANGED claims /\ Finish(w, "failed")
  <2>1. Truth(p, "failed")'
      BY Zenon, <1>2, <1>10 DEF Truth, Outcomes, Digest
  <2> QED BY Zenon, <1>9, <1>10, <2>1
<1>14. CASE /\ k \in Range(Findings) /\ claims' = [claims EXCEPT ![k] = Digest(p)]
            /\ Finish(w, "failed")
  <2>1. claims'[k] # <<>> /\ p.item \notin Patch
      BY Zenon, <1>2, <1>4, <1>14, Keyed DEF Inv, TypeOK, KeyOf
  <2>2. Truth(p, "failed")'
      BY Zenon, <1>2, <2>1 DEF Truth, Outcomes
  <2> QED BY Zenon, <1>9, <1>14, <2>2
<1>11. CASE Finish(w, "unknown")
  <2>1. Truth(p, "unknown")'
      BY Zenon DEF Truth, Outcomes
  <2> QED BY Zenon, <1>9, <1>11, <2>1
<1>12. CASE \E o \in Outcomes : claims[k] = Digest(p) /\ UNCHANGED claims /\ o = outcome[k] /\ Finish(w, o)
  <2>1. PICK o \in Outcomes : claims[k] = Digest(p) /\ UNCHANGED claims /\ o = outcome[k] /\ Finish(w, o)
      BY Zenon, <1>12
  <2>2. Truth(p, o)'
      BY Zenon, <1>2, <1>3, <1>4, <2>1 DEF Truth, Digest
  <2> QED BY Zenon, <1>9, <2>1, <2>2
<1>13. Finish(w, IF outcome[k] = "none" THEN "unknown" ELSE outcome[k])
       => Finish(w, "unknown") \/ \E o \in Outcomes : o = outcome[k] /\ Finish(w, o)
    BY Zenon, <1>5
<1> QED BY Zenon, <1>1, <1>2, <1>4, <1>8, <1>10, <1>11, <1>12, <1>13, <1>14 DEF Claim

\* A step of a worker that changes nothing of other effects spares the others.
LEMMA SparesOthers ==
    ASSUME Inv, NEW w \in Workers, NEW p \in Position, p = pc[w], p.stage \in Acting,
           \A k \in Keys : k # KeyOf(p.item) => outcome'[k] = outcome[k],
           \A i \in Items : i # p.item => sent'[i] = sent[i]
    PROVE  \A v \in Workers \ {w} : Spared(pc[v])
<1> SUFFICES ASSUME NEW v \in Workers \ {w}, pc[v].stage \in Acting
             PROVE  Spared(pc[v])
    BY Zenon DEF Spared
<1>1. PICK r \in Position : r = pc[v]
    BY Zenon DEF Inv, TypeOK
<1>2. KeyOf(r.item) # KeyOf(p.item)
    BY Zenon, <1>1 DEF Inv, Sole
<1>3. r.item \in Items /\ KeyOf(r.item) \in Keys
    BY Zenon, Keyed DEF Position
<1>4. Spared(r)
    BY Zenon, <1>2, <1>3 DEF Spared
<1> QED BY Zenon, <1>1, <1>4

LEMMA RecordInv ==
    ASSUME Inv, NEW w \in Workers, Record(w)
    PROVE  Inv'
<1>1. PICK p \in Position : p = pc[w]
    BY Zenon DEF Inv, TypeOK
<1>2. PICK k \in Keys : k = KeyOf(p.item)
    BY Zenon, Keyed DEF Position
<1>3. Local(p) /\ p.stage = "record" /\ p.stage \in Acting /\ p.stage \in Dealing /\ OnlyLedger /\ UNCHANGED claims
    BY Zenon, <1>1 DEF Inv, Locals, Record, At, Dealing, Acting, OnlyLedger
<1>4. p.end \in Outcomes /\ claims[k] = Digest(p) /\ outcome[k] = "none"
    BY Zenon, <1>2, <1>3 DEF Local, Bound, Holds
<1>5. CASE UNCHANGED outcome /\ Finish(w, "unknown")
  <2>1. World' /\ Grows /\ \A r : Spared(r)
    <3>1. Untouched
        BY Zenon, <1>3, <1>5 DEF Untouched, OnlyLedger, ledger
    <3> QED BY Zenon, <1>3, <3>1, SameWorld DEF Inv, Untouched, forge, ledger, Grows, Onward, Spared
  <2>2. claims' \in [Keys -> Claimed] /\ outcome' \in [Keys -> Outcomes \cup {"none"}]
      BY Zenon, <1>3, <1>5 DEF Inv, TypeOK
  <2>3. Truth(p, "unknown")'
      BY Zenon DEF Truth, Outcomes
  <2> QED BY Zenon, <1>1, <1>3, <1>5, <2>1, <2>2, <2>3, FinishInv
<1>6. ASSUME outcome' = [outcome EXCEPT ![k] = p.end], NEW o \in {p.end, "unknown"}, Finish(w, o) PROVE Inv'
  <2>1. outcome'[k] = p.end /\ (\A j \in Keys : j # k => outcome'[j] = outcome[j])
        /\ outcome' \in [Keys -> Outcomes \cup {"none"}] /\ claims' \in [Keys -> Claimed]
      BY Zenon, <1>2, <1>3, <1>4, <1>6 DEF Inv, TypeOK
  <2>2. Grows
      BY Zenon, <1>3, <1>4, <2>1 DEF Grows, Onward, OnlyLedger, forge
  <2>3. \A v \in Workers \ {w} : Spared(pc[v])
      BY Zenon, <1>1, <1>2, <1>3, <2>1, SparesOthers DEF OnlyLedger
  <2>4. Truth(p, o)'
      BY <1>2, <1>3, <1>4, <1>6, <2>1 DEF Truth, Digest, Outcomes
  <2>5. World'
    <3> USE <1>3 DEF OnlyLedger, forge
    <3>1. WantsPatch' = WantsPatch /\ Refused' = Refused /\ Reviews' = Reviews /\ Lead' = Lead
        BY Zenon DEF WantsPatch, Refused, Reviews, Lead, Following, ReviewsAfter
    <3>2. Digest(p) # <<>>
        BY Zenon DEF Digest
    <3>3. Unclaimed' /\ Counted' /\ Silent'
        BY Zenon, <1>4, <2>1, <3>1, <3>2 DEF Inv, World, Unclaimed, Counted, Silent, KeyOf
    <3>4. Heads' /\ Forge'
        BY Zenon, <3>1 DEF Inv, World, Heads, Forge, Body
    <3>5. SuccessIsOnTheForge'
      <4>1. k = "publish" /\ p.end = "succeeded" => {"commit", "pr"} \subseteq applied
        <5> SUFFICES ASSUME p.item \in Patch, p.end = "succeeded" PROVE {"commit", "pr"} \subseteq applied
            BY Zenon, <1>2, Keyed DEF Position
        <5>1. p.item = "labels"
            BY Zenon DEF Local, Ends
        <5> QED BY Zenon, <5>1 DEF Local, Ensures
      <4>2. k # "publish" /\ p.end = "succeeded" => k \in applied
          BY Zenon, <1>2 DEF Local, Ends, KeyOf
      <4>3. "publish" \in Keys
          BY Zenon DEF Keys
      <4> QED BY Zenon, <2>1, <4>1, <4>2, <4>3 DEF Inv, World, SuccessIsOnTheForge
    <3>6. FailureIsSettled'
      <4>1. k = "publish" => p.item \in Patch
          BY Zenon, <1>2, Keyed DEF Position
      <4>2. Settled => Settled'
          BY Zenon DEF Settled
      <4> QED BY Zenon, <2>1, <4>1, <4>2 DEF Inv, World, FailureIsSettled, Local, Ends, Keys
    <3>7. FindingsFollowPatch'
        BY Zenon, <1>4, <2>1 DEF Inv, World, FindingsFollowPatch, Keys
    <3> QED BY Zenon, <3>3, <3>4, <3>5, <3>6, <3>7 DEF World
  <2> QED BY Zenon, <1>1, <1>3, <1>6, <2>1, <2>2, <2>3, <2>4, <2>5, FinishInv
<1> QED BY Zenon, <1>1, <1>2, <1>5, <1>6 DEF Record

-----------------------------------------------------------------------------
(* The forge *)

\* What the forge shows once it has performed a request that may be made.
LEMMA Performs ==
    ASSUME Inv, NEW i \in Items, NEW b \in PullRequests, NEW h \in Commits, Body(b), Accepts(i), Perform(i, b, h),
           UNCHANGED <<job, meddled>>
    PROVE  /\ ref' \in Commits /\ pr' \in PullRequests /\ labels' \in BOOLEAN /\ section' \in Sections
           /\ review' \in [Range(Findings) -> Commits] /\ applied' = applied \cup {i} /\ UNCHANGED <<base, shown>>
           /\ \A f \in Range(Findings) : review'[f] = IF f = i THEN h ELSE review[f]
           /\ Body(pr)' /\ \A x : Body(x) => Body(x)'
           /\ WantsPatch' /\ "patch" \in {ref', shown'} => "commit" \in applied'
           /\ section' \in Digests => section' \in applied'
           /\ \A f \in Range(Findings) : review'[f] # "absent" => f \in applied'
           /\ shown' # "absent" => ref' # "absent"
           /\ shown' \notin {"absent", "base"} \/ "commit" \in applied' => ref' \notin {"absent", "base"}
           /\ Onward
<1>1. \A d \in Digests : d \notin {"branch", "commit", "pr", "labels"}
    BY Zenon, ItemCases
<1>2. /\ ref' \in Commits /\ pr' \in PullRequests /\ labels' \in BOOLEAN /\ section' \in Sections
      /\ review' \in [Range(Findings) -> Commits] /\ applied' = applied \cup {i} /\ UNCHANGED <<base, shown>>
      /\ \A f \in Range(Findings) : review'[f] = IF f = i THEN h ELSE review[f]
    BY Zenon DEF Inv, TypeOK, Perform, Commits, PullRequests, Sections
<1>3. WantsPatch' <=> WantsPatch
    BY Zenon DEF WantsPatch
<1>4. \A x : Body(x) => Body(x)'
    BY Zenon, <1>2, <1>3 DEF Body
<1>5. Body(pr)'
  <2>1. PICK x : x = pr'
      BY Zenon
  <2>2. (i = "pr" /\ x = "ours") \/ x \in {b, pr}
      BY Zenon, <1>1, <2>1 DEF Perform
  <2>3. CASE i = "pr" /\ x = "ours"
      BY Zenon, <1>2, <2>1, <2>3 DEF Body
  <2>4. CASE x \in {b, pr}
    <3>1. Body(x)'
        BY Zenon, <1>4, <2>4 DEF Inv, World, Forge
    <3> QED BY Zenon, <2>1, <3>1 DEF Body
  <2> QED BY Zenon, <2>2, <2>3, <2>4
<1>6. (ref' = ref /\ i # "commit") \/ (ref = "absent" /\ ref' = "base" /\ i = "branch") \/ (ref' = "patch" /\ i = "commit")
    BY Zenon DEF Perform, Accepts
<1>7. section' = i \/ section' = section
    BY Zenon DEF Perform
<1>8. /\ WantsPatch' /\ "patch" \in {ref', shown'} => "commit" \in applied'
      /\ section' \in Digests => section' \in applied'
      /\ shown' # "absent" => ref' # "absent"
      /\ shown' \notin {"absent", "base"} \/ "commit" \in applied' => ref' \notin {"absent", "base"}
  <2>1. /\ WantsPatch /\ "patch" \in {ref, shown} => "commit" \in applied
        /\ section \in Digests => section \in applied
        /\ shown # "absent" => ref # "absent"
        /\ shown \notin {"absent", "base"} \/ "commit" \in applied => ref \notin {"absent", "base"}
      BY Zenon DEF Inv, World, Forge
  <2>2. shown' = shown /\ applied' = applied \cup {i}
      BY Zenon, <1>2
  <2>3. section' \in Digests => section' \in applied'
      BY Zenon, <1>7, <2>1, <2>2
  <2>4. CASE ref' = ref /\ i # "commit"
      BY Zenon, <1>3, <2>1, <2>2, <2>3, <2>4
  <2>5. CASE ref = "absent" /\ ref' = "base" /\ i = "branch"
      BY Zenon, <1>3, <2>1, <2>2, <2>3, <2>5
  <2>6. CASE ref' = "patch" /\ i = "commit"
      BY Zenon, <1>3, <2>1, <2>2, <2>3, <2>6
  <2> QED BY Zenon, <1>6, <2>4, <2>5, <2>6
<1>10. Onward
    BY Zenon, <1>6 DEF Onward
<1>9. \A f \in Range(Findings) : review'[f] # "absent" => f \in applied'
    BY Zenon, <1>2 DEF Inv, World, Forge
<1> QED BY Zenon, <1>2, <1>4, <1>5, <1>8, <1>9, <1>10

ForgeOK ==
    /\ base \in BOOLEAN /\ labels \in BOOLEAN /\ ref \in Commits /\ shown \in Commits /\ pr \in PullRequests
    /\ section \in Sections /\ review \in [Range(Findings) -> Commits]
    /\ late \subseteq [item : Items, body : PullRequests, head : Commits]
    /\ sent \in [Items -> Nat] /\ applied \subseteq Items

\* A request is made for an item whose effect is claimed: the first and only one.
LEMMA Requested ==
    ASSUME Inv, NEW i \in Items, NEW b \in PullRequests, NEW h \in Commits, NEW r, r = [item |-> i, body |-> b, head |-> h],
           claims[KeyOf(i)] # <<>>, i \in Range(Findings) => claims[i][2] = h, Body(b), i \notin Patch => PatchFirst,
           sent[i] = 0 => outcome[KeyOf(i)] = "none",
           sent' \in [Items -> Nat], sent'[i] = 1, \A j \in Items : j # i => sent'[j] = sent[j],
           UNCHANGED <<job, ledger, meddled>>,
           \/ Accepts(i) /\ Perform(i, b, h) /\ late' \subseteq late /\ \A x \in late' : x.item # i
           \/ UNCHANGED <<forge, applied>> /\ late' \subseteq late
           \/ UNCHANGED <<forge, applied>> /\ late' \subseteq late \cup {r} /\ sent[i] = 0
    PROVE  World' /\ Grows /\ ForgeOK'
<1>1. WantsPatch' = WantsPatch /\ Refused' = Refused /\ Reviews' = Reviews /\ Lead' = Lead
    BY Zenon DEF WantsPatch, Refused, Reviews, Lead, Following, ReviewsAfter
<1>2. /\ r.item = i /\ r.body = b /\ r.head = h /\ r \in [item : Items, body : PullRequests, head : Commits]
      /\ late' \subseteq late \cup {r}
    BY Zenon
<1>3. /\ ForgeOK'
      /\ applied \subseteq applied' /\ applied' \subseteq applied \cup {i} /\ UNCHANGED <<base, shown>>
      /\ \A f \in Range(Findings) : review'[f] = review[f] \/ (f = i /\ review'[f] = h)
      /\ Body(pr)' /\ \A x : Body(x) => Body(x)'
      /\ WantsPatch' /\ "patch" \in {ref', shown'} => "commit" \in applied'
      /\ section' \in Digests => section' \in applied'
      /\ \A f \in Range(Findings) : review'[f] # "absent" => f \in applied'
      /\ shown' # "absent" => ref' # "absent"
      /\ shown' \notin {"absent", "base"} \/ "commit" \in applied' => ref' \notin {"absent", "base"}
      /\ Onward
  <2>1. late' \subseteq [item : Items, body : PullRequests, head : Commits]
      BY Zenon, <1>2 DEF Inv, TypeOK
  <2>2. CASE Accepts(i) /\ Perform(i, b, h)
    <3>1. UNCHANGED <<job, meddled>>
        BY Zenon
    <3>2. /\ ref' \in Commits /\ pr' \in PullRequests /\ labels' \in BOOLEAN /\ section' \in Sections
          /\ review' \in [Range(Findings) -> Commits] /\ applied' = applied \cup {i} /\ UNCHANGED <<base, shown>>
        BY Zenon, <2>2, <3>1, Performs
    <3>3. ForgeOK'
        BY Zenon, <2>1, <3>2 DEF ForgeOK, Inv, TypeOK
    <3>4. \A f \in Range(Findings) : review'[f] = IF f = i THEN h ELSE review[f]
        BY Zenon, <2>2, <3>1, Performs
    <3>5. Body(pr)' /\ \A x : Body(x) => Body(x)'
        BY Zenon, <2>2, <3>1, Performs
    <3>6. /\ WantsPatch' /\ "patch" \in {ref', shown'} => "commit" \in applied'
          /\ section' \in Digests => section' \in applied'
          /\ \A f \in Range(Findings) : review'[f] # "absent" => f \in applied'
          /\ shown' # "absent" => ref' # "absent"
          /\ shown' \notin {"absent", "base"} \/ "commit" \in applied' => ref' \notin {"absent", "base"}
          /\ Onward
        BY Zenon, <2>2, <3>1, Performs
    <3> QED BY Zenon, <3>2, <3>3, <3>4, <3>5, <3>6
  <2>3. CASE UNCHANGED <<forge, applied>>
      BY Zenon, <1>1, <2>1, <2>3 DEF forge, ForgeOK, Inv, TypeOK, World, Forge, Body, Onward
  <2> QED BY Zenon, <2>2, <2>3
<1>4. Grows
    BY Zenon, <1>3 DEF Grows, ledger
<1>5. Unclaimed' /\ Silent'
    BY Zenon, <1>1 DEF Inv, World, Unclaimed, Silent, KeyOf, ledger
<1>6. Counted'
  <2>1. \A j \in Items : sent'[j] <= 1 /\ (sent[j] # 0 => sent'[j] # 0)
      BY DEF Inv, World, Counted
  <2>2. sent'[i] # 0
      OBVIOUS
  <2>3. \A x \in late : x.item \in Items /\ sent[x.item] # 0
      BY Zenon DEF Inv, TypeOK, World, Counted
  <2>4. \A x \in applied : x \in Items /\ sent[x] # 0
      BY Zenon DEF Inv, TypeOK, World, Counted
  <2>5. \A x \in late : x.item \notin applied /\ \A y \in late : x.item = y.item => x = y
      BY Zenon DEF Inv, World, Counted
  <2>6. ASSUME NEW x \in late' PROVE x.item \notin applied'
    <3>1. CASE late' \subseteq late /\ \A y \in late' : y.item # i
        BY Zenon, <1>3, <2>5, <2>6, <3>1
    <3>2. CASE applied' = applied /\ late' \subseteq late
        BY Zenon, <2>5, <2>6, <3>2
    <3>3. CASE applied' = applied /\ sent[i] = 0
        BY Zenon, <1>2, <2>4, <2>5, <2>6, <3>3
    <3> QED BY Zenon, <3>1, <3>2, <3>3
  <2>7. ASSUME NEW x \in late', NEW y \in late', x.item = y.item PROVE x = y
    <3>1. CASE late' \subseteq late
        BY Zenon, <2>5, <2>7, <3>1
    <3>2. CASE sent[i] = 0
      <4>1. \A z \in late : z.item # i
          BY Zenon, <2>3, <3>2
      <4> QED BY Zenon, <1>2, <2>5, <2>7, <4>1
    <3> QED BY Zenon, <1>2, <3>1, <3>2
  <2>8. \A x \in late' : sent'[x.item] # 0
      BY Zenon, <1>2, <2>1, <2>2, <2>3
  <2> QED BY Zenon, <1>3, <2>1, <2>2, <2>4, <2>6, <2>7, <2>8 DEF Counted
<1>7. Heads'
  <2>1. i \in Range(Findings) => claims[i] # <<>>
      BY Zenon, Keyed
  <2>2. UNCHANGED claims
      BY Zenon DEF ledger
  <2>3. \A f \in Range(Findings) :
          claims[f] # <<>> => f \in Reviews /\ claims[Lead] # <<>> /\ claims[f][2] = claims[Lead][2]
      BY Zenon DEF Inv, World, Heads
  <2>4. \A f \in Range(Findings) : review'[f] # "absent" => claims[f] # <<>> /\ review'[f] = claims[f][2]
      BY Zenon, <1>3, <2>1 DEF Inv, World, Heads
  <2>5. \A x \in late' : x.item \in Range(Findings) => claims[x.item] # <<>> /\ x.head = claims[x.item][2]
      BY Zenon, <1>2, <2>1 DEF Inv, World, Heads
  <2> QED BY Zenon, <1>1, <2>2, <2>3, <2>4, <2>5 DEF Heads
<1>8. Forge'
  <2>1. \A x \in late' : Body(x.body)'
      BY Zenon, <1>2, <1>3 DEF Inv, World, Forge
  <2> QED BY Zenon, <1>3, <2>1 DEF Forge
<1>9. SuccessIsOnTheForge' /\ FailureIsSettled'
  <2>1. outcome["publish"] = "failed" /\ Settled => Settled'
    <3>1. \A j \in {"branch", "commit", "pr"} : j \in Items /\ KeyOf(j) = "publish" /\ "none" # "failed"
        BY Zenon DEF Items, Patch, KeyOf
    <3>2. sent[i] # 0 => sent'[i] = sent[i]
        BY DEF Inv, TypeOK, World, Counted
    <3>3. outcome["publish"] = "failed" => \A j \in {"branch", "commit", "pr"} : sent'[j] = sent[j]
        BY Zenon, <3>1, <3>2
    <3> QED BY Zenon, <1>3, <3>3 DEF Settled, Onward
  <2> QED BY Zenon, <1>3, <2>1 DEF Inv, World, SuccessIsOnTheForge, FailureIsSettled, ledger
<1>10. FindingsFollowPatch'
  <2> SUFFICES ASSUME job.output = "both", NEW j \in Items \ Patch, sent'[j] > 0 PROVE outcome["publish"] = "succeeded"
      BY Zenon DEF FindingsFollowPatch, ledger
  <2>1. CASE j = i
      BY Zenon, <2>1 DEF PatchFirst
  <2>2. CASE j # i
    <3>1. sent[j] > 0
        BY Zenon, <2>2
    <3> QED BY Zenon, <3>1 DEF Inv, World, FindingsFollowPatch
  <2> QED BY Zenon, <2>1, <2>2
<1> QED BY Zenon, <1>3, <1>4, <1>5, <1>6, <1>7, <1>8, <1>9, <1>10 DEF World

LEMMA SendInv ==
    ASSUME Inv, NEW w \in Workers, Send(w)
    PROVE  Inv'
<1>1. PICK p \in Position : p = pc[w]
    BY Zenon DEF Inv, TypeOK
<1>2. PICK i \in Items : i = p.item
    BY Zenon DEF Position
<1>3. PICK r : r = [item |-> i, body |-> p.body, head |-> p.head]
    BY Zenon
<1>4. Local(p) /\ p.stage = "send" /\ p.stage \in Acting /\ p.stage \in Unsent /\ p.stage \in Dealing
    BY Zenon, <1>1 DEF Inv, Locals, Send, At, Dealing, Acting, Unsent
<1>5. /\ p.body \in PullRequests /\ p.head \in Commits /\ outcome[KeyOf(i)] = "none"
      /\ claims[KeyOf(i)] = Digest(p) /\ sent[i] = 0 /\ Body(p.body) /\ (i \notin Patch => PatchFirst)
    BY Zenon, <1>2, <1>4 DEF Position, Local, Holds, Bound, Reviewing
<1>6. claims[KeyOf(i)] # <<>> /\ (i \in Range(Findings) => claims[i][2] = p.head)
    BY <1>2, <1>5, Keyed DEF Digest
<1>7. sent' \in [Items -> Nat] /\ sent'[i] = 1 /\ (\A j \in Items : j # i => sent'[j] = sent[j])
      /\ UNCHANGED <<job, ledger, attempts, meddled, told>>
    BY <1>1, <1>2, <1>5 DEF Send, Inv, TypeOK
<1>8. \/ Accepts(i) /\ Perform(i, p.body, p.head) /\ late' \subseteq late /\ \A x \in late' : x.item # i
      \/ UNCHANGED <<forge, applied>> /\ late' \subseteq late
      \/ UNCHANGED <<forge, applied>> /\ late' \subseteq late \cup {r} /\ sent[i] = 0
  <2>1. \A x \in late : x.item # i
      BY Zenon, <1>5 DEF Inv, World, Counted
  <2> QED BY Zenon, <1>1, <1>2, <1>3, <1>5, <2>1 DEF Send
<1>9. World' /\ Grows /\ ForgeOK'
    BY Zenon, <1>3, <1>5, <1>6, <1>7, <1>8, Requested
<1>10. \E s \in {"answered", "refused", "lost"} : Go(w, s) /\ (s = "answered" => i \in applied')
    BY Zenon, <1>1, <1>2 DEF Send, Perform
<1>11. PICK s \in {"answered", "refused", "lost"} : Go(w, s) /\ (s = "answered" => i \in applied')
    BY Zenon, <1>10
<1>12. s \in Stages /\ s \in Acting /\ s \in Dealing /\ s \notin Unsent
       /\ s \notin {"idle", "load", "claim", "target", "record"}
    BY Zenon, <1>11 DEF Stages, Acting, Dealing, Unsent
<1> DEFINE q == [p EXCEPT !.stage = s]
<1>13. Become(w, q) /\ Tells
    BY Zenon, <1>1, <1>7, <1>11 DEF Go, Tells
<1>14. /\ q \in Position /\ q.stage = s /\ q.item = p.item /\ q.digest = p.digest
       /\ q.head = p.head /\ q.body = p.body /\ q.patch = p.patch
    BY <1>12, Goes
<1> HIDE DEF q
<1>15. Local(q)'
  <2>1. Bound(p)' /\ InOrder(p)'
      BY Zenon, <1>4, <1>9, BoundKept, InOrderKept DEF Local
  <2>2. Bound(q)' /\ InOrder(q)'
      BY Zenon, <1>4, <1>12, <1>14, <2>1 DEF Bound, InOrder, Reviewing
  <2>3. Holds(q)'
    <3>1. \A j \in Ahead(p.item) : j \in Items /\ j # i
        BY Zenon, <1>2, AheadKeys
    <3> QED BY Zenon, <1>2, <1>4, <1>7, <1>12, <1>14, <3>1 DEF Holds, Local, Digest, ledger
  <2>4. Ensures(q)'
      BY Zenon, <1>2, <1>4, <1>9, <1>11, <1>14 DEF Ensures, Local, Grows
  <2>5. Ends(q)'
      BY Zenon, <1>12, <1>14 DEF Ends
  <2> QED BY Zenon, <2>2, <2>3, <2>4, <2>5 DEF Local
<1>16. TypeOK'
    BY Zenon, <1>7, <1>9, <1>13, <1>14, Moves DEF Inv, TypeOK, ForgeOK, ledger
<1>17. \A v \in Workers \ {w} : Spared(pc[v])
    BY Zenon, <1>1, <1>2, <1>4, <1>7, SparesOthers DEF ledger
<1>18. \A v \in Workers \ {w} : pc[v].stage \in Acting => KeyOf(pc[v].item) # KeyOf(q.item)
    BY Zenon, <1>1, <1>4, <1>14 DEF Inv, Sole
<1> QED BY Zenon, <1>9, <1>13, <1>14, <1>15, <1>16, <1>17, <1>18, Assemble

LEMMA LateRequestInv ==
    ASSUME Inv, NEW r \in late, LateRequest(r)
    PROVE  Inv'
<1>1. /\ r \in [item : Items, body : PullRequests, head : Commits]
      /\ sent[r.item] # 0 /\ Body(r.body) /\ \A i \in Items : sent[i] <= 1 /\ sent[i] \in Nat
    BY Zenon DEF Inv, TypeOK, World, Counted, Forge
<1>2. PICK i \in Items, b \in PullRequests, h \in Commits : r = [item |-> i, body |-> b, head |-> h]
    BY Zenon, <1>1
<1>3. r.item = i /\ r.body = b /\ r.head = h
    BY Zenon, <1>2
<1>4. sent[i] = 1
    BY <1>1, <1>3
<1>5. claims[KeyOf(i)] # <<>>
    BY Zenon, <1>1, <1>3, Keyed DEF Inv, World, Unclaimed
<1>6. i \in Range(Findings) => claims[i][2] = h
    BY Zenon, <1>3 DEF Inv, World, Heads
<1>7. i \notin Patch => PatchFirst
    BY <1>4 DEF Inv, World, FindingsFollowPatch, PatchFirst
<1>8. UNCHANGED <<job, ledger, pc, attempts, meddled, sent, told>>
    BY Zenon DEF LateRequest
<1>9. \/ Accepts(i) /\ Perform(i, b, h) /\ late' \subseteq late /\ \A x \in late' : x.item # i
      \/ UNCHANGED <<forge, applied>> /\ late' \subseteq late
    BY Zenon, <1>3 DEF LateRequest, Inv, World, Counted
<1>10. World' /\ Grows /\ ForgeOK'
  <2>1. sent' \in [Items -> Nat] /\ sent'[i] = 1 /\ (\A j \in Items : j # i => sent'[j] = sent[j]) /\ Body(b)
      BY Zenon, <1>1, <1>3, <1>4, <1>8 DEF Inv, TypeOK
  <2>2. UNCHANGED <<job, ledger, meddled>>
      BY Zenon, <1>8
  <2>3. sent[i] # 0
      BY Zenon, <1>1, <1>3
  <2> QED BY Zenon, <1>2, <1>5, <1>6, <1>7, <1>9, <2>1, <2>2, <2>3, Requested
<1>11. TypeOK'
    BY Zenon, <1>8, <1>10 DEF Inv, TypeOK, ForgeOK, ledger
<1> QED BY Zenon, <1>8, <1>10, <1>11, Outside DEF ledger

\* What the forge shows of the branch, the pull request and its section.
Shows ==
    /\ Body(pr)
    /\ WantsPatch /\ "patch" \in {ref, shown} => "commit" \in applied
    /\ section \in Digests => section \in applied
    /\ shown # "absent" => ref # "absent"
    /\ shown \notin {"absent", "base"} \/ "commit" \in applied => ref \notin {"absent", "base"}

LEMMA MeddlingInv ==
    ASSUME Inv, UNCHANGED <<job, review, late, ledger, pc, attempts, sent, applied, told>>,
           meddled \subseteq meddled', TypeOK', Shows', Onward, shown # "absent" => shown' # "absent"
    PROVE  Inv'
<1>1. Grows
    BY Zenon DEF Grows, ledger
<1>2. WantsPatch' = WantsPatch /\ Refused' = Refused /\ Reviews' = Reviews /\ Lead' = Lead
    BY Zenon DEF WantsPatch, Refused, Reviews, Lead, Following, ReviewsAfter
<1>3. Unclaimed' /\ Counted' /\ Silent' /\ Heads'
    BY Zenon, <1>2 DEF Inv, World, Unclaimed, Counted, Silent, Heads, KeyOf, ledger
<1>4. Forge'
  <2>1. \A r \in late' : Body(r.body)'
      BY Zenon, <1>2 DEF Inv, World, Forge, Body
  <2> QED BY Zenon, <2>1 DEF Inv, World, Forge, Shows
<1>5. SuccessIsOnTheForge' /\ FailureIsSettled' /\ FindingsFollowPatch'
    BY Zenon DEF Inv, World, SuccessIsOnTheForge, FailureIsSettled, Settled, Onward, FindingsFollowPatch, ledger
<1>6. World'
    BY Zenon, <1>3, <1>4, <1>5 DEF World
<1> QED BY Zenon, <1>1, <1>6, Outside DEF ledger

LEMMA OthersInv ==
    ASSUME Inv, CatchUp \/ Others
    PROVE  Inv'
<1>1. UNCHANGED <<job, review, late, ledger, pc, attempts, sent, applied, told>>
      /\ (WantsPatch' <=> WantsPatch)
    BY Zenon DEF CatchUp, Others, MoveBase, Push, EditPullRequest, EditSection, Relabel, Meddle, WantsPatch
<1>2. meddled \subseteq meddled' /\ meddled' \subseteq {"base", "push", "edit", "section", "labels"}
    BY Zenon DEF CatchUp, Others, MoveBase, Push, EditPullRequest, EditSection, Relabel, Meddle, Inv, TypeOK
<1>3. Shows
    BY Zenon DEF Inv, World, Forge, Shows
<1>4. CASE CatchUp
  <2>1. TypeOK'
      BY Zenon, <1>1, <1>4 DEF Inv, TypeOK, CatchUp, ledger
  <2>2. Shows' /\ Onward /\ (shown # "absent" => shown' # "absent")
      BY Zenon, <1>1, <1>3, <1>4 DEF Shows, Onward, CatchUp, Body
  <2> QED BY Zenon, <1>1, <1>2, <2>1, <2>2, MeddlingInv
<1>5. CASE MoveBase \/ Relabel
  <2>1. TypeOK'
      BY Zenon, <1>1, <1>2, <1>5 DEF Inv, TypeOK, MoveBase, Relabel, ledger
  <2>2. Shows' /\ Onward /\ (shown # "absent" => shown' # "absent")
      BY Zenon, <1>1, <1>2, <1>3, <1>5 DEF Shows, Onward, MoveBase, Relabel, Meddle, Body
  <2> QED BY Zenon, <1>1, <1>2, <2>1, <2>2, MeddlingInv
<1>6. CASE Push
  <2>1. TypeOK'
      BY Zenon, <1>1, <1>2, <1>6 DEF Inv, TypeOK, Push, ledger, Commits
  <2>2. Shows' /\ Onward /\ (shown # "absent" => shown' # "absent")
      BY Zenon, <1>1, <1>2, <1>3, <1>6 DEF Shows, Onward, Push, Meddle, Body
  <2> QED BY Zenon, <1>1, <1>2, <2>1, <2>2, MeddlingInv
<1>7. CASE EditPullRequest
  <2>1. TypeOK'
      BY Zenon, <1>1, <1>2, <1>7 DEF Inv, TypeOK, EditPullRequest, ledger, PullRequests
  <2>2. Shows' /\ Onward /\ (shown # "absent" => shown' # "absent")
      BY Zenon, <1>1, <1>2, <1>3, <1>7 DEF Shows, Onward, EditPullRequest, Meddle, Body
  <2> QED BY Zenon, <1>1, <1>2, <2>1, <2>2, MeddlingInv
<1>8. CASE EditSection
  <2>1. TypeOK'
      BY Zenon, <1>1, <1>2, <1>8 DEF Inv, TypeOK, EditSection, ledger, Sections
  <2>2. Shows' /\ Onward /\ (shown # "absent" => shown' # "absent")
      BY Zenon, <1>1, <1>2, <1>3, <1>8, FindingsAssumption DEF Shows, Onward, EditSection, Meddle, Body
  <2> QED BY Zenon, <1>1, <1>2, <2>1, <2>2, MeddlingInv
<1> QED BY Zenon, <1>4, <1>5, <1>6, <1>7, <1>8 DEF Others

-----------------------------------------------------------------------------
(* The theorems *)

LEMMA InvInit == Init => Inv
<1> SUFFICES ASSUME Init PROVE Inv
    BY Zenon
<1>1. TypeOK
  <2>1. attempts \in 0 .. MaxAttempts /\ sent \in [Items -> Nat]
      BY PublicationBounds DEF Init
  <2>2. job \in Jobs /\ base \in BOOLEAN /\ labels \in BOOLEAN /\ ref \in Commits /\ shown \in Commits
        /\ pr \in PullRequests /\ section \in Sections /\ review \in [Range(Findings) -> Commits]
      BY Zenon DEF Init, Commits, PullRequests, Sections
  <2>3. /\ claims \in [Keys -> Claimed] /\ outcome \in [Keys -> Outcomes \cup {"none"}]
        /\ pc \in [Workers -> Position]
      BY Zenon, Idles DEF Init, Claimed
  <2> QED BY Zenon, <2>1, <2>2, <2>3 DEF Init, TypeOK
<1>2. Unclaimed /\ Silent
    BY Zenon, Keyed DEF Init, Unclaimed, Silent
<1>3. Counted
    BY DEF Init, Counted
<1>4. Heads
  <2>1. \A f \in Range(Findings) : f \in Keys
      BY Zenon DEF Keys
  <2> QED BY Zenon, <2>1 DEF Init, Heads
<1>5. Forge
    BY Zenon, FindingsAssumption DEF Init, Forge, Body, WantsPatch
<1>6. "publish" \in Keys /\ \A k \in Keys : outcome[k] = "none"
    BY Zenon DEF Init, Keys
<1>7. SuccessIsOnTheForge /\ FailureIsSettled
    BY Zenon, <1>6 DEF SuccessIsOnTheForge, FailureIsSettled
<1>8. FindingsFollowPatch
    BY DEF Init, FindingsFollowPatch
<1>9. Sole /\ Locals
  <2>1. \A w \in Workers : pc[w] = Idle
      BY Zenon DEF Init
  <2>2. Idle.stage \notin Acting
      BY Zenon, Idles DEF Acting
  <2> QED BY Zenon, <2>1, <2>2, IdleLocal DEF Sole, Locals
<1>10. Answers
    BY Zenon DEF Init, Answers
<1> QED BY Zenon, <1>1, <1>2, <1>3, <1>4, <1>5, <1>7, <1>8, <1>9, <1>10 DEF Inv, World

LEMMA InvNext == Inv /\ [Next]_vars => Inv'
<1> SUFFICES ASSUME Inv, [Next]_vars PROVE Inv'
    BY Zenon
<1>1. ASSUME NEW w \in Workers, Worker(w) PROVE Inv'
    BY Zenon, <1>1, StartInv, RestingInv, DecideInv, ClaimInv, CheckBaseInv, RecordInv, ReadTargetInv, ProbeInv,
       WriteObjectsInv, SendInv, ProveInv DEF Worker
<1>2. CASE UNCHANGED vars
  <2>1. TypeOK'
      BY Zenon, <1>2 DEF vars, Inv, TypeOK
  <2>2. Shows' /\ Onward
      BY Zenon, <1>2 DEF vars, Inv, World, Forge, Shows, Onward, Body, WantsPatch
  <2> QED BY Zenon, <1>2, <2>1, <2>2, MeddlingInv DEF vars, ledger
<1> QED BY Zenon, <1>1, <1>2, LateRequestInv, OthersInv DEF Next

LEMMA Invariance == Spec => []Inv
BY InvInit, InvNext, PTL DEF Spec

(***************************************************************************)
(* Every variable of the publication stays in its range.                   *)
(***************************************************************************)
THEOREM TypesHold == Spec => []TypeOK
<1>1. Inv => TypeOK
    BY Zenon DEF Inv
<1> QED BY <1>1, Invariance, PTL

(***************************************************************************)
(* However many operators drive the run, whoever crashes and whatever      *)
(* answers are lost, the forge is asked at most once for the branch, the   *)
(* commit, the pull request, its labels, each review, and the section of   *)
(* each report: only the worker that was granted the claim of an effect    *)
(* sends its requests, in order, and a worker that looks again after a     *)
(* request never goes back to send it.                                     *)
(***************************************************************************)
THEOREM AskedOnce == Spec => []OneRequestPerItem
<1>1. Inv => OneRequestPerItem
    BY Zenon DEF Inv, World, Counted, OneRequestPerItem
<1> QED BY <1>1, Invariance, PTL

(***************************************************************************)
(* All reviews of a run are on one commit: the digest of every claim names *)
(* the head, a worker goes on to the next review only under the head of    *)
(* the first, and a review is made under the head that was claimed.        *)
(***************************************************************************)
THEOREM ReviewsAgree == Spec => []ReviewsShareHead
<1>1. Inv => ReviewsShareHead
  <2> SUFFICES ASSUME Inv, NEW f \in Range(Findings), NEW g \in Range(Findings),
                      review[f] # "absent", review[g] # "absent"
               PROVE  review[f] = review[g]
      BY Zenon DEF ReviewsShareHead
  <2> QED BY Zenon DEF Inv, World, Heads
<1> QED BY <1>1, Invariance, PTL

(***************************************************************************)
(* What the ledger records and the controller is told is true: a success   *)
(* is on the forge, a patch that failed cannot appear there any more,      *)
(* answers agree with the ledger for good, findings follow a proven patch, *)
(* and a rejected patch leaves no trace.                                   *)
(***************************************************************************)
THEOREM OutcomesHold == Spec => []OutcomesAreTrue
<1>1. Inv => OutcomesAreTrue
  <2> SUFFICES ASSUME Inv PROVE OutcomesAreTrue
      BY Zenon
  <2>1. AnswersAreRecorded
      BY Zenon DEF Inv, Answers, Recorded, AnswersAreRecorded
  <2>2. RejectedIsSilent
    <3> SUFFICES ASSUME Refused PROVE applied = {} /\ \A k \in Keys : claims[k] = <<>>
        BY Zenon DEF RejectedIsSilent, Refused
    <3>1. \A k \in Keys : claims[k] = <<>>
        BY Zenon DEF Inv, World, Silent
    <3>2. \A i \in Items : sent[i] = 0
        BY Zenon, <3>1, Keyed DEF Inv, World, Unclaimed
    <3>3. \A i \in applied : i \in Items /\ sent[i] # 0
        BY Zenon DEF Inv, TypeOK, World, Counted
    <3> QED BY Zenon, <3>1, <3>2, <3>3
  <2>3. FailureIsFinal
    <3> SUFFICES ASSUME outcome["publish"] = "failed" PROVE FailureIsFinal
        BY Zenon DEF FailureIsFinal
    <3>1. Settled /\ (\A i \in applied : sent[i] # 0) /\ \A r \in late : sent[r.item] # 0 /\ r.item \notin applied
        BY Zenon DEF Inv, World, FailureIsSettled, Counted
    <3>2. "pr" \in applied => "edit" \in meddled
        BY Zenon, <3>1 DEF Settled
    <3>3. ASSUME NEW r \in late, r.item \in {"branch", "commit", "pr"} PROVE ~Accepts(r.item)
        BY Zenon, <3>1, <3>3 DEF Settled, Accepts
    <3> QED BY Zenon, <3>2, <3>3 DEF FailureIsFinal
  <2> QED BY Zenon, <2>1, <2>2, <2>3 DEF Inv, World, OutcomesAreTrue
<1> QED BY <1>1, Invariance, PTL

-----------------------------------------------------------------------------
(* The promise the controller relies on *)

\* What one step may do to the effect of the patch.
EffectStep ==
    LET k == "publish"
        Same == claims'[k] = claims[k] /\ outcome'[k] = outcome[k]
        Still == "pr" \in applied' <=> "pr" \in applied
    IN  \/ Same /\ Still
        \/ claims[k] = <<>> /\ claims'[k] # <<>> /\ outcome[k] = "none" /\ outcome'[k] = "none" /\ Still
        \/ Same /\ claims[k] # <<>> /\ outcome[k] \in {"none", "unknown"} /\ "pr" \notin applied /\ "pr" \in applied'
        \/ /\ claims[k] # <<>> /\ claims'[k] = claims[k] /\ outcome[k] = "none" /\ outcome'[k] \in Outcomes /\ Still
           /\ outcome'[k] = "succeeded" => "pr" \in applied

LEMMA PatchKey ==
    /\ "publish" \in Keys /\ "pr" \in Items /\ "pr" \in Patch /\ KeyOf("pr") = "publish"
    /\ \A i \in Items : KeyOf(i) = "publish" => i \in Patch
BY Zenon, Keyed DEF Keys, Items, Patch, KeyOf

LEMMA ClaimStep ==
    ASSUME Inv, NEW w \in Workers, Claim(w)
    PROVE  EffectStep
<1>1. PICK k, d : k = KeyOf(pc[w].item) /\ d = RequestDigest(w)
    BY Zenon
<1>2. /\ UNCHANGED <<outcome, applied>>
      /\ claims' = claims \/ (claims[k] = <<>> /\ claims' = [claims EXCEPT ![k] = d])
    BY Zenon, <1>1 DEF Claim
<1>3. d # <<>>
    BY <1>1 DEF RequestDigest
<1>4. claims \in [Keys -> Claimed] /\ (claims["publish"] = <<>> => outcome["publish"] = "none")
    BY Zenon, PatchKey DEF Inv, TypeOK, World, Unclaimed
<1>5. CASE claims' = claims
    BY Zenon, <1>2, <1>5 DEF EffectStep
<1>6. CASE k = "publish" /\ claims[k] = <<>> /\ claims' = [claims EXCEPT ![k] = d]
  <2>1. claims'["publish"] = d
      BY Zenon, <1>4, <1>6, PatchKey
  <2> QED BY Zenon, <1>2, <1>3, <1>4, <1>6, <2>1 DEF EffectStep
<1>7. CASE k # "publish" /\ claims' = [claims EXCEPT ![k] = d]
  <2>1. claims'["publish"] = claims["publish"]
      BY Zenon, <1>4, <1>7, PatchKey
  <2> QED BY Zenon, <1>2, <2>1 DEF EffectStep
<1> QED BY Zenon, <1>2, <1>5, <1>6, <1>7

LEMMA RecordStep ==
    ASSUME Inv, NEW w \in Workers, Record(w)
    PROVE  EffectStep
<1>1. PICK p \in Position : p = pc[w]
    BY Zenon DEF Inv, TypeOK
<1>2. PICK k : k = KeyOf(p.item)
    BY Zenon
<1>3. UNCHANGED <<claims, applied>> /\ outcome' \in {outcome, [outcome EXCEPT ![k] = p.end]}
    BY Zenon, <1>1, <1>2 DEF Record
<1>4. Local(p) /\ p.stage = "record" /\ p.stage \in Acting /\ outcome \in [Keys -> Outcomes \cup {"none"}]
    BY Zenon, <1>1 DEF Inv, Locals, TypeOK, Record, At, Acting
<1>5. CASE outcome' = outcome
    BY Zenon, <1>3, <1>5 DEF EffectStep
<1>6. CASE k = "publish" /\ outcome' = [outcome EXCEPT ![k] = p.end]
  <2>1. outcome'["publish"] = p.end
      BY Zenon, <1>4, <1>6, PatchKey
  <2>2. claims["publish"] = Digest(p) /\ outcome["publish"] = "none" /\ p.end \in Outcomes
      BY Zenon, <1>2, <1>4, <1>6 DEF Local, Holds, Bound
  <2>3. Digest(p) # <<>>
      BY DEF Digest
  <2>4. p.item \in Patch
      BY Zenon, <1>2, <1>6, PatchKey DEF Position
  <2>5. p.end = "succeeded" => "pr" \in applied
      BY Zenon, <1>4, <2>4 DEF Local, Ends, Ensures
  <2> QED BY Zenon, <1>3, <2>1, <2>2, <2>3, <2>5 DEF EffectStep
<1>7. CASE k # "publish" /\ outcome' = [outcome EXCEPT ![k] = p.end]
  <2>1. outcome'["publish"] = outcome["publish"]
      BY Zenon, <1>4, <1>7, PatchKey
  <2> QED BY Zenon, <1>3, <2>1 DEF EffectStep
<1> QED BY Zenon, <1>3, <1>5, <1>6, <1>7

LEMMA SendStep ==
    ASSUME Inv, NEW w \in Workers, Send(w)
    PROVE  EffectStep
<1>1. PICK p \in Position : p = pc[w]
    BY Zenon DEF Inv, TypeOK
<1>2. UNCHANGED <<claims, outcome>> /\ (applied' = applied \/ applied' = applied \cup {p.item})
    BY Zenon, <1>1 DEF Send, Perform, ledger
<1>3. Local(p) /\ p.stage \in Acting /\ p.stage \in Unsent
    BY Zenon, <1>1 DEF Inv, Locals, Send, At, Acting, Unsent
<1>4. CASE p.item = "pr"
  <2>1. claims["publish"] = Digest(p) /\ outcome["publish"] = "none" /\ "pr" \notin applied
      BY Zenon, <1>3, <1>4, PatchKey DEF Local, Holds, Inv, World, Counted
  <2>2. Digest(p) # <<>>
      BY DEF Digest
  <2> QED BY Zenon, <1>2, <1>4, <2>1, <2>2 DEF EffectStep
<1>5. CASE p.item # "pr"
    BY Zenon, <1>2, <1>5 DEF EffectStep
<1> QED BY Zenon, <1>4, <1>5

LEMMA LateStep ==
    ASSUME Inv, NEW r \in late, LateRequest(r)
    PROVE  EffectStep
<1>1. UNCHANGED <<claims, outcome>> /\ (applied' = applied \/ applied' = applied \cup {r.item})
    BY Zenon DEF LateRequest, Perform, ledger
<1>2. CASE r.item = "pr" /\ "pr" \notin applied
  <2>1. sent["pr"] # 0 /\ claims["publish"] # <<>>
      BY Zenon, <1>2, PatchKey DEF Inv, World, Counted, Unclaimed
  <2>2. outcome["publish"] \notin {"succeeded", "failed"}
      BY Zenon, <1>2, <2>1 DEF Inv, World, SuccessIsOnTheForge, FailureIsSettled, Settled
  <2>3. outcome["publish"] \in {"none", "unknown"}
      BY Zenon, <2>2, PatchKey DEF Inv, TypeOK, Outcomes
  <2> QED BY Zenon, <1>1, <1>2, <2>1, <2>3 DEF EffectStep
<1>3. CASE r.item # "pr" \/ "pr" \in applied
    BY Zenon, <1>1, <1>3 DEF EffectStep
<1> QED BY Zenon, <1>2, <1>3

LEMMA EveryStep ==
    ASSUME Inv, [Next]_vars
    PROVE  EffectStep
<1>1. CASE UNCHANGED <<claims, outcome, applied>>
    BY Zenon, <1>1 DEF EffectStep
<1>2. ASSUME NEW w \in Workers,
             \/ \E d \in Digests : Start(w, d)
             \/ LoadFails(w) \/ Decide(w) \/ CheckBase(w) \/ ReadTarget(w) \/ Probe(w) \/ WriteObjects(w)
             \/ Prove(w) \/ Crash(w)
      PROVE  UNCHANGED <<claims, outcome, applied>>
    BY Zenon, <1>2 DEF Start, LoadFails, Decide, CheckBase, ReadTarget, Probe, WriteObjects, Prove, Crash, ledger
<1>3. CatchUp \/ Others \/ UNCHANGED vars => UNCHANGED <<claims, outcome, applied>>
    BY Zenon DEF CatchUp, Others, MoveBase, Push, EditPullRequest, EditSection, Relabel, Meddle, vars, ledger
<1>4. ASSUME NEW w \in Workers, Worker(w) PROVE EffectStep
    BY Zenon, <1>1, <1>2, <1>4, ClaimStep, RecordStep, SendStep DEF Worker
<1> QED BY Zenon, <1>1, <1>3, <1>4, LateStep DEF Next

(***************************************************************************)
(* The publication of a patch keeps the promise of a claimed effect, which *)
(* the controller relies on: the pull request is opened at most once and   *)
(* under a claim, success is recorded only of one that was opened, and     *)
(* after a recorded failure no request that is still under way opens one   *)
(* (Publisher.Publish, githubpublish.Client).                              *)
(***************************************************************************)
THEOREM EffectRefined == Spec => ImplementsEffect
<1>1. Init => Effect!Init
    BY PatchKey DEF Init, Effect!Init
<1>2. Inv /\ [Next]_vars => [Effect!Next]_(Effect!vars)
  <2> SUFFICES ASSUME Inv, [Next]_vars PROVE [Effect!Next]_(Effect!vars)
      BY Zenon
  <2>1. EffectStep
      BY Zenon, EveryStep
  <2> QED BY <2>1 DEF EffectStep, Outcomes, Effect!Next, Effect!Claim, Effect!Perform, Effect!Record, Effect!vars
<1> QED BY <1>1, <1>2, Invariance, PTL DEF Spec, ImplementsEffect, Effect!Spec
=============================================================================
