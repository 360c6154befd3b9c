---------------------------- MODULE BrokerBudget ----------------------------
(***************************************************************************)
(* Concurrent model requests keep to the token and cost budgets of the     *)
(* run: what is held for the requests being served is reserved.            *)
(***************************************************************************)
EXTENDS BrokerProofs, WellFoundedInduction

\* W gives every subset of S what its members hold together.
Adds(W, S, a) ==
    /\ W \in [SUBSET S -> Nat] /\ W[{}] = 0
    /\ \A T \in SUBSET S : \A c \in S \ T : W[T \cup {c}] = W[T] + a[c]

\* Members of S hold the same in a and b.
Agree(a, b, S) == \A d \in S : b[d] = a[d] /\ b[d] \in Nat

\* W without c, and with c holding n.
Without(W, S, c) == [T \in SUBSET (S \ {c}) |-> W[T]]
With(W, S, c, n) == [T \in SUBSET (S \cup {c}) |-> IF c \in T THEN W[T \ {c}] + n ELSE W[T]]

LEMMA AddsSame ==
    ASSUME NEW S, NEW a, NEW b, NEW W, Adds(W, S, a), Agree(a, b, S)
    PROVE  Adds(W, S, b)
BY Zenon DEF Adds, Agree

LEMMA AddsLess ==
    ASSUME NEW S, NEW a, NEW b, NEW W, Adds(W, S, a), NEW c \in S, Agree(a, b, S \ {c})
    PROVE  Adds(Without(W, S, c), S \ {c}, b)
<1> DEFINE R == S \ {c}
           V == [T \in SUBSET R |-> W[T]]
<1>1. \A T \in SUBSET R : T \in SUBSET S
    BY Zenon
<1>2. V \in [SUBSET R -> Nat]
    BY Zenon, <1>1 DEF Adds
<1>3. V[{}] = 0
    BY Zenon DEF Adds
<1>4. ASSUME NEW T \in SUBSET R, NEW d \in R \ T PROVE V[T \cup {d}] = V[T] + b[d]
  <2>1. T \cup {d} \in SUBSET R /\ d \in S \ T /\ d \in S \ {c}
      BY Zenon
  <2>2. W[T \cup {d}] = W[T] + a[d]
      BY Zenon, <1>1, <2>1 DEF Adds
  <2> QED BY Zenon, <2>1, <2>2 DEF Agree
<1> HIDE DEF V
<1>5. Adds(V, R, b)
    BY Zenon, <1>2, <1>3, <1>4 DEF Adds
<1> QED BY Zenon, <1>5 DEF V, Without

LEMMA WeightLess ==
    ASSUME NEW S, NEW a, NEW W, Adds(W, S, a), NEW c \in S
    PROVE  W[S] = Without(W, S, c)[S \ {c}] + a[c]
<1>1. S = (S \ {c}) \cup {c} /\ S \ {c} \in SUBSET S /\ c \in S \ (S \ {c})
    BY Zenon
<1>2. W[(S \ {c}) \cup {c}] = W[S \ {c}] + a[c]
    BY Zenon, <1>1 DEF Adds
<1>3. Without(W, S, c)[S \ {c}] = W[S \ {c}]
    BY Zenon DEF Without
<1> QED BY Zenon, <1>1, <1>2, <1>3

LEMMA AddsOne ==
    ASSUME NEW S, NEW a, NEW b, NEW W, Adds(W, S, a), NEW c, c \notin S, b[c] \in Nat,
           Agree(a, b, S)
    PROVE  Adds(With(W, S, c, b[c]), S \cup {c}, b)
<1> DEFINE R == S \cup {c}
           V == [T \in SUBSET R |-> IF c \in T THEN W[T \ {c}] + b[c] ELSE W[T]]
<1>1. ASSUME NEW T \in SUBSET R PROVE T \ {c} \in SUBSET S /\ (c \notin T => T \in SUBSET S)
    BY Zenon
<1>2. V \in [SUBSET R -> Nat]
    BY <1>1 DEF Adds
<1>3. V[{}] = 0
    BY Zenon DEF Adds
<1>4. ASSUME NEW T \in SUBSET R, NEW d \in R \ T PROVE V[T \cup {d}] = V[T] + b[d]
  <2>0. T \cup {d} \in SUBSET R
      BY Zenon
  <2>1. CASE d = c
    <3>1. (T \cup {d}) \ {c} = T /\ c \in T \cup {d} /\ c \notin T
        BY Zenon, <2>1
    <3> QED BY Zenon, <2>0, <2>1, <3>1
  <2>2. CASE d # c /\ c \in T
    <3>1. /\ (T \cup {d}) \ {c} = (T \ {c}) \cup {d} /\ d \in S \ (T \ {c}) /\ c \in T \cup {d}
          /\ T \ {c} \in SUBSET S
        BY Zenon, <2>2
    <3>2. W[(T \ {c}) \cup {d}] = W[T \ {c}] + b[d]
        BY Zenon, <3>1 DEF Adds, Agree
    <3>3. V[T \cup {d}] = W[(T \ {c}) \cup {d}] + b[c] /\ V[T] = W[T \ {c}] + b[c]
        BY Zenon, <2>0, <2>2, <3>1
    <3>4. W[T \ {c}] \in Nat /\ b[d] \in Int
        BY <3>1 DEF Adds, Agree
    <3> HIDE DEF V
    <3> QED BY <3>2, <3>3, <3>4
  <2>3. CASE d # c /\ c \notin T
    <3>1. T \in SUBSET S /\ d \in S \ T /\ c \notin T \cup {d}
        BY Zenon, <2>3
    <3>2. W[T \cup {d}] = W[T] + b[d]
        BY Zenon, <3>1 DEF Adds, Agree
    <3> QED BY Zenon, <2>0, <3>1, <3>2
  <2> QED BY Zenon, <2>1, <2>2, <2>3
<1> HIDE DEF V
<1>5. Adds(V, R, b)
    BY Zenon, <1>2, <1>3, <1>4 DEF Adds
<1> QED BY Zenon, <1>5 DEF V, With

LEMMA WeightMore ==
    ASSUME NEW S, NEW W, NEW c, c \notin S, NEW n
    PROVE  With(W, S, c, n)[S \cup {c}] = W[S] + n
<1>1. (S \cup {c}) \ {c} = S /\ c \in S \cup {c}
    BY Zenon
<1> QED BY Zenon, <1>1 DEF With

\* What MapThenSumSet makes of a function on the subsets of S: it takes the members out one
\* at a time, in some order.
Take(s) == CHOOSE x \in s : TRUE
Iterate(g, S, a) == [s \in SUBSET S |-> IF s = {} THEN 0 ELSE a[Take(s)] + g[s \ {Take(s)}]]

LEMMA Taken == \A s : s # {} => Take(s) \in s
BY Zenon DEF Take

LEMMA AddsIterates ==
    ASSUME NEW S, NEW a, \A d \in S : a[d] \in Nat, NEW W, Adds(W, S, a)
    PROVE  W = Iterate(W, S, a)
<1>1. ASSUME NEW s \in SUBSET S, s # {} PROVE W[s] = a[Take(s)] + W[s \ {Take(s)}]
  <2>1. PICK x : x = Take(s)
      BY Zenon
  <2>2. x \in s /\ x \in S
      BY Zenon, <1>1, <2>1, Taken
  <2>3. s \ {x} \in SUBSET S /\ x \in S \ (s \ {x}) /\ (s \ {x}) \cup {x} = s
      BY Zenon, <2>2
  <2>4. W[(s \ {x}) \cup {x}] = W[s \ {x}] + a[x]
      BY Zenon, <2>3 DEF Adds
  <2>5. W[s \ {x}] \in Nat /\ a[x] \in Nat
      BY Zenon, <2>2, <2>3 DEF Adds
  <2>6. W[s] = W[s \ {x}] + a[x]
      BY Zenon, <2>3, <2>4
  <2>7. \A m, n \in Nat : m + n = n + m
      OBVIOUS
  <2> QED BY Zenon, <2>1, <2>5, <2>6, <2>7
<1>2. W = [s \in SUBSET S |-> W[s]]
    BY Zenon DEF Adds
<1>3. W[{}] = 0
    BY Zenon DEF Adds
<1> QED BY Zenon, <1>1, <1>2, <1>3 DEF Iterate

LEMMA IterateUnique ==
    ASSUME NEW S, IsFiniteSet(S), NEW a, NEW W, W = Iterate(W, S, a), NEW g, g = Iterate(g, S, a)
    PROVE  g[S] = W[S]
<1> DEFINE Bad == {s \in SUBSET S : g[s] # W[s]}
<1>1. SUFFICES ASSUME Bad # {} PROVE FALSE
  <2>1. S \in SUBSET S
      BY Zenon
  <2> QED BY Zenon, <2>1
<1>2. IsWellFoundedOn(StrictSubsetOrdering(S), SUBSET S)
    BY Zenon, FS_StrictSubsetOrderingWellFounded, FS_FiniteSubsetsOfFinite
<1>3. PICK s \in Bad : \A t \in Bad : ~(<<t, s>> \in StrictSubsetOrdering(S))
    BY Zenon, <1>1, <1>2, WFMin
<1>4. ASSUME NEW t \in SUBSET S, t \subseteq s, t # s PROVE g[t] = W[t]
    BY Zenon, <1>3, <1>4 DEF StrictSubsetOrdering
<1>5. CASE s = {}
  <2>1. g[s] = 0 /\ W[s] = 0
      BY Zenon, <1>5 DEF Iterate
  <2> QED BY Zenon, <2>1
<1>6. CASE s # {}
  <2>1. PICK x : x = Take(s)
      BY Zenon
  <2>2. g[s \ {x}] = W[s \ {x}]
    <3>1. s \ {x} \in SUBSET S /\ s \ {x} \subseteq s /\ s \ {x} # s
        BY Zenon, <1>6, <2>1, Taken
    <3> QED BY Zenon, <1>4, <3>1
  <2>3. g[s] = a[x] + g[s \ {x}] /\ W[s] = a[x] + W[s \ {x}]
      BY Zenon, <1>6, <2>1 DEF Iterate
  <2> QED BY Zenon, <2>2, <2>3
<1> QED BY Zenon, <1>5, <1>6

\* What the members of S hold together is at most n.
Covered(S, a, n) == \E W : Adds(W, S, a) /\ W[S] <= n

LEMMA CoveredSame ==
    ASSUME NEW S, NEW a, NEW b, NEW n, Covered(S, a, n), Agree(a, b, S)
    PROVE  Covered(S, b, n)
BY Zenon, AddsSame DEF Covered

LEMMA CoveredMore ==
    ASSUME NEW S, NEW a, NEW b, NEW n \in Nat, Covered(S, a, n), Agree(a, b, S),
           NEW c, c \notin S, b[c] \in Nat
    PROVE  Covered(S \cup {c}, b, n + b[c])
<1>1. PICK W : Adds(W, S, a) /\ W[S] <= n
    BY Zenon DEF Covered
<1>2. PICK V : V = With(W, S, c, b[c])
    BY Zenon
<1>3. Adds(V, S \cup {c}, b)
    BY Zenon, <1>1, <1>2, AddsOne
<1>4. V[S \cup {c}] = W[S] + b[c]
    BY <1>2, WeightMore
<1>5. W[S] \in Nat
    BY Zenon, <1>1 DEF Adds
<1>6. V[S \cup {c}] <= n + b[c]
    BY <1>1, <1>4, <1>5
<1> QED BY Zenon, <1>3, <1>6 DEF Covered

LEMMA CoveredOne ==
    ASSUME NEW S, NEW a, NEW n \in Nat, Covered(S, a, n), NEW c \in S, a[c] \in Nat
    PROVE  a[c] <= n
<1>1. PICK W : Adds(W, S, a) /\ W[S] <= n
    BY Zenon DEF Covered
<1>2. PICK V : V = Without(W, S, c)
    BY Zenon
<1>3. W[S] = V[S \ {c}] + a[c]
    BY <1>1, <1>2, WeightLess
<1>4. V[S \ {c}] \in Nat
    BY Zenon, <1>1, <1>2 DEF Without, Adds
<1> QED BY <1>1, <1>3, <1>4

LEMMA CoveredLess ==
    ASSUME NEW S, NEW a, NEW b, NEW n \in Nat, Covered(S, a, n), NEW c \in S, a[c] \in Nat,
           Agree(a, b, S \ {c})
    PROVE  Covered(S \ {c}, b, n - a[c])
<1>1. PICK W : Adds(W, S, a) /\ W[S] <= n
    BY Zenon DEF Covered
<1>2. PICK V : V = Without(W, S, c)
    BY Zenon
<1>3. Adds(V, S \ {c}, b)
    BY Zenon, <1>1, <1>2, AddsLess
<1>4. W[S] = V[S \ {c}] + a[c]
    BY <1>1, <1>2, WeightLess
<1>5. V[S \ {c}] \in Nat
    BY Zenon, <1>3 DEF Adds
<1>6. V[S \ {c}] <= n - a[c]
    BY <1>1, <1>4, <1>5
<1> QED BY Zenon, <1>3, <1>6 DEF Covered

LEMMA CoveredRise ==
    ASSUME NEW S, NEW a, NEW n \in Nat, NEW m \in Nat, Covered(S, a, n), n <= m
    PROVE  Covered(S, a, m)
<1>1. PICK W : Adds(W, S, a) /\ W[S] <= n
    BY Zenon DEF Covered
<1>2. W[S] \in Nat
    BY Zenon, <1>1 DEF Adds
<1>3. W[S] <= m
    BY <1>1, <1>2
<1> QED BY Zenon, <1>1, <1>3 DEF Covered

LEMMA CoveredNone ==
    ASSUME NEW a
    PROVE  Covered({}, a, 0)
<1> DEFINE W == [T \in SUBSET {} |-> 0]
<1>1. Adds(W, {}, a) /\ W[{}] <= 0
    BY DEF Adds
<1> QED BY Zenon, <1>1 DEF Covered

-----------------------------------------------------------------------------
(* What is held *)

tokens == [c \in Callers |-> req[c].input + req[c].output]
money  == [c \in Callers |-> EstimateCost(req[c].input, req[c].output)]

LEMMA AmountTypes ==
    ASSUME ReqTypes, NEW c \in Callers
    PROVE  /\ req[c].input \in Nat /\ req[c].output \in Nat
           /\ tokens[c] \in Nat /\ money[c] \in Nat
<1>1. req[c].input \in Nat /\ req[c].output \in Nat
    BY Zenon DEF ReqTypes, Request
<1>2. EstimateCost(req[c].input, req[c].output) \in Nat
    BY Zenon, <1>1, CostType
<1>3. money[c] = EstimateCost(req[c].input, req[c].output)
    BY Zenon DEF money
<1>4. tokens[c] = req[c].input + req[c].output
    BY Zenon DEF tokens
<1> QED BY <1>1, <1>2, <1>3, <1>4

AmountsTyped == \A c \in Callers : tokens[c] \in Nat /\ money[c] \in Nat

LEMMA AmountsAreTyped == ReqTypes => AmountsTyped
BY Zenon, AmountTypes DEF AmountsTyped

LEMMA ServingFinite == IsFiniteSet(Serving)
BY Zenon, BoundsAssumption, FS_Subset DEF Serving

LEMMA TokensHeld ==
    ASSUME ReqTypes, NEW W, Adds(W, Serving, tokens)
    PROVE  Held = W[Serving]
<1> DEFINE g == CHOOSE h : h = Iterate(h, Serving, tokens)
<1>1. W = Iterate(W, Serving, tokens)
    BY Zenon, AmountTypes, AddsIterates DEF Serving
<1>2. g = Iterate(g, Serving, tokens)
    BY Zenon, <1>1
<1>3. \A h : Iterate(h, Serving, tokens) =
        [s \in SUBSET Serving |-> IF s = {} THEN 0
           ELSE req[CHOOSE x \in s : TRUE].input + req[CHOOSE x \in s : TRUE].output
                + h[s \ {CHOOSE x \in s : TRUE}]]
  <2> SUFFICES ASSUME NEW h, NEW s \in SUBSET Serving, s # {}
               PROVE  tokens[Take(s)] = req[Take(s)].input + req[Take(s)].output
      BY DEF Iterate, Take
  <2>1. Take(s) \in Callers
      BY Zenon, Taken DEF Serving
  <2> QED BY Zenon, <2>1 DEF tokens
<1>4. Held = g[Serving]
    BY Zenon, <1>3 DEF Held, MapThenSumSet, MapThenFoldSet
<1> QED BY Zenon, <1>1, <1>2, <1>4, ServingFinite, IterateUnique

LEMMA MoneyHeld ==
    ASSUME ReqTypes, NEW W, Adds(W, Serving, money)
    PROVE  MapThenSumSet(LAMBDA c : EstimateCost(req[c].input, req[c].output), Serving) = W[Serving]
<1> DEFINE g == CHOOSE h : h = Iterate(h, Serving, money)
<1>1. W = Iterate(W, Serving, money)
    BY Zenon, AmountTypes, AddsIterates DEF Serving
<1>2. g = Iterate(g, Serving, money)
    BY Zenon, <1>1
<1>3. \A h : Iterate(h, Serving, money) =
        [s \in SUBSET Serving |-> IF s = {} THEN 0
           ELSE EstimateCost(req[CHOOSE x \in s : TRUE].input, req[CHOOSE x \in s : TRUE].output)
                + h[s \ {CHOOSE x \in s : TRUE}]]
  <2> SUFFICES ASSUME NEW h, NEW s \in SUBSET Serving, s # {}
               PROVE  money[Take(s)] = EstimateCost(req[Take(s)].input, req[Take(s)].output)
      BY DEF Iterate, Take
  <2>1. Take(s) \in Callers
      BY Zenon, Taken DEF Serving
  <2> QED BY Zenon, <2>1 DEF money
<1>4. MapThenSumSet(LAMBDA c : EstimateCost(req[c].input, req[c].output), Serving) = g[Serving]
    BY Zenon, <1>3 DEF MapThenSumSet, MapThenFoldSet
<1> QED BY <1>1, <1>2, <1>4, ServingFinite, IterateUnique

\* The requests being served hold no more than is reserved for them.
TokensReserved == Covered(Serving, tokens, budget.reserved)
MoneyReserved  == Covered(Serving, money, budget.reservedCost)

\* The inductive invariant of the model budget.
Reservations == TokensReserved /\ MoneyReserved /\ SpendWithinReservations

LEMMA ReservationsAreHeld == ReqTypes /\ TokensReserved /\ MoneyReserved => ReservationsHeld
<1> SUFFICES ASSUME ReqTypes, TokensReserved, MoneyReserved,
                    NEW V, Adds(V, Serving, tokens), V[Serving] <= budget.reserved,
                    NEW W, Adds(W, Serving, money), W[Serving] <= budget.reservedCost
             PROVE  ReservationsHeld
    BY Zenon DEF TokensReserved, MoneyReserved, Covered
<1>1. Held = V[Serving]
    BY Zenon, TokensHeld
<1>2. MapThenSumSet(LAMBDA c : EstimateCost(req[c].input, req[c].output), Serving) = W[Serving]
    BY Zenon, MoneyHeld
<1>4. \A m, n : m <= n <=> n >= m
    BY Zenon
<1> QED BY Zenon, <1>1, <1>2, <1>4 DEF ReservationsHeld

\* The request of c is not a model request before or after, and the other requests and the
\* model budget are left alone.
LEMMA SameServing ==
    ASSUME Reservations, ReqTypes, NEW c \in Callers, req[c].at # "model", req'[c].at # "model",
           \A d \in Callers \ {c} : req'[d] = req[d],
           budget'.reserved = budget.reserved, budget'.reservedCost = budget.reservedCost,
           budget'.tokens = budget.tokens, budget'.cost = budget.cost, overrun' = overrun
    PROVE  Reservations'
<1>1. Serving' = Serving
    BY Zenon DEF Serving
<1>2. AmountsTyped
    BY Zenon, AmountsAreTyped
<1>3. Agree(tokens, tokens', Serving)
    BY Zenon, <1>2 DEF Serving, tokens, Agree, AmountsTyped
<1>4. Agree(money, money', Serving)
    BY Zenon, <1>2 DEF Serving, money, Agree, AmountsTyped
<1>5. TokensReserved'
  <2>1. Covered(Serving, tokens', budget.reserved)
      BY Zenon, <1>3, CoveredSame DEF Reservations, TokensReserved
  <2> QED BY Zenon, <1>1, <2>1 DEF TokensReserved
<1>6. MoneyReserved'
  <2>1. Covered(Serving, money', budget.reservedCost)
      BY Zenon, <1>4, CoveredSame DEF Reservations, MoneyReserved
  <2> QED BY Zenon, <1>1, <2>1 DEF MoneyReserved
<1>7. SpendWithinReservations'
    BY Zenon DEF Reservations, SpendWithinReservations
<1> QED BY Zenon, <1>5, <1>6, <1>7 DEF Reservations

\* A request is admitted with what is reserved for it.
LEMMA MoreServing ==
    ASSUME Reservations, ReqTypes, ReqTypes', BudgetTypes, NEW c \in Callers,
           req[c].at # "model", req'[c].at = "model", \A d \in Callers \ {c} : req'[d] = req[d],
           budget'.reserved = budget.reserved + tokens'[c],
           budget'.reservedCost = budget.reservedCost + money'[c]
    PROVE  TokensReserved' /\ MoneyReserved'
<1>1. Serving' = Serving \cup {c} /\ c \notin Serving
    BY Zenon DEF Serving
<1>2. AmountsTyped /\ AmountsTyped'
    BY AmountsAreTyped, PTL
<1>3. Agree(tokens, tokens', Serving) /\ tokens'[c] \in Nat
    BY Zenon, <1>2 DEF Serving, tokens, Agree, AmountsTyped
<1>4. Agree(money, money', Serving) /\ money'[c] \in Nat
    BY Zenon, <1>2 DEF Serving, money, Agree, AmountsTyped
<1>5. budget.reserved \in Nat /\ budget.reservedCost \in Nat
    BY Zenon DEF BudgetTypes
<1>6. TokensReserved'
  <2>1. Covered(Serving \cup {c}, tokens', budget.reserved + tokens'[c])
      BY Zenon, <1>1, <1>3, <1>5, CoveredMore DEF Reservations, TokensReserved
  <2> QED BY Zenon, <1>1, <2>1 DEF TokensReserved
<1>7. MoneyReserved'
  <2>1. Covered(Serving \cup {c}, money', budget.reservedCost + money'[c])
      BY Zenon, <1>1, <1>4, <1>5, CoveredMore DEF Reservations, MoneyReserved
  <2> QED BY Zenon, <1>1, <2>1 DEF MoneyReserved
<1> QED BY Zenon, <1>6, <1>7

\* A request ends and gives back what it holds, which is reserved.
LEMMA LessServing ==
    ASSUME Reservations, ReqTypes, BudgetTypes, NEW c \in Callers,
           req[c].at = "model", req'[c].at # "model", \A d \in Callers \ {c} : req'[d] = req[d],
           budget'.reserved = Release(c).reserved, budget'.reservedCost = Release(c).reservedCost
    PROVE  /\ tokens[c] <= budget.reserved /\ budget'.reserved = budget.reserved - tokens[c]
           /\ money[c] <= budget.reservedCost /\ budget'.reservedCost = budget.reservedCost - money[c]
           /\ TokensReserved' /\ MoneyReserved'
<1>1. Serving' = Serving \ {c} /\ c \in Serving
    BY Zenon DEF Serving
<1>2. AmountsTyped
    BY Zenon, AmountsAreTyped
<1>3. Agree(tokens, tokens', Serving \ {c}) /\ tokens[c] \in Nat
    BY Zenon, <1>2 DEF Serving, tokens, Agree, AmountsTyped
<1>4. Agree(money, money', Serving \ {c}) /\ money[c] \in Nat
    BY Zenon, <1>2 DEF Serving, money, Agree, AmountsTyped
<1>5. budget.reserved \in Nat /\ budget.reservedCost \in Nat
    BY Zenon DEF BudgetTypes
<1>6. tokens[c] <= budget.reserved
    BY Zenon, <1>1, <1>3, <1>5, CoveredOne DEF Reservations, TokensReserved
<1>7. money[c] <= budget.reservedCost
    BY Zenon, <1>1, <1>4, <1>5, CoveredOne DEF Reservations, MoneyReserved
<1>8. /\ Release(c).reserved = Less(budget.reserved, tokens[c])
      /\ Release(c).reservedCost = Less(budget.reservedCost, money[c])
    BY Zenon DEF Release, BudgetTypes, tokens, money
<1>9. /\ budget'.reserved = budget.reserved - tokens[c]
      /\ budget'.reservedCost = budget.reservedCost - money[c]
    BY Zenon, <1>3, <1>4, <1>5, <1>6, <1>7, <1>8 DEF Less
<1>a. TokensReserved'
  <2>1. Covered(Serving \ {c}, tokens', budget.reserved - tokens[c])
      BY Zenon, <1>1, <1>3, <1>5, CoveredLess DEF Reservations, TokensReserved
  <2> QED BY Zenon, <1>1, <1>9, <2>1 DEF TokensReserved
<1>b. MoneyReserved'
  <2>1. Covered(Serving \ {c}, money', budget.reservedCost - money[c])
      BY Zenon, <1>1, <1>4, <1>5, CoveredLess DEF Reservations, MoneyReserved
  <2> QED BY Zenon, <1>1, <1>9, <2>1 DEF MoneyReserved
<1> QED BY Zenon, <1>6, <1>7, <1>9, <1>a, <1>b

-----------------------------------------------------------------------------
(* Steps of tool calls *)

\* Caller c has no model request after the step, and the others have what they had.
Unserved(c) == req'[c].at # "model" /\ \A d \in Callers \ {c} : req'[d] = req[d]

LEMMA AnswerUnserved ==
    ASSUME ReqTypes, NEW c \in Callers, NEW a, Answer(c, a) \/ Refuse(c, a)
    PROVE  Unserved(c)
BY Zenon DEF Answer, Refuse, Idle, Unserved, ReqTypes

LEMMA GoUnserved ==
    ASSUME ReqTypes, NEW c \in Callers, NEW p, p # "model", NEW o, Go(c, p) \/ Conclude(c, o)
    PROVE  Unserved(c)
<1>1. req[c] \in Request
    BY Zenon DEF ReqTypes
<1>2. CASE Go(c, p)
    BY Zenon, <1>1, <1>2 DEF Go, Unserved, ReqTypes, Request
<1>3. CASE Conclude(c, o)
    BY Zenon, <1>1, <1>3 DEF Conclude, Unserved, ReqTypes, Request
<1> QED BY Zenon, <1>2, <1>3

LEMMA ReplyUnserved ==
    ASSUME ReqTypes, NEW c \in Callers, NEW r, Reply(c, r)
    PROVE  Unserved(c)
<1>1. CASE req' = [req EXCEPT ![c].at = "shape", ![c].reply = r]
    BY Zenon, <1>1 DEF Unserved, ReqTypes, Request
<1>2. "shape" # "model"
    BY Zenon
<1> QED BY Zenon, <1>1, <1>2, AnswerUnserved, GoUnserved DEF Reply

LEMMA SucceedUnserved ==
    ASSUME ReqTypes, NEW c \in Callers, NEW R, Succeed(c, R)
    PROVE  Unserved(c)
BY Zenon DEF Succeed, Unserved, ReqTypes, Request, Idle

\* What the budgets of model requests are made of stays as it is.
SameSpend ==
    /\ budget'.reserved = budget.reserved /\ budget'.reservedCost = budget.reservedCost
    /\ budget'.tokens = budget.tokens /\ budget'.cost = budget.cost /\ overrun' = overrun

LEMMA QuietStep ==
    ASSUME Reservations, ReqTypes, NEW c \in Callers, req[c].at # "model", Unserved(c), SameSpend
    PROVE  Reservations'
BY Zenon, SameServing DEF Unserved, SameSpend

LEMMA ToolSteps ==
    ASSUME Reservations, ReqTypes, BudgetTypes, NEW c \in Callers,
           \/ \E t \in Tools \cup {"unlisted"}, a \in Arguments : CallTool(c, t, a)
           \/ PolicyCheck(c) \/ ReserveToolCall(c) \/ Claim(c) \/ ResolveCredential(c)
           \/ Invoke(c) \/ ShapeResult(c) \/ Commit(c) \/ UploadArtifact(c)
    PROVE  Reservations'
<1>0. \A p : p \in {"idle", "reserve", "claim", "credential", "invoke", "shape", "commit"} => p # "model"
    BY Zenon
<1>1. req[c].at # "model"
    BY <1>0, Zenon DEF CallTool, PolicyCheck, ReserveToolCall, Claim, ResolveCredential, Invoke, ShapeResult,
       Commit, UploadArtifact, Free, At
<1>2. CASE ReserveToolCall(c)
  <2>1. SameSpend
      BY Zenon, <1>2 DEF ReserveToolCall, SameSpend, BudgetTypes
  <2>2. Unserved(c)
      BY Zenon, <1>0, <1>2, AnswerUnserved, GoUnserved DEF ReserveToolCall
  <2> QED BY Zenon, <1>1, <2>1, <2>2, QuietStep
<1>3. ASSUME UNCHANGED <<budget, overrun>>, Unserved(c) PROVE Reservations'
  <2>1. SameSpend
      BY Zenon, <1>3 DEF SameSpend
  <2> QED BY Zenon, <1>1, <1>3, <2>1, QuietStep
<1>4. ASSUME NEW t, NEW a, CallTool(c, t, a) PROVE Unserved(c)
  <2>1. CASE req' = [req EXCEPT ![c] = [Idle EXCEPT !.at = "reserve", !.call = <<t, a>>]]
      BY Zenon, <2>1 DEF Unserved, ReqTypes, Idle
  <2> QED BY Zenon, <1>4, <2>1, AnswerUnserved DEF CallTool
<1>5. CASE PolicyCheck(c)
    BY Zenon, <1>3, <1>5, AnswerUnserved DEF PolicyCheck
<1>6. CASE Claim(c)
    BY Zenon, <1>0, <1>3, <1>6, AnswerUnserved, GoUnserved DEF Claim
<1>7. CASE ResolveCredential(c)
  <2>1. ASSUME req' = [req EXCEPT ![c].at = "invoke", ![c].sent = TRUE] PROVE Unserved(c)
    <3>1. PICK r : r = [req[c] EXCEPT !.at = "invoke", !.sent = TRUE]
        BY Zenon
    <3>2. Becomes(c, [req[c] EXCEPT !.at = "invoke", !.sent = TRUE])
        BY Zenon, <2>1 DEF Becomes, ReqTypes, Request
    <3>3. "invoke" \in Places
        BY Zenon DEF Places
    <3>4. r \in Request
        BY Zenon, <3>1, <3>3, RequestField DEF ReqTypes
    <3>5. r.at # "model"
        BY Zenon, <3>1 DEF ReqTypes, Request
    <3>6. req'[c] = r /\ \A d \in Callers \ {c} : req'[d] = req[d]
        BY Zenon, <3>1, <3>2, <3>4, Reading
    <3> QED BY Zenon, <3>5, <3>6 DEF Unserved
  <2> QED BY Zenon, <1>0, <1>3, <1>7, <2>1, AnswerUnserved, GoUnserved DEF ResolveCredential
<1>8. CASE Invoke(c)
    BY Zenon, <1>3, <1>8, ReplyUnserved DEF Invoke
<1>9. CASE ShapeResult(c)
    BY Zenon, <1>0, <1>3, <1>9, SucceedUnserved, AnswerUnserved, GoUnserved DEF ShapeResult
<1>a. CASE Commit(c)
  <2>1. ASSUME NEW a \in {"refused", "succeeded", "answered"},
               req' = [req EXCEPT ![c].at = "idle", ![c].answer = a]
        PROVE  Unserved(c)
      BY Zenon, <2>1 DEF Unserved, ReqTypes, Request
  <2> QED BY Zenon, <1>3, <1>a, <2>1, AnswerUnserved, HeardType DEF Commit
<1>b. CASE UploadArtifact(c)
  <2>1. ASSUME NEW R, req' = [req EXCEPT ![c] = [Idle EXCEPT !.answer = "answered", !.refs = R]]
        PROVE  Unserved(c)
      BY Zenon, <2>1 DEF Unserved, ReqTypes, Idle
  <2> QED BY Zenon, <1>3, <1>b, <2>1, AnswerUnserved DEF UploadArtifact
<1>c. ASSUME NEW t, NEW a, CallTool(c, t, a) PROVE UNCHANGED <<budget, overrun>>
    BY Zenon, <1>c DEF CallTool
<1> QED BY Zenon, <1>2, <1>3, <1>4, <1>5, <1>6, <1>7, <1>8, <1>9, <1>a, <1>b, <1>c

-----------------------------------------------------------------------------
(* Steps of model requests *)

\* The estimate of the output fits into what is left.
LEMMA SmallerThan ==
    ASSUME NEW a \in Nat, NEW b \in Nat, NEW S \in SUBSET Nat, S = {} \/ \E x \in Nat : S = {x}
    PROVE  Min({a, b} \cup S) <= a
<1>1. PICK m \in {a, b} \cup S : \A y \in {a, b} \cup S : m <= y
  <2>1. CASE S = {}
      BY <2>1
  <2>2. ASSUME NEW x \in Nat, S = {x} PROVE \E m \in {a, b} \cup S : \A y \in {a, b} \cup S : m <= y
    <3>1. CASE x <= a /\ x <= b
        BY <2>2, <3>1
    <3>2. CASE ~(x <= a /\ x <= b)
        BY <2>2, <3>2
    <3> QED BY Zenon, <3>1, <3>2
  <2> QED BY Zenon, <2>1, <2>2
<1>2. \A y \in {a, b} \cup S : Min({a, b} \cup S) <= y
    BY Zenon, <1>1 DEF Min
<1> QED BY Zenon, <1>2

LEMMA EstimateFits ==
    ASSUME BudgetTypes, NEW i \in Inputs, NEW l \in Limits, Affordable(i, l)
    PROVE  i + OutputEstimate(i, l) <= Remaining
<1>1. i \in Nat /\ l \in Nat /\ OutputCap \in Nat /\ MaxTokens \in Nat
    BY Zenon, ConfigAssumption, BoundsAssumption DEF ValidLimits
<1>2. Remaining - i \in Nat /\ Remaining \in Int
    BY <1>1 DEF Affordable, Remaining, BudgetTypes
<1> DEFINE S == IF l > 0 THEN {l} ELSE {}
<1>3. S \in SUBSET Nat /\ (S = {} \/ \E x \in Nat : S = {x})
    BY Zenon, <1>1
<1> HIDE DEF S
<1>4. Min({Remaining - i, OutputCap} \cup S) <= Remaining - i
    BY Zenon, <1>1, <1>2, <1>3, SmallerThan
<1>5. OutputEstimate(i, l) <= Remaining - i
    BY Zenon, <1>4 DEF OutputEstimate, S
<1>6. OutputEstimate(i, l) \in Nat
    BY Zenon, EstimateType
<1> QED BY <1>1, <1>2, <1>5, <1>6

\* A reservation that fits leaves spending and reservations within the limits.
LEMMA ReserveSpends ==
    ASSUME BudgetTypes, SpendWithinReservations, NEW i \in Inputs, NEW l \in Limits, Affordable(i, l),
           Reserve(i, OutputEstimate(i, l)), overrun' = overrun
    PROVE  SpendWithinReservations'
<1>1. PICK o : o = OutputEstimate(i, l)
    BY Zenon
<1>2. PICK e : e = EstimateCost(i, o)
    BY Zenon
<1>3. i \in Nat /\ o \in Nat /\ i + o <= Remaining
    BY Zenon, <1>1, EstimateType, EstimateFits, BoundsAssumption
<1>4. e \in Nat
    BY Zenon, <1>2, <1>3, CostType
<1>5. e <= MaxCost - budget.cost - budget.reservedCost
    BY Zenon, <1>1, <1>2 DEF Affordable
<1>6. /\ budget'.tokens = budget.tokens /\ budget'.cost = budget.cost
      /\ budget'.reserved = budget.reserved + i + o /\ budget'.reservedCost = budget.reservedCost + e
    BY Zenon, <1>1, <1>2 DEF Reserve, BudgetTypes
<1>7. MaxTokens \in Nat /\ MaxCost \in Nat
    BY Zenon, ConfigAssumption DEF ValidLimits
<1>8. /\ budget.tokens \in Nat /\ budget.cost \in Nat /\ budget.reserved \in Nat /\ budget.reservedCost \in Nat
      /\ overrun.tokens \in Nat /\ overrun.cost \in Nat
    BY Zenon DEF BudgetTypes
<1>9. budget'.tokens + budget'.reserved <= MaxTokens + overrun.tokens
    BY <1>3, <1>6, <1>7, <1>8 DEF Remaining
<1>a. budget'.cost + budget'.reservedCost <= MaxCost + overrun.cost
    BY <1>4, <1>5, <1>6, <1>7, <1>8
<1> QED BY Zenon, <1>9, <1>a DEF SpendWithinReservations

LEMMA InvokeModelReserves ==
    ASSUME Reservations, ReqTypes, ReqTypes', BudgetTypes, NEW c \in Callers,
           NEW i \in Inputs, NEW l \in Limits, InvokeModel(c, i, l)
    PROVE  Reservations'
<1>1. PICK o : o = OutputEstimate(i, l)
    BY Zenon
<1>2. req[c].at # "model" /\ overrun' = overrun
    BY Zenon DEF InvokeModel, Free, At
<1>3. CASE UNCHANGED budget /\ \E a : Refuse(c, a)
  <2>1. SameSpend
      BY Zenon, <1>2, <1>3 DEF SameSpend
  <2> QED BY Zenon, <1>2, <1>3, <2>1, AnswerUnserved, QuietStep
<1>4. ASSUME Affordable(i, l), Reserve(i, o)
      PROVE  /\ SpendWithinReservations'
             /\ i \in Nat /\ o \in Nat /\ EstimateCost(i, o) \in Nat
             /\ budget'.reserved = budget.reserved + (i + o)
             /\ budget'.reservedCost = budget.reservedCost + EstimateCost(i, o)
  <2>1. i \in Nat /\ o \in Nat
      BY Zenon, <1>1, <1>4, EstimateType, BoundsAssumption
  <2>2. EstimateCost(i, o) \in Nat
      BY Zenon, <2>1, CostType
  <2>3. SpendWithinReservations'
      BY Zenon, <1>1, <1>2, <1>4, ReserveSpends DEF Reservations
  <2>4. /\ budget'.reserved = budget.reserved + i + o /\ budget.reserved \in Nat
        /\ budget'.reservedCost = budget.reservedCost + EstimateCost(i, o)
      BY Zenon, <1>4 DEF Reserve, BudgetTypes
  <2>5. budget'.reserved = budget.reserved + (i + o)
      BY <2>1, <2>4
  <2> QED BY Zenon, <2>1, <2>2, <2>3, <2>4, <2>5
<1>5. CASE /\ Affordable(i, l) /\ Reserve(i, o)
           /\ req' = [req EXCEPT ![c] = [Idle EXCEPT !.at = "model", !.input = i, !.output = o]]
  <2>1. /\ req'[c].at = "model" /\ req'[c].input = i /\ req'[c].output = o
        /\ \A d \in Callers \ {c} : req'[d] = req[d]
      BY Zenon, <1>5 DEF ReqTypes, Idle
  <2>2. tokens'[c] = i + o /\ money'[c] = EstimateCost(i, o)
      BY Zenon, <2>1 DEF tokens, money
  <2>3. TokensReserved' /\ MoneyReserved'
      BY Zenon, <1>2, <1>4, <1>5, <2>1, <2>2, MoreServing
  <2> QED BY Zenon, <1>4, <1>5, <2>3 DEF Reservations
<1>6. CASE Affordable(i, l) /\ Reserve(i, o) /\ \E a : Refuse(c, a)
  <2>1. Unserved(c)
      BY Zenon, <1>6, AnswerUnserved
  <2>2. Serving' = Serving
      BY Zenon, <1>2, <2>1 DEF Serving, Unserved
  <2>3. AmountsTyped
      BY Zenon, AmountsAreTyped
  <2>4. Agree(tokens, tokens', Serving) /\ Agree(money, money', Serving)
      BY Zenon, <1>2, <2>1, <2>3 DEF Serving, tokens, money, Agree, AmountsTyped, Unserved
  <2>5. /\ Covered(Serving', tokens', budget.reserved)
        /\ Covered(Serving', money', budget.reservedCost)
      BY Zenon, <2>2, <2>4, CoveredSame DEF Reservations, TokensReserved, MoneyReserved
  <2>6. /\ budget.reserved \in Nat /\ budget'.reserved \in Nat /\ budget.reserved <= budget'.reserved
        /\ budget.reservedCost \in Nat /\ budget'.reservedCost \in Nat /\ budget.reservedCost <= budget'.reservedCost
      BY <1>4, <1>6 DEF BudgetTypes
  <2>7. TokensReserved' /\ MoneyReserved'
      BY Zenon, <2>5, <2>6, CoveredRise DEF TokensReserved, MoneyReserved
  <2> QED BY Zenon, <1>4, <1>6, <2>7 DEF Reservations
<1> QED BY Zenon, <1>1, <1>3, <1>5, <1>6 DEF InvokeModel

LEMMA ModelFailsReleases ==
    ASSUME Reservations, ReqTypes, BudgetTypes, NEW c \in Callers, ModelFails(c)
    PROVE  Reservations'
<1>1. req[c].at = "model" /\ budget' = Release(c) /\ overrun' = overrun /\ Answer(c, "unavailable")
    BY Zenon DEF ModelFails, At
<1>2. Unserved(c)
    BY Zenon, <1>1, AnswerUnserved
<1>3. /\ tokens[c] <= budget.reserved /\ budget'.reserved = budget.reserved - tokens[c]
      /\ money[c] <= budget.reservedCost /\ budget'.reservedCost = budget.reservedCost - money[c]
      /\ TokensReserved' /\ MoneyReserved'
    BY Zenon, <1>1, <1>2, LessServing DEF Unserved
<1>4. budget'.tokens = budget.tokens /\ budget'.cost = budget.cost
    BY Zenon, <1>1 DEF Release, BudgetTypes
<1>5. tokens[c] \in Nat /\ money[c] \in Nat
    BY Zenon, AmountTypes
<1>6. MaxTokens \in Nat /\ MaxCost \in Nat
    BY Zenon, ConfigAssumption DEF ValidLimits
<1>7. /\ budget.tokens \in Nat /\ budget.cost \in Nat /\ budget.reserved \in Nat /\ budget.reservedCost \in Nat
      /\ overrun.tokens \in Nat /\ overrun.cost \in Nat
    BY Zenon DEF BudgetTypes
<1>8. /\ budget.tokens + budget.reserved <= MaxTokens + overrun.tokens
      /\ budget.cost + budget.reservedCost <= MaxCost + overrun.cost
    BY Zenon DEF Reservations, SpendWithinReservations
<1>9. /\ budget'.tokens + budget'.reserved <= MaxTokens + overrun.tokens
      /\ budget'.cost + budget'.reservedCost <= MaxCost + overrun.cost
    BY <1>3, <1>4, <1>5, <1>6, <1>7, <1>8
<1> QED BY Zenon, <1>1, <1>3, <1>9 DEF Reservations, SpendWithinReservations

\* The usage of a reply may exceed its reservation; the excess is the overrun.
LEMMA Settling ==
    ASSUME NEW spent \in Nat, NEW reserved \in Nat, NEW limit \in Nat, NEW over \in Nat,
           NEW used \in Nat, NEW held \in Nat, held <= reserved, spent + reserved <= limit + over
    PROVE  (spent + used) + (reserved - held) <= limit + (over + Less(used, held))
BY DEF Less

LEMMA FinishModelSettles ==
    ASSUME Reservations, ReqTypes, BudgetTypes, NEW c \in Callers, NEW i \in Inputs, NEW o \in Outputs,
           FinishModel(c, i, o)
    PROVE  Reservations'
<1>1. req[c].at = "model" /\ \E a : Answer(c, a)
    BY Zenon DEF FinishModel, At
<1>2. Unserved(c)
    BY Zenon, <1>1, AnswerUnserved
<1>3. PICK u, e : u = i + o /\ e = EstimateCost(i, o)
    BY Zenon
<1>4. i \in Nat /\ o \in Nat /\ u \in Nat /\ e \in Nat
  <2>1. i \in Nat /\ o \in Nat
      BY Zenon, Constants
  <2> QED BY <1>3, <2>1, CostType
<1>5. tokens[c] \in Nat /\ money[c] \in Nat
    BY Zenon, AmountTypes
<1>6. /\ budget.tokens \in Nat /\ budget.cost \in Nat /\ budget.reserved \in Nat /\ budget.reservedCost \in Nat
      /\ overrun.tokens \in Nat /\ overrun.cost \in Nat
    BY Zenon DEF BudgetTypes
<1>7. /\ budget'.reserved = Release(c).reserved /\ budget'.reservedCost = Release(c).reservedCost
      /\ budget'.tokens = budget.tokens + i + o /\ budget'.cost = budget.cost + e
    BY Zenon, <1>3 DEF FinishModel, Release, BudgetTypes
<1>8. budget'.tokens = budget.tokens + u
    BY <1>3, <1>4, <1>6, <1>7
<1>9. /\ tokens[c] <= budget.reserved /\ budget'.reserved = budget.reserved - tokens[c]
      /\ money[c] <= budget.reservedCost /\ budget'.reservedCost = budget.reservedCost - money[c]
      /\ TokensReserved' /\ MoneyReserved'
    BY Zenon, <1>1, <1>2, <1>7, LessServing DEF Unserved
<1>a. overrun'.tokens = overrun.tokens + Less(u, tokens[c]) /\ overrun'.cost = overrun.cost + Less(e, money[c])
    BY Zenon, <1>3 DEF FinishModel, tokens, money
<1>b. MaxTokens \in Nat /\ MaxCost \in Nat
    BY Zenon, ConfigAssumption DEF ValidLimits
<1>c. /\ budget.tokens + budget.reserved <= MaxTokens + overrun.tokens
      /\ budget.cost + budget.reservedCost <= MaxCost + overrun.cost
    BY Zenon DEF Reservations, SpendWithinReservations
<1>d. budget'.tokens + budget'.reserved <= MaxTokens + overrun'.tokens
  <2>1. (budget.tokens + u) + (budget.reserved - tokens[c]) <= MaxTokens + (overrun.tokens + Less(u, tokens[c]))
      BY Zenon, <1>4, <1>5, <1>6, <1>9, <1>b, <1>c, Settling
  <2> QED BY Zenon, <2>1, <1>8, <1>9, <1>a
<1>e. budget'.cost + budget'.reservedCost <= MaxCost + overrun'.cost
  <2>1. (budget.cost + e) + (budget.reservedCost - money[c]) <= MaxCost + (overrun.cost + Less(e, money[c]))
      BY Zenon, <1>4, <1>5, <1>6, <1>9, <1>b, <1>c, Settling
  <2> QED BY Zenon, <2>1, <1>7, <1>9, <1>a
<1> QED BY Zenon, <1>9, <1>d, <1>e DEF Reservations, SpendWithinReservations

LEMMA FreshReservations == FreshProcess => Reservations
<1> SUFFICES ASSUME FreshProcess PROVE Reservations
    BY Zenon
<1>1. Serving = {}
    BY Zenon DEF FreshProcess, Serving, Idle
<1>2. /\ budget.reserved = 0 /\ budget.reservedCost = 0 /\ budget.tokens = 0 /\ budget.cost = 0
      /\ overrun.tokens = 0 /\ overrun.cost = 0
    BY Zenon DEF FreshProcess, Fresh
<1>3. MaxTokens \in Nat /\ MaxCost \in Nat
    BY Zenon, ConfigAssumption DEF ValidLimits
<1>4. SpendWithinReservations
    BY <1>2, <1>3 DEF SpendWithinReservations
<1>5. TokensReserved /\ MoneyReserved
    BY Zenon, <1>1, <1>2, CoveredNone DEF TokensReserved, MoneyReserved
<1> QED BY Zenon, <1>4, <1>5 DEF Reservations

\* A step that leaves the requests and the budget alone.
LEMMA StillReserved ==
    ASSUME Reservations, UNCHANGED <<req, budget, overrun>>
    PROVE  Reservations'
<1>1. Serving' = Serving /\ tokens' = tokens /\ money' = money
    BY Zenon DEF Serving, tokens, money
<1> QED BY Zenon, <1>1 DEF Reservations, TokensReserved, MoneyReserved, SpendWithinReservations

LEMMA ReservationsNext == Inv /\ Inv' /\ Reservations /\ [Next]_vars => Reservations'
<1> SUFFICES ASSUME Inv, Inv', Reservations, [Next]_vars PROVE Reservations'
    BY Zenon
<1>1. ReqTypes /\ BudgetTypes /\ SharedTypes /\ ReqTypes'
    BY Zenon, TypeParts, InvNames, PTL DEF Inv
<1>2. ASSUME NEW c \in Callers,
             \/ \E t \in Tools \cup {"unlisted"}, a \in Arguments : CallTool(c, t, a)
             \/ PolicyCheck(c) \/ ReserveToolCall(c) \/ Claim(c) \/ ResolveCredential(c)
             \/ Invoke(c) \/ ShapeResult(c) \/ Commit(c) \/ UploadArtifact(c)
      PROVE  Reservations'
    BY Zenon, <1>1, <1>2, ToolSteps
<1>3. ASSUME NEW c \in Callers, NEW i \in Inputs, NEW l \in Limits, InvokeModel(c, i, l) PROVE Reservations'
    BY Zenon, <1>1, <1>3, InvokeModelReserves
<1>4. ASSUME NEW c \in Callers, ModelFails(c) PROVE Reservations'
    BY Zenon, <1>1, <1>4, ModelFailsReleases
<1>5. ASSUME NEW c \in Callers, NEW i \in Inputs, NEW o \in Outputs, FinishModel(c, i, o) PROVE Reservations'
    BY Zenon, <1>1, <1>5, FinishModelSettles
<1>6. CASE Restart
  <2>1. FreshProcess'
      BY Zenon, <1>1, <1>6 DEF Restart, shared, SharedTypes, FreshProcess, InitialPhase
  <2> QED BY <2>1, FreshReservations, PTL
<1>7. CASE UNCHANGED <<req, budget, overrun>>
    BY Zenon, <1>7, StillReserved
<1>8. (\E id \in PhaseRequests : PhaseRequest(id)) \/ (\E k \in late : LateCall(k)) \/ UNCHANGED vars
        => UNCHANGED <<req, budget, overrun>>
    BY Zenon DEF PhaseRequest, LateCall, vars
<1> QED BY Zenon, <1>2, <1>3, <1>4, <1>5, <1>6, <1>7, <1>8 DEF Next

(***************************************************************************)
(* Concurrent requests keep to the budgets and the phase of the run: no    *)
(* more calls are sent than reserved, no edit tool is called before the    *)
(* transition, spending and open reservations stay within the limits up to *)
(* what providers report beyond a reservation, and what a served request   *)
(* holds stays reserved until it ends (broker.go, model.go).               *)
(***************************************************************************)
THEOREM BudgetsAreKept == Spec => []BudgetsHold
<1>1. Init => Reservations
    BY Zenon, FreshReservations DEF Init, FreshProcess
<1>2. Inv /\ Reservations => BudgetsHold
  <2> SUFFICES ASSUME Inv, Reservations PROVE BudgetsHold
      BY Zenon
  <2>1. ReservationsHeld /\ SpendWithinReservations
    <3>1. ReqTypes
        BY Zenon, TypeParts DEF Inv
    <3> QED BY Zenon, <3>1, ReservationsAreHeld DEF Reservations
  <2>2. SendsWithinBudget
    <3>1. Cardinality(Pending) \in Nat
        BY Zenon, PendingFinite
    <3>2. MaxToolCalls \in Nat
        BY Zenon, ConfigAssumption DEF ValidLimits
    <3>3. budget.tools \in 0 .. MaxToolCalls /\ sends \in Nat /\ sends + Cardinality(Pending) <= budget.tools
        BY Zenon DEF Inv, TypeOK
    <3> QED BY <3>1, <3>2, <3>3 DEF SendsWithinBudget
  <2> QED BY Zenon, <2>1, <2>2 DEF BudgetsHold, Inv
<1> QED BY <1>1, <1>2, ReservationsNext, Invariance, PTL DEF Spec
=============================================================================
