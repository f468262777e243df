------------------------------ MODULE AIProofs ------------------------------
(***************************************************************************)
(* The AI budget, for every set of callers, every budget, every price of   *)
(* an answer and every set of marks; a knowledge document, for every set   *)
(* of requests and indexers and every number of changes and errors.        *)
(***************************************************************************)
EXTENDS AIBudget, KnowledgeIndex, FiniteSetTheorems, WellFoundedInduction, TLAPS

(* What the proofs need to know of the values. *)
Kinds == [at : {"idle", "model", "log", "sum", "warn", "set"}, cost : Costs, marks : SUBSET Marks]

BudgetShape ==
    /\ day \in Nat /\ month \in Nat /\ blind \in Nat /\ slips \in Nat
    /\ asker \in [Askers -> Kinds]
    /\ \A c \in Askers : Asks(c, "idle") => asker[c] = AtRest

(* Callers that may still log a cost. *)
Costly(c) == Asks(c, "model") \/ (Asks(c, "log") /\ asker[c].cost # 0)
Running == {c \in Askers : Costly(c)}

(* With what may still be logged, neither sum passes its budget by more than an answer for
   each caller and each blind call. *)
SpendInv ==
    /\ day + Cardinality(Running) * MaxCost < DayBudget + (Cardinality(Askers) + blind) * MaxCost
    /\ month + Cardinality(Running) * MaxCost < MonthBudget + (Cardinality(Askers) + blind) * MaxCost

(* A setting is stored only after its alert. *)
WarnInv ==
    /\ WarningsAreGiven
    /\ \A c \in Askers : Asks(c, "set") => MarkOf(c) \in alerted \union muted

-----------------------------------------------------------------------------
LEMMA BudgetNumbers ==
    /\ IsFiniteSet(Askers) /\ Cardinality(Askers) \in Nat
    /\ DayBudget \in Nat \ {0} /\ MonthBudget \in Nat \ {0} /\ MaxCost \in Nat
BY AIBudgetAssumption, FS_CardinalityType

LEMMA Products ==
    /\ \A k \in Nat : k * MaxCost \in Nat /\ (k + 1) * MaxCost = k * MaxCost + MaxCost
    /\ \A k, n \in Nat : (k + n) * MaxCost = k * MaxCost + n * MaxCost
BY BudgetNumbers

LEMMA Monotone ==
    ASSUME NEW k \in Nat, NEW n \in Nat, k <= n
    PROVE  k * MaxCost <= n * MaxCost
<1>1. PICK d \in Nat : n = k + d
  <2>1. n - k \in Nat /\ n = k + (n - k)
    OBVIOUS
  <2>2. QED
    BY <2>1
<1>2. n * MaxCost = k * MaxCost + d * MaxCost /\ d * MaxCost \in Nat /\ k * MaxCost \in Nat
  BY <1>1, Products
<1>3. QED
  BY <1>2

(* Callers that run are no more than all, and one step lets one of them in or out. *)
LEMMA Runners ==
    /\ IsFiniteSet(Running) /\ Cardinality(Running) \in Nat /\ Cardinality(Running) <= Cardinality(Askers)
<1>1. Running \subseteq Askers
  BY DEF Running
<1>2. QED
  BY <1>1, BudgetNumbers, FS_Subset, FS_CardinalityType

LEMMA RunningNow ==
    /\ IsFiniteSet(Running') /\ Cardinality(Running') \in Nat /\ Cardinality(Running') <= Cardinality(Askers)
<1>1. Running' \subseteq Askers
  BY DEF Running
<1>2. QED
  BY <1>1, BudgetNumbers, FS_Subset, FS_CardinalityType

LEMMA OneMore ==
    ASSUME NEW c \in Askers, \A x \in Askers : x # c => (Costly(x)' => Costly(x))
    PROVE  Cardinality(Running') <= Cardinality(Running) + 1
<1>1. PICK R, S : R = Running /\ S = Running'
  OBVIOUS
<1>2. S \subseteq R \cup {c}
  BY <1>1 DEF Running
<1>3. IsFiniteSet(R) /\ Cardinality(R) \in Nat
  BY <1>1, Runners
<1>4. IsFiniteSet(R \cup {c}) /\ (c \in R => R \cup {c} = R) /\ (c \notin R => Cardinality(R \cup {c}) = Cardinality(R) + 1)
  BY <1>3, FS_AddElement, Zenon
<1>5. Cardinality(S) <= Cardinality(R \cup {c}) /\ Cardinality(S) \in Nat
  BY <1>1, <1>2, <1>4, FS_Subset, RunningNow
<1>6. Cardinality(R \cup {c}) <= Cardinality(R) + 1
  <2>1. CASE c \in R
    BY <1>3, <1>4, <2>1
  <2>2. CASE c \notin R
    <3>1. Cardinality(R \cup {c}) = Cardinality(R) + 1
      BY <1>4, <2>2
    <3>2. QED
      BY <1>3, <3>1
  <2>3. QED
    BY <2>1, <2>2
<1>7. Cardinality(S) <= Cardinality(R) + 1
  BY <1>3, <1>4, <1>5, <1>6
<1>8. QED
  BY <1>1, <1>7

LEMMA NoMore ==
    ASSUME \A x \in Askers : Costly(x)' => Costly(x)
    PROVE  Cardinality(Running') <= Cardinality(Running)
<1>1. Running' \subseteq Running
  BY DEF Running
<1>2. QED
  BY <1>1, Runners, FS_Subset

LEMMA OneLess ==
    ASSUME NEW c \in Askers, Costly(c), ~Costly(c)', \A x \in Askers : Costly(x)' => Costly(x)
    PROVE  Cardinality(Running') + 1 <= Cardinality(Running)
<1>1. PICK R, S : R = Running /\ S = Running'
  OBVIOUS
<1>2. S \subseteq R \ {c} /\ c \in R
  BY <1>1 DEF Running
<1>3. IsFiniteSet(R) /\ Cardinality(R) \in Nat
  BY <1>1, Runners
<1>4. IsFiniteSet(R \ {c}) /\ Cardinality(R \ {c}) = Cardinality(R) - 1
  BY <1>2, <1>3, FS_RemoveElement, Zenon
<1>5. Cardinality(S) <= Cardinality(R \ {c}) /\ Cardinality(S) \in Nat
  BY <1>1, <1>2, <1>4, FS_Subset, RunningNow
<1>6. Cardinality(S) + 1 <= Cardinality(R)
  BY <1>3, <1>4, <1>5
<1>7. QED
  BY <1>1, <1>6

-----------------------------------------------------------------------------
(* Typing. *)
LEMMA OfKinds ==
    ASSUME NEW x \in Kinds
    PROVE  /\ x.cost \in Costs /\ x.marks \in SUBSET Marks
           /\ \A p \in {"idle", "model", "log", "sum", "warn", "set"}, m \in SUBSET Marks, k \in Costs :
                 /\ [x EXCEPT !.at = p] \in Kinds /\ [x EXCEPT !.at = p, !.marks = m] \in Kinds
                 /\ [x EXCEPT !.at = p, !.cost = k] \in Kinds /\ [x EXCEPT !.marks = m] \in Kinds
BY DEF Kinds

LEMMA AskerRests == AtRest \in Kinds /\ [AtRest EXCEPT !.at = "sum"] \in Kinds /\ \A k \in Costs : k \in Nat /\ k <= MaxCost
BY BudgetNumbers DEF AtRest, Kinds, Costs

LEMMA ShapeInit == InitBudget => BudgetShape
BY AskerRests DEF InitBudget, BudgetShape, Asks

LEMMA SlipType == ASSUME slips \in Nat, Slip \/ UNCHANGED slips PROVE slips' \in Nat
BY DEF Slip

LEMMA ShapeAsks ==
    ASSUME BudgetShape, NEW c \in Askers, Asking(c)
    PROVE  BudgetShape'
<1>1. asker[c] \in Kinds /\ slips' \in Nat
  BY SlipType DEF BudgetShape, Asking, Ask, AskBlindly, Record, Sum, Answer, Skip, Warn, WarnFails, Announce, Done, AskerFails
<1>2. /\ \A p \in {"idle", "model", "log", "sum", "warn", "set"} :
            /\ [asker[c] EXCEPT !.at = p] \in Kinds
            /\ \A k \in Costs : [asker[c] EXCEPT !.at = p, !.cost = k] \in Kinds
            /\ [asker[c] EXCEPT !.at = p, !.marks = Used] \in Kinds
            /\ [asker[c] EXCEPT !.at = p, !.marks = asker[c].marks \ {MarkOf(c)}] \in Kinds
      /\ [asker[c] EXCEPT !.marks = asker[c].marks \ {MarkOf(c)}] \in Kinds
  <2>1. Used \in SUBSET Marks /\ asker[c].marks \ {MarkOf(c)} \in SUBSET Marks
    BY <1>1, OfKinds DEF Used
  <2>2. QED
    BY <1>1, <2>1, OfKinds
<1>3. asker' \in [Askers -> Kinds]
  <2>1. CASE Ask(c) \/ AskBlindly(c)
    BY <1>2, <2>1 DEF Ask, AskBlindly, BudgetShape
  <2>2. ASSUME NEW k \in Costs, Answer(c, k) PROVE asker' \in [Askers -> Kinds]
    BY <1>2, <2>2 DEF Answer, BudgetShape
  <2>3. CASE Record(c) \/ Done(c) \/ AskerFails(c)
    BY <2>3, AskerRests DEF Record, Done, AskerFails, BudgetShape
  <2>4. CASE Sum(c) \/ Warn(c)
    BY <1>2, <2>4, AskerRests DEF Sum, Warn, BudgetShape
  <2>5. CASE Skip(c) \/ WarnFails(c) \/ Announce(c)
    BY <1>2, <2>5 DEF Skip, WarnFails, Announce, BudgetShape
  <2>6. QED
    BY <2>1, <2>2, <2>3, <2>4, <2>5 DEF Asking
<1>4. day' \in Nat /\ month' \in Nat /\ blind' \in Nat
  <2>1. day \in Nat /\ month \in Nat /\ blind \in Nat
    BY DEF BudgetShape
  <2>2. CASE Record(c)
    <3>1. asker[c].cost \in Nat
      BY <1>1, OfKinds, AskerRests
    <3>2. QED
      BY <2>1, <2>2, <3>1 DEF Record
  <2>3. CASE AskBlindly(c)
    BY <2>1, <2>3 DEF AskBlindly
  <2>4. CASE UNCHANGED costVars
    BY <2>1, <2>4 DEF costVars
  <2>5. QED
    BY <2>2, <2>3, <2>4 DEF Asking, Ask, Sum, Answer, Skip, Warn, WarnFails, Announce, Done, AskerFails
<1>5. ASSUME NEW x \in Askers, Asks(x, "idle")' PROVE asker'[x] = AtRest
  <2>0. asker'[c].at # "idle" \/ asker' = asker \/ asker'[c] = AtRest
    <3>1. CASE Ask(c) \/ AskBlindly(c) \/ \E k \in Costs : Answer(c, k)
      BY <1>1, <3>1 DEF Ask, AskBlindly, Answer, BudgetShape, Kinds
    <3>2. CASE Record(c) \/ Done(c) \/ AskerFails(c)
      BY <3>2 DEF Record, Done, AskerFails, BudgetShape, AtRest
    <3>3. CASE Sum(c) \/ Warn(c) \/ Announce(c)
      BY <1>1, <3>3 DEF Sum, Warn, Announce, BudgetShape, Kinds
    <3>4. CASE Skip(c) \/ WarnFails(c)
      BY <1>1, <3>4 DEF Skip, WarnFails, BudgetShape, Kinds, Asks
    <3>5. QED
      BY <3>1, <3>2, <3>3, <3>4 DEF Asking
  <2>1. CASE x = c
    BY <1>5, <2>0, <2>1 DEF BudgetShape, Asks
  <2>2. CASE x # c
    <3>1. asker'[x] = asker[x]
      BY <2>2 DEF BudgetShape, Asking, Ask, AskBlindly, Record, Sum, Answer, Skip, Warn, WarnFails, Announce, Done, AskerFails
    <3>2. QED
      BY <1>5, <3>1 DEF BudgetShape, Asks
  <2>3. QED
    BY <2>1, <2>2
<1>6. QED
  BY <1>1, <1>3, <1>4, <1>5 DEF BudgetShape

LEMMA BudgetInvariant == BudgetSpec => []BudgetShape
<1>1. BudgetShape /\ [BudgetNext]_budgetVars => BudgetShape'
  BY ShapeAsks DEF BudgetNext, NewDay, SwitchOps, BudgetShape, budgetVars, costVars, Asks
<1>2. QED
  BY <1>1, ShapeInit, PTL DEF BudgetSpec

-----------------------------------------------------------------------------
(* What is spent. *)
LEMMA SpendInit == InitBudget => SpendInv
<1> SUFFICES ASSUME InitBudget PROVE SpendInv
  OBVIOUS
<1>1. Running = {}
  BY DEF InitBudget, Running, Costly, Asks, AtRest
<1>2. Cardinality(Running) = 0
  BY <1>1, FS_EmptySet
<1>3. PICK n \in Nat : n = Cardinality(Askers)
  BY BudgetNumbers
<1>4. n * MaxCost \in Nat /\ 0 * MaxCost = 0 /\ n + 0 = n
  BY BudgetNumbers, Products
<1>5. 0 + 0 * MaxCost < DayBudget + (n + 0) * MaxCost /\ 0 + 0 * MaxCost < MonthBudget + (n + 0) * MaxCost
  BY <1>4, BudgetNumbers
<1>6. QED
  BY <1>2, <1>3, <1>5 DEF InitBudget, SpendInv

(* The sum stays, or grows by the cost of an answer whose caller has ended. *)
LEMMA SpendKept ==
    ASSUME BudgetShape, SpendInv, NEW k \in Nat, k <= Cardinality(Running), Cardinality(Running') <= k,
           NEW cost \in Nat, cost + k * MaxCost <= Cardinality(Running) * MaxCost,
           day' = day + cost, month' = month + cost, blind' = blind
    PROVE  SpendInv'
<1>1. PICK n, r, q : n = Cardinality(Askers) /\ r = Cardinality(Running) /\ q = Cardinality(Running')
  OBVIOUS
<1>2. n \in Nat /\ r \in Nat /\ q \in Nat /\ q <= k /\ blind \in Nat /\ day \in Nat /\ month \in Nat
  BY <1>1, BudgetNumbers, Runners, RunningNow DEF BudgetShape
<1>3. PICK a, b, e : a = q * MaxCost /\ b = k * MaxCost /\ e = r * MaxCost
  OBVIOUS
<1>4. a \in Nat /\ b \in Nat /\ e \in Nat /\ a <= b /\ cost + b <= e
  BY <1>1, <1>2, <1>3, Products, Monotone
<1>5. PICK o : o = (n + blind) * MaxCost
  OBVIOUS
<1>6. o \in Nat /\ DayBudget \in Nat /\ MonthBudget \in Nat
  BY <1>2, <1>5, Products, BudgetNumbers
<1>7. day + e < DayBudget + o /\ month + e < MonthBudget + o
  BY <1>1, <1>3, <1>5 DEF SpendInv
<1>8. (day + cost) + a < DayBudget + o /\ (month + cost) + a < MonthBudget + o
  BY <1>2, <1>4, <1>6, <1>7
<1>9. QED
  BY <1>1, <1>3, <1>5, <1>8 DEF SpendInv

LEMMA SpendSame ==
    ASSUME BudgetShape, SpendInv, UNCHANGED costVars, \A x \in Askers : Costly(x)' => Costly(x)
    PROVE  SpendInv'
<1>1. Cardinality(Running') <= Cardinality(Running) /\ Cardinality(Running) \in Nat
  BY NoMore, Runners
<1>2. PICK k \in Nat : k = Cardinality(Running)
  BY <1>1
<1>3. k <= Cardinality(Running) /\ Cardinality(Running') <= k
  BY <1>1, <1>2
<1>4. k * MaxCost \in Nat
  BY Products
<1>5. 0 + k * MaxCost <= Cardinality(Running) * MaxCost
  BY <1>2, <1>4
<1>6. day' = day + 0 /\ month' = month + 0 /\ blind' = blind
  BY DEF BudgetShape, costVars
<1>7. QED
  BY <1>3, <1>5, <1>6, SpendKept

LEMMA SpendAsk ==
    ASSUME BudgetShape, SpendInv, NEW c \in Askers, Ask(c) \/ AskBlindly(c)
    PROVE  SpendInv'
<1>1. \A x \in Askers : x # c => (Costly(x)' => Costly(x))
  BY DEF Ask, AskBlindly, Costly, Asks, BudgetShape
<1>2. PICK n, r, q : n = Cardinality(Askers) /\ r = Cardinality(Running) /\ q = Cardinality(Running')
  OBVIOUS
<1>3. n \in Nat /\ r \in Nat /\ q \in Nat /\ q <= n /\ q <= r + 1 /\ blind \in Nat /\ day \in Nat /\ month \in Nat
  BY <1>1, <1>2, BudgetNumbers, Runners, RunningNow, OneMore DEF BudgetShape
<1>4. q * MaxCost \in Nat /\ (n + blind) * MaxCost \in Nat /\ r * MaxCost \in Nat /\ blind + 1 \in Nat /\ n + blind \in Nat
  BY <1>3, Products
<1>5. day' = day /\ month' = month
  BY DEF Ask, AskBlindly, costVars
<1>6. CASE AskBlindly(c)
  <2>1. q * MaxCost <= (r + 1) * MaxCost
    BY <1>3, Monotone
  <2>2. (r + 1) * MaxCost = r * MaxCost + MaxCost /\ ((n + blind) + 1) * MaxCost = (n + blind) * MaxCost + MaxCost
    BY <1>3, <1>4, Products
  <2>3. day + r * MaxCost < DayBudget + (n + blind) * MaxCost /\ month + r * MaxCost < MonthBudget + (n + blind) * MaxCost
    BY <1>2 DEF SpendInv
  <2>4. PICK a, b, e, f : a = q * MaxCost /\ b = r * MaxCost /\ e = (n + blind) * MaxCost /\ f = ((n + blind) + 1) * MaxCost
    OBVIOUS
  <2>5. a <= b + MaxCost /\ f = e + MaxCost /\ day + b < DayBudget + e /\ month + b < MonthBudget + e
    BY <2>1, <2>2, <2>3, <2>4
  <2>6. a \in Nat /\ b \in Nat /\ e \in Nat
    BY <1>4, <2>4
  <2>7. day + a < DayBudget + f /\ month + a < MonthBudget + f
    BY <1>3, <2>5, <2>6, BudgetNumbers
  <2>8. n + (blind + 1) = (n + blind) + 1 /\ blind' = blind + 1
    BY <1>3, <1>6 DEF AskBlindly
  <2>9. f = (n + blind') * MaxCost
    BY <2>4, <2>8
  <2>10. QED
    BY <1>2, <1>5, <2>4, <2>7, <2>9 DEF SpendInv
<1>7. CASE Ask(c) /\ Allowed
  <2>1. day < DayBudget /\ month < MonthBudget
    BY <1>3, <1>7, BudgetNumbers DEF Allowed, Exceeded
  <2>2. q * MaxCost <= n * MaxCost /\ n * MaxCost <= (n + blind) * MaxCost
    <3>1. n <= n + blind
      BY <1>3
    <3>2. QED
      BY <1>3, <1>4, <3>1, Monotone
  <2>3. PICK a, b, e : a = q * MaxCost /\ b = n * MaxCost /\ e = (n + blind) * MaxCost
    OBVIOUS
  <2>4. a \in Nat /\ b \in Nat /\ e \in Nat /\ a <= b /\ b <= e
    BY <1>3, <1>4, <2>2, <2>3, Products
  <2>5. day + a < DayBudget + e /\ month + a < MonthBudget + e
    BY <1>3, <2>1, <2>4, BudgetNumbers
  <2>6. blind' = blind
    BY <1>7 DEF Ask, costVars
  <2>7. QED
    BY <1>2, <1>5, <2>3, <2>5, <2>6 DEF SpendInv
<1>8. CASE Ask(c) /\ ~Allowed
  <2>1. UNCHANGED costVars
    BY <1>8 DEF Ask
  <2>2. asker[c] = AtRest /\ (asker' = asker \/ asker' = [asker EXCEPT ![c] = [AtRest EXCEPT !.at = "log"]])
    BY <1>8 DEF Ask, Asks, BudgetShape
  <2>3. ~Costly(c)'
    BY <2>2 DEF Costly, Asks, AtRest, BudgetShape
  <2>4. QED
    BY <1>1, <2>1, <2>3, SpendSame
<1>9. QED
  BY <1>6, <1>7, <1>8

LEMMA SpendRecord ==
    ASSUME BudgetShape, SpendInv, NEW c \in Askers, Record(c)
    PROVE  SpendInv'
<1>1. asker[c] \in Kinds /\ asker[c].at = "log" /\ asker'[c].at = "sum" /\ \A x \in Askers : x # c => asker'[x] = asker[x]
  BY DEF Record, Asks, BudgetShape, AtRest
<1>2. \A x \in Askers : Costly(x)' => Costly(x)
  BY <1>1 DEF Costly, Asks
<1>3. PICK cost \in Nat : cost = asker[c].cost /\ cost <= MaxCost
  BY <1>1, OfKinds, AskerRests
<1>4. day' = day + cost /\ month' = month + cost /\ blind' = blind
  BY <1>3 DEF Record
<1>5. PICK r, q : r = Cardinality(Running) /\ q = Cardinality(Running')
  OBVIOUS
<1>6. r \in Nat /\ q \in Nat /\ r * MaxCost \in Nat
  BY <1>5, Runners, RunningNow, Products
<1>7. CASE cost = 0
  <2>1. r <= r /\ q <= r /\ cost + r * MaxCost <= r * MaxCost
    BY <1>2, <1>5, <1>6, <1>7, NoMore
  <2>2. QED
    BY <1>4, <1>5, <1>6, <2>1, SpendKept
<1>8. CASE cost # 0
  <2>1. Costly(c) /\ ~Costly(c)'
    BY <1>1, <1>3, <1>8 DEF Costly, Asks
  <2>2. q + 1 <= r
    BY <1>2, <1>5, <2>1, OneLess
  <2>3. (q + 1) * MaxCost = q * MaxCost + MaxCost /\ q * MaxCost \in Nat
    BY <1>6, Products
  <2>4. (q + 1) * MaxCost <= r * MaxCost
    BY <1>6, <2>2, Monotone
  <2>5. PICK a, b : a = q * MaxCost /\ b = r * MaxCost
    OBVIOUS
  <2>6. a + MaxCost <= b /\ a \in Nat /\ b \in Nat
    BY <1>6, <2>3, <2>4, <2>5
  <2>7. cost + a <= b
    BY <1>3, <2>6, BudgetNumbers
  <2>8. q <= r /\ q <= q /\ cost + q * MaxCost <= r * MaxCost
    BY <1>6, <2>2, <2>5, <2>7
  <2>9. QED
    BY <1>4, <1>5, <1>6, <2>8, SpendKept
<1>9. QED
  BY <1>7, <1>8

LEMMA SpendOthers ==
    ASSUME BudgetShape, SpendInv, NEW c \in Askers, Asking(c), ~(Ask(c) \/ AskBlindly(c) \/ Record(c))
    PROVE  SpendInv'
<1>1. UNCHANGED costVars
  BY DEF Asking, Answer, Sum, Skip, Warn, WarnFails, Announce, Done, AskerFails
<1>2. asker[c] \in Kinds /\ \A x \in Askers : x # c => asker'[x] = asker[x]
  BY DEF BudgetShape, Asking, Answer, Sum, Skip, Warn, WarnFails, Announce, Done, AskerFails
<1>3. Costly(c)' => Costly(c)
  <2>1. CASE \E k \in Costs : Answer(c, k)
    BY <2>1 DEF Answer, Costly
  <2>2. CASE asker'[c].at \in {"idle", "warn", "set"}
    BY <2>2 DEF Costly, Asks
  <2>3. asker'[c].at \in {"idle", "warn", "set"} \/ \E k \in Costs : Answer(c, k)
    BY <1>2 DEF BudgetShape, Asking, Asks, Sum, Skip, Warn, WarnFails, Announce, Done, AskerFails, AtRest, Kinds
  <2>4. QED
    BY <2>1, <2>2, <2>3
<1>4. \A x \in Askers : Costly(x)' => Costly(x)
  BY <1>2, <1>3 DEF Costly, Asks
<1>5. QED
  BY <1>1, <1>4, SpendSame

LEMMA SpendNewDay ==
    ASSUME BudgetShape, SpendInv, NewDay
    PROVE  SpendInv'
<1>1. Running' = Running /\ day' = 0 /\ UNCHANGED <<month, blind>>
  BY DEF NewDay, Running, Costly, Asks
<1>2. PICK n, r : n = Cardinality(Askers) /\ r = Cardinality(Running)
  OBVIOUS
<1>3. n \in Nat /\ r \in Nat /\ blind \in Nat /\ day \in Nat
  BY <1>2, BudgetNumbers, Runners DEF BudgetShape
<1>4. PICK a, e : a = r * MaxCost /\ e = (n + blind) * MaxCost
  OBVIOUS
<1>5. a \in Nat /\ e \in Nat /\ DayBudget \in Nat
  BY <1>3, <1>4, Products, BudgetNumbers
<1>6. day + a < DayBudget + e
  BY <1>2, <1>4 DEF SpendInv
<1>7. 0 + a < DayBudget + e
  BY <1>3, <1>5, <1>6
<1>8. QED
  BY <1>1, <1>2, <1>4, <1>7 DEF SpendInv

(* aiBudgetAllowsModel reads what is logged and the cost is logged after the call: a budget is
   overrun by an answer for each caller, and for each call whose sums could not be read, at most. *)
THEOREM BudgetsHold == BudgetSpec => []OverspendIsBounded
<1>1. BudgetShape /\ SpendInv /\ [BudgetNext]_budgetVars => SpendInv'
  <2> SUFFICES ASSUME BudgetShape, SpendInv, [BudgetNext]_budgetVars PROVE SpendInv'
    OBVIOUS
  <2>1. ASSUME NEW c \in Askers, Asking(c) PROVE SpendInv'
    BY <2>1, SpendAsk, SpendRecord, SpendOthers
  <2>2. CASE UNCHANGED <<costVars, asker>>
    <3>1. \A x \in Askers : Costly(x)' => Costly(x)
      BY <2>2 DEF Costly, Asks
    <3>2. QED
      BY <2>2, <3>1, SpendSame
  <2>3. QED
    BY <2>1, <2>2, SpendNewDay DEF BudgetNext, SwitchOps, budgetVars
<1>2. BudgetSpec => []SpendInv
  BY <1>1, SpendInit, BudgetInvariant, PTL DEF BudgetSpec
<1>3. BudgetShape /\ SpendInv => OverspendIsBounded
  <2> SUFFICES ASSUME BudgetShape, SpendInv PROVE OverspendIsBounded
    OBVIOUS
  <2>1. PICK a, e : a = Cardinality(Running) * MaxCost /\ e = (Cardinality(Askers) + blind) * MaxCost
    OBVIOUS
  <2>2. a \in Nat /\ e \in Nat /\ day \in Nat /\ month \in Nat
    BY <2>1, BudgetNumbers, Runners, Products DEF BudgetShape
  <2>3. day + a < DayBudget + e /\ month + a < MonthBudget + e
    BY <2>1 DEF SpendInv
  <2>4. day < DayBudget + e /\ month < MonthBudget + e
    BY <2>2, <2>3, BudgetNumbers
  <2>5. QED
    BY <2>1, <2>4 DEF OverspendIsBounded
<1>4. QED
  BY <1>2, <1>3, BudgetInvariant, PTL

-----------------------------------------------------------------------------
(* Warnings. *)
Covered(t) == t \in alerted \union muted \/ \E c \in Askers : Asks(c, "sum") \/ t \in asker[c].marks

LEMMA WarnInit == InitBudget => WarnInv
<1> SUFFICES ASSUME InitBudget PROVE WarnInv
  OBVIOUS
<1>1. \A t \in Marks : ~(month >= t)
  BY AIBudgetAssumption DEF InitBudget
<1>2. QED
  BY <1>1 DEF InitBudget, WarnInv, WarningsAreGiven, Asks, AtRest

(* Callers that are left alone go on covering the marks they cover. *)
LEMMA WarnSteps ==
    ASSUME BudgetShape, WarnInv, NEW c \in Askers, \A x \in Askers : x # c => asker'[x] = asker[x],
           alerted \subseteq alerted', muted \subseteq muted', announced' \subseteq alerted' \union muted',
           Asks(c, "set")' => MarkOf(c)' \in alerted' \union muted',
           slips' = 0 => slips = 0,
           slips' = 0 => \A t \in Marks : month' >= t =>
               \/ t \in alerted' \union muted'
               \/ Asks(c, "sum")' \/ t \in asker'[c].marks
               \/ month >= t /\ ~Asks(c, "sum") /\ t \notin asker[c].marks
    PROVE  WarnInv'
<1>1. \A x \in Askers : x # c => (Asks(x, "set")' => MarkOf(x)' \in alerted' \union muted')
  BY DEF WarnInv, Asks, MarkOf
<1>2. ASSUME slips' = 0, NEW t \in Marks, month' >= t PROVE Covered(t)'
  <2>1. CASE t \in alerted' \union muted' \/ Asks(c, "sum")' \/ t \in asker'[c].marks
    BY <2>1 DEF Covered
  <2>2. CASE month >= t /\ ~Asks(c, "sum") /\ t \notin asker[c].marks
    <3>1. Covered(t)
      BY <1>2, <2>2 DEF WarnInv, WarningsAreGiven, Covered
    <3>2. QED
      BY <2>2, <3>1 DEF Covered, Asks
  <2>3. QED
    BY <1>2, <2>1, <2>2
<1>3. WarningsAreGiven'
  BY <1>2 DEF WarningsAreGiven, Covered
<1>4. QED
  BY <1>1, <1>3 DEF WarnInv

LEMMA WarnAsks ==
    ASSUME BudgetShape, WarnInv, NEW c \in Askers, Asking(c)
    PROVE  WarnInv'
<1>1. \A x \in Askers : x # c => asker'[x] = asker[x]
  BY DEF BudgetShape, Asking, Ask, AskBlindly, Record, Sum, Answer, Skip, Warn, WarnFails, Announce, Done, AskerFails
<1>2. asker[c] \in Kinds /\ slips \in Nat /\ announced \subseteq alerted \union muted
  BY DEF BudgetShape, WarnInv, WarningsAreGiven
<1>3. slips' = 0 => slips = 0 /\ ~Slip
  BY <1>2 DEF Asking, Ask, AskBlindly, Record, Sum, Answer, Skip, Warn, WarnFails, Announce, Done, AskerFails, Slip
<1>4. CASE Ask(c) \/ AskBlindly(c) \/ \E k \in Costs : Answer(c, k)
  <2>1. asker'[c].marks = asker[c].marks /\ asker'[c].at # "set" /\ asker[c].at # "sum" /\ UNCHANGED <<month, warnVars>>
    BY <1>2, <1>4 DEF Ask, AskBlindly, Answer, Kinds, BudgetShape, Asks, costVars
  <2>2. QED
    BY <1>1, <1>2, <1>3, <2>1, WarnSteps DEF Asks, warnVars
<1>5. CASE Record(c)
  <2>1. asker'[c].at = "sum" /\ UNCHANGED warnVars
    BY <1>5 DEF Record, BudgetShape, AtRest
  <2>2. QED
    BY <1>1, <1>2, <1>3, <2>1, WarnSteps DEF Asks, warnVars
<1>6. CASE Sum(c)
  <2>1. month' = month /\ announced' = announced /\ alerted' = alerted
    BY <1>6 DEF Sum, costVars
  <2>2. CASE ops
    <3>1. asker'[c].at = "warn" /\ asker'[c].marks = Used /\ muted' = muted
      BY <1>2, <1>6, <2>2 DEF Sum, BudgetShape, Kinds
    <3>2. \A t \in Marks : month' >= t => t \in asker'[c].marks
      BY <2>1, <3>1 DEF Used
    <3>3. QED
      BY <1>1, <1>2, <1>3, <2>1, <3>1, <3>2, WarnSteps DEF Asks
  <2>3. CASE ~ops
    <3>1. asker'[c].at = "idle" /\ muted' = muted \union Used
      BY <1>6, <2>3 DEF Sum, BudgetShape, AtRest
    <3>2. \A t \in Marks : month' >= t => t \in muted'
      BY <2>1, <3>1 DEF Used
    <3>3. QED
      BY <1>1, <1>2, <1>3, <2>1, <3>1, <3>2, WarnSteps DEF Asks
  <2>4. QED
    BY <2>2, <2>3
<1>7. CASE Skip(c)
  <2>1. /\ asker'[c].marks = asker[c].marks \ {MarkOf(c)} /\ asker'[c].at = "warn" /\ asker[c].at = "warn"
        /\ MarkOf(c) \in announced /\ UNCHANGED <<month, warnVars>>
    BY <1>2, <1>7 DEF Skip, Asks, BudgetShape, Kinds, costVars
  <2>2. QED
    BY <1>1, <1>2, <1>3, <2>1, WarnSteps DEF Asks, warnVars
<1>8. CASE Warn(c)
  <2>1. /\ asker'[c].marks = asker[c].marks /\ asker[c].at = "warn" /\ month' = month /\ announced' = announced
        /\ alerted \subseteq alerted' /\ muted \subseteq muted' /\ MarkOf(c) \in alerted' \union muted'
    BY <1>2, <1>8 DEF Warn, Asks, BudgetShape, Kinds, costVars
  <2>2. MarkOf(c)' = MarkOf(c)
    BY <2>1 DEF MarkOf
  <2>3. QED
    BY <1>1, <1>2, <1>3, <2>1, <2>2, WarnSteps DEF Asks
<1>9. CASE WarnFails(c) \/ AskerFails(c)
  <2>1. slips' # 0 /\ UNCHANGED <<month, warnVars>> /\ asker'[c].at # "set"
    BY <1>2, <1>9 DEF WarnFails, AskerFails, Slip, costVars, BudgetShape, Kinds, Asks, AtRest
  <2>2. QED
    BY <1>1, <1>2, <2>1, WarnSteps DEF Asks, warnVars
<1>10. CASE Announce(c)
  <2>1. /\ asker'[c].marks = asker[c].marks \ {MarkOf(c)} /\ asker'[c].at = "warn" /\ asker[c].at = "set"
        /\ month' = month /\ alerted' = alerted /\ muted' = muted
        /\ announced' \subseteq announced \union {MarkOf(c)}
    BY <1>2, <1>10 DEF Announce, Asks, BudgetShape, Kinds, costVars
  <2>2. MarkOf(c) \in alerted \union muted
    BY <1>10 DEF Announce, WarnInv
  <2>3. QED
    BY <1>1, <1>2, <1>3, <2>1, <2>2, WarnSteps DEF Asks
<1>11. CASE Done(c)
  <2>1. asker[c].marks = {} /\ asker[c].at = "warn" /\ asker'[c].at = "idle" /\ UNCHANGED <<month, warnVars>>
    BY <1>11 DEF Done, Asks, BudgetShape, AtRest, costVars
  <2>2. QED
    BY <1>1, <1>2, <1>3, <2>1, WarnSteps DEF Asks, warnVars
<1>12. QED
  BY <1>4, <1>5, <1>6, <1>7, <1>8, <1>9, <1>10, <1>11 DEF Asking

LEMMA WarnInvariant == BudgetSpec => []WarnInv
<1>1. BudgetShape /\ WarnInv /\ [BudgetNext]_budgetVars => WarnInv'
  <2> SUFFICES ASSUME BudgetShape, WarnInv, [BudgetNext]_budgetVars PROVE WarnInv'
    OBVIOUS
  <2>1. CASE UNCHANGED <<month, warnVars, asker, slips>>
    BY <2>1 DEF WarnInv, WarningsAreGiven, warnVars, Asks, MarkOf
  <2>2. QED
    BY <2>1, WarnAsks DEF BudgetNext, NewDay, SwitchOps, budgetVars, costVars
<1>2. QED
  BY <1>1, WarnInit, BudgetInvariant, PTL DEF BudgetSpec

(* maybeEnqueueAIBudgetWarning: callers that race for a mark leave none without an alert, and no
   setting is stored before one. *)
THEOREM MarksAreAnnounced == BudgetSpec => []WarningsAreGiven
<1>1. WarnInv => WarningsAreGiven
  BY DEF WarnInv
<1>2. QED
  BY <1>1, WarnInvariant, PTL

(* Of marks that are used up, one is the least. *)
LEMMA MarkOfMarks == ASSUME BudgetShape, NEW c \in Askers, asker[c].marks # {} PROVE MarkOf(c) \in asker[c].marks
<1> DEFINE R == OpToRel(<, Nat)
           M == asker[c].marks
<1>1. asker[c] \in Kinds
  BY DEF BudgetShape
<1>2. M \in SUBSET Nat
  <2>1. M \in SUBSET Marks
    BY <1>1 DEF Kinds
  <2>2. \A t \in Marks : t \in Nat
    BY AIBudgetAssumption
  <2>3. QED
    BY <2>1, <2>2
<1>3. R = {ss \in Nat \X Nat : ss[1] < ss[2]}
  BY Zenon DEF OpToRel
<1>4. IsWellFoundedOn(R, Nat)
  BY NatLessThanWellFounded, Zenon
<1> HIDE DEF R, M
<1>5. M # {}
  BY DEF M
<1>6. \E x \in M : \A y \in M : <<y, x>> \notin R
  BY <1>2, <1>4, <1>5, WFMin, Zenon
<1>7. \A x, y \in Nat : <<y, x>> \notin R => x <= y
  BY <1>3
<1>8. \E x \in M : \A y \in M : x <= y
  BY <1>2, <1>6, <1>7
<1>9. QED
  BY <1>8, Zenon DEF MarkOf, M

LEMMA BudgetTypeInit == InitBudget => BudgetTypeOK
<1> SUFFICES ASSUME InitBudget PROVE BudgetTypeOK
  OBVIOUS
<1>1. asker \in [Askers -> Kinds] /\ asked \in 0..MaxAsked /\ slips \in 0..MaxSlips
  BY AskerRests, AIBudgetAssumption DEF InitBudget
<1>2. QED
  BY <1>1 DEF InitBudget, BudgetTypeOK, Kinds

(* Marks are announced, alerted and muted only if they are marks. *)
LEMMA BudgetTypeStep ==
    BudgetShape /\ BudgetShape' /\ WarnInv /\ BudgetTypeOK /\ [BudgetNext]_budgetVars => BudgetTypeOK'
<1> SUFFICES ASSUME BudgetShape, BudgetShape', WarnInv, BudgetTypeOK, [BudgetNext]_budgetVars PROVE BudgetTypeOK'
  OBVIOUS
<1>1. day' \in Nat /\ month' \in Nat /\ blind' \in Nat /\ asker' \in [Askers -> Kinds]
  BY DEF BudgetShape
<1>2. ASSUME announced' \subseteq Marks, alerted' \subseteq Marks, muted' \subseteq Marks, ops' \in BOOLEAN,
             asked' \in 0..MaxAsked, slips' \in 0..MaxSlips
      PROVE  BudgetTypeOK'
  BY <1>1, <1>2 DEF BudgetTypeOK, Kinds
<1>3. /\ announced \subseteq Marks /\ alerted \subseteq Marks /\ muted \subseteq Marks /\ ops \in BOOLEAN
      /\ asked \in 0..MaxAsked /\ slips \in 0..MaxSlips
  BY DEF BudgetTypeOK
<1>4. Slip => slips' \in 0..MaxSlips
  BY <1>3, AIBudgetAssumption DEF Slip
<1>5. ASSUME NEW c \in Askers, Asking(c) PROVE BudgetTypeOK'
  <2>1. ops' = ops /\ slips' \in 0..MaxSlips
    BY <1>3, <1>4, <1>5
       DEF Asking, Ask, AskBlindly, Record, Sum, Answer, Skip, Warn, WarnFails, Announce, Done, AskerFails
  <2>2. asked' \in 0..MaxAsked
    BY <1>3, <1>5, AIBudgetAssumption
       DEF Asking, Ask, AskBlindly, Record, Sum, Answer, Skip, Warn, WarnFails, Announce, Done, AskerFails
  <2>3. announced' \subseteq Marks /\ alerted' \subseteq Marks /\ muted' \subseteq Marks
    <3>1. CASE Sum(c)
      BY <1>3, <3>1 DEF Sum, Used
    <3>2. CASE Warn(c)
      <4>1. MarkOf(c) \in Marks
        BY <3>2, MarkOfMarks DEF Warn, BudgetShape, Kinds
      <4>2. QED
        BY <1>3, <3>2, <4>1 DEF Warn
    <3>3. CASE Announce(c)
      <4>1. MarkOf(c) \in alerted \union muted
        BY <3>3 DEF Announce, WarnInv
      <4>2. QED
        BY <1>3, <3>3, <4>1 DEF Announce
    <3>4. CASE UNCHANGED warnVars
      BY <1>3, <3>4 DEF warnVars
    <3>5. QED
      BY <1>5, <3>1, <3>2, <3>3, <3>4 DEF Asking, Ask, AskBlindly, Record, Answer, Skip, WarnFails, Done, AskerFails
  <2>4. QED
    BY <1>2, <1>3, <2>1, <2>2, <2>3
<1>6. CASE NewDay \/ SwitchOps \/ UNCHANGED budgetVars
  BY <1>2, <1>3, <1>6 DEF NewDay, SwitchOps, budgetVars, warnVars
<1>7. QED
  BY <1>5, <1>6 DEF BudgetNext

(* The budget and its warnings, for every budget, price and set of marks: callers keep values the
   code can write, and announce marks only. *)
THEOREM BudgetTypeCorrect == BudgetSpec => []BudgetTypeOK
BY BudgetTypeInit, BudgetTypeStep, BudgetInvariant, WarnInvariant, PTL DEF BudgetSpec

-----------------------------------------------------------------------------
(* A document of the knowledge base: what the proofs need to know of the values. *)
Statuses == {"none", "draft", "indexing", "active", "disabled", "failed"}
Docs == [status : Statuses, edition : Nat]
Edits == [at : {"idle", "erase", "clear", "write", "add"}, copy : Docs, adds : BOOLEAN]
JobKinds == [at : {"idle", "delete", "upsert", "chunks", "write", "mark"}, docs : Seq(Nat)]
Calls == [at : {"idle", "delete", "upsert"}, edition : Nat]

KnowledgeShape ==
    /\ row \in Docs /\ changes \in Nat
    /\ editor \in [Editors -> Edits]
    /\ batch \in Seq(Nat)
    /\ indexer \in [Indexers -> JobKinds]
    /\ \A w \in Indexers : indexer[w].at # "idle" => indexer[w].docs # <<>>
    /\ stray \in Calls
    /\ doubt \in BOOLEAN

LEMMA NoWorks == NoRow \in Docs /\ NoEdit \in Edits /\ NoWork \in JobKinds /\ NoWork.at = "idle" /\ NoCall \in Calls
BY DEF NoRow, NoEdit, NoWork, NoCall, Docs, Edits, JobKinds, Calls, Statuses

LEMMA OfEdits ==
    ASSUME NEW x \in Edits
    PROVE  /\ x.copy \in Docs /\ x.copy.edition \in Nat
           /\ \A p \in {"idle", "erase", "clear", "write", "add"} : [x EXCEPT !.at = p] \in Edits
BY DEF Edits, Docs

LEMMA NewEdits ==
    ASSUME NEW p \in {"idle", "erase", "clear", "write", "add"}, NEW d \in Docs, NEW b \in BOOLEAN
    PROVE  [at |-> p, copy |-> d, adds |-> b] \in Edits
BY DEF Edits

LEMMA OfWorks ==
    ASSUME NEW x \in JobKinds
    PROVE  /\ \A p \in {"idle", "delete", "upsert", "chunks", "write", "mark"} : [x EXCEPT !.at = p] \in JobKinds
           /\ x.docs # <<>> => /\ Head(x.docs) \in Nat
                               /\ [at |-> "delete", docs |-> Tail(x.docs)] \in JobKinds
           /\ x.docs # <<>> /\ Len(x.docs) # 1 => Tail(x.docs) # <<>>
<1>1. x.docs \in Seq(Nat)
  BY DEF JobKinds
<1>2. x.docs # <<>> => Head(x.docs) \in Nat /\ Tail(x.docs) \in Seq(Nat)
  BY <1>1
<1>3. x.docs # <<>> /\ Len(x.docs) # 1 => Tail(x.docs) # <<>>
  <2> SUFFICES ASSUME x.docs # <<>>, Len(x.docs) # 1 PROVE Tail(x.docs) # <<>>
    OBVIOUS
  <2>1. PICK d \in Seq(Nat) : d = x.docs
    BY <1>1
  <2>2. Len(d) \in Nat /\ Len(d) # 1 /\ Len(d) # 0
    BY <2>1
  <2>3. Len(Tail(d)) = Len(d) - 1
    BY <2>1
  <2>4. Len(Tail(d)) # 0
    BY <2>2, <2>3
  <2>5. QED
    BY <2>1, <2>4
<1>4. QED
  BY <1>2, <1>3 DEF JobKinds

LEMMA KnowledgeShapeInit == InitKnowledge => KnowledgeShape
<1> SUFFICES ASSUME InitKnowledge PROVE KnowledgeShape
  OBVIOUS
<1>1. row \in Docs /\ editor \in [Editors -> Edits] /\ indexer \in [Indexers -> JobKinds] /\ stray \in Calls
  BY NoWorks DEF InitKnowledge
<1>2. changes \in Nat /\ doubt \in BOOLEAN /\ batch \in Seq(Nat)
  <2>1. changes = 0 /\ doubt = FALSE /\ batch = <<>>
    BY DEF InitKnowledge
  <2>2. <<>> \in Seq(Nat) /\ FALSE \in BOOLEAN /\ 0 \in Nat
    OBVIOUS
  <2>3. QED
    BY <2>1, <2>2
<1>3. \A w \in Indexers : indexer[w].at = "idle"
  BY NoWorks DEF InitKnowledge
<1>4. QED
  BY <1>1, <1>2, <1>3 DEF KnowledgeShape

LEMMA ShapeEdits ==
    ASSUME KnowledgeShape, NEW o \in Editors, Create(o) \/ Beginning(o) \/ Finishing(o) \/ EditFails(o)
    PROVE  KnowledgeShape'
<1>1. /\ row \in Docs /\ row.edition \in Nat /\ row.status \in Statuses /\ changes \in Nat /\ changes + 1 \in Nat
      /\ editor[o] \in Edits /\ editor[o].copy \in Docs /\ editor[o].copy.edition \in Nat
  <2>1. row \in Docs /\ changes \in Nat /\ editor[o] \in Edits
    BY DEF KnowledgeShape
  <2>2. row.edition \in Nat /\ row.status \in Statuses
    BY <2>1 DEF Docs
  <2>3. editor[o].copy \in Docs /\ editor[o].copy.edition \in Nat
    BY <2>1, OfEdits
  <2>4. QED
    BY <2>1, <2>2, <2>3
<1>2. \A p \in {"idle", "erase", "clear", "write", "add"} : [editor[o] EXCEPT !.at = p] \in Edits
  BY <1>1, OfEdits
<1>3. CASE Create(o)
  <2>1. PICK s \in {"draft", "indexing"} :
           /\ row' = [status |-> s, edition |-> changes + 1]
           /\ editor' = [editor EXCEPT ![o] = IF s = "draft" THEN NoEdit ELSE [at |-> "add", copy |-> row', adds |-> TRUE]]
    BY <1>3 DEF Create
  <2>2. row' \in Docs
    BY <1>1, <2>1 DEF Docs, Statuses
  <2>3. [at |-> "add", copy |-> row', adds |-> TRUE] \in Edits
    BY <2>2, NewEdits
  <2>4. editor' \in [Editors -> Edits]
    BY <2>1, <2>3, NoWorks DEF KnowledgeShape
  <2>5. QED
    BY <1>1, <1>3, <2>2, <2>4 DEF Create, KnowledgeShape, indexVars
<1>4. ASSUME NEW p \in {"erase", "write"}, NEW s \in Statuses, NEW e \in {row.edition, changes + 1}, NEW b \in BOOLEAN,
             Begin(o, p, s, e, b)
      PROVE  KnowledgeShape'
  <2>1. [status |-> s, edition |-> e] \in Docs
    BY <1>1 DEF Docs
  <2>2. [at |-> p, copy |-> [status |-> s, edition |-> e], adds |-> b] \in Edits
    BY <2>1, NewEdits
  <2>3. editor' \in [Editors -> Edits]
    BY <1>4, <2>2 DEF Begin, KnowledgeShape
  <2>4. doubt' \in BOOLEAN
    BY <1>4 DEF Begin
  <2>5. QED
    BY <1>1, <1>4, <2>3, <2>4 DEF Begin, KnowledgeShape, storeVars, indexVars
<1>5. CASE Beginning(o)
  <2>1. PICK e \in {row.edition, changes + 1} :
           Edit(o, e) \/ Reindex(o, e) \/ \E s \in Down : TakeDown(o, s, e)
    BY <1>5 DEF Beginning
  <2>2. CASE Edit(o, e)
    <3>1. NeedsReindex(e) \in BOOLEAN
      BY DEF NeedsReindex
    <3>2. (IF NeedsReindex(e) THEN "indexing" ELSE row.status) \in Statuses
      BY <1>1 DEF Statuses
    <3>3. QED
      BY <1>4, <2>2, <3>1, <3>2 DEF Edit
  <2>3. CASE Reindex(o, e)
    BY <1>4, <2>3 DEF Reindex, Statuses
  <2>4. ASSUME NEW s \in Down, TakeDown(o, s, e) PROVE KnowledgeShape'
    <3>1. s \in Statuses
      BY DEF Down, Statuses
    <3>2. QED
      BY <1>4, <2>4, <3>1 DEF TakeDown
  <2>5. QED
    BY <2>1, <2>2, <2>3, <2>4
<1>6. CASE Erase(o)
  <2>1. editor' \in [Editors -> Edits]
    BY <1>2, <1>6 DEF Erase, KnowledgeShape
  <2>2. stray' \in Calls
    BY <1>6 DEF Erase, KnowledgeShape, Calls
  <2>3. doubt' = doubt \/ doubt' = TRUE
    BY <1>6 DEF Erase
  <2>4. QED
    BY <1>6, <2>1, <2>2, <2>3 DEF Erase, KnowledgeShape, indexVars
<1>7. CASE Clear(o)
  BY <1>2, <1>7 DEF Clear, KnowledgeShape, indexVars
<1>8. CASE Overwrite(o)
  BY <1>1, <1>2, <1>8, NoWorks DEF Overwrite, KnowledgeShape, indexVars
<1>9. CASE Enqueue(o)
  <2>1. batch' \in Seq(Nat)
    BY <1>1, <1>9 DEF Enqueue, KnowledgeShape
  <2>2. QED
    BY <1>9, <2>1, NoWorks DEF Enqueue, KnowledgeShape, storeVars
<1>10. CASE EditFails(o)
  BY <1>10, NoWorks DEF EditFails, KnowledgeShape, storeVars, indexVars
<1>11. QED
  BY <1>3, <1>5, <1>6, <1>7, <1>8, <1>9, <1>10 DEF Finishing

LEMMA ShapeIndexes ==
    ASSUME KnowledgeShape, NEW w \in Indexers, Indexing(w) \/ IndexFails(w) \/ IndexStops(w)
    PROVE  KnowledgeShape'
<1>1. indexer[w] \in JobKinds /\ indexer \in [Indexers -> JobKinds] /\ batch \in Seq(Nat)
  BY DEF KnowledgeShape
<1>2. /\ \A p \in {"idle", "delete", "upsert", "chunks", "write", "mark"} :
            [indexer[w] EXCEPT !.at = p] \in JobKinds /\ [indexer[w] EXCEPT !.at = p].docs = indexer[w].docs
      /\ indexer[w].docs # <<>> => Doc(w) \in Nat /\ [at |-> "delete", docs |-> Tail(indexer[w].docs)] \in JobKinds
      /\ indexer[w].docs # <<>> /\ Len(indexer[w].docs) # 1 => Tail(indexer[w].docs) # <<>>
  BY <1>1, OfWorks DEF Doc, JobKinds
<1>3. ASSUME NEW p \in {"delete", "upsert", "chunks", "write", "mark"}, Goes(w, p), indexer[w].at # "idle"
      PROVE  indexer' \in [Indexers -> JobKinds] /\ \A x \in Indexers : indexer'[x].at # "idle" => indexer'[x].docs # <<>>
  BY <1>1, <1>2, <1>3 DEF Goes, KnowledgeShape
<1>4. ASSUME NextDoc(w), indexer[w].at # "idle"
      PROVE  indexer' \in [Indexers -> JobKinds] /\ \A x \in Indexers : indexer'[x].at # "idle" => indexer'[x].docs # <<>>
  BY <1>1, <1>2, <1>4, NoWorks DEF NextDoc, KnowledgeShape
<1>5. CASE Flush(w)
  <2>1. [at |-> "delete", docs |-> batch] \in JobKinds /\ batch # <<>>
    BY <1>1, <1>5 DEF JobKinds, Flush
  <2>2. indexer' \in [Indexers -> JobKinds] /\ \A x \in Indexers : indexer'[x].at # "idle" => indexer'[x].docs # <<>>
    BY <1>1, <1>5, <2>1 DEF Flush, KnowledgeShape
  <2>3. batch' \in Seq(Nat)
    BY <1>5 DEF Flush
  <2>4. QED
    BY <1>5, <2>2, <2>3 DEF Flush, KnowledgeShape, storeVars, editorVars
<1>6. CASE RagDeletes(w) \/ RagUpserts(w) \/ SaveChunks(w)
  BY <1>3, <1>6 DEF RagDeletes, RagUpserts, SaveChunks, Works, KnowledgeShape, editorVars
<1>7. CASE MarkActive(w) \/ MarkFailed(w)
  <2>1. indexer[w].at # "idle" /\ Doc(w) \in Nat
    BY <1>2, <1>7 DEF MarkActive, MarkFailed, Works, KnowledgeShape
  <2>2. row' \in Docs
    BY <1>7, <2>1 DEF MarkActive, MarkFailed, Docs, Statuses
  <2>3. QED
    BY <1>4, <1>7, <2>1, <2>2 DEF MarkActive, MarkFailed, KnowledgeShape, editorVars
<1>8. CASE IndexFails(w)
  <2>1. indexer[w].at \in {"delete", "upsert", "chunks"} /\ Goes(w, "mark")
    BY <1>8 DEF IndexFails, AfterError
  <2>2. Doc(w) \in Nat
    BY <1>2, <2>1 DEF KnowledgeShape
  <2>3. stray' \in Calls
    BY <1>8, <2>1, <2>2 DEF IndexFails, KnowledgeShape, Calls, Works
  <2>4. QED
    BY <1>3, <1>8, <2>1, <2>3 DEF IndexFails, KnowledgeShape, storeVars, editorVars
<1>9. CASE IndexStops(w)
  <2>1. indexer[w].at # "idle" /\ (NextDoc(w) \/ indexer' = [indexer EXCEPT ![w] = NoWork])
    BY <1>9 DEF IndexStops, Works
  <2>2. indexer' \in [Indexers -> JobKinds] /\ \A x \in Indexers : indexer'[x].at # "idle" => indexer'[x].docs # <<>>
    BY <1>1, <1>4, <2>1, NoWorks DEF KnowledgeShape
  <2>3. QED
    BY <1>9, <2>2 DEF IndexStops, KnowledgeShape, storeVars, editorVars
<1>10. QED
  BY <1>5, <1>6, <1>7, <1>8, <1>9 DEF Indexing

LEMMA ShapeDies ==
    ASSUME KnowledgeShape, Die \/ StrayRuns
    PROVE  KnowledgeShape'
<1>1. CASE Die
  <2>1. \A w \in Indexers : indexer[w].at \in {"delete", "upsert"} => Doc(w) \in Nat
    BY OfWorks DEF KnowledgeShape, Doc
  <2>2. stray' \in Calls
    BY <1>1, <2>1 DEF Die, KnowledgeShape, Calls
  <2>3. QED
    BY <1>1, <2>2, NoWorks DEF Die, KnowledgeShape, storeVars
<1>2. CASE StrayRuns
  <2>1. stray' \in Calls
    BY <1>2, NoWorks DEF StrayRuns, KnowledgeShape, Calls
  <2>2. QED
    BY <1>2, <2>1 DEF StrayRuns, KnowledgeShape, editorVars, indexVars
<1>3. QED
  BY <1>1, <1>2

LEMMA KnowledgeShapeStep == KnowledgeShape /\ [KnowledgeNext]_knowledgeVars => KnowledgeShape'
<1> SUFFICES ASSUME KnowledgeShape, [KnowledgeNext]_knowledgeVars PROVE KnowledgeShape'
  OBVIOUS
<1>1. CASE UNCHANGED knowledgeVars
  BY <1>1 DEF knowledgeVars, storeVars, editorVars, indexVars, KnowledgeShape
<1>2. QED
  BY <1>1, ShapeEdits, ShapeIndexes, ShapeDies DEF KnowledgeNext

LEMMA KnowledgeInvariant == KnowledgeSpec => []KnowledgeShape
BY KnowledgeShapeInit, KnowledgeShapeStep, PTL DEF KnowledgeSpec

-----------------------------------------------------------------------------
(* The document of a request that runs, and of every copy, is an edition that was written. *)
EditionsInv ==
    /\ row.edition \in 0..MaxChanges /\ (row.status # "none" => row.edition \in DocEditions)
    /\ chunks \in 0..MaxChanges /\ points \in 0..MaxChanges
    /\ \A o \in Editors : /\ editor[o].copy.edition \in 0..MaxChanges
                          /\ editor[o].at # "idle" => editor[o].copy.edition \in DocEditions
    /\ batch \in Seq(DocEditions)
    /\ \A w \in Indexers : indexer[w].docs \in Seq(DocEditions)
    /\ stray.edition \in 0..MaxChanges
    /\ changes \in 0..MaxChanges /\ errors \in 0..MaxErrors

LEMMA EditionsAreTypes == KnowledgeShape /\ EditionsInv => KnowledgeTypeOK
<1> SUFFICES ASSUME KnowledgeShape, EditionsInv PROVE KnowledgeTypeOK
  OBVIOUS
<1>1. ASSUME NEW d \in Docs, d.edition \in 0..MaxChanges PROVE d \in Rows
  BY <1>1 DEF Docs, Rows, Statuses
<1>2. row \in Rows
  BY <1>1 DEF KnowledgeShape, EditionsInv
<1>3. editor \in [Editors -> [at : {"idle", "erase", "clear", "write", "add"}, copy : Rows, adds : BOOLEAN]]
  <2>1. ASSUME NEW o \in Editors
        PROVE  editor[o] \in [at : {"idle", "erase", "clear", "write", "add"}, copy : Rows, adds : BOOLEAN]
    <3>1. editor[o] \in Edits /\ editor[o].copy.edition \in 0..MaxChanges
      BY DEF KnowledgeShape, EditionsInv
    <3>2. editor[o].copy \in Rows
      BY <1>1, <3>1, OfEdits
    <3>3. QED
      BY <3>1, <3>2 DEF Edits
  <2>2. QED
    BY <2>1 DEF KnowledgeShape
<1>4. indexer \in [Indexers -> [at : {"idle", "delete", "upsert", "chunks", "write", "mark"}, docs : Seq(DocEditions)]]
  <2>1. ASSUME NEW w \in Indexers
        PROVE  indexer[w] \in [at : {"idle", "delete", "upsert", "chunks", "write", "mark"}, docs : Seq(DocEditions)]
    <3>1. indexer[w] \in JobKinds /\ indexer[w].docs \in Seq(DocEditions)
      BY DEF KnowledgeShape, EditionsInv
    <3>2. QED
      BY <3>1 DEF JobKinds
  <2>2. QED
    BY <2>1 DEF KnowledgeShape
<1>5. stray \in [at : {"idle", "delete", "upsert"}, edition : 0..MaxChanges]
  BY DEF KnowledgeShape, EditionsInv, Calls
<1>6. QED
  BY <1>2, <1>3, <1>4, <1>5 DEF KnowledgeShape, EditionsInv, KnowledgeTypeOK

LEMMA EditionsInit == InitKnowledge => EditionsInv
<1> SUFFICES ASSUME InitKnowledge PROVE EditionsInv
  OBVIOUS
<1>1. 0 \in 0..MaxChanges /\ 0 \in 0..MaxErrors /\ <<>> \in Seq(DocEditions)
  BY KnowledgeAssumption
<1>2. /\ row = NoRow /\ chunks = 0 /\ points = 0 /\ batch = <<>> /\ stray = NoCall /\ changes = 0 /\ errors = 0
      /\ (\A o \in Editors : editor[o] = NoEdit) /\ (\A w \in Indexers : indexer[w] = NoWork)
  BY DEF InitKnowledge
<1>3. /\ NoRow.edition = 0 /\ NoRow.status = "none" /\ NoEdit.copy.edition = 0 /\ NoEdit.at = "idle"
      /\ NoWork.docs = <<>> /\ NoCall.edition = 0
  BY DEF NoRow, NoEdit, NoWork, NoCall
<1>4. QED
  BY <1>1, <1>2, <1>3 DEF EditionsInv

LEMMA ErrorType == ASSUME EditionsInv, Error PROVE errors' \in 0..MaxErrors
BY KnowledgeAssumption DEF EditionsInv, Error

(* A request that begins, or ends, leaves the copies of the others. *)
LEMMA EditionsOfEdits ==
    ASSUME KnowledgeShape, EditionsInv, NEW o \in Editors, Create(o) \/ Beginning(o) \/ Finishing(o) \/ EditFails(o)
    PROVE  EditionsInv'
<1>0. /\ editor \in [Editors -> Edits] /\ editor[o] \in Edits /\ NoEdit.at = "idle" /\ NoEdit.copy.edition = 0
      /\ 0 \in 0..MaxChanges /\ DocEditions \subseteq 0..MaxChanges
  BY KnowledgeAssumption DEF KnowledgeShape, NoEdit, NoRow, DocEditions
<1>1. ASSUME changes < MaxChanges PROVE changes + 1 \in DocEditions
  BY <1>1, KnowledgeAssumption DEF EditionsInv, DocEditions
<1>2. ASSUME NEW x, editor' = [editor EXCEPT ![o] = x], x.copy.edition \in 0..MaxChanges,
             x.at # "idle" => x.copy.edition \in DocEditions
      PROVE  \A y \in Editors : /\ editor'[y].copy.edition \in 0..MaxChanges
                                /\ editor'[y].at # "idle" => editor'[y].copy.edition \in DocEditions
  BY <1>0, <1>2 DEF EditionsInv
<1>3. CASE Create(o)
  <2>1. PICK s \in {"draft", "indexing"} :
           /\ row' = [status |-> s, edition |-> changes + 1]
           /\ editor' = [editor EXCEPT ![o] = IF s = "draft" THEN NoEdit ELSE [at |-> "add", copy |-> row', adds |-> TRUE]]
    BY <1>3 DEF Create
  <2>2. changes < MaxChanges /\ changes' = changes + 1 /\ UNCHANGED <<chunks, points, batch, indexer, stray, errors>>
    BY <1>3 DEF Create, indexVars
  <2>3. row'.edition \in DocEditions
    BY <1>1, <2>1, <2>2
  <2>4. \A y \in Editors : /\ editor'[y].copy.edition \in 0..MaxChanges
                           /\ editor'[y].at # "idle" => editor'[y].copy.edition \in DocEditions
    <3>1. CASE s = "draft"
      BY <1>0, <1>2, <2>1, <3>1
    <3>2. CASE s # "draft"
      BY <1>0, <1>2, <2>1, <2>3, <3>2
    <3>3. QED
      BY <3>1, <3>2
  <2>5. changes' \in 0..MaxChanges
    BY <1>0, <1>1, <2>2
  <2>6. QED
    BY <1>0, <2>2, <2>3, <2>4, <2>5 DEF EditionsInv
<1>4. ASSUME NEW p, NEW s, NEW e \in {row.edition, changes + 1}, NEW b, Begin(o, p, s, e, b) PROVE EditionsInv'
  <2>1. /\ row.status # "none" /\ changes < MaxChanges /\ changes' = changes + 1
        /\ editor' = [editor EXCEPT ![o] = [at |-> p, copy |-> [status |-> s, edition |-> e], adds |-> b]]
        /\ UNCHANGED <<row, chunks, points, batch, indexer, stray, errors>>
    BY <1>4 DEF Begin, storeVars, indexVars
  <2>2. changes + 1 \in DocEditions
    BY <1>1, <2>1
  <2>3. e \in DocEditions
    BY <2>1, <2>2 DEF EditionsInv
  <2>4. \A y \in Editors : /\ editor'[y].copy.edition \in 0..MaxChanges
                           /\ editor'[y].at # "idle" => editor'[y].copy.edition \in DocEditions
    BY <1>0, <1>2, <2>1, <2>3
  <2>5. QED
    BY <1>0, <2>1, <2>2, <2>4 DEF EditionsInv
<1>5. CASE Beginning(o)
  BY <1>4, <1>5 DEF Beginning, Edit, Reindex, TakeDown
<1>6. CASE Finishing(o) \/ EditFails(o)
  <2>1. editor[o].at # "idle"
    BY <1>6 DEF Finishing, EditFails, Erase, Clear, Overwrite, Enqueue
  <2>2. editor[o].copy.edition \in DocEditions
    BY <2>1 DEF EditionsInv
  <2>3. \A p : [editor[o] EXCEPT !.at = p].copy.edition \in DocEditions
    BY <1>0, <2>2 DEF Edits
  <2>4. \A y \in Editors : /\ editor'[y].copy.edition \in 0..MaxChanges
                           /\ editor'[y].at # "idle" => editor'[y].copy.edition \in DocEditions
    <3>1. CASE editor' = [editor EXCEPT ![o] = NoEdit]
      BY <1>0, <1>2, <3>1
    <3>2. ASSUME NEW p, editor' = [editor EXCEPT ![o] = [editor[o] EXCEPT !.at = p]]
          PROVE  \A y \in Editors : /\ editor'[y].copy.edition \in 0..MaxChanges
                                    /\ editor'[y].at # "idle" => editor'[y].copy.edition \in DocEditions
      BY <1>0, <1>2, <2>3, <3>2
    <3>3. CASE Overwrite(o)
      <4>1. editor' = [editor EXCEPT ![o] = NoEdit] \/ editor' = [editor EXCEPT ![o] = [editor[o] EXCEPT !.at = "add"]]
        BY <3>3 DEF Overwrite
      <4>2. QED
        BY <3>1, <3>2, <4>1
    <3>4. QED
      BY <1>6, <3>1, <3>2, <3>3 DEF Finishing, EditFails, Erase, Clear, Enqueue
  <2>5. row'.edition \in 0..MaxChanges /\ (row'.status # "none" => row'.edition \in DocEditions)
    BY <1>0, <1>6, <2>2 DEF Finishing, EditFails, Erase, Clear, Overwrite, Enqueue, storeVars, EditionsInv
  <2>6. chunks' \in 0..MaxChanges /\ points' \in 0..MaxChanges
    BY <1>0, <1>6 DEF Finishing, EditFails, Erase, Clear, Overwrite, Enqueue, storeVars, EditionsInv
  <2>7. batch' \in Seq(DocEditions)
    BY <1>6, <2>2 DEF Finishing, EditFails, Erase, Clear, Overwrite, Enqueue, indexVars, EditionsInv
  <2>8. stray'.edition \in 0..MaxChanges
    BY <1>0, <1>6 DEF Finishing, EditFails, Erase, Clear, Overwrite, Enqueue, EditionsInv
  <2>9. indexer' = indexer /\ changes' = changes
    BY <1>6 DEF Finishing, EditFails, Erase, Clear, Overwrite, Enqueue, indexVars
  <2>10. errors' \in 0..MaxErrors
    <3>1. errors' = errors \/ Error
      BY <1>6 DEF Finishing, EditFails, Erase, Clear, Overwrite, Enqueue
    <3>2. QED
      BY <3>1, ErrorType DEF EditionsInv
  <2>11. QED
    BY <2>4, <2>5, <2>6, <2>7, <2>8, <2>9, <2>10 DEF EditionsInv
<1>7. QED
  BY <1>3, <1>5, <1>6

LEMMA EditionsOfIndexes ==
    ASSUME KnowledgeShape, EditionsInv, NEW w \in Indexers, Indexing(w) \/ IndexFails(w) \/ IndexStops(w)
    PROVE  EditionsInv'
<1>0. /\ indexer \in [Indexers -> JobKinds] /\ indexer[w] \in JobKinds /\ indexer[w].docs \in Seq(DocEditions)
      /\ 0 \in 0..MaxChanges /\ DocEditions \subseteq 0..MaxChanges
  BY KnowledgeAssumption DEF KnowledgeShape, EditionsInv, DocEditions
<1>1. indexer[w].at # "idle" => indexer[w].docs # <<>>
  BY DEF KnowledgeShape
<1>2. PICK d \in Seq(DocEditions) : d = indexer[w].docs
  BY <1>0
<1>3. d # <<>> => Head(d) \in DocEditions /\ Tail(d) \in Seq(DocEditions)
  OBVIOUS
<1>4. indexer[w].at # "idle" => Doc(w) \in DocEditions /\ Tail(indexer[w].docs) \in Seq(DocEditions)
  BY <1>1, <1>2, <1>3 DEF Doc
<1>5. ASSUME NEW x, indexer' = [indexer EXCEPT ![w] = x], x.docs \in Seq(DocEditions)
      PROVE  \A y \in Indexers : indexer'[y].docs \in Seq(DocEditions)
  BY <1>0, <1>5 DEF EditionsInv
<1>6. ASSUME NEW p, Goes(w, p) PROVE \A y \in Indexers : indexer'[y].docs \in Seq(DocEditions)
  <2>1. [indexer[w] EXCEPT !.at = p].docs = indexer[w].docs
    BY <1>0 DEF JobKinds
  <2>2. indexer' = [indexer EXCEPT ![w] = [indexer[w] EXCEPT !.at = p]]
    BY <1>6 DEF Goes
  <2>3. QED
    BY <1>0, <1>5, <2>1, <2>2
<1>7. <<>> \in Seq(DocEditions) /\ NoWork.docs = <<>>
  BY DEF NoWork
<1>8. ASSUME NextDoc(w), indexer[w].at # "idle" PROVE \A y \in Indexers : indexer'[y].docs \in Seq(DocEditions)
  <2>1. \/ indexer' = [indexer EXCEPT ![w] = NoWork]
        \/ indexer' = [indexer EXCEPT ![w] = [at |-> "delete", docs |-> Tail(indexer[w].docs)]]
    BY <1>8 DEF NextDoc
  <2>2. QED
    BY <1>4, <1>5, <1>7, <1>8, <2>1
<1>9. errors' = errors \/ Error
  BY DEF Indexing, Flush, RagDeletes, RagUpserts, SaveChunks, MarkActive, MarkFailed, IndexFails, IndexStops
<1>10. errors' \in 0..MaxErrors
  BY <1>9, ErrorType DEF EditionsInv
<1>11. UNCHANGED editorVars
  BY DEF Indexing, Flush, RagDeletes, RagUpserts, SaveChunks, MarkActive, MarkFailed, IndexFails, IndexStops
<1>12. CASE Flush(w)
  <2>1. \A y \in Indexers : indexer'[y].docs \in Seq(DocEditions)
    <3>1. [at |-> "delete", docs |-> batch].docs \in Seq(DocEditions)
      BY DEF EditionsInv
    <3>2. QED
      BY <1>5, <1>12, <3>1 DEF Flush
  <2>2. QED
    BY <1>7, <1>10, <1>11, <1>12, <2>1 DEF Flush, EditionsInv, storeVars, editorVars
<1>13. CASE RagDeletes(w) \/ RagUpserts(w) \/ SaveChunks(w)
  <2>1. \A y \in Indexers : indexer'[y].docs \in Seq(DocEditions)
    BY <1>6, <1>13 DEF RagDeletes, RagUpserts, SaveChunks
  <2>2. Doc(w) \in 0..MaxChanges
    BY <1>0, <1>4, <1>13 DEF RagDeletes, RagUpserts, SaveChunks, Works
  <2>3. chunks' \in 0..MaxChanges /\ points' \in 0..MaxChanges /\ UNCHANGED <<row, batch, stray>>
    BY <1>0, <1>13, <2>2 DEF RagDeletes, RagUpserts, SaveChunks, EditionsInv
  <2>4. QED
    BY <1>10, <1>11, <2>1, <2>3 DEF EditionsInv, editorVars
<1>14. CASE MarkActive(w) \/ MarkFailed(w)
  <2>1. indexer[w].at # "idle" /\ NextDoc(w)
    BY <1>14 DEF MarkActive, MarkFailed, Works
  <2>2. row'.edition = Doc(w) /\ UNCHANGED <<chunks, points, batch, stray>>
    BY <1>14 DEF MarkActive, MarkFailed
  <2>3. QED
    BY <1>0, <1>4, <1>8, <1>10, <1>11, <2>1, <2>2 DEF EditionsInv, editorVars
<1>15. CASE IndexFails(w)
  <2>1. indexer[w].at # "idle" /\ Goes(w, "mark") /\ UNCHANGED <<storeVars, batch>>
    BY <1>15 DEF IndexFails, AfterError
  <2>2. stray'.edition \in 0..MaxChanges
    <3>1. stray' = stray \/ stray' = [at |-> indexer[w].at, edition |-> Doc(w)]
      BY <1>15 DEF IndexFails
    <3>2. [at |-> indexer[w].at, edition |-> Doc(w)].edition = Doc(w)
      OBVIOUS
    <3>3. stray' = stray \/ stray'.edition = Doc(w)
      BY <3>1, <3>2, Zenon
    <3>4. QED
      BY <1>0, <1>4, <2>1, <3>3 DEF EditionsInv
  <2>3. QED
    BY <1>6, <1>10, <1>11, <2>1, <2>2 DEF EditionsInv, editorVars, storeVars
<1>16. CASE IndexStops(w)
  <2>1. indexer[w].at # "idle" /\ (NextDoc(w) \/ indexer' = [indexer EXCEPT ![w] = NoWork]) /\ UNCHANGED <<storeVars, batch, stray>>
    BY <1>16 DEF IndexStops, Works
  <2>2. \A y \in Indexers : indexer'[y].docs \in Seq(DocEditions)
    BY <1>5, <1>7, <1>8, <2>1
  <2>3. QED
    BY <1>10, <1>11, <2>1, <2>2 DEF EditionsInv, editorVars, storeVars
<1>17. QED
  BY <1>12, <1>13, <1>14, <1>15, <1>16 DEF Indexing

LEMMA EditionsOfCalls ==
    ASSUME KnowledgeShape, EditionsInv, Die \/ StrayRuns
    PROVE  EditionsInv'
<1>0. 0 \in 0..MaxChanges /\ DocEditions \subseteq 0..MaxChanges /\ <<>> \in Seq(DocEditions)
  BY KnowledgeAssumption DEF DocEditions
<1>1. CASE Die
  <2>1. \A w \in Indexers : indexer[w].at # "idle" => Doc(w) \in DocEditions
    <3>1. ASSUME NEW w \in Indexers, indexer[w].at # "idle" PROVE Doc(w) \in DocEditions
      <4>1. PICK d \in Seq(DocEditions) : d = indexer[w].docs
        BY DEF EditionsInv
      <4>2. d # <<>>
        BY <3>1, <4>1 DEF KnowledgeShape
      <4>3. Head(d) \in DocEditions
        BY <4>2
      <4>4. QED
        BY <4>1, <4>3 DEF Doc
    <3>2. QED
      BY <3>1
  <2>2. stray'.edition \in 0..MaxChanges
    <3>1. \/ stray' = stray
          \/ \E w \in Indexers : indexer[w].at # "idle" /\ stray' = [at |-> indexer[w].at, edition |-> Doc(w)]
      BY <1>1 DEF Die
    <3>2. \A w \in Indexers : [at |-> indexer[w].at, edition |-> Doc(w)].edition = Doc(w)
      OBVIOUS
    <3>3. stray' = stray \/ \E w \in Indexers : indexer[w].at # "idle" /\ stray'.edition = Doc(w)
      BY <3>1, <3>2, Zenon
    <3>4. QED
      BY <1>0, <2>1, <3>3 DEF EditionsInv
  <2>3. (\A o \in Editors : editor'[o] = NoEdit) /\ (\A w \in Indexers : indexer'[w] = NoWork)
    BY <1>1 DEF Die
  <2>4. NoEdit.copy.edition = 0 /\ NoEdit.at = "idle" /\ NoWork.docs = <<>>
    BY DEF NoEdit, NoRow, NoWork
  <2>5. errors' \in 0..MaxErrors /\ batch' = <<>> /\ changes' = changes /\ UNCHANGED storeVars
    BY <1>1, ErrorType DEF Die
  <2>6. QED
    BY <1>0, <2>2, <2>3, <2>4, <2>5 DEF EditionsInv, storeVars
<1>2. CASE StrayRuns
  <2>1. stray \in Calls /\ stray.edition \in 0..MaxChanges
    BY DEF KnowledgeShape, EditionsInv
  <2>2. NoCall.edition = 0 /\ [stray EXCEPT !.at = "upsert"].edition = stray.edition
    BY <2>1 DEF NoCall, Calls
  <2>3. stray'.edition \in 0..MaxChanges /\ points' \in 0..MaxChanges
    BY <1>0, <1>2, <2>1, <2>2 DEF StrayRuns
  <2>4. QED
    BY <1>2, <2>3 DEF StrayRuns, EditionsInv, editorVars, indexVars
<1>3. QED
  BY <1>1, <1>2

LEMMA EditionsStep == KnowledgeShape /\ EditionsInv /\ [KnowledgeNext]_knowledgeVars => EditionsInv'
<1> SUFFICES ASSUME KnowledgeShape, EditionsInv, [KnowledgeNext]_knowledgeVars PROVE EditionsInv'
  OBVIOUS
<1>1. CASE UNCHANGED knowledgeVars
  BY <1>1 DEF knowledgeVars, storeVars, editorVars, indexVars, EditionsInv
<1>2. QED
  BY <1>1, EditionsOfEdits, EditionsOfIndexes, EditionsOfCalls DEF KnowledgeNext

(* A knowledge document, for every set of requests and indexers: the row, its copies and the calls
   nobody waits for name editions that were written. *)
THEOREM KnowledgeTypeCorrect == KnowledgeSpec => []KnowledgeTypeOK
BY EditionsAreTypes, EditionsInit, EditionsStep, KnowledgeInvariant, PTL DEF KnowledgeSpec

-----------------------------------------------------------------------------
(* When the three stores agree, and the row x waits for nobody. *)
Agreed(x) ==
    /\ x.status # "indexing"
    /\ x.status = "active" => points = x.edition /\ chunks = x.edition
    /\ x.status \in Down => points = 0 /\ chunks = 0

EditorsRest == \A x \in Editors : editor[x].at = "idle"
IndexersRest == \A x \in Indexers : indexer[x].at = "idle"

(* One request at work and nothing else: what its next step will find. *)
EditorAlone(o) ==
    /\ editor[o].at # "idle" /\ \A x \in Editors : x # o => editor[x].at = "idle"
    /\ batch = <<>> /\ IndexersRest /\ stray.at = "idle"

EditorPhase(o) ==
    LET e == editor[o]
    IN  /\ e.at \in {"erase", "clear"} => e.copy.status \in Down /\ ~e.adds
        /\ e.at = "clear" => points = 0
        /\ e.at = "write" => IF e.adds THEN e.copy.status = "indexing" ELSE Agreed(e.copy)
        /\ e.at = "add" => row = e.copy /\ row.status = "indexing"

CopyWaits ==
    /\ EditorsRest /\ IndexersRest /\ stray.at = "idle"
    /\ batch = <<row.edition>> /\ row.status = "indexing"

(* One copy at an indexer and nothing else, unless its call was given up. *)
IndexerAlone(w) ==
    /\ indexer[w].at # "idle" /\ \A x \in Indexers : x # w => indexer[x].at = "idle"
    /\ EditorsRest /\ batch = <<>>
    /\ stray.at # "idle" => indexer[w].at = "mark"

IndexerPhase(w) ==
    /\ row.status = "indexing" /\ indexer[w].docs = <<row.edition>>
    /\ indexer[w].at \in {"chunks", "write"} => points = row.edition
    /\ indexer[w].at = "write" => chunks = row.edition

Failed == EditorsRest /\ IndexersRest /\ batch = <<>> /\ row.status = "failed"

Calm ==
    \/ AllAtRest /\ Agreed(row)
    \/ \E o \in Editors : EditorAlone(o) /\ EditorPhase(o)
    \/ CopyWaits
    \/ \E w \in Indexers : IndexerAlone(w) /\ IndexerPhase(w)
    \/ Failed

(* Before the document is created nothing is at work; no request writes "none" back. *)
NoneInv ==
    /\ \A o \in Editors : editor[o].at # "idle" => editor[o].copy.status # "none"
    /\ row.status = "none" => AllAtRest /\ points = 0 /\ chunks = 0

CalmInv == doubt \/ Calm

LEMMA NoneInit == InitKnowledge => NoneInv /\ CalmInv
BY NoWorks DEF InitKnowledge, NoneInv, CalmInv, Calm, AllAtRest, Agreed, Down, NoRow, NoEdit, NoWork, NoCall

(* What is at work tells what the rest is doing. *)
LEMMA AtRequest ==
    ASSUME Calm, NEW o \in Editors, editor[o].at # "idle"
    PROVE  EditorAlone(o) /\ EditorPhase(o)
BY DEF Calm, AllAtRest, EditorAlone, CopyWaits, IndexerAlone, Failed, EditorsRest

LEMMA AtBatch == ASSUME Calm, batch # <<>> PROVE CopyWaits
BY DEF Calm, AllAtRest, EditorAlone, CopyWaits, IndexerAlone, Failed

LEMMA AtIndexer ==
    ASSUME Calm, NEW w \in Indexers, indexer[w].at # "idle"
    PROVE  IndexerAlone(w) /\ IndexerPhase(w)
BY DEF Calm, AllAtRest, EditorAlone, CopyWaits, IndexerAlone, Failed, IndexersRest

LEMMA AtCall ==
    ASSUME Calm, stray.at # "idle"
    PROVE  \/ Failed
           \/ \E w \in Indexers : IndexerAlone(w) /\ IndexerPhase(w) /\ indexer[w].at = "mark"
BY DEF Calm, AllAtRest, EditorAlone, CopyWaits, IndexerAlone, Failed

LEMMA AtNothing == ASSUME Calm, AllAtRest PROVE Agreed(row)
BY DEF Calm, AllAtRest, EditorAlone, CopyWaits, IndexerAlone, Failed, IndexersRest, EditorsRest, Agreed, Down

(* Nothing is at work before the document is created. *)
LEMMA NoneKept ==
    ASSUME NoneInv, \A o \in Editors : editor'[o].at # "idle" => editor'[o].copy.status # "none",
           row'.status = "none" => row' = row /\ ~AllAtRest
    PROVE  NoneInv'
BY DEF NoneInv

LEMMA NoneEdits ==
    ASSUME KnowledgeShape, NoneInv, NEW o \in Editors, Create(o) \/ Beginning(o) \/ Finishing(o) \/ EditFails(o)
    PROVE  NoneInv'
<1>1. editor \in [Editors -> Edits] /\ editor[o] \in Edits /\ NoEdit.at = "idle"
  BY DEF KnowledgeShape, NoEdit
<1>2. \A p \in {"idle", "erase", "clear", "write", "add"} : [editor[o] EXCEPT !.at = p].copy = editor[o].copy
  BY <1>1 DEF Edits
<1>3. CASE Create(o)
  <2>1. PICK s \in {"draft", "indexing"} :
           /\ row' = [status |-> s, edition |-> changes + 1]
           /\ editor' = [editor EXCEPT ![o] = IF s = "draft" THEN NoEdit ELSE [at |-> "add", copy |-> row', adds |-> TRUE]]
    BY <1>3 DEF Create
  <2>2. row'.status = s
    BY <2>1
  <2>3. editor'[o].at # "idle" => editor'[o].copy.status # "none"
    BY <1>1, <2>1, <2>2
  <2>4. \A x \in Editors : x # o => editor'[x] = editor[x]
    BY <1>1, <2>1
  <2>5. QED
    BY <2>2, <2>3, <2>4, NoneKept DEF NoneInv
<1>4. ASSUME NEW p, NEW s, NEW e, NEW b, s # "none", Begin(o, p, s, e, b)
      PROVE  NoneInv'
  <2>1. editor'[o].copy.status = s /\ \A x \in Editors : x # o => editor'[x] = editor[x]
    BY <1>1, <1>4 DEF Begin
  <2>2. row' = row /\ row.status # "none"
    BY <1>4 DEF Begin, storeVars
  <2>3. QED
    BY <1>4, <2>1, <2>2, NoneKept DEF NoneInv
<1>5. CASE Beginning(o)
  <2>1. PICK e : Edit(o, e) \/ Reindex(o, e) \/ \E s \in Down : TakeDown(o, s, e)
    BY <1>5 DEF Beginning
  <2>2. CASE Edit(o, e)
    <3>1. row.status # "none"
      BY <2>2 DEF Edit, Begin
    <3>2. (IF NeedsReindex(e) THEN "indexing" ELSE row.status) # "none"
      BY <3>1
    <3>3. QED
      BY <1>4, <2>2, <3>2 DEF Edit
  <2>3. CASE Reindex(o, e)
    BY <1>4, <2>3 DEF Reindex
  <2>4. ASSUME NEW s \in Down, TakeDown(o, s, e) PROVE NoneInv'
    BY <1>4, <2>4 DEF TakeDown, Down
  <2>5. QED
    BY <2>1, <2>2, <2>3, <2>4
<1>6. CASE Finishing(o) \/ EditFails(o)
  <2>1. editor[o].at # "idle" /\ ~AllAtRest
    BY <1>6 DEF Finishing, EditFails, Erase, Clear, Overwrite, Enqueue, AllAtRest
  <2>2. editor[o].copy.status # "none"
    BY <2>1 DEF NoneInv
  <2>3. \A x \in Editors : x # o => editor'[x] = editor[x]
    BY <1>1, <1>6 DEF Finishing, EditFails, Erase, Clear, Overwrite, Enqueue
  <2>4. editor'[o].at = "idle" \/ editor'[o].copy = editor[o].copy
    BY <1>1, <1>2, <1>6 DEF Finishing, EditFails, Erase, Clear, Overwrite, Enqueue
  <2>5. row' = row \/ row' = editor[o].copy
    BY <1>6 DEF Finishing, EditFails, Erase, Clear, Overwrite, Enqueue, storeVars
  <2>6. QED
    BY <2>1, <2>2, <2>3, <2>4, <2>5, NoneKept DEF NoneInv
<1>7. QED
  BY <1>3, <1>5, <1>6

LEMMA NoneIndexes ==
    ASSUME NoneInv, NEW w \in Indexers, Indexing(w) \/ IndexFails(w) \/ IndexStops(w)
    PROVE  NoneInv'
<1>1. editor' = editor /\ ~AllAtRest
  BY DEF Indexing, IndexFails, IndexStops, Flush, RagDeletes, RagUpserts, SaveChunks, MarkActive, MarkFailed,
         AllAtRest, Works, editorVars
<1>2. row' = row \/ row'.status # "none"
  BY DEF Indexing, IndexFails, IndexStops, Flush, RagDeletes, RagUpserts, SaveChunks, MarkActive, MarkFailed, storeVars
<1>3. QED
  BY <1>1, <1>2, NoneKept DEF NoneInv

LEMMA NoneDies == ASSUME NoneInv, Die \/ StrayRuns PROVE NoneInv'
<1>1. row' = row /\ ~AllAtRest
  BY DEF Die, StrayRuns, AllAtRest, storeVars
<1>2. \A o \in Editors : editor'[o].at # "idle" => editor'[o].copy.status # "none"
  BY DEF Die, StrayRuns, editorVars, NoneInv, NoEdit
<1>3. QED
  BY <1>1, <1>2, NoneKept

(* A document that nobody doubts passes from one phase to the next. *)
LEMMA CalmCreates ==
    ASSUME KnowledgeShape, NoneInv, CalmInv, NEW o \in Editors, Create(o)
    PROVE  CalmInv'
<1>1. row.status = "none" /\ doubt' = doubt /\ UNCHANGED <<chunks, points, batch, indexer, stray>>
  BY DEF Create, indexVars
<1>2. AllAtRest /\ points = 0 /\ chunks = 0 /\ editor \in [Editors -> Edits]
  BY <1>1 DEF NoneInv, KnowledgeShape
<1>3. PICK s \in {"draft", "indexing"} :
         /\ row' = [status |-> s, edition |-> changes + 1]
         /\ editor' = [editor EXCEPT ![o] = IF s = "draft" THEN NoEdit ELSE [at |-> "add", copy |-> row', adds |-> TRUE]]
  BY DEF Create
<1>4. \A x \in Editors : x # o => editor'[x].at = "idle"
  BY <1>2, <1>3 DEF AllAtRest
<1>5. CASE s = "draft"
  <2>1. editor'[o].at = "idle" /\ row'.status = "draft"
    BY <1>2, <1>3, <1>5, NoWorks DEF NoEdit
  <2>2. AllAtRest'
    BY <1>1, <1>2, <1>4, <2>1 DEF AllAtRest
  <2>3. Agreed(row)'
    BY <1>1, <1>2, <2>1 DEF Agreed
  <2>4. QED
    BY <2>2, <2>3 DEF CalmInv, Calm
<1>6. CASE s = "indexing"
  <2>1. editor'[o] = [at |-> "add", copy |-> row', adds |-> TRUE] /\ row'.status = "indexing"
    BY <1>2, <1>3, <1>6
  <2>2. EditorAlone(o)'
    BY <1>1, <1>2, <1>4, <2>1 DEF EditorAlone, AllAtRest, IndexersRest
  <2>3. EditorPhase(o)'
    BY <2>1 DEF EditorPhase
  <2>4. QED
    BY <2>2, <2>3 DEF CalmInv, Calm
<1>7. QED
  BY <1>5, <1>6

LEMMA CalmBegins ==
    ASSUME KnowledgeShape, CalmInv, NEW o \in Editors, NEW p, NEW s, NEW e, NEW b \in BOOLEAN, Begin(o, p, s, e, b),
           \/ p = "erase" /\ s \in Down /\ ~b
           \/ p = "write" /\ b /\ s = "indexing"
           \/ p = "write" /\ ~b /\ s = row.status /\ (s = "active" => e = row.edition)
    PROVE  CalmInv'
<1>1. /\ UNCHANGED <<row, chunks, points, batch, indexer, stray>> /\ editor \in [Editors -> Edits]
      /\ editor' = [editor EXCEPT ![o] = [at |-> p, copy |-> [status |-> s, edition |-> e], adds |-> b]]
      /\ doubt' = (~AllAtRest \/ (doubt /\ ~b /\ p = "write"))
  BY DEF Begin, storeVars, indexVars, KnowledgeShape
<1>2. SUFFICES ASSUME ~doubt' PROVE Calm'
  BY DEF CalmInv
<1>3. AllAtRest
  BY <1>1, <1>2
<1>4. editor'[o] = [at |-> p, copy |-> [status |-> s, edition |-> e], adds |-> b]
  BY <1>1
<1>5. EditorAlone(o)'
  BY <1>1, <1>3, <1>4 DEF EditorAlone, AllAtRest, IndexersRest
<1>6. CASE p = "write" /\ ~b /\ s = row.status /\ (s = "active" => e = row.edition)
  <2>1. ~doubt
    BY <1>1, <1>2, <1>6
  <2>2. Agreed(row)
    BY <1>3, <2>1, AtNothing DEF CalmInv
  <2>3. Agreed([status |-> s, edition |-> e])'
    BY <1>1, <1>6, <2>2 DEF Agreed, Down
  <2>4. EditorPhase(o)'
    BY <1>4, <1>6, <2>3 DEF EditorPhase, Agreed
  <2>5. QED
    BY <1>5, <2>4 DEF Calm
<1>7. CASE p = "erase" /\ s \in Down /\ ~b
  BY <1>4, <1>5, <1>7 DEF EditorPhase, Calm
<1>8. CASE p = "write" /\ b /\ s = "indexing"
  BY <1>4, <1>5, <1>8 DEF EditorPhase, Calm
<1>9. QED
  BY <1>6, <1>7, <1>8

LEMMA CalmBeginning ==
    ASSUME KnowledgeShape, CalmInv, NEW o \in Editors, Beginning(o)
    PROVE  CalmInv'
<1>1. PICK e : Edit(o, e) \/ Reindex(o, e) \/ \E s \in Down : TakeDown(o, s, e)
  BY DEF Beginning
<1>2. CASE Edit(o, e)
  <2>1. NeedsReindex(e) \in BOOLEAN /\ (~NeedsReindex(e) /\ row.status = "active" => e = row.edition)
    BY DEF NeedsReindex
  <2>2. CASE NeedsReindex(e)
    <3>1. Begin(o, "write", "indexing", e, TRUE)
      BY <1>2, <2>2 DEF Edit, NeedsReindex
    <3>2. QED
      BY <3>1, CalmBegins
  <2>3. CASE ~NeedsReindex(e)
    <3>1. Begin(o, "write", row.status, e, FALSE)
      BY <1>2, <2>1, <2>3 DEF Edit
    <3>2. QED
      BY <2>1, <2>3, <3>1, CalmBegins
  <2>4. QED
    BY <2>2, <2>3
<1>3. CASE Reindex(o, e)
  BY <1>3, CalmBegins DEF Reindex
<1>4. ASSUME NEW s \in Down, TakeDown(o, s, e) PROVE CalmInv'
  BY <1>4, CalmBegins DEF TakeDown
<1>5. QED
  BY <1>1, <1>2, <1>3, <1>4

LEMMA CalmEdits ==
    ASSUME KnowledgeShape, CalmInv, NEW o \in Editors, Finishing(o) \/ EditFails(o)
    PROVE  CalmInv'
<1>1. SUFFICES ASSUME ~doubt' PROVE Calm'
  BY DEF CalmInv
<1>2. ~EditFails(o)
  BY <1>1 DEF EditFails
<1>3. doubt' = doubt /\ ~doubt /\ Calm /\ editor[o].at # "idle"
  <2>1. doubt' = doubt \/ doubt' = TRUE
    BY <1>2 DEF Finishing, Erase, Clear, Overwrite, Enqueue
  <2>2. editor[o].at # "idle"
    BY <1>2 DEF Finishing, Erase, Clear, Overwrite, Enqueue
  <2>3. QED
    BY <1>1, <2>1, <2>2 DEF CalmInv
<1>4. EditorAlone(o) /\ EditorPhase(o)
  BY <1>3, AtRequest
<1>5. editor \in [Editors -> Edits] /\ editor[o] \in Edits /\ NoEdit.at = "idle"
  BY DEF KnowledgeShape, NoEdit
<1>6. \A p \in {"clear", "write", "add"} :
         /\ [editor[o] EXCEPT !.at = p].at = p /\ [editor[o] EXCEPT !.at = p].copy = editor[o].copy
         /\ [editor[o] EXCEPT !.at = p].adds = editor[o].adds
  BY <1>5 DEF Edits
<1>7. \A x \in Editors : x # o => editor'[x].at = "idle"
  BY <1>2, <1>4, <1>5 DEF Finishing, Erase, Clear, Overwrite, Enqueue, EditorAlone
<1>8. CASE Erase(o)
  <2>1. points' = 0 /\ UNCHANGED <<batch, indexer, stray>> /\ editor[o].at = "erase"
    BY <1>1, <1>8 DEF Erase, indexVars
  <2>2. editor'[o].at = "clear" /\ editor'[o].copy = editor[o].copy /\ editor'[o].adds = editor[o].adds
    BY <1>5, <1>6, <1>8 DEF Erase
  <2>3. EditorAlone(o)'
    BY <1>4, <1>7, <2>1, <2>2 DEF EditorAlone, IndexersRest
  <2>4. EditorPhase(o)'
    BY <1>4, <2>1, <2>2 DEF EditorPhase
  <2>5. QED
    BY <2>3, <2>4 DEF Calm
<1>9. CASE Clear(o)
  <2>1. chunks' = 0 /\ UNCHANGED <<points, batch, indexer, stray>> /\ editor[o].at = "clear"
    BY <1>9 DEF Clear, indexVars
  <2>2. editor'[o].at = "write" /\ editor'[o].copy = editor[o].copy /\ editor'[o].adds = editor[o].adds
    BY <1>5, <1>6, <1>9 DEF Clear
  <2>3. EditorAlone(o)'
    BY <1>4, <1>7, <2>1, <2>2 DEF EditorAlone, IndexersRest
  <2>4. editor[o].copy.status \in Down /\ ~editor[o].adds /\ points = 0
    BY <1>4, <2>1 DEF EditorPhase
  <2>5. EditorPhase(o)'
    BY <2>1, <2>2, <2>4 DEF EditorPhase, Agreed, Down
  <2>6. QED
    BY <2>3, <2>5 DEF Calm
<1>10. CASE Overwrite(o)
  <2>1. row' = editor[o].copy /\ UNCHANGED <<chunks, points, batch, indexer, stray>> /\ editor[o].at = "write"
    BY <1>10 DEF Overwrite, indexVars
  <2>2. CASE editor[o].adds
    <3>1. editor'[o].at = "add" /\ editor'[o].copy = editor[o].copy
      BY <1>5, <1>6, <1>10, <2>2 DEF Overwrite
    <3>2. EditorAlone(o)'
      BY <1>4, <1>7, <2>1, <3>1 DEF EditorAlone, IndexersRest
    <3>3. EditorPhase(o)'
      BY <1>4, <2>1, <2>2, <3>1 DEF EditorPhase
    <3>4. QED
      BY <3>2, <3>3 DEF Calm
  <2>3. CASE ~editor[o].adds
    <3>1. editor'[o].at = "idle"
      BY <1>5, <1>10, <2>3 DEF Overwrite
    <3>2. AllAtRest'
      BY <1>4, <1>7, <2>1, <3>1 DEF EditorAlone, IndexersRest, AllAtRest
    <3>3. Agreed(row)'
      BY <1>4, <2>1, <2>3 DEF EditorPhase, Agreed
    <3>4. QED
      BY <3>2, <3>3 DEF Calm
  <2>4. QED
    BY <2>2, <2>3
<1>11. CASE Enqueue(o)
  <2>1. /\ UNCHANGED <<row, indexer, stray>> /\ editor[o].at = "add" /\ editor'[o].at = "idle"
        /\ batch' = Append(batch, editor[o].copy.edition)
    BY <1>5, <1>11 DEF Enqueue, storeVars
  <2>2. batch' = <<row.edition>>
    BY <1>4, <2>1 DEF EditorAlone, EditorPhase
  <2>3. CopyWaits'
    BY <1>4, <1>7, <2>1, <2>2 DEF EditorAlone, EditorPhase, CopyWaits, EditorsRest, IndexersRest
  <2>4. QED
    BY <2>3 DEF Calm
<1>12. QED
  BY <1>2, <1>8, <1>9, <1>10, <1>11 DEF Finishing

LEMMA CalmIndexes ==
    ASSUME KnowledgeShape, CalmInv, NEW w \in Indexers, Indexing(w) \/ IndexFails(w) \/ IndexStops(w)
    PROVE  CalmInv'
<1>1. SUFFICES ASSUME ~doubt' PROVE Calm'
  BY DEF CalmInv
<1>2. ~IndexStops(w)
  BY <1>1 DEF IndexStops
<1>3. Calm
  <2>1. doubt' = doubt
    BY <1>2 DEF Indexing, IndexFails, Flush, RagDeletes, RagUpserts, SaveChunks, MarkActive, MarkFailed
  <2>2. QED
    BY <1>1, <2>1 DEF CalmInv
<1>4. editor' = editor
  BY <1>2 DEF Indexing, IndexFails, Flush, RagDeletes, RagUpserts, SaveChunks, MarkActive, MarkFailed, editorVars
<1>5. indexer \in [Indexers -> JobKinds] /\ indexer[w] \in JobKinds
  BY DEF KnowledgeShape
<1>6. ASSUME NEW p, Goes(w, p)
      PROVE  indexer'[w].at = p /\ indexer'[w].docs = indexer[w].docs /\ \A x \in Indexers : x # w => indexer'[x] = indexer[x]
  BY <1>5, <1>6 DEF Goes, JobKinds
<1>7. CASE Flush(w)
  <2>1. CopyWaits
    BY <1>3, <1>7, AtBatch DEF Flush
  <2>2. /\ indexer'[w] = [at |-> "delete", docs |-> batch] /\ \A x \in Indexers : x # w => indexer'[x] = indexer[x]
        /\ batch' = <<>> /\ UNCHANGED <<row, stray>>
    BY <1>5, <1>7 DEF Flush, storeVars
  <2>3. IndexerAlone(w)' /\ IndexerPhase(w)'
    BY <1>4, <2>1, <2>2 DEF CopyWaits, IndexerAlone, IndexerPhase, IndexersRest, EditorsRest
  <2>4. QED
    BY <2>3 DEF Calm
<1>8. CASE RagDeletes(w) \/ RagUpserts(w) \/ SaveChunks(w) \/ IndexFails(w) \/ MarkActive(w) \/ MarkFailed(w)
  <2>1. indexer[w].at # "idle"
    BY <1>8 DEF RagDeletes, RagUpserts, SaveChunks, IndexFails, MarkActive, MarkFailed, Works
  <2>2. IndexerAlone(w) /\ IndexerPhase(w)
    BY <1>3, <2>1, AtIndexer
  <2>3. Doc(w) = row.edition /\ Len(indexer[w].docs) = 1
    BY <2>2 DEF IndexerPhase, Doc
  <2>4. batch' = batch
    BY <1>8 DEF RagDeletes, RagUpserts, SaveChunks, IndexFails, MarkActive, MarkFailed
  <2>5. CASE RagDeletes(w) \/ RagUpserts(w) \/ SaveChunks(w) \/ IndexFails(w)
    <3>1. row' = row
      BY <2>5 DEF RagDeletes, RagUpserts, SaveChunks, IndexFails, storeVars
    <3>2. PICK p \in {"upsert", "chunks", "write", "mark"} : Goes(w, p)
      BY <2>5 DEF RagDeletes, RagUpserts, SaveChunks, IndexFails, AfterError
    <3>3. indexer'[w].at = p /\ indexer'[w].docs = <<row'.edition>> /\ \A x \in Indexers : x # w => indexer'[x].at = "idle"
      BY <1>6, <2>2, <3>1, <3>2 DEF IndexerAlone, IndexerPhase
    <3>4. stray' # stray \/ indexer[w].at = "mark" => p = "mark"
      BY <1>6, <2>5, <3>3 DEF RagDeletes, RagUpserts, SaveChunks, IndexFails, AfterError, Works
    <3>5. p = "chunks" => points' = row'.edition
      BY <1>6, <2>3, <2>5, <3>1, <3>3 DEF RagDeletes, RagUpserts, SaveChunks, IndexFails, AfterError
    <3>6. p = "write" => points' = row'.edition /\ chunks' = row'.edition
      BY <1>6, <2>2, <2>3, <2>5, <3>1, <3>3 DEF RagDeletes, RagUpserts, SaveChunks, IndexFails, AfterError, IndexerPhase, Works
    <3>7. IndexerAlone(w)'
      BY <1>4, <2>2, <2>4, <3>3, <3>4 DEF IndexerAlone, EditorsRest
    <3>8. IndexerPhase(w)'
      BY <2>2, <3>1, <3>3, <3>5, <3>6 DEF IndexerPhase
    <3>9. QED
      BY <3>7, <3>8 DEF Calm
  <2>6. CASE MarkActive(w) \/ MarkFailed(w)
    <3>1. NextDoc(w)
      BY <2>6 DEF MarkActive, MarkFailed
    <3>2. indexer' = [indexer EXCEPT ![w] = NoWork]
      BY <2>3, <3>1 DEF NextDoc
    <3>3. IndexersRest' /\ EditorsRest' /\ batch' = <<>>
      BY <1>4, <1>5, <2>2, <2>4, <3>2, NoWorks DEF IndexerAlone, IndexersRest, EditorsRest
    <3>4. CASE MarkFailed(w)
      <4>1. row'.status = "failed"
        BY <3>4 DEF MarkFailed
      <4>2. QED
        BY <3>3, <4>1 DEF Failed, Calm
    <3>5. CASE MarkActive(w)
      <4>1. /\ row' = [status |-> "active", edition |-> row.edition] /\ UNCHANGED <<points, chunks, stray>>
            /\ indexer[w].at = "write"
        BY <2>3, <3>5 DEF MarkActive, Works
      <4>2. points' = row.edition /\ chunks' = row.edition /\ stray'.at = "idle"
        BY <2>2, <4>1 DEF IndexerAlone, IndexerPhase
      <4>3. AllAtRest'
        BY <3>3, <4>2 DEF AllAtRest, IndexersRest, EditorsRest
      <4>4. Agreed(row)'
        BY <4>1, <4>2 DEF Agreed, Down
      <4>5. QED
        BY <4>3, <4>4 DEF Calm
    <3>6. QED
      BY <2>6, <3>4, <3>5
  <2>7. QED
    BY <1>8, <2>5, <2>6
<1>9. QED
  BY <1>2, <1>7, <1>8 DEF Indexing

LEMMA CalmCalls == ASSUME CalmInv, StrayRuns PROVE CalmInv'
<1>1. SUFFICES ASSUME ~doubt' PROVE Calm'
  BY DEF CalmInv
<1>2. UNCHANGED <<row, editor, batch, indexer, doubt>> /\ stray.at # "idle"
  BY DEF StrayRuns, editorVars, indexVars
<1>3. Calm
  BY <1>1, <1>2 DEF CalmInv
<1>4. CASE Failed
  BY <1>2, <1>4 DEF Failed, EditorsRest, IndexersRest, Calm
<1>5. ASSUME NEW w \in Indexers, IndexerAlone(w), IndexerPhase(w), indexer[w].at = "mark" PROVE Calm'
  <2>1. IndexerAlone(w)' /\ IndexerPhase(w)'
    BY <1>2, <1>5 DEF IndexerAlone, IndexerPhase, EditorsRest
  <2>2. QED
    BY <2>1 DEF Calm
<1>6. QED
  BY <1>2, <1>3, <1>4, <1>5, AtCall

LEMMA CalmAlways == KnowledgeSpec => [](NoneInv /\ CalmInv)
<1>1. KnowledgeShape /\ NoneInv /\ CalmInv /\ [KnowledgeNext]_knowledgeVars => NoneInv' /\ CalmInv'
  <2> SUFFICES ASSUME KnowledgeShape, NoneInv, CalmInv, [KnowledgeNext]_knowledgeVars PROVE NoneInv' /\ CalmInv'
    OBVIOUS
  <2>1. CASE UNCHANGED knowledgeVars
    <3>1. UNCHANGED <<row, chunks, points, editor, batch, indexer, stray, doubt>>
      BY <2>1 DEF knowledgeVars, storeVars, editorVars, indexVars
    <3>2. NoneInv'
      BY <3>1 DEF NoneInv, AllAtRest
    <3>3. Calm' = Calm
      BY <3>1 DEF Calm, AllAtRest, Agreed, EditorAlone, EditorPhase, CopyWaits, IndexerAlone, IndexerPhase, Failed,
                  EditorsRest, IndexersRest
    <3>4. QED
      BY <3>1, <3>2, <3>3 DEF CalmInv
  <2>2. ASSUME NEW o \in Editors, Create(o) \/ Beginning(o) \/ Finishing(o) \/ EditFails(o) PROVE NoneInv' /\ CalmInv'
    BY <2>2, NoneEdits, CalmCreates, CalmBeginning, CalmEdits
  <2>3. ASSUME NEW w \in Indexers, Indexing(w) \/ IndexFails(w) \/ IndexStops(w) PROVE NoneInv' /\ CalmInv'
    BY <2>3, NoneIndexes, CalmIndexes
  <2>4. CASE StrayRuns
    BY <2>4, NoneDies, CalmCalls
  <2>5. CASE Die
    BY <2>5, NoneDies DEF Die, CalmInv
  <2>6. QED
    BY <2>1, <2>2, <2>3, <2>4, <2>5 DEF KnowledgeNext
<1>2. QED
  BY <1>1, NoneInit, KnowledgeInvariant, PTL DEF KnowledgeSpec

(* A document changed by one request at a time, and to its end, is in campus-rag and in the chunks
   as its row says, whatever calls fail or run on while it is indexed. *)
THEOREM StoresAgree == KnowledgeSpec => []KnowledgeAgrees
<1>1. NoneInv /\ CalmInv => KnowledgeAgrees
  BY AtNothing DEF CalmInv, KnowledgeAgrees, Agreed
<1>2. QED
  BY <1>1, CalmAlways, PTL

(* A document that says "indexing" is on its way: the request that made it so has yet to
   enqueue its copy or is about to overwrite it, its copy waits in the batch, or an
   indexer is at work on it. *)
Promises(e) == e.at = "add" \/ (e.at = "write" /\ e.adds)
Overwrites(e) == e.at # "idle" /\ e.copy.status # "indexing"

IndexingHasWorker ==
    row.status = "indexing" /\ ~doubt =>
        \/ \E o \in Editors : Promises(editor[o]) \/ Overwrites(editor[o])
        \/ batch = <<row.edition>>
        \/ \E w \in Indexers : indexer[w].at # "idle" /\ indexer[w].docs = <<row.edition>>

(* No error of campus-rag, of the chunks or of a mark leaves a document "indexing" with
   nobody to index it, unless changes overlapped or one was left halfway: what IndexingEnds
   needs besides fairness. *)
THEOREM IndexingIsWorkedOn == KnowledgeSpec => []IndexingHasWorker
<1>1. ASSUME KnowledgeShape, CalmInv PROVE IndexingHasWorker
  <2>1. SUFFICES ASSUME row.status = "indexing", Calm
                 PROVE  \/ \E o \in Editors : Promises(editor[o]) \/ Overwrites(editor[o])
                        \/ batch = <<row.edition>>
                        \/ \E w \in Indexers : indexer[w].at # "idle" /\ indexer[w].docs = <<row.edition>>
    BY <1>1 DEF CalmInv, IndexingHasWorker
  <2>2. ASSUME NEW o \in Editors, EditorAlone(o), EditorPhase(o)
        PROVE  Promises(editor[o]) \/ Overwrites(editor[o])
    <3>1. editor[o].at \in {"erase", "clear", "write", "add"}
      BY <1>1, <2>2 DEF EditorAlone, KnowledgeShape, Edits
    <3>2. QED
      BY <2>2, <3>1 DEF EditorAlone, EditorPhase, Agreed, Down, Promises, Overwrites
  <2>3. QED
    BY <2>1, <2>2 DEF Calm, Agreed, CopyWaits, IndexerAlone, IndexerPhase, Failed
<1>2. QED
  BY <1>1, CalmAlways, KnowledgeInvariant, PTL

=============================================================================
