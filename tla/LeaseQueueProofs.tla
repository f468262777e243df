-------------------------- MODULE LeaseQueueProofs --------------------------
(***************************************************************************)
(* A table of leased rows implements the abstract task queue, for every    *)
(* number of rows and jobs, every retry limit and every batch size.        *)
(***************************************************************************)
EXTENDS LeaseQueue, TLAPS, WellFoundedInduction

(* A row that may still be claimed, and a claim, have retries left; a claim is
   on a row that exists. *)
RowInv ==
    /\ QueueTypeOK
    /\ \A i \in Items : state[i] \in {"none", "pending", "processing"} => retry[i] < MaxRetry
    /\ \A w \in Workers, i \in Items : claim[w][i] < MaxRetry
    /\ \A w \in Workers, i \in Items : Holds(w, i) => state[i] # "none"

(* A job that holds a row holds it alone, under a live lease, and knows its
   retry count. *)
HoldInv ==
    \A w \in Workers, i \in Items :
        Holds(w, i) => /\ state[i] = "processing" /\ leased[i]
                       /\ claim[w][i] = retry[i]
                       /\ \A u \in Workers : Holds(u, i) => u = w

(* Numbers are well ordered: the first of a batch, or of the recipients, exists. *)
LEMMA FirstIsLeast ==
    ASSUME NEW S \in SUBSET Nat, S # {}
    PROVE  First(S) \in S
<1> DEFINE R == OpToRel(<, Nat)
<1>1. R = {ss \in Nat \X Nat : ss[1] < ss[2]}
  BY Zenon DEF OpToRel
<1>2. IsWellFoundedOn(R, Nat)
  BY NatLessThanWellFounded, Zenon
<1> HIDE DEF R
<1>3. \E x \in S : \A y \in S : <<y, x>> \notin R
  BY <1>2, WFMin, Zenon
<1>4. \A x, y \in Nat : <<y, x>> \notin R => x <= y
  BY <1>1
<1>5. \E x \in S : \A y \in S : x <= y
  BY <1>3, <1>4
<1>6. QED
  BY <1>5, Zenon DEF First

(* A job with a batch is at work on a row of it. *)
LEMMA CurInBatch ==
    ASSUME NEW w, Held(w) # {}
    PROVE  Cur(w) \in Items /\ Holds(w, Cur(w))
<1>1. Held(w) \in SUBSET Nat
  BY LeaseQueueAssumption DEF Held
<1>2. Cur(w) \in Held(w)
  BY <1>1, FirstIsLeast DEF Cur
<1>3. QED
  BY <1>2 DEF Held

(* What a job forgets leaves its batch, and no other. *)
LEMMA ForgetHeld ==
    ASSUME RowInv, NEW w \in Workers, NEW S \in SUBSET Items, Forget(w, S)
    PROVE  /\ Held(w)' = Held(w) \ S
           /\ \A u \in Workers : u # w => Held(u)' = Held(u)
BY DEF RowInv, QueueTypeOK, Forget, Held, Holds

LEMMA SameBatch ==
    ASSUME NEW w, Held(w)' = Held(w)
    PROVE  Cur(w)' = Cur(w)
BY DEF Cur

(* Every step of the queue is one of these. *)
LEMMA QueueCases ==
    ASSUME QueueNext
    PROVE  \/ \E i \in Items : Insert(i)
           \/ \E i \in Items : FallDue(i)
           \/ \E i \in Items : LeaseExpire(i)
           \/ \E w \in Workers, i \in Items : MarkDone(w, i)
           \/ \E w \in Workers, i \in Items : MarkRetry(w, i)
           \/ \E w \in Workers, S \in SUBSET Items : ClaimRows(w, S)
           \/ \E w \in Workers, S \in SUBSET Items : Drop(w, S)
BY Zenon DEF QueueNext

LEMMA QueueTypeInit == InitQueue => RowInv
BY LeaseQueueAssumption DEF InitQueue, RowInv, QueueTypeOK, States, NotHeld, Holds

LEMMA QueueTypeStep ==
    ASSUME RowInv, QueueNext
    PROVE  RowInv'
<1> USE LeaseQueueAssumption DEF RowInv, QueueTypeOK, States, NotHeld, Holds
<1>1. ASSUME NEW i \in Items, Insert(i) PROVE RowInv'
  BY <1>1 DEF Insert
<1>2. ASSUME NEW i \in Items, FallDue(i) PROVE RowInv'
  BY <1>2 DEF FallDue
<1>3. ASSUME NEW i \in Items, LeaseExpire(i) PROVE RowInv'
  BY <1>3 DEF LeaseExpire
<1>4. ASSUME NEW w \in Workers, NEW i \in Items, MarkDone(w, i) PROVE RowInv'
  BY <1>4 DEF MarkDone, Forget
<1>5. ASSUME NEW w \in Workers, NEW i \in Items, MarkRetry(w, i) PROVE RowInv'
  <2>1. claim[w][i] + 1 \in 1..MaxRetry
    BY <1>5 DEF MarkRetry, Holds
  <2>2. QueueTypeOK'
    BY <1>5, <2>1 DEF MarkRetry, Forget
  <2>3. \A j \in Items : state'[j] \in {"none", "pending", "processing"} => retry'[j] < MaxRetry
    BY <1>5, <2>1 DEF MarkRetry, Forget, Final
  <2>4. \A u \in Workers, j \in Items : claim'[u][j] < MaxRetry
    BY <1>5 DEF MarkRetry, Forget
  <2>5. \A u \in Workers, j \in Items : claim'[u][j] # -1 => state'[j] # "none"
    BY <1>5 DEF MarkRetry, Forget
  <2>6. QED
    BY <2>2, <2>3, <2>4, <2>5
<1>6. ASSUME NEW w \in Workers, NEW S \in SUBSET Items, ClaimRows(w, S) PROVE RowInv'
  <2>1. \A i \in S : state[i] \in {"pending", "processing"}
    BY <1>6 DEF ClaimRows, Oldest, Ready
  <2>2. QED
    BY <1>6, <2>1 DEF ClaimRows
<1>7. ASSUME NEW w \in Workers, NEW S \in SUBSET Items, Drop(w, S) PROVE RowInv'
  BY <1>7 DEF Drop, Forget, rowVars
<1>8. QED
  BY <1>1, <1>2, <1>3, <1>4, <1>5, <1>6, <1>7, QueueCases

LEMMA HoldInit == InitQueue => HoldInv
BY DEF InitQueue, HoldInv, Holds

(* Exclusive possession: this is where the lease must outlive the job. *)
LEMMA HoldStep ==
    ASSUME LeaseOutlivesRun, RowInv, HoldInv, QueueNext
    PROVE  HoldInv'
<1> USE LeaseQueueAssumption DEF HoldInv, RowInv, QueueTypeOK, Holds, NotHeld
<1>1. ASSUME NEW i \in Items, Insert(i) PROVE HoldInv'
  BY <1>1 DEF Insert
<1>2. ASSUME NEW i \in Items, FallDue(i) PROVE HoldInv'
  BY <1>2 DEF FallDue
<1>3. ASSUME NEW i \in Items, LeaseExpire(i) PROVE HoldInv'
  BY <1>3 DEF LeaseExpire
<1>4. ASSUME NEW w \in Workers, NEW i \in Items, MarkDone(w, i) PROVE HoldInv'
  BY <1>4 DEF MarkDone, Forget
<1>5. ASSUME NEW w \in Workers, NEW i \in Items, MarkRetry(w, i) PROVE HoldInv'
  BY <1>5 DEF MarkRetry, Forget
<1>6. ASSUME NEW w \in Workers, NEW S \in SUBSET Items, ClaimRows(w, S) PROVE HoldInv'
  <2>1. \A i \in S, u \in Workers : ~Holds(u, i)
    BY <1>6 DEF ClaimRows, Oldest, Ready
  <2>2. \A i \in Items : ~Holds(w, i)
    BY <1>6 DEF ClaimRows, Held
  <2>3. claim' = [claim EXCEPT ![w] = [i \in Items |-> IF i \in S THEN retry[i] ELSE -1]]
    BY <1>6 DEF ClaimRows
  <2>4. SUFFICES ASSUME NEW u \in Workers, NEW j \in Items, claim'[u][j] # -1
                 PROVE  /\ state'[j] = "processing" /\ leased'[j]
                        /\ claim'[u][j] = retry'[j]
                        /\ \A v \in Workers : claim'[v][j] # -1 => v = u
    OBVIOUS
  <2>5. CASE u = w
    <3>1. j \in S
      BY <2>3, <2>4, <2>5
    <3>2. state'[j] = "processing" /\ leased'[j] /\ retry'[j] = retry[j]
      BY <1>6, <3>1 DEF ClaimRows
    <3>3. claim'[u][j] = retry[j]
      BY <2>3, <2>5, <3>1
    <3>4. \A v \in Workers : v # w => claim'[v][j] = -1
      BY <2>1, <2>3, <3>1
    <3>5. QED
      BY <2>5, <3>2, <3>3, <3>4
  <2>6. CASE u # w
    <3>1. claim'[u][j] = claim[u][j]
      BY <2>3, <2>6
    <3>2. j \notin S
      BY <2>1, <2>4, <3>1
    <3>3. \A v \in Workers : claim'[v][j] # -1 => v # w /\ claim[v][j] # -1
      BY <2>3, <3>2
    <3>4. QED
      BY <1>6, <2>4, <3>1, <3>2, <3>3 DEF ClaimRows
  <2>7. QED
    BY <2>5, <2>6
<1>7. ASSUME NEW w \in Workers, NEW S \in SUBSET Items, Drop(w, S) PROVE HoldInv'
  BY <1>7 DEF Drop, Forget, rowVars
<1>8. QED
  BY <1>1, <1>2, <1>3, <1>4, <1>5, <1>6, <1>7, QueueCases

-----------------------------------------------------------------------------
(* The abstract view of a row follows its status. *)
LEMMA PhaseOf ==
    ASSUME NEW i \in Items
    PROVE  Phase[i] = CASE state[i] = "pending" -> "waiting"
                        [] state[i] = "processing" -> "taken"
                        [] OTHER -> state[i]
BY Zenon DEF Phase

LEMMA QueueInitRefines == InitQueue => Queue!Init
<1> SUFFICES ASSUME InitQueue PROVE Queue!Init
  OBVIOUS
<1>1. Phase = [i \in Items |-> "none"]
  BY DEF InitQueue, Phase
<1>2. [i \in Items |-> {w \in Workers : Holds(w, i)}] = [i \in Items |-> {}]
  BY DEF InitQueue, Holds
<1>3. QED
  BY <1>1, <1>2 DEF Queue!Init, InitQueue

Holding == [i \in Items |-> {w \in Workers : Holds(w, i)}]

(* A row that a job settles or fails is held by that job alone. *)
LEMMA SettlerIsHolder ==
    ASSUME RowInv, HoldInv, NEW w \in Workers, NEW i \in Items, Holds(w, i)
    PROVE  Phase[i] = "taken" /\ Holding[i] = {w} /\ claim[w][i] = retry[i]
BY PhaseOf DEF HoldInv, Holding, RowInv, QueueTypeOK

(* What a job forgets leaves its set of holders, and no other. *)
LEMMA ForgetLeaves ==
    ASSUME RowInv, NEW w \in Workers, NEW S \in SUBSET Items, Forget(w, S)
    PROVE  Holding' = [i \in Items |-> IF i \in S THEN Holding[i] \ {w} ELSE Holding[i]]
<1>1. \A u \in Workers, i \in Items :
         Holds(u, i)' <=> Holds(u, i) /\ ~(u = w /\ i \in S)
  BY DEF Forget, Holds, RowInv, QueueTypeOK
<1>2. QED
  BY <1>1 DEF Holding

(* Every step of the rows is a step of the abstract queue, or changes nothing of it. *)
LEMMA QueueStepRefines ==
    ASSUME RowInv, HoldInv, [QueueNext]_queueVars
    PROVE  [Queue!Next]_(Queue!vars)
<1> DEFINE TQ == [Queue!Next]_(Queue!vars)
<1> USE DEF RowInv, QueueTypeOK
<1>1. ASSUME NEW i \in Items, Insert(i) PROVE TQ
  <2>1. Phase[i] = "none" /\ Phase' = [Phase EXCEPT ![i] = "waiting"]
    BY <1>1 DEF Insert, Phase
  <2>2. Holding' = Holding
    BY <1>1 DEF Insert, Holding, Holds
  <2>3. Queue!Submit(i)
    BY <1>1, <2>1, <2>2 DEF Queue!Submit, Insert, Holding
  <2>4. QED
    BY <2>3 DEF Queue!Next
<1>2. ASSUME NEW i \in Items, FallDue(i) \/ LeaseExpire(i) PROVE TQ
  BY <1>2 DEF FallDue, LeaseExpire, Queue!vars, Phase, Holds
<1>3. ASSUME NEW w \in Workers, NEW i \in Items, MarkDone(w, i) PROVE TQ
  <2>1. Phase[i] = "taken" /\ Holding[i] = {w}
    BY <1>3, SettlerIsHolder DEF MarkDone
  <2>2. Phase' = [Phase EXCEPT ![i] = "done"]
    BY <1>3 DEF MarkDone, Phase
  <2>3. Holding' = [j \in Items |-> IF j \in {i} THEN Holding[j] \ {w} ELSE Holding[j]]
    BY <1>3, ForgetLeaves DEF MarkDone
  <2>4. Holding' = [Holding EXCEPT ![i] = {}]
    BY <2>1, <2>3 DEF Holding
  <2>5. Queue!Settle(w, i)
    BY <1>3, <2>1, <2>2, <2>4 DEF Queue!Settle, MarkDone, Holding
  <2>6. QED
    BY <2>5 DEF Queue!Next
<1>4. ASSUME NEW w \in Workers, NEW i \in Items, MarkRetry(w, i) PROVE TQ
  <2>1. Phase[i] = "taken" /\ Holding[i] = {w} /\ claim[w][i] = retry[i]
    BY <1>4, SettlerIsHolder DEF MarkRetry
  <2>2. retry' = [retry EXCEPT ![i] = retry[i] + 1]
    BY <1>4, <2>1 DEF MarkRetry
  <2>3. Phase' = [Phase EXCEPT ![i] = IF retry[i] + 1 >= MaxRetry THEN "failed" ELSE "waiting"]
    BY <1>4, <2>1 DEF MarkRetry, Final, Phase
  <2>4. Holding' = [j \in Items |-> IF j \in {i} THEN Holding[j] \ {w} ELSE Holding[j]]
    BY <1>4, ForgetLeaves DEF MarkRetry
  <2>5. Holding' = [Holding EXCEPT ![i] = {}]
    BY <2>1, <2>4 DEF Holding
  <2>6. Queue!Fail(w, i)
    BY <2>1, <2>2, <2>3, <2>5 DEF Queue!Fail, Holding
  <2>7. QED
    BY <2>6 DEF Queue!Next
<1>5. ASSUME NEW w \in Workers, NEW S \in SUBSET Items, ClaimRows(w, S) PROVE TQ
  <2>1. \A i \in S : Phase[i] \in {"waiting", "taken"} /\ Holding[i] = {}
    BY <1>5, PhaseOf DEF ClaimRows, Oldest, Ready, HoldInv, Holding
  <2>2. Phase' = [i \in Items |-> IF i \in S THEN "taken" ELSE Phase[i]]
    BY <1>5 DEF ClaimRows, Phase
  <2>3. \A u \in Workers, i \in Items :
           Holds(u, i)' <=> (i \in S /\ u = w) \/ (i \notin S /\ Holds(u, i))
    <3>1. \A u \in Workers, i \in S : claim[u][i] = -1
      BY <2>1 DEF Holding, Holds, NotHeld
    <3>2. \A i \in Items : claim[w][i] = -1
      BY <1>5 DEF ClaimRows, Held, Holds, NotHeld
    <3>3. claim' = [claim EXCEPT ![w] = [i \in Items |-> IF i \in S THEN retry[i] ELSE -1]]
      BY <1>5 DEF ClaimRows, NotHeld
    <3>4. QED
      BY <3>1, <3>2, <3>3 DEF Holds, NotHeld
  <2>4. Holding' = [i \in Items |-> IF i \in S THEN {w} ELSE Holding[i]]
    BY <2>3 DEF Holding
  <2>5. Queue!Take(w, S)
    BY <1>5, <2>1, <2>2, <2>4 DEF Queue!Take, ClaimRows, Holding
  <2>6. QED
    BY <2>5 DEF Queue!Next
<1>6. ASSUME NEW w \in Workers, NEW S \in SUBSET Items, Drop(w, S) PROVE TQ
  <2>1. Holding' = [i \in Items |-> IF i \in S THEN Holding[i] \ {w} ELSE Holding[i]]
    BY <1>6, ForgetLeaves DEF Drop
  <2>2. Phase' = Phase
    BY <1>6 DEF Drop, rowVars, Phase
  <2>3. Queue!Leave(w, S)
    BY <1>6, <2>1, <2>2 DEF Queue!Leave, Drop, rowVars, Holding
  <2>4. QED
    BY <2>3 DEF Queue!Next
<1>7. CASE UNCHANGED queueVars
  BY <1>7 DEF queueVars, rowVars, Queue!vars, Phase, Holds
<1>8. QED
  BY <1>1, <1>2, <1>3, <1>4, <1>5, <1>6, <1>7, QueueCases

(* A table of rows and leases is a queue whose items are worked on by one job at
   a time, counted once per failed attempt and settled once, whenever the jobs'
   deadline is shorter than their lease: the marks of Mark...Done and ...Retry
   need no more than WHERE id then. *)
THEOREM LeasesImplementQueue ==
    ASSUME LeaseOutlivesRun
    PROVE  QueueSpec => IsTaskQueue
<1>1. InitQueue => RowInv /\ HoldInv
  BY QueueTypeInit, HoldInit
<1>2. RowInv /\ HoldInv /\ [QueueNext]_queueVars => (RowInv /\ HoldInv)'
  <2>1. ASSUME RowInv, HoldInv, QueueNext PROVE (RowInv /\ HoldInv)'
    BY <2>1, QueueTypeStep, HoldStep
  <2>2. ASSUME RowInv, HoldInv, UNCHANGED queueVars PROVE (RowInv /\ HoldInv)'
    BY <2>2 DEF queueVars, rowVars, RowInv, HoldInv, QueueTypeOK, Holds
  <2>3. QED
    BY <2>1, <2>2
<1>3. InitQueue => Queue!Init
  BY QueueInitRefines
<1>4. RowInv /\ HoldInv /\ [QueueNext]_queueVars => [Queue!Next]_(Queue!vars)
  BY QueueStepRefines
<1>5. QED
  BY <1>1, <1>2, <1>3, <1>4, PTL DEF QueueSpec, IsTaskQueue, Queue!Spec

-----------------------------------------------------------------------------
(* What the abstract queue keeps: who works on an item has taken it, and what is
   not given up has attempts left. *)
TakenInv ==
    /\ Queue!WorkedOnAlone
    /\ \A i \in Items : Holding[i] # {} => Phase[i] = "taken"
    /\ retry \in [Items -> Nat]
    /\ Queue!GivenUpExactly

LEMMA TakenInit == Queue!Init => TakenInv
BY LeaseQueueAssumption DEF Queue!Init, TakenInv, Queue!WorkedOnAlone, Queue!GivenUpExactly, Holding

LEMMA TakenStep ==
    ASSUME TakenInv, [Queue!Next]_(Queue!vars)
    PROVE  /\ TakenInv'
           /\ \A i \in Items : Phase[i] \in {"done", "failed"}
                 => Phase'[i] = Phase[i] /\ retry'[i] = retry[i]
<1> DEFINE Goal == /\ TakenInv'
                   /\ \A i \in Items : Phase[i] \in {"done", "failed"}
                         => Phase'[i] = Phase[i] /\ retry'[i] = retry[i]
<1>0. Phase = [i \in Items |-> Phase[i]] /\ Holding = [i \in Items |-> Holding[i]]
  BY Zenon DEF Phase, Holding
<1> USE <1>0, LeaseQueueAssumption DEF TakenInv, Queue!WorkedOnAlone, Queue!GivenUpExactly
<1>1. ASSUME NEW i \in Items, Queue!Submit(i) PROVE Goal
  BY <1>1 DEF Queue!Submit, Holding
<1>2. ASSUME NEW w \in Workers, NEW i \in Items, Queue!Settle(w, i) PROVE Goal
  BY <1>2 DEF Queue!Settle, Holding
<1>3. ASSUME NEW w \in Workers, NEW i \in Items, Queue!Fail(w, i) PROVE Goal
  <2>1. Phase[i] = "taken" /\ retry[i] < MaxRetry /\ retry[i] \in Nat /\ MaxRetry \in Nat
    BY <1>3 DEF Queue!Fail
  <2>2. retry' = [retry EXCEPT ![i] = retry[i] + 1]
    BY <1>3 DEF Queue!Fail
  <2>3. Phase' = [Phase EXCEPT ![i] = IF retry[i] + 1 >= MaxRetry THEN "failed" ELSE "waiting"]
    BY <1>3 DEF Queue!Fail
  <2>4. Holding' = [Holding EXCEPT ![i] = {}]
    BY <1>3 DEF Queue!Fail, Holding
  <2>5. \A j \in Items : j # i => Phase'[j] = Phase[j] /\ retry'[j] = retry[j] /\ Holding'[j] = Holding[j]
    BY <1>0, <2>2, <2>3, <2>4
  <2>6. Holding'[i] = {} /\ retry'[i] = retry[i] + 1 /\ (Phase'[i] = "failed" <=> retry[i] + 1 >= MaxRetry)
    BY <1>0, <2>2, <2>3, <2>4
  <2>7. retry' \in [Items -> Nat]
    BY <2>1, <2>2
  <2>8. QED
    BY <2>1, <2>5, <2>6, <2>7 DEF Holding
<1>4. ASSUME NEW w \in Workers, NEW S \in SUBSET Items, Queue!Take(w, S) PROVE Goal
  <2>1. /\ \A i \in S : Phase[i] \in {"waiting", "taken"}
        /\ Phase' = [i \in Items |-> IF i \in S THEN "taken" ELSE Phase[i]]
        /\ Holding' = [i \in Items |-> IF i \in S THEN {w} ELSE Holding[i]]
        /\ retry' = retry
    BY <1>4 DEF Queue!Take, Holding
  <2>2. \A i \in Items : IF i \in S THEN Phase'[i] = "taken" /\ Holding'[i] = {w}
                                    ELSE Phase'[i] = Phase[i] /\ Holding'[i] = Holding[i]
    BY <2>1
  <2>3. Queue!WorkedOnAlone' /\ \A i \in Items : Holding'[i] # {} => Phase'[i] = "taken"
    BY <2>2 DEF Holding
  <2>4. Queue!GivenUpExactly' /\ retry' \in [Items -> Nat]
    BY <2>1, <2>2
  <2>5. \A i \in Items : Phase[i] \in {"done", "failed"} => Phase'[i] = Phase[i] /\ retry'[i] = retry[i]
    BY <2>1, <2>2
  <2>6. QED
    BY <2>3, <2>4, <2>5
<1>5. ASSUME NEW w \in Workers, NEW S \in SUBSET Items, Queue!Leave(w, S) PROVE Goal
  BY <1>5 DEF Queue!Leave, Holding
<1>6. CASE UNCHANGED (Queue!vars)
  BY <1>6 DEF Queue!vars, Holding
<1>7. QED
  BY <1>1, <1>2, <1>3, <1>4, <1>5, <1>6 DEF Queue!Next

(* What is gained from the abstract queue: of every table that implements it, no
   row is worked on by two jobs, none is given up early or tried once too often,
   and what is settled stays as it is. *)
THEOREM QueuesSettle ==
    IsTaskQueue => []Queue!WorkedOnAlone /\ []Queue!GivenUpExactly /\ Queue!SettledStays
<1> DEFINE A == \A i \in Items : Phase[i] \in {"done", "failed"}
                  => Phase'[i] = Phase[i] /\ retry'[i] = retry[i]
<1>1. TakenInv /\ [Queue!Next]_(Queue!vars) => TakenInv' /\ [A]_(Queue!vars)
  BY TakenStep
<1>2. TakenInv => Queue!WorkedOnAlone /\ Queue!GivenUpExactly
  BY DEF TakenInv
<1>3. QED
  BY TakenInit, <1>1, <1>2, PTL DEF IsTaskQueue, Queue!Spec, Queue!SettledStays

=============================================================================
