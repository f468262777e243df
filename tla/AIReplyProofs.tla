--------------------------- MODULE AIReplyProofs ---------------------------
(***************************************************************************)
(* Theorems about AIReply for every number of mentions and jobs, every     *)
(* retry limit, batch size and daily limit.                                *)
(***************************************************************************)
EXTENDS AIReply, LeaseQueueProofs, FiniteSetTheorems

AtWork == PCs \ {"idle", "hand"}

ReplyTypes ==
    /\ auto \in BOOLEAN
    /\ mention \in [Items -> {"no", "new", "tell", "handled"}]
    /\ answer \in [Items -> {"none", "shown", "gone"}]
    /\ posted \in [Items -> Nat]
    /\ handed \in [Items -> BOOLEAN]
    /\ today \subseteq Items
    /\ pc \in [Workers -> PCs]
    /\ fresh \in [Workers -> BOOLEAN]
    /\ telling \in [Workers -> SUBSET Items]
    /\ mishap \subseteq Items
    /\ resets \in 0..MaxResets
    /\ faults \in 0..MaxFaults

(* A job at work has a batch. *)
JobInv == \A w \in Workers : pc[w] \in AtWork => Held(w) # {}

(* A job that has to hand a task over has one to hand over. *)
TellInv ==
    \A w \in Workers :
        /\ pc[w] = "hand" => \E i \in Items : telling[w] = {i}
        /\ pc[w] # "hand" => telling[w] = {}

Inv == RowInv /\ ReplyTypes /\ JobInv /\ TellInv

LEMMA CurIsHeld ==
    ASSUME JobInv, NEW w \in Workers, pc[w] \in AtWork
    PROVE  Cur(w) \in Items /\ Holds(w, Cur(w))
BY CurInBatch DEF JobInv

LEMMA NextCases ==
    ASSUME Next
    PROVE  \/ \E i \in Items : Mention(i) \/ Enqueue(i) \/ TellMention(i) \/ MentionCrash(i)
           \/ \E i \in Items : Reset(i) \/ Withdraw(i) \/ Pass(i)
           \/ \E w \in Workers : Claim(w) \/ Check(w) \/ TellFull(w) \/ Postpone(w) \/ Look(w)
           \/ \E w \in Workers : TellRefused(w) \/ Post(w) \/ Mark(w) \/ Fail(w)
           \/ \E w \in Workers : HandOver(w) \/ Tell(w) \/ Close(w) \/ GiveUp(w)
           \/ Switch \/ NewDay
BY Zenon DEF Next

-----------------------------------------------------------------------------
(* Where the rows move: a step of the lease queue, or a row written whoever holds it. *)
LEMMA RowStep ==
    ASSUME Inv, Next
    PROVE  RowInv'
<1> USE DEF Inv
<1>1. CASE UNCHANGED queueVars
  BY <1>1 DEF RowInv, QueueTypeOK, queueVars, rowVars, Holds
<1>2. CASE QueueNext
  BY <1>2, QueueTypeStep
<1>3. ASSUME NEW i \in Items, Mention(i) \/ TellMention(i) \/ MentionCrash(i) \/ Withdraw(i)
      PROVE  UNCHANGED queueVars
  BY <1>3 DEF Mention, TellMention, MentionCrash, Withdraw
<1>4. ASSUME NEW i \in Items, Enqueue(i) \/ Pass(i) PROVE QueueNext \/ UNCHANGED queueVars
  BY <1>4 DEF Enqueue, Pass, QueueNext
<1>5. ASSUME NEW w \in Workers, Claim(w) PROVE QueueNext
  BY <1>5 DEF Claim, QueueNext
<1>6. ASSUME NEW w \in Workers,
             Check(w) \/ TellFull(w) \/ Look(w) \/ TellRefused(w) \/ Post(w) \/ HandOver(w) \/ Tell(w)
      PROVE  UNCHANGED queueVars
  BY <1>6 DEF Check, TellFull, Look, TellRefused, Post, HandOver, Tell
<1>7. ASSUME NEW w \in Workers, Mark(w) \/ Fail(w) PROVE QueueNext \/ UNCHANGED queueVars
  <2>1. Cur(w) \in Items
    BY <1>7, CurIsHeld DEF Mark, Fail, AtWork, PCs
  <2>2. MarkDone(w, Cur(w)) \/ MarkRetry(w, Cur(w)) \/ Drop(w, {Cur(w)}) \/ UNCHANGED queueVars
    BY <1>7 DEF Mark, Fail
  <2>3. QED
    BY <2>1, <2>2 DEF QueueNext
<1>8. ASSUME NEW w \in Workers, GiveUp(w) PROVE QueueNext
  BY <1>8 DEF GiveUp, QueueNext, Held
<1>9. ASSUME NEW w \in Workers, Postpone(w) \/ Close(w) PROVE RowInv'
  <2>1. PICK c : c = Cur(w)
    OBVIOUS
  <2>2. c \in Items /\ claim[w][c] # NotHeld
    BY <1>9, <2>1, CurIsHeld DEF Postpone, Close, AtWork, PCs, Holds
  <2>3. claim[w][c] \in 0..(MaxRetry - 1)
    BY <2>2, LeaseQueueAssumption DEF RowInv, QueueTypeOK, NotHeld
  <2>4. \/ UNCHANGED queueVars
        \/ UNCHANGED rowVars /\ Forget(w, {c})
        \/ SetRow(c, "pending", claim[w][c]) /\ Forget(w, {c})
        \/ SetRow(c, "failed", MaxRetry) /\ Forget(w, {c})
    BY <1>9, <2>1 DEF Postpone, CountPutOff, Close
  <2>5. CASE UNCHANGED rowVars /\ Forget(w, {c})
    BY <2>5, LeaseQueueAssumption DEF RowInv, QueueTypeOK, rowVars, Forget, Holds, NotHeld
  <2>6. CASE SetRow(c, "pending", claim[w][c]) /\ Forget(w, {c})
    BY <2>2, <2>3, <2>6, LeaseQueueAssumption
       DEF RowInv, QueueTypeOK, SetRow, Forget, Holds, NotHeld, States
  <2>7. CASE SetRow(c, "failed", MaxRetry) /\ Forget(w, {c})
    BY <2>2, <2>7, LeaseQueueAssumption
       DEF RowInv, QueueTypeOK, SetRow, Forget, Holds, NotHeld, States
  <2>8. QED
    BY <1>1, <2>4, <2>5, <2>6, <2>7
<1>10. ASSUME NEW i \in Items, Reset(i) PROVE RowInv'
  BY <1>10, LeaseQueueAssumption DEF Reset, RowInv, QueueTypeOK, Holds, States
<1>11. ASSUME Switch \/ NewDay PROVE UNCHANGED queueVars
  BY <1>11 DEF Switch, NewDay
<1>12. QED
  BY <1>1, <1>2, <1>3, <1>4, <1>5, <1>6, <1>7, <1>8, <1>9, <1>10, <1>11, NextCases

LEMMA FaultTypes ==
    ASSUME ReplyTypes, Fault \/ NoFault
    PROVE  faults' \in 0..MaxFaults
BY AIReplyAssumption DEF ReplyTypes, Fault, NoFault

LEMMA NotifyTypes ==
    ASSUME ReplyTypes, NEW i \in Items, Notify(i)
    PROVE  /\ handed' \in [Items -> BOOLEAN]
           /\ mishap' \subseteq Items
           /\ faults' \in 0..MaxFaults
<1>1. handed' \in [Items -> BOOLEAN] /\ mishap' \subseteq Items
  BY Zenon DEF Notify, ReplyTypes
<1>2. QED
  BY <1>1, FaultTypes DEF Notify

LEMMA GoTypes ==
    ASSUME ReplyTypes, NEW w \in Workers, NEW x \in PCs, Go(w, x)
    PROVE  /\ pc' \in [Workers -> PCs]
           /\ fresh' \in [Workers -> BOOLEAN]
           /\ telling' \in [Workers -> SUBSET Items]
BY Zenon DEF Go, ReplyTypes

LEMMA TurnTypes ==
    ASSUME ReplyTypes, NEW w \in Workers, NEW x \in PCs, Turn(w, x)
    PROVE  /\ pc' \in [Workers -> PCs]
           /\ fresh' \in [Workers -> BOOLEAN]
           /\ telling' \in [Workers -> SUBSET Items]
BY DEF Turn, ReplyTypes, PCs

LEMMA ReplyTypesStep ==
    ASSUME Inv, Next
    PROVE  ReplyTypes'
<1> USE AIReplyAssumption DEF Inv
<1>1. ASSUME NEW i \in Items, Mention(i) \/ Enqueue(i) \/ MentionCrash(i) PROVE ReplyTypes'
  BY <1>1 DEF Mention, Enqueue, MentionCrash, jobVars, ReplyTypes, Fault, NoFault
<1>2. ASSUME NEW i \in Items, TellMention(i) PROVE ReplyTypes'
  BY <1>2, NotifyTypes DEF TellMention, jobVars, ReplyTypes
<1>3. ASSUME NEW i \in Items, Reset(i) \/ Withdraw(i) \/ Pass(i) PROVE ReplyTypes'
  BY <1>3 DEF Reset, Withdraw, Pass, jobVars, worldVars, replyVars, ReplyTypes
<1>4. ASSUME NEW w \in Workers, Claim(w) PROVE ReplyTypes'
  BY <1>4 DEF Claim, worldVars, ReplyTypes, PCs
<1>5. ASSUME NEW w \in Workers, Check(w) \/ Look(w) PROVE ReplyTypes'
  BY <1>5 DEF Check, Look, Go, worldVars, ReplyTypes, PCs, Fault, NoFault
<1>6. ASSUME NEW w \in Workers, TellFull(w) \/ TellRefused(w) \/ Tell(w) PROVE ReplyTypes'
  <2>1. PICK c \in Items : c = Cur(w)
    BY <1>6, CurIsHeld DEF TellFull, TellRefused, Tell, AtWork, PCs
  <2>2. Notify(c) /\ \E x \in {"postpone", "fail", "close"} : Go(w, x)
    BY <1>6, <2>1 DEF TellFull, TellRefused, Tell
  <2>3. UNCHANGED <<auto, worldVars, today, resets>>
    BY <1>6 DEF TellFull, TellRefused, Tell
  <2>4. PICK x \in PCs : Go(w, x)
    BY <2>2 DEF PCs
  <2>5. QED
    BY <2>2, <2>3, <2>4, NotifyTypes, GoTypes DEF worldVars, ReplyTypes
<1>7. ASSUME NEW w \in Workers, Postpone(w) \/ Close(w) PROVE ReplyTypes'
  <2>1. PICK x \in PCs : Go(w, x) \/ Turn(w, x)
    BY <1>7 DEF Postpone, Close, PCs
  <2>2. Fault \/ NoFault
    BY <1>7 DEF Postpone, Close
  <2>3. UNCHANGED <<auto, worldVars, handed, today, mishap, resets>>
    BY <1>7 DEF Postpone, Close
  <2>4. QED
    BY <2>1, <2>2, <2>3, FaultTypes, GoTypes, TurnTypes DEF worldVars, ReplyTypes
<1>8. ASSUME NEW w \in Workers, Post(w) PROVE ReplyTypes'
  BY <1>8 DEF Post, Go, ReplyTypes, PCs, Fault, NoFault
<1>9. ASSUME NEW w \in Workers, Mark(w) PROVE ReplyTypes'
  <2>1. Cur(w) \in Items
    BY <1>9, CurIsHeld DEF Mark, AtWork, PCs
  <2>2. PICK x \in PCs : Go(w, x) \/ Turn(w, x)
    BY <1>9 DEF Mark, PCs
  <2>3. today' \subseteq Items /\ (Fault \/ NoFault)
    BY <1>9, <2>1 DEF Mark, ReplyTypes
  <2>4. UNCHANGED <<auto, worldVars, handed, mishap, resets>>
    BY <1>9 DEF Mark
  <2>5. QED
    BY <2>2, <2>3, <2>4, FaultTypes, GoTypes, TurnTypes DEF worldVars, ReplyTypes
<1>10. ASSUME NEW w \in Workers, Fail(w) PROVE ReplyTypes'
  <2>1. Cur(w) \in Items
    BY <1>10, CurIsHeld DEF Fail, AtWork, PCs
  <2>2. AfterLast(w) \in SUBSET Items
    BY <2>1 DEF AfterLast
  <2>3. pc' \in [Workers -> PCs]
    BY <1>10 DEF Fail, ReplyTypes, PCs
  <2>4. fresh' \in [Workers -> BOOLEAN] /\ telling' \in [Workers -> SUBSET Items]
    BY <1>10, <2>2, Zenon DEF Fail, ReplyTypes
  <2>5. UNCHANGED <<auto, worldVars, handed, today, mishap, resets>> /\ (Fault \/ NoFault)
    BY <1>10 DEF Fail
  <2>6. QED
    BY <2>3, <2>4, <2>5, FaultTypes DEF worldVars, ReplyTypes
<1>11. ASSUME NEW w \in Workers, HandOver(w) PROVE ReplyTypes'
  <2>1. PICK i \in telling[w] : Notify(i)
    BY <1>11 DEF HandOver
  <2>2. i \in Items
    BY <2>1 DEF ReplyTypes
  <2>3. pc' \in [Workers -> PCs] /\ fresh' \in [Workers -> BOOLEAN]
        /\ telling' \in [Workers -> SUBSET Items]
    BY <1>11 DEF HandOver, ReplyTypes, PCs
  <2>4. UNCHANGED <<auto, worldVars, today, resets>>
    BY <1>11 DEF HandOver
  <2>5. QED
    BY <2>1, <2>2, <2>3, <2>4, NotifyTypes DEF worldVars, ReplyTypes
<1>12. ASSUME NEW w \in Workers, GiveUp(w) PROVE ReplyTypes'
  BY <1>12 DEF GiveUp, worldVars, ReplyTypes, PCs, Fault, NoFault
<1>13. ASSUME Switch \/ NewDay PROVE ReplyTypes'
  BY <1>13 DEF Switch, NewDay, jobVars, worldVars, ReplyTypes
<1>14. QED
  BY <1>1, <1>2, <1>3, <1>4, <1>5, <1>6, <1>7, <1>8, <1>9, <1>10, <1>11, <1>12, <1>13, NextCases

(* The batch of a job only moves with its own steps. *)
LEMMA BatchKept ==
    ASSUME NEW u, claim'[u] = claim[u]
    PROVE  Held(u)' = Held(u)
BY DEF Held, Holds

LEMMA JobTellStep ==
    ASSUME Inv, Next
    PROVE  JobInv' /\ TellInv'
<1> USE DEF Inv, ReplyTypes
<1>1. ASSUME UNCHANGED <<claim, jobVars>> PROVE JobInv' /\ TellInv'
  BY <1>1 DEF jobVars, JobInv, TellInv, Held, Holds
<1>2. ASSUME NEW i \in Items, \/ Mention(i) \/ Enqueue(i) \/ TellMention(i) \/ MentionCrash(i)
                              \/ Reset(i) \/ Withdraw(i) \/ Pass(i)
      PROVE  UNCHANGED <<claim, jobVars>>
  BY <1>2 DEF Mention, Enqueue, Insert, TellMention, MentionCrash, Reset, Withdraw, Pass,
              FallDue, LeaseExpire, queueVars, replyVars
<1>3. ASSUME NEW w \in Workers, Claim(w) PROVE JobInv' /\ TellInv'
  <2>1. PICK S \in SUBSET Items : ClaimRows(w, S)
    BY <1>3 DEF Claim
  <2>2. S # {} /\ \A i \in S : retry[i] # -1
    BY <2>1 DEF ClaimRows, RowInv, QueueTypeOK
  <2>3. claim' = [claim EXCEPT ![w] = [i \in Items |-> IF i \in S THEN retry[i] ELSE -1]]
    BY <2>1 DEF ClaimRows, NotHeld
  <2>4. Held(w)' # {} /\ \A u \in Workers : u # w => claim'[u] = claim[u]
    BY <2>2, <2>3 DEF Held, Holds, NotHeld, RowInv, QueueTypeOK
  <2>5. QED
    BY <1>3, <2>4, BatchKept DEF Claim, JobInv, TellInv, AtWork, PCs
<1>4. ASSUME NEW w \in Workers, NEW x \in AtWork, Go(w, x), claim' = claim, pc[w] \in AtWork
      PROVE  JobInv' /\ TellInv'
  <2>1. \A u \in Workers : Held(u)' = Held(u)
    BY <1>4, BatchKept
  <2>2. \A u \in Workers : pc'[u] = pc[u] \/ (u = w /\ pc'[u] = x)
    BY <1>4 DEF Go
  <2>3. UNCHANGED telling /\ x # "hand" /\ pc[w] # "hand"
    BY <1>4 DEF Go, AtWork
  <2>4. QED
    BY <1>4, <2>1, <2>2, <2>3 DEF JobInv, TellInv
<1>5. ASSUME NEW w \in Workers, NEW x \in AtWork, Turn(w, x), Forget(w, {Cur(w)}), pc[w] \in AtWork
      PROVE  JobInv' /\ TellInv'
  <2>1. Cur(w) \in Items
    BY <1>5, CurIsHeld
  <2>2. Held(w)' = Held(w) \ {Cur(w)} /\ \A u \in Workers : u # w => Held(u)' = Held(u)
    BY <1>5, <2>1, ForgetHeld
  <2>3. UNCHANGED telling /\ x # "hand" /\ pc[w] # "hand" /\ x # "idle"
    BY <1>5 DEF Turn, AtWork
  <2>4. pc' = [pc EXCEPT ![w] = IF Held(w) \ {Cur(w)} = {} THEN "idle" ELSE x]
    BY <1>5 DEF Turn
  <2>5. JobInv'
    BY <2>2, <2>4 DEF JobInv, AtWork
  <2>6. \A u \in Workers : pc'[u] = "hand" <=> pc[u] = "hand"
    BY <2>3, <2>4
  <2>7. QED
    BY <2>3, <2>5, <2>6 DEF TellInv
<1>6. ASSUME NEW w \in Workers, \/ Check(w) \/ TellFull(w) \/ Postpone(w) \/ Look(w) \/ TellRefused(w)
                                \/ Post(w) \/ Mark(w) \/ Tell(w) \/ Close(w)
      PROVE  JobInv' /\ TellInv'
  <2>1. pc[w] \in AtWork
    BY <1>6 DEF Check, TellFull, Postpone, Look, TellRefused, Post, Mark, Tell, Close, AtWork, PCs
  <2>2. \/ claim' = claim /\ \E x \in AtWork : Go(w, x)
        \/ Forget(w, {Cur(w)}) /\ \E x \in AtWork : Turn(w, x)
    BY <1>6 DEF Check, TellFull, Postpone, Look, TellRefused, Post, Mark, MarkDone, Tell, Close,
                AtWork, PCs, queueVars
  <2>3. QED
    BY <1>4, <1>5, <2>1, <2>2
<1>7. ASSUME NEW w \in Workers, Fail(w) PROVE JobInv' /\ TellInv'
  <2>1. Cur(w) \in Items /\ Holds(w, Cur(w))
    BY <1>7, CurIsHeld DEF Fail, AtWork, PCs
  <2>2. Forget(w, {Cur(w)})
    BY <1>7 DEF Fail, MarkRetry, Drop
  <2>3. Held(w)' = Held(w) \ {Cur(w)} /\ \A u \in Workers : u # w => Held(u)' = Held(u)
    BY <2>1, <2>2, ForgetHeld
  <2>4. PICK A : A = AfterLast(w)
    OBVIOUS
  <2>5. A = {} \/ A = {Cur(w)}
    BY <2>4 DEF AfterLast
  <2>6. /\ telling' = [telling EXCEPT ![w] = A]
        /\ pc' = [pc EXCEPT ![w] = IF A # {} THEN "hand" ELSE IF Held(w) = {Cur(w)} THEN "idle" ELSE "check"]
    BY <1>7, <2>4 DEF Fail
  <2>7. Cur(w) \in Held(w)
    BY <2>1 DEF Held
  <2>8. JobInv'
    BY <2>3, <2>6, <2>7 DEF JobInv, AtWork
  <2>9. TellInv'
    BY <2>1, <2>5, <2>6 DEF TellInv
  <2>10. QED
    BY <2>8, <2>9
<1>8. ASSUME NEW w \in Workers, HandOver(w) PROVE JobInv' /\ TellInv'
  <2>1. \A u \in Workers : Held(u)' = Held(u)
    BY <1>8, BatchKept DEF HandOver, queueVars
  <2>2. QED
    BY <1>8, <2>1 DEF HandOver, JobInv, TellInv, AtWork
<1>9. ASSUME NEW w \in Workers, GiveUp(w) PROVE JobInv' /\ TellInv'
  <2>1. \A u \in Workers : u # w => Held(u)' = Held(u)
    BY <1>9, ForgetHeld DEF GiveUp, Drop, Held
  <2>2. QED
    BY <1>9, <2>1 DEF GiveUp, JobInv, TellInv, AtWork
<1>10. ASSUME Switch \/ NewDay PROVE UNCHANGED <<claim, jobVars>>
  BY <1>10 DEF Switch, NewDay, queueVars
<1>11. QED
  BY <1>1, <1>2, <1>3, <1>6, <1>7, <1>8, <1>9, <1>10, NextCases

LEMMA InvInit == Init => Inv
<1>1. Init => RowInv
  BY QueueTypeInit DEF Init
<1>2. Init => ReplyTypes /\ JobInv /\ TellInv
  BY AIReplyAssumption DEF Init, ReplyTypes, JobInv, TellInv, AtWork, PCs
<1>3. QED
  BY <1>1, <1>2 DEF Inv

LEMMA InvAlways == Spec => []Inv
<1>1. Inv /\ Next => Inv'
  BY RowStep, ReplyTypesStep, JobTellStep DEF Inv
<1>2. Inv /\ UNCHANGED vars => Inv'
  BY DEF Inv, RowInv, QueueTypeOK, ReplyTypes, JobInv, TellInv, Held, Holds,
         vars, queueVars, rowVars, replyVars, worldVars, jobVars
<1>3. QED
  BY <1>1, <1>2, InvInit, PTL DEF Spec

(* Every task and job holds values the code can write, also when an operator puts a
   task back under a running job: no retry count passes the maximum. *)
THEOREM ReplyTypeCorrect == Spec => []TypeOK
<1>1. Inv => TypeOK
  BY DEF Inv, RowInv, ReplyTypes, TypeOK
<1>2. QED
  BY <1>1, InvAlways, PTL

-----------------------------------------------------------------------------
(* An answer that was never inserted is not there, and one that was stays there for
   good, if only as a withdrawn row: the identifier is taken. *)
OnceInv ==
    \A i \in Items :
        /\ posted[i] <= 1
        /\ answer[i] = "none" => posted[i] = 0

LEMMA AnswerWriters ==
    ASSUME Next
    PROVE  \/ UNCHANGED <<answer, posted>>
           \/ \E i \in Items : Withdraw(i)
           \/ \E w \in Workers : Post(w)
<1>1. ASSUME NEW i \in Items, \/ Mention(i) \/ Enqueue(i) \/ TellMention(i) \/ MentionCrash(i)
                              \/ Reset(i) \/ Pass(i)
      PROVE  UNCHANGED <<answer, posted>>
  BY <1>1 DEF Mention, Enqueue, TellMention, MentionCrash, Reset, Pass, replyVars, worldVars
<1>2. ASSUME NEW w \in Workers, \/ Claim(w) \/ Check(w) \/ TellFull(w) \/ Postpone(w) \/ Look(w)
                                \/ TellRefused(w) \/ Mark(w) \/ Fail(w)
                                \/ HandOver(w) \/ Tell(w) \/ Close(w) \/ GiveUp(w)
      PROVE  UNCHANGED <<answer, posted>>
  BY <1>2 DEF Claim, Check, TellFull, Postpone, Look, TellRefused, Mark, Fail, HandOver, Tell,
              Close, GiveUp, worldVars
<1>3. ASSUME Switch \/ NewDay PROVE UNCHANGED <<answer, posted>>
  BY <1>3 DEF Switch, NewDay, worldVars
<1>4. QED
  BY <1>1, <1>2, <1>3, NextCases

LEMMA OnceStep ==
    ASSUME ReplyTypes, OnceInv, [Next]_vars
    PROVE  OnceInv'
<1>1. CASE UNCHANGED <<answer, posted>>
  BY <1>1 DEF OnceInv
<1>2. ASSUME NEW i \in Items, Withdraw(i) PROVE OnceInv'
  BY <1>2 DEF Withdraw, OnceInv, ReplyTypes
<1>3. ASSUME NEW w \in Workers, Post(w) PROVE OnceInv'
  <2>1. PICK c : c = Cur(w)
    OBVIOUS
  <2>2. \/ UNCHANGED <<answer, posted>>
        \/ /\ answer[c] = "none"
           /\ answer' = [answer EXCEPT ![c] = "shown"]
           /\ posted' = [posted EXCEPT ![c] = @ + 1]
    BY <1>3, <2>1 DEF Post, Taken
  <2>3. QED
    BY <2>2 DEF OnceInv, ReplyTypes
<1>4. QED
  BY <1>1, <1>2, <1>3, AnswerWriters DEF vars, replyVars, worldVars

(* A mention is answered once, although the comment and its task are written in two
   calls, any of which may fail, and operators put tasks back under running jobs. *)
THEOREM OneAnswer == Spec => []AnsweredOnce
<1>1. Init => OnceInv
  BY DEF Init, OnceInv
<1>2. Inv /\ OnceInv /\ [Next]_vars => OnceInv'
  BY OnceStep DEF Inv
<1>3. OnceInv => AnsweredOnce
  BY DEF OnceInv, AnsweredOnce
<1>4. QED
  BY <1>1, <1>2, <1>3, InvAlways, PTL DEF Spec

-----------------------------------------------------------------------------
(* Jobs that have passed the day's limit and may yet add to it. *)
Passed == {w \in Workers : pc[w] \in {"look", "refused", "post", "mark"}}

(* The tasks counted today and the jobs that may add one. *)
LimitInv == Cardinality(CountedToday) + Cardinality(Passed) <= DailyLimit + Cardinality(Workers) - 1

LEMMA Finite ==
    ASSUME ReplyTypes
    PROVE  /\ IsFiniteSet(CountedToday) /\ Cardinality(CountedToday) \in Nat
           /\ IsFiniteSet(Passed) /\ Cardinality(Passed) \in Nat
           /\ Cardinality(Passed) <= Cardinality(Workers)
           /\ Cardinality(Workers) \in Nat
           /\ DailyLimit \in Nat \ {0}
<1>1. CountedToday \in SUBSET Items /\ Passed \in SUBSET Workers
  BY DEF CountedToday, Passed, ReplyTypes
<1>2. IsFiniteSet(Items) /\ IsFiniteSet(Workers)
  BY AIReplyAssumption
<1>3. QED
  BY <1>1, <1>2, FS_Subset, FS_CardinalityType, AIReplyAssumption

(* A step that counts no task and lets no job pass the check keeps the limit. *)
LEMMA NothingAdded ==
    ASSUME ReplyTypes, LimitInv, CountedToday' \subseteq CountedToday, Passed' \subseteq Passed
    PROVE  LimitInv'
<1>1. PICK C, P : C = CountedToday' /\ P = Passed'
  OBVIOUS
<1>2. C \in SUBSET CountedToday /\ P \in SUBSET Passed
  BY <1>1
<1>3. /\ Cardinality(C) <= Cardinality(CountedToday) /\ Cardinality(P) <= Cardinality(Passed)
      /\ Cardinality(C) \in Nat /\ Cardinality(P) \in Nat
  BY <1>2, Finite, FS_Subset, FS_CardinalityType
<1>4. Cardinality(C) + Cardinality(P) <= DailyLimit + Cardinality(Workers) - 1
  BY <1>3, Finite DEF LimitInv
<1>5. QED
  BY <1>1, <1>4 DEF LimitInv

LEMMA NothingAddedBy ==
    ASSUME ReplyTypes, LimitInv, today' \subseteq today,
           \A i \in Items : state'[i] = "done" => state[i] = "done",
           \A w \in Workers : pc'[w] \in {"look", "refused", "post", "mark"}
                                 => pc[w] \in {"look", "refused", "post", "mark"}
    PROVE  LimitInv'
<1>1. CountedToday' \subseteq CountedToday
  BY DEF CountedToday, ReplyTypes
<1>2. Passed' \subseteq Passed
  BY DEF Passed
<1>3. QED
  BY <1>1, <1>2, NothingAdded

LEMMA CheckLimit ==
    ASSUME Inv, LimitInv, NEW w \in Workers, Check(w)
    PROVE  LimitInv'
<1>1. CountedToday' = CountedToday
  BY DEF Check, queueVars, rowVars, CountedToday
<1>2. CASE Full \/ pc'[w] = "fail"
  <2>1. \A u \in Workers : pc'[u] = pc[u] \/ (u = w /\ pc'[u] \in {"fail", "full"})
    BY <1>2 DEF Check, Go, Inv, ReplyTypes
  <2>2. Passed' \subseteq Passed
    BY <2>1 DEF Passed
  <2>3. QED
    BY <1>1, <2>2, NothingAdded DEF Inv
<1>3. CASE ~Full
  <2>1. Cardinality(CountedToday) <= DailyLimit - 1
    BY <1>3, Finite DEF Full, Inv
  <2>2. PICK P : P = Passed'
    OBVIOUS
  <2>3. P \in SUBSET Workers
    BY <2>2 DEF Passed
  <2>4. Cardinality(P) <= Cardinality(Workers) /\ Cardinality(P) \in Nat
    BY <2>3, AIReplyAssumption, FS_Subset, FS_CardinalityType
  <2>5. Cardinality(CountedToday) + Cardinality(P) <= DailyLimit + Cardinality(Workers) - 1
    BY <2>1, <2>4, Finite DEF Inv
  <2>6. QED
    BY <1>1, <2>2, <2>5 DEF LimitInv
<1>4. QED
  BY <1>2, <1>3 DEF Check

LEMMA MarkLimit ==
    ASSUME Inv, LimitInv, NEW w \in Workers, Mark(w)
    PROVE  LimitInv'
<1>1. CASE MarkDone(w, Cur(w)) /\ today' = today \cup {Cur(w)} /\ Turn(w, "check")
  <2>1. PICK c, C, P : c = Cur(w) /\ C = CountedToday' /\ P = Passed'
    OBVIOUS
  <2>2. C \in SUBSET (CountedToday \cup {c})
    BY <1>1, <2>1 DEF MarkDone, CountedToday, Inv, RowInv, QueueTypeOK, ReplyTypes
  <2>3. w \in Passed /\ P \in SUBSET (Passed \ {w})
    BY <1>1, <2>1 DEF Turn, Passed, Mark, Inv, ReplyTypes
  <2>4. /\ IsFiniteSet(CountedToday \cup {c}) /\ Cardinality(CountedToday \cup {c}) \in Nat
        /\ Cardinality(CountedToday \cup {c}) <= Cardinality(CountedToday) + 1
    <3>1. IsFiniteSet(CountedToday) /\ Cardinality(CountedToday) \in Nat
      BY Finite DEF Inv
    <3>2. /\ IsFiniteSet(CountedToday \cup {c})
          /\ \/ Cardinality(CountedToday \cup {c}) = Cardinality(CountedToday)
             \/ Cardinality(CountedToday \cup {c}) = Cardinality(CountedToday) + 1
      BY <3>1, FS_AddElement, Zenon
    <3>3. QED
      BY <3>1, <3>2
  <2>5. IsFiniteSet(Passed \ {w}) /\ Cardinality(Passed \ {w}) = Cardinality(Passed) - 1
    BY <2>3, Finite, FS_RemoveElement DEF Inv
  <2>6. Cardinality(C) <= Cardinality(CountedToday) + 1 /\ Cardinality(C) \in Nat
    <3>1. Cardinality(C) <= Cardinality(CountedToday \cup {c}) /\ IsFiniteSet(C)
      BY <2>2, <2>4, FS_Subset
    <3>2. Cardinality(C) \in Nat
      BY <3>1, FS_CardinalityType
    <3>3. QED
      BY <2>4, <3>1, <3>2, Finite DEF Inv
  <2>7. Cardinality(P) <= Cardinality(Passed) - 1 /\ Cardinality(P) \in Nat
    BY <2>3, <2>5, FS_Subset, FS_CardinalityType
  <2>8. Cardinality(C) + Cardinality(P) <= DailyLimit + Cardinality(Workers) - 1
    BY <2>6, <2>7, Finite DEF Inv, LimitInv
  <2>9. QED
    BY <2>1, <2>8 DEF LimitInv
<1>2. CASE Go(w, "fail") /\ UNCHANGED <<queueVars, today>>
  BY <1>2, NothingAddedBy DEF Go, queueVars, rowVars, Inv, ReplyTypes
<1>3. QED
  BY <1>1, <1>2 DEF Mark

LEMMA LimitStep ==
    ASSUME Inv, LimitInv, [Next]_vars
    PROVE  LimitInv'
<1> USE DEF Inv
<1>1. ASSUME NEW i \in Items, Mention(i) \/ TellMention(i) \/ MentionCrash(i) \/ Withdraw(i)
      PROVE  LimitInv'
  BY <1>1, NothingAddedBy DEF Mention, TellMention, MentionCrash, Withdraw, queueVars, rowVars, jobVars
<1>2. ASSUME NEW i \in Items, Enqueue(i) PROVE LimitInv'
  BY <1>2, NothingAddedBy DEF Enqueue, Insert, queueVars, rowVars, jobVars, RowInv, QueueTypeOK
<1>3. ASSUME NEW i \in Items, Pass(i) PROVE LimitInv'
  BY <1>3, NothingAddedBy DEF Pass, FallDue, LeaseExpire, replyVars, jobVars
<1>4. ASSUME NEW i \in Items, Reset(i) PROVE LimitInv'
  BY <1>4, NothingAddedBy DEF Reset, jobVars, RowInv, QueueTypeOK
<1>5. ASSUME NEW w \in Workers, Claim(w) PROVE LimitInv'
  BY <1>5, NothingAddedBy DEF Claim, ClaimRows, ReplyTypes
<1>6. ASSUME NEW w \in Workers, TellFull(w) \/ Look(w) \/ TellRefused(w) \/ Post(w) \/ HandOver(w) \/ Tell(w)
      PROVE  LimitInv'
  BY <1>6, NothingAddedBy
     DEF TellFull, Look, TellRefused, Post, HandOver, Tell, Go, queueVars, rowVars, ReplyTypes
<1>7. ASSUME NEW w \in Workers, Postpone(w) \/ Close(w) PROVE LimitInv'
  <2>1. \A i \in Items : state'[i] = "done" => state[i] = "done"
    BY <1>7 DEF Postpone, Close, SetRow, queueVars, rowVars, RowInv, QueueTypeOK
  <2>2. UNCHANGED today
    BY <1>7 DEF Postpone, Close
  <2>3. \A u \in Workers : pc'[u] = pc[u] \/ pc'[u] \in {"idle", "check", "tell", "fail"}
    BY <1>7 DEF Postpone, Close, Turn, Go, ReplyTypes
  <2>4. QED
    BY <2>1, <2>2, <2>3, NothingAddedBy
<1>8. ASSUME NEW w \in Workers, Fail(w) PROVE LimitInv'
  <2>1. \A i \in Items : state'[i] = "done" => state[i] = "done"
    BY <1>8 DEF Fail, MarkRetry, Drop, rowVars, RowInv, QueueTypeOK
  <2>2. UNCHANGED today
    BY <1>8 DEF Fail
  <2>3. \A u \in Workers : pc'[u] = pc[u] \/ pc'[u] \in {"idle", "check", "hand"}
    BY <1>8 DEF Fail, ReplyTypes
  <2>4. QED
    BY <2>1, <2>2, <2>3, NothingAddedBy
<1>9. ASSUME NEW w \in Workers, GiveUp(w) PROVE LimitInv'
  BY <1>9, NothingAddedBy DEF GiveUp, Drop, rowVars, ReplyTypes
<1>10. ASSUME Switch \/ NewDay PROVE LimitInv'
  BY <1>10, NothingAddedBy DEF Switch, NewDay, queueVars, rowVars, jobVars
<1>11. CASE UNCHANGED vars
  BY <1>11, NothingAddedBy DEF vars, queueVars, rowVars, replyVars, jobVars
<1>12. QED
  BY <1>1, <1>2, <1>3, <1>4, <1>5, <1>6, <1>7, <1>8, <1>9, <1>10, <1>11,
     CheckLimit, MarkLimit, NextCases

(* The daily limit of processAIReplyTask is checked before the answer and counted
   after it: however many jobs, they overrun it together by less than their number. *)
THEOREM LimitHolds == Spec => []LimitOverrun
<1>1. Init => LimitInv
  <2>1. SUFFICES ASSUME Init PROVE LimitInv
    OBVIOUS
  <2>2. CountedToday = {} /\ Passed = {}
    BY <2>1 DEF Init, CountedToday, Passed
  <2>3. Cardinality(Workers) \in Nat /\ DailyLimit \in Nat \ {0}
    BY AIReplyAssumption, FS_CardinalityType
  <2>4. QED
    BY <2>2, <2>3, FS_EmptySet DEF LimitInv
<1>2. Inv /\ LimitInv /\ [Next]_vars => LimitInv'
  BY LimitStep
<1>3. Inv /\ LimitInv => LimitOverrun
  BY Finite DEF Inv, LimitInv, LimitOverrun
<1>4. QED
  BY <1>1, <1>2, <1>3, InvAlways, PTL DEF Spec

-----------------------------------------------------------------------------
(* A job about to mark a task done has seen or posted its answer; one about to close
   a task has told people, or lost the notice. *)
WorkInv ==
    \A w \in Workers :
        /\ pc[w] = "mark" => answer[Cur(w)] # "none"
        /\ pc[w] = "close" => handed[Cur(w)] \/ Cur(w) \in mishap

(* Answers, notices and losses stay. *)
LEMMA NoticeStays ==
    ASSUME Inv, NEW i \in Items, Notify(i)
    PROVE  /\ handed'[i] \/ i \in mishap'
           /\ mishap \subseteq mishap'
           /\ \A j \in Items : handed[j] => handed'[j]
BY DEF Notify, Inv, ReplyTypes

LEMMA NothingLost ==
    ASSUME Inv, Next
    PROVE  /\ \A i \in Items : answer[i] # "none" => answer'[i] # "none"
           /\ \A i \in Items : handed[i] => handed'[i]
           /\ mishap \subseteq mishap'
<1> USE DEF Inv
<1>1. \A i \in Items : answer[i] # "none" => answer'[i] # "none"
  <2>1. ASSUME NEW i \in Items, Withdraw(i)
        PROVE  \A j \in Items : answer[j] # "none" => answer'[j] # "none"
    BY <2>1 DEF Withdraw, ReplyTypes
  <2>2. ASSUME NEW w \in Workers, Post(w)
        PROVE  \A j \in Items : answer[j] # "none" => answer'[j] # "none"
    BY <2>2 DEF Post, ReplyTypes
  <2>3. QED
    BY <2>1, <2>2, AnswerWriters
<1> DEFINE Kept == (\A i \in Items : handed[i] => handed'[i]) /\ mishap \subseteq mishap'
<1>2. ASSUME NEW i \in Items, Mention(i) \/ Enqueue(i) \/ MentionCrash(i) \/ Reset(i) \/ Withdraw(i) \/ Pass(i)
      PROVE  Kept
  BY <1>2 DEF Mention, Enqueue, MentionCrash, Reset, Withdraw, Pass, replyVars
<1>3. ASSUME NEW i \in Items, TellMention(i) PROVE Kept
  BY <1>3, NoticeStays DEF TellMention
<1>4. ASSUME NEW w \in Workers, \/ Claim(w) \/ Check(w) \/ Postpone(w) \/ Look(w) \/ Post(w)
                                \/ Mark(w) \/ Fail(w) \/ Close(w) \/ GiveUp(w)
      PROVE  Kept
  BY <1>4 DEF Claim, Check, Postpone, Look, Post, Mark, Fail, Close, GiveUp
<1>5. ASSUME NEW w \in Workers, TellFull(w) \/ TellRefused(w) \/ Tell(w) PROVE Kept
  <2>1. PICK c \in Items : c = Cur(w)
    BY <1>5, CurIsHeld DEF TellFull, TellRefused, Tell, AtWork, PCs
  <2>2. Notify(c)
    BY <1>5, <2>1 DEF TellFull, TellRefused, Tell
  <2>3. QED
    BY <2>2, NoticeStays
<1>6. ASSUME NEW w \in Workers, HandOver(w) PROVE Kept
  <2>1. PICK i \in Items : Notify(i)
    BY <1>6 DEF HandOver, ReplyTypes
  <2>2. QED
    BY <2>1, NoticeStays
<1>7. ASSUME Switch \/ NewDay PROVE Kept
  BY <1>7 DEF Switch, NewDay
<1>8. QED
  BY <1>1, <1>2, <1>3, <1>4, <1>5, <1>6, <1>7, NextCases

(* A job comes to a mark only from the answer, and to a close from the notice. *)
LEMMA ToMark ==
    ASSUME Inv, Next, NEW u \in Workers, pc'[u] \in {"mark", "close"}
    PROVE  /\ claim'[u] = claim[u] /\ pc[u] \in AtWork
           /\ \/ pc'[u] = pc[u]
              \/ pc'[u] = "mark" /\ answer'[Cur(u)] # "none"
              \/ pc'[u] = "close" /\ (handed'[Cur(u)] \/ Cur(u) \in mishap')
<1> DEFINE To == /\ claim'[u] = claim[u] /\ pc[u] \in AtWork
                 /\ \/ pc'[u] = pc[u]
                    \/ pc'[u] = "mark" /\ answer'[Cur(u)] # "none"
                    \/ pc'[u] = "close" /\ (handed'[Cur(u)] \/ Cur(u) \in mishap')
<1> USE DEF Inv, ReplyTypes, AtWork, PCs
<1>1. ASSUME UNCHANGED <<claim, jobVars>> PROVE To
  BY <1>1 DEF jobVars
<1>2. ASSUME NEW i \in Items, \/ Mention(i) \/ Enqueue(i) \/ TellMention(i) \/ MentionCrash(i)
                              \/ Reset(i) \/ Withdraw(i) \/ Pass(i)
      PROVE  UNCHANGED <<claim, jobVars>>
  BY <1>2 DEF Mention, Enqueue, Insert, TellMention, MentionCrash, Reset, Withdraw, Pass,
              FallDue, LeaseExpire, queueVars, replyVars
<1>3. ASSUME NEW w \in Workers, w # u, claim'[u] = claim[u], pc'[u] = pc[u] PROVE To
  BY <1>3
<1>4. ASSUME NEW w \in Workers, Claim(w) PROVE To
  BY <1>3, <1>4 DEF Claim, ClaimRows, RowInv, QueueTypeOK
<1>5. ASSUME NEW w \in Workers, Check(w) \/ TellFull(w) \/ TellRefused(w) \/ HandOver(w) PROVE To
  BY <1>5 DEF Check, TellFull, TellRefused, HandOver, Go, queueVars
<1>6. ASSUME NEW w \in Workers, Look(w) PROVE To
  BY <1>6 DEF Look, Go, queueVars, worldVars
<1>7. ASSUME NEW w \in Workers, Post(w) PROVE To
  <2>1. CASE w = u
    <3>1. PICK c \in Items : c = Cur(u)
      BY <1>7, <2>1, CurIsHeld DEF Post
    <3>2. QED
      BY <1>7, <2>1, <3>1 DEF Post, Go, queueVars
  <2>2. QED
    BY <1>7, <2>1 DEF Post, Go, queueVars
<1>8. ASSUME NEW w \in Workers, Tell(w) PROVE To
  <2>1. PICK c \in Items : c = Cur(w)
    BY <1>8, CurIsHeld DEF Tell
  <2>2. handed'[c] \/ c \in mishap'
    BY <1>8, <2>1, NoticeStays DEF Tell
  <2>3. QED
    BY <1>8, <2>1, <2>2 DEF Tell, Go, queueVars
<1>9. ASSUME NEW w \in Workers, NEW S, Forget(w, S), pc'[w] \notin {"mark", "close"},
             \A v \in Workers : v # w => pc'[v] = pc[v]
      PROVE  To
  BY <1>9 DEF Forget, RowInv, QueueTypeOK
<1>10. ASSUME NEW w \in Workers, Postpone(w) \/ Mark(w) \/ Close(w) PROVE To
  <2>1. CASE Forget(w, {Cur(w)}) /\ (Turn(w, "check") \/ Turn(w, "tell"))
    BY <1>9, <2>1 DEF Turn
  <2>2. CASE claim' = claim /\ Go(w, "fail")
    BY <2>2 DEF Go
  <2>3. QED
    BY <1>10, <2>1, <2>2 DEF Postpone, Mark, MarkDone, Close, queueVars
<1>11. ASSUME NEW w \in Workers, Fail(w) \/ GiveUp(w) PROVE To
  <2>1. \E S : Forget(w, S)
    BY <1>11 DEF Fail, MarkRetry, Drop, GiveUp
  <2>2. pc'[w] \notin {"mark", "close"} /\ \A v \in Workers : v # w => pc'[v] = pc[v]
    BY <1>11 DEF Fail, GiveUp
  <2>3. QED
    BY <1>9, <2>1, <2>2
<1>12. ASSUME Switch \/ NewDay PROVE UNCHANGED <<claim, jobVars>>
  BY <1>12 DEF Switch, NewDay, queueVars
<1>13. QED
  BY <1>1, <1>2, <1>4, <1>5, <1>6, <1>7, <1>8, <1>10, <1>11, <1>12, NextCases

LEMMA WorkStep ==
    ASSUME Inv, WorkInv, Next
    PROVE  WorkInv'
<1>1. SUFFICES ASSUME NEW u \in Workers, pc'[u] \in {"mark", "close"}
               PROVE  /\ pc'[u] = "mark" => (answer[Cur(u)])' # "none"
                      /\ pc'[u] = "close" => (handed[Cur(u)])' \/ (Cur(u) \in mishap)'
  BY DEF WorkInv
<1>2. claim'[u] = claim[u] /\ pc[u] \in AtWork
  BY <1>1, ToMark
<1>3. Cur(u)' = Cur(u)
  BY <1>2, BatchKept, SameBatch
<1>4. Cur(u) \in Items
  BY <1>2, CurIsHeld DEF Inv
<1>5. PICK c \in Items : c = Cur(u)
  BY <1>4
<1>6. \/ pc'[u] = pc[u]
      \/ pc'[u] = "mark" /\ answer'[c] # "none"
      \/ pc'[u] = "close" /\ (handed'[c] \/ c \in mishap')
  BY <1>1, <1>5, ToMark
<1>7. /\ pc[u] = "mark" => answer[c] # "none"
      /\ pc[u] = "close" => handed[c] \/ c \in mishap
  BY <1>5 DEF WorkInv
<1>8. /\ pc'[u] = "mark" => answer'[c] # "none"
      /\ pc'[u] = "close" => handed'[c] \/ c \in mishap'
  BY <1>6, <1>7, NothingLost
<1>9. QED
  BY <1>3, <1>5, <1>8

(* A task is only closed by the mark of an answer, by a last failure that is handed
   over, or by the job of a bot that is switched off. *)
LEMMA OpenLost ==
    ASSUME Inv, Next, NEW i \in Items, Open(i)
    PROVE  \/ Open(i)'
           \/ \E w \in Workers : i = Cur(w) /\ pc[w] \in {"mark", "close"}
           \/ \E w \in Workers : i \in telling'[w]
<1> DEFINE Lost == \/ Open(i)'
                   \/ \E w \in Workers : i = Cur(w) /\ pc[w] \in {"mark", "close"}
                   \/ \E w \in Workers : i \in telling'[w]
<1> USE DEF Inv, RowInv, QueueTypeOK, Open, States
<1>1. CASE UNCHANGED queueVars
  BY <1>1 DEF queueVars, rowVars
<1>2. ASSUME NEW j \in Items, Mention(j) \/ TellMention(j) \/ MentionCrash(j) \/ Withdraw(j)
      PROVE  UNCHANGED queueVars
  BY <1>2 DEF Mention, TellMention, MentionCrash, Withdraw
<1>3. ASSUME NEW j \in Items, Enqueue(j) \/ Reset(j) \/ Pass(j) PROVE Lost
  BY <1>3 DEF Enqueue, Insert, Reset, Pass, FallDue, LeaseExpire, queueVars, rowVars
<1>4. ASSUME NEW w \in Workers, Claim(w) PROVE Lost
  BY <1>4 DEF Claim, ClaimRows
<1>5. ASSUME NEW w \in Workers,
             Check(w) \/ TellFull(w) \/ Look(w) \/ TellRefused(w) \/ Post(w) \/ HandOver(w) \/ Tell(w)
      PROVE  UNCHANGED queueVars
  BY <1>5 DEF Check, TellFull, Look, TellRefused, Post, HandOver, Tell
<1>6. ASSUME NEW w \in Workers, Postpone(w) PROVE Lost
  BY <1>6 DEF Postpone, SetRow, queueVars, rowVars
<1>7. ASSUME NEW w \in Workers, Mark(w) PROVE Lost
  <2>1. PICK c : c = Cur(w)
    OBVIOUS
  <2>2. MarkDone(w, c) \/ UNCHANGED queueVars
    BY <1>7, <2>1 DEF Mark
  <2>3. i = c \/ Open(i)'
    BY <2>2 DEF MarkDone, queueVars, rowVars
  <2>4. QED
    BY <1>7, <2>1, <2>3 DEF Mark
<1>8. ASSUME NEW w \in Workers, Fail(w) PROVE Lost
  <2>1. PICK c \in Items : c = Cur(w)
    BY <1>8, CurIsHeld DEF Fail, AtWork, PCs
  <2>2. MarkRetry(w, c) \/ UNCHANGED rowVars
    BY <1>8, <2>1 DEF Fail, Drop
  <2>3. telling'[w] = IF Final(claim[w][c] + 1) THEN {c} ELSE {}
    BY <1>8, <2>1 DEF Fail, AfterLast, ReplyTypes
  <2>4. CASE UNCHANGED rowVars
    BY <2>4 DEF rowVars
  <2>5. CASE MarkRetry(w, c)
    <3>1. state' = [state EXCEPT ![c] = IF Final(claim[w][c] + 1) THEN "failed" ELSE "pending"]
      BY <2>5 DEF MarkRetry
    <3>2. QED
      BY <2>3, <3>1
  <2>6. QED
    BY <2>2, <2>4, <2>5
<1>9. ASSUME NEW w \in Workers, Close(w) PROVE Lost
  <2>1. PICK c : c = Cur(w)
    OBVIOUS
  <2>2. state' = [state EXCEPT ![c] = "failed"] \/ state' = state
    BY <1>9, <2>1 DEF Close, SetRow, rowVars
  <2>3. i = c \/ Open(i)'
    BY <2>2
  <2>4. QED
    BY <1>9, <2>1, <2>3 DEF Close
<1>10. ASSUME NEW w \in Workers, GiveUp(w) PROVE Lost
  BY <1>10 DEF GiveUp, Drop, rowVars
<1>11. ASSUME Switch \/ NewDay PROVE UNCHANGED queueVars
  BY <1>11 DEF Switch, NewDay
<1>12. QED
  BY <1>1, <1>2, <1>3, <1>4, <1>5, <1>6, <1>7, <1>8, <1>9, <1>10, <1>11, NextCases

(* What a job has to hand over is handed over, or its notice is lost. *)
LEMMA TellingLost ==
    ASSUME Inv, Next, NEW i \in Items, NEW u \in Workers, i \in telling[u]
    PROVE  i \in telling'[u] \/ handed'[i] \/ i \in mishap'
<1>1. pc[u] = "hand" /\ telling[u] = {i}
  BY DEF Inv, TellInv
<1>2. CASE telling'[u] = telling[u]
  BY <1>2
<1>3. ASSUME NEW j \in Items, \/ Mention(j) \/ Enqueue(j) \/ TellMention(j) \/ MentionCrash(j)
                              \/ Reset(j) \/ Withdraw(j) \/ Pass(j)
      PROVE  telling'[u] = telling[u]
  BY <1>3 DEF Mention, Enqueue, TellMention, MentionCrash, Reset, Withdraw, Pass, jobVars, replyVars
<1>4. ASSUME NEW w \in Workers, \/ Claim(w) \/ Check(w) \/ TellFull(w) \/ Postpone(w) \/ Look(w)
                                \/ TellRefused(w) \/ Post(w) \/ Mark(w) \/ Tell(w) \/ Close(w)
      PROVE  telling'[u] = telling[u]
  BY <1>4 DEF Claim, Check, TellFull, Postpone, Look, TellRefused, Post, Mark, Tell, Close, Go, Turn
<1>5. ASSUME NEW w \in Workers, Fail(w) PROVE telling'[u] = telling[u]
  BY <1>1, <1>5 DEF Fail, Inv, ReplyTypes
<1>6. ASSUME NEW w \in Workers, HandOver(w), w # u PROVE telling'[u] = telling[u]
  BY <1>6 DEF HandOver, Inv, ReplyTypes
<1>7. ASSUME HandOver(u) PROVE handed'[i] \/ i \in mishap'
  <2>1. Notify(i)
    BY <1>1, <1>7 DEF HandOver
  <2>2. QED
    BY <2>1, NoticeStays
<1>8. ASSUME NEW w \in Workers, GiveUp(w) PROVE telling'[u] = telling[u] \/ i \in mishap'
  BY <1>8 DEF GiveUp, Inv, ReplyTypes
<1>9. ASSUME Switch \/ NewDay PROVE telling'[u] = telling[u]
  BY <1>9 DEF Switch, NewDay, jobVars
<1>10. QED
  BY <1>2, <1>3, <1>4, <1>5, <1>6, <1>7, <1>8, <1>9, NextCases

(* A request leaves a task or a notice behind, or is lost. *)
LEMMA NewlyHandled ==
    ASSUME Inv, Next, NEW i \in Items, mention[i] # "handled", mention'[i] = "handled"
    PROVE  Open(i)' \/ handed'[i] \/ i \in mishap'
<1> USE DEF Inv, ReplyTypes
<1>1. CASE UNCHANGED mention
  BY <1>1
<1>2. ASSUME NEW j \in Items, Mention(j) PROVE mention'[i] # "handled"
  BY <1>2 DEF Mention
<1>3. ASSUME NEW j \in Items, Enqueue(j) PROVE Open(i)'
  BY <1>3 DEF Enqueue, Insert, Open, RowInv, QueueTypeOK
<1>4. ASSUME NEW j \in Items, TellMention(j) PROVE handed'[i] \/ i \in mishap'
  BY <1>4, NoticeStays DEF TellMention
<1>5. ASSUME NEW j \in Items, MentionCrash(j) PROVE i \in mishap'
  BY <1>5 DEF MentionCrash
<1>6. ASSUME NEW j \in Items, Reset(j) \/ Withdraw(j) \/ Pass(j) PROVE UNCHANGED mention
  BY <1>6 DEF Reset, Withdraw, Pass, replyVars, worldVars
<1>7. ASSUME NEW w \in Workers, \/ Claim(w) \/ Check(w) \/ TellFull(w) \/ Postpone(w) \/ Look(w)
                                \/ TellRefused(w) \/ Post(w) \/ Mark(w) \/ Fail(w)
                                \/ HandOver(w) \/ Tell(w) \/ Close(w) \/ GiveUp(w)
      PROVE  UNCHANGED mention
  BY <1>7 DEF Claim, Check, TellFull, Postpone, Look, TellRefused, Post, Mark, Fail, HandOver, Tell,
              Close, GiveUp, worldVars
<1>8. ASSUME Switch \/ NewDay PROVE UNCHANGED mention
  BY <1>8 DEF Switch, NewDay, worldVars
<1>9. QED
  BY <1>1, <1>2, <1>3, <1>4, <1>5, <1>6, <1>7, <1>8, NextCases

LEMMA NobodyStep ==
    ASSUME Inv, WorkInv, NobodyIgnored, Next
    PROVE  NobodyIgnored'
<1>1. SUFFICES ASSUME NEW i \in Items, i \notin mishap', mention'[i] = "handled"
               PROVE  \/ answer'[i] # "none" \/ Open(i)' \/ handed'[i]
                      \/ \E w \in Workers : i \in telling'[w]
  BY Zenon DEF NobodyIgnored, Open
<1>2. i \notin mishap
  BY <1>1, NothingLost
<1>3. CASE mention[i] # "handled"
  BY <1>1, <1>3, NewlyHandled
<1>4. CASE mention[i] = "handled"
  <2>1. \/ answer[i] # "none" \/ Open(i) \/ handed[i]
        \/ \E w \in Workers : i \in telling[w]
    BY <1>2, <1>4 DEF NobodyIgnored
  <2>2. CASE answer[i] # "none" \/ handed[i]
    BY <2>2, NothingLost
  <2>3. ASSUME NEW w \in Workers, i \in telling[w]
        PROVE  i \in telling'[w] \/ handed'[i]
    BY <1>1, <2>3, TellingLost
  <2>4. ASSUME NEW w \in Workers, i = Cur(w), pc[w] \in {"mark", "close"}
        PROVE  answer'[i] # "none" \/ handed'[i]
    BY <1>2, <2>4, NothingLost DEF WorkInv
  <2>5. CASE Open(i)
    BY <2>4, <2>5, OpenLost
  <2>6. QED
    BY <2>1, <2>2, <2>3, <2>5
<1>5. QED
  BY <1>3, <1>4

(* No mention of the bot is ignored: it has an answer, an open task or a notice to
   people, whatever fails, unless the notice itself was lost. *)
THEOREM MentionsAreHeard == Spec => []NobodyIgnored
<1>1. Init => WorkInv /\ NobodyIgnored
  BY DEF Init, WorkInv, NobodyIgnored
<1>2. Inv /\ WorkInv /\ NobodyIgnored /\ Next => WorkInv' /\ NobodyIgnored'
  BY WorkStep, NobodyStep
<1>3. ASSUME WorkInv, NobodyIgnored, UNCHANGED vars PROVE WorkInv' /\ NobodyIgnored'
  <2>1. \A w \in Workers : Cur(w)' = Cur(w)
    BY <1>3, BatchKept, SameBatch DEF vars, queueVars
  <2>2. WorkInv'
    BY <1>3, <2>1 DEF WorkInv, vars, replyVars, worldVars, jobVars
  <2>3. NobodyIgnored'
    BY <1>3 DEF NobodyIgnored, Open, vars, queueVars, rowVars, replyVars, worldVars, jobVars
  <2>4. QED
    BY <2>2, <2>3
<1>4. QED
  BY <1>1, <1>2, <1>3, InvAlways, PTL DEF Spec

-----------------------------------------------------------------------------
(* The jobs on one task: a claim of the lease queue is exclusive but for the
   operators' resets, each of which lets one more job at the task. *)
JobsOn(i) == {w \in Workers : Holds(w, i)}
JobsPerTask == \A i \in Items : Cardinality(JobsOn(i)) <= 1 + resets

(* A task that could be claimed counts as one job more. *)
Claimable(i) == state[i] = "pending" \/ (state[i] = "processing" /\ ~leased[i])
Load(i) == Cardinality(JobsOn(i)) + (IF Claimable(i) THEN 1 ELSE 0)
LoadInv == \A i \in Items : Load(i) <= 1 + resets

LEMMA JobsFinite ==
    ASSUME NEW i
    PROVE  IsFiniteSet(JobsOn(i)) /\ Cardinality(JobsOn(i)) \in Nat
BY AIReplyAssumption, FS_Subset, FS_CardinalityType DEF JobsOn

(* No job comes to the task, and it does not become claimable. *)
LEMMA LoadKept ==
    ASSUME NEW i \in Items, JobsOn(i)' \subseteq JobsOn(i), Claimable(i)' => Claimable(i)
    PROVE  Load(i)' <= Load(i)
<1>1. PICK J, K : J = JobsOn(i) /\ K = JobsOn(i)'
  OBVIOUS
<1>2. Cardinality(K) <= Cardinality(J) /\ Cardinality(K) \in Nat /\ Cardinality(J) \in Nat
  BY <1>1, JobsFinite, FS_Subset, FS_CardinalityType
<1>3. QED
  BY <1>1, <1>2 DEF Load

(* A job that leaves the task may leave it claimable. *)
LEMMA LoadLeft ==
    ASSUME NEW i \in Items, NEW w \in JobsOn(i), JobsOn(i)' = JobsOn(i) \ {w}
    PROVE  Load(i)' <= Load(i)
<1>1. PICK J, K : J = JobsOn(i) /\ K = JobsOn(i)'
  OBVIOUS
<1>2. Cardinality(K) = Cardinality(J) - 1 /\ Cardinality(J) \in Nat
  BY <1>1, JobsFinite, FS_RemoveElement
<1>3. QED
  BY <1>1, <1>2 DEF Load

(* A job that claims the task takes the place that was free. *)
LEMMA LoadClaimed ==
    ASSUME NEW i \in Items, NEW w, w \notin JobsOn(i), JobsOn(i)' = JobsOn(i) \cup {w},
           Claimable(i), ~Claimable(i)'
    PROVE  Load(i)' <= Load(i)
<1>1. PICK J, K : J = JobsOn(i) /\ K = JobsOn(i)'
  OBVIOUS
<1>2. Cardinality(K) = Cardinality(J) + 1 /\ Cardinality(J) \in Nat
  BY <1>1, JobsFinite, FS_AddElement
<1>3. QED
  BY <1>1, <1>2 DEF Load

(* A task nobody works on. *)
LEMMA LoadAlone ==
    ASSUME NEW i \in Items, JobsOn(i)' = {}
    PROVE  Load(i)' <= 1
<1>1. Cardinality(JobsOn(i)') = 0
  BY FS_EmptySet
<1>2. QED
  BY <1>1 DEF Load

(* What a step does to the rows, as far as jobs and claims go. *)
LEMMA RowMoves ==
    ASSUME Inv, Next
    PROVE  \/ UNCHANGED <<queueVars, resets>>
           \/ UNCHANGED resets /\ QueueNext
           \/ /\ UNCHANGED resets
              /\ \E w \in Workers, c \in Items :
                    Holds(w, c) /\ Forget(w, {c}) /\ \E st \in States : \E n : UNCHANGED rowVars \/ SetRow(c, st, n)
           \/ \E i \in Items : Reset(i)
<1> DEFINE Goal ==
      \/ UNCHANGED <<queueVars, resets>>
      \/ UNCHANGED resets /\ QueueNext
      \/ /\ UNCHANGED resets
         /\ \E w \in Workers, c \in Items :
               Holds(w, c) /\ Forget(w, {c}) /\ \E st \in States : \E n : UNCHANGED rowVars \/ SetRow(c, st, n)
      \/ \E i \in Items : Reset(i)
<1> USE DEF Inv
<1>1. ASSUME NEW i \in Items, Mention(i) \/ TellMention(i) \/ MentionCrash(i) \/ Withdraw(i)
      PROVE  UNCHANGED <<queueVars, resets>>
  BY <1>1 DEF Mention, TellMention, MentionCrash, Withdraw
<1>2. ASSUME NEW i \in Items, Enqueue(i) \/ Pass(i)
      PROVE  UNCHANGED resets /\ (QueueNext \/ UNCHANGED queueVars)
  BY <1>2 DEF Enqueue, Pass, QueueNext, replyVars
<1>3. ASSUME NEW w \in Workers, Claim(w) PROVE UNCHANGED resets /\ QueueNext
  BY <1>3 DEF Claim, QueueNext
<1>4. ASSUME NEW w \in Workers,
             Check(w) \/ TellFull(w) \/ Look(w) \/ TellRefused(w) \/ Post(w) \/ HandOver(w) \/ Tell(w)
      PROVE  UNCHANGED <<queueVars, resets>>
  BY <1>4 DEF Check, TellFull, Look, TellRefused, Post, HandOver, Tell
<1>5. ASSUME NEW w \in Workers, Mark(w) \/ Fail(w) PROVE UNCHANGED resets /\ (QueueNext \/ UNCHANGED queueVars)
  <2>1. Cur(w) \in Items
    BY <1>5, CurIsHeld DEF Mark, Fail, AtWork, PCs
  <2>2. MarkDone(w, Cur(w)) \/ MarkRetry(w, Cur(w)) \/ Drop(w, {Cur(w)}) \/ UNCHANGED queueVars
    BY <1>5 DEF Mark, Fail
  <2>3. UNCHANGED resets
    BY <1>5 DEF Mark, Fail
  <2>4. QED
    BY <2>1, <2>2, <2>3 DEF QueueNext
<1>6. ASSUME NEW w \in Workers, GiveUp(w) PROVE UNCHANGED resets /\ QueueNext
  BY <1>6 DEF GiveUp, QueueNext, Held
<1>7. ASSUME NEW w \in Workers, Postpone(w) \/ Close(w) PROVE Goal
  <2>1. PICK c : c = Cur(w)
    OBVIOUS
  <2>2. c \in Items /\ Holds(w, c)
    BY <1>7, <2>1, CurIsHeld DEF Postpone, Close, AtWork, PCs
  <2>3. UNCHANGED resets
    BY <1>7 DEF Postpone, Close
  <2>4. \/ UNCHANGED queueVars
        \/ UNCHANGED rowVars /\ Forget(w, {c})
        \/ SetRow(c, "pending", claim[w][c]) /\ Forget(w, {c})
        \/ SetRow(c, "failed", MaxRetry) /\ Forget(w, {c})
    BY <1>7, <2>1 DEF Postpone, CountPutOff, Close
  <2>5. CASE UNCHANGED queueVars
    BY <2>3, <2>5
  <2>6. CASE Forget(w, {c}) /\ \E st \in States : \E n : UNCHANGED rowVars \/ SetRow(c, st, n)
    BY <2>2, <2>3, <2>6
  <2>7. "pending" \in States /\ "failed" \in States
    BY DEF States
  <2>8. QED
    BY <2>4, <2>5, <2>6, <2>7
<1>8. ASSUME Switch \/ NewDay PROVE UNCHANGED <<queueVars, resets>>
  BY <1>8 DEF Switch, NewDay
<1>9. QED
  BY <1>1, <1>2, <1>3, <1>4, <1>5, <1>6, <1>7, <1>8, NextCases

(* A job that forgets rows leaves them. *)
LEMMA ForgetJobs ==
    ASSUME RowInv, NEW w \in Workers, NEW S \in SUBSET Items, Forget(w, S), NEW i \in Items
    PROVE  JobsOn(i)' = IF i \in S THEN JobsOn(i) \ {w} ELSE JobsOn(i)
<1>1. \A u \in Workers : Holds(u, i)' <=> Holds(u, i) /\ ~(u = w /\ i \in S)
  BY DEF Forget, Holds, RowInv, QueueTypeOK
<1>2. QED
  BY <1>1 DEF JobsOn

(* A step of the queue lets nobody at a task who has no free place there. *)
LEMMA LoadOfQueue ==
    ASSUME LeaseOutlivesRun, RowInv, QueueNext, NEW i \in Items
    PROVE  Load(i)' <= Load(i) \/ Load(i)' <= 1
<1> DEFINE Goal == Load(i)' <= Load(i) \/ Load(i)' <= 1
<1>1. ASSUME UNCHANGED claim PROVE JobsOn(i)' = JobsOn(i)
  BY <1>1 DEF JobsOn, Holds
<1>2. ASSUME NEW j \in Items, Insert(j) PROVE Goal
  <2>1. JobsOn(i)' = JobsOn(i)
    BY <1>1, <1>2 DEF Insert
  <2>2. CASE j = i
    <3>1. JobsOn(i) = {}
      BY <1>2, <2>2 DEF Insert, JobsOn, RowInv
    <3>2. QED
      BY <2>1, <3>1, LoadAlone
  <2>3. CASE j # i
    BY <1>2, <2>1, <2>3, LoadKept DEF Insert, Claimable, RowInv, QueueTypeOK
  <2>4. QED
    BY <2>2, <2>3
<1>3. ASSUME NEW j \in Items, FallDue(j) PROVE Goal
  BY <1>1, <1>3, LoadKept DEF FallDue, Claimable
<1>4. ASSUME NEW j \in Items, LeaseExpire(j) PROVE Goal
  <2>1. JobsOn(i)' = JobsOn(i)
    BY <1>1, <1>4 DEF LeaseExpire
  <2>2. CASE j = i
    <3>1. JobsOn(i) = {}
      BY <1>4, <2>2 DEF LeaseExpire, JobsOn
    <3>2. QED
      BY <2>1, <3>1, LoadAlone
  <2>3. CASE j # i
    BY <1>4, <2>1, <2>3, LoadKept DEF LeaseExpire, Claimable, RowInv, QueueTypeOK
  <2>4. QED
    BY <2>2, <2>3
<1>5. ASSUME NEW w \in Workers, NEW j \in Items, MarkDone(w, j) \/ MarkRetry(w, j) PROVE Goal
  <2>1. Forget(w, {j}) /\ w \in JobsOn(j)
    BY <1>5 DEF MarkDone, MarkRetry, JobsOn
  <2>2. JobsOn(i)' = IF i = j THEN JobsOn(i) \ {w} ELSE JobsOn(i)
    BY <2>1, ForgetJobs
  <2>3. CASE j = i
    BY <2>1, <2>2, <2>3, LoadLeft
  <2>4. CASE j # i
    BY <1>5, <2>2, <2>4, LoadKept DEF MarkDone, MarkRetry, Claimable, RowInv, QueueTypeOK
  <2>5. QED
    BY <2>3, <2>4
<1>6. ASSUME NEW w \in Workers, NEW S \in SUBSET Items, ClaimRows(w, S) PROVE Goal
  <2>1. claim' = [claim EXCEPT ![w] = [j \in Items |-> IF j \in S THEN retry[j] ELSE NotHeld]]
    BY <1>6 DEF ClaimRows
  <2>2. w \notin JobsOn(i) /\ retry[i] # NotHeld
    BY <1>6 DEF ClaimRows, Held, JobsOn, RowInv, QueueTypeOK, NotHeld
  <2>3. \A u \in Workers : Holds(u, i)' <=> IF u = w THEN i \in S ELSE Holds(u, i)
    BY <2>1, <2>2 DEF Holds, RowInv, QueueTypeOK
  <2>4. CASE i \in S
    <3>1. JobsOn(i)' = JobsOn(i) \cup {w}
      BY <2>3, <2>4 DEF JobsOn
    <3>2. Claimable(i) /\ ~Claimable(i)'
      BY <1>6, <2>4 DEF ClaimRows, Oldest, Ready, Claimable
    <3>3. QED
      BY <2>2, <3>1, <3>2, LoadClaimed
  <2>5. CASE i \notin S
    <3>1. JobsOn(i)' = JobsOn(i)
      BY <2>2, <2>3, <2>5 DEF JobsOn
    <3>2. Claimable(i)' <=> Claimable(i)
      BY <1>6, <2>5 DEF ClaimRows, Claimable
    <3>3. QED
      BY <3>1, <3>2, LoadKept
  <2>6. QED
    BY <2>4, <2>5
<1>7. ASSUME NEW w \in Workers, NEW S \in SUBSET Items, Drop(w, S) PROVE Goal
  <2>1. JobsOn(i)' \subseteq JobsOn(i)
    BY <1>7, ForgetJobs DEF Drop
  <2>2. Claimable(i)' <=> Claimable(i)
    BY <1>7 DEF Drop, rowVars, Claimable
  <2>3. QED
    BY <2>1, <2>2, LoadKept
<1>8. QED
  BY <1>2, <1>3, <1>4, <1>5, <1>6, <1>7, QueueCases

LEMMA LoadStep ==
    ASSUME LeaseOutlivesRun, Inv, LoadInv, Next
    PROVE  LoadInv'
<1> SUFFICES ASSUME NEW i \in Items PROVE Load(i)' <= 1 + resets'
  BY DEF LoadInv
<1>0. Load(i) <= 1 + resets /\ resets \in Nat /\ Load(i) \in Nat /\ Load(i)' \in Nat
  <2>1. Cardinality(JobsOn(i)) \in Nat /\ Cardinality(JobsOn(i)') \in Nat
    <3>1. PICK K : K = JobsOn(i)'
      OBVIOUS
    <3>2. IsFiniteSet(K)
      BY <3>1, AIReplyAssumption, FS_Subset DEF JobsOn
    <3>3. QED
      BY <3>1, <3>2, JobsFinite, FS_CardinalityType
  <2>2. QED
    BY <2>1, AIReplyAssumption DEF LoadInv, Load, Inv, ReplyTypes
<1>1. CASE UNCHANGED <<queueVars, resets>>
  <2>1. JobsOn(i)' = JobsOn(i) /\ Claimable(i)' = Claimable(i)
    BY <1>1 DEF queueVars, rowVars, JobsOn, Holds, Claimable
  <2>2. QED
    BY <1>0, <1>1, <2>1, LoadKept
<1>2. CASE UNCHANGED resets /\ QueueNext
  BY <1>0, <1>2, LoadOfQueue DEF Inv
<1>3. ASSUME UNCHANGED resets,
             NEW w \in Workers, NEW c \in Items, Holds(w, c), Forget(w, {c}),
             NEW st \in States, NEW n, UNCHANGED rowVars \/ SetRow(c, st, n)
      PROVE  Load(i)' <= 1 + resets'
  <2>1. JobsOn(i)' = IF i = c THEN JobsOn(i) \ {w} ELSE JobsOn(i)
    BY <1>3, ForgetJobs DEF Inv
  <2>2. CASE i = c
    <3>1. w \in JobsOn(i)
      BY <1>3, <2>2 DEF JobsOn
    <3>2. Load(i)' <= Load(i)
      BY <2>1, <2>2, <3>1, LoadLeft
    <3>3. QED
      BY <1>0, <1>3, <3>2
  <2>3. CASE i # c
    <3>1. Claimable(i)' <=> Claimable(i)
      BY <1>3, <2>3 DEF SetRow, Claimable, rowVars, Inv, RowInv, QueueTypeOK
    <3>2. Load(i)' <= Load(i)
      BY <2>1, <2>3, <3>1, LoadKept
    <3>3. QED
      BY <1>0, <1>3, <3>2
  <2>4. QED
    BY <2>2, <2>3
<1>4. ASSUME NEW j \in Items, Reset(j) PROVE Load(i)' <= 1 + resets'
  <2>1. JobsOn(i)' = JobsOn(i) /\ resets' = resets + 1
    BY <1>4 DEF Reset, JobsOn, Holds
  <2>2. Load(i)' <= Load(i) + 1
    BY <2>1, JobsFinite DEF Load
  <2>3. QED
    BY <1>0, <2>1, <2>2
<1>5. QED
  BY <1>1, <1>2, <1>3, <1>4, RowMoves

(* As long as leases outlive the jobs, at most one job more than operators have put
   tasks back works on a task: a crash, an expired lease, a task put off and a mark
   of a straggler let nobody else in. *)
THEOREM ResetsLetIn ==
    ASSUME LeaseOutlivesRun
    PROVE  Spec => []JobsPerTask
<1>1. Init => LoadInv
  <2> SUFFICES ASSUME Init, NEW i \in Items PROVE Load(i) <= 1 + resets
    BY DEF LoadInv
  <2>1. JobsOn(i) = {} /\ resets = 0 /\ ~Claimable(i)
    BY DEF Init, InitQueue, JobsOn, Holds, Claimable
  <2>2. QED
    BY <2>1, FS_EmptySet DEF Load
<1>2. ASSUME Inv, LoadInv, [Next]_vars PROVE LoadInv'
  <2>1. CASE UNCHANGED vars
    <3>1. \A i \in Items : JobsOn(i)' = JobsOn(i) /\ Claimable(i)' = Claimable(i)
      BY <2>1 DEF vars, queueVars, rowVars, JobsOn, Holds, Claimable
    <3>2. resets' = resets
      BY <2>1 DEF vars, replyVars
    <3>3. QED
      BY <1>2, <3>1, <3>2 DEF LoadInv, Load
  <2>2. QED
    BY <1>2, <2>1, LoadStep
<1>3. Inv /\ LoadInv /\ [Next]_vars => LoadInv'
  BY <1>2
<1>4. Inv /\ LoadInv => JobsPerTask
  <2> SUFFICES ASSUME Inv, LoadInv, NEW i \in Items PROVE Cardinality(JobsOn(i)) <= 1 + resets
    BY DEF JobsPerTask
  <2>1. Cardinality(JobsOn(i)) <= Load(i) /\ Load(i) \in Nat /\ resets \in Nat
    BY JobsFinite, AIReplyAssumption DEF Load, Inv, ReplyTypes
  <2>2. QED
    BY <2>1, JobsFinite DEF LoadInv
<1>5. QED
  BY <1>1, <1>3, <1>4, InvAlways, PTL DEF Spec

=============================================================================
