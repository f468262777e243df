---------------------- MODULE NotificationOutboxProofs ----------------------
(***************************************************************************)
(* Theorems about NotificationOutbox for every number of rows, users and   *)
(* jobs, every limit and every deadline.                                   *)
(***************************************************************************)
EXTENDS NotificationOutbox, LeaseQueueProofs, FiniteSetTheorems

(* A job that is not idle, and no other, has a batch. *)
JobInv == \A w \in Workers : pc[w] = "idle" <=> Held(w) = {}

OutboxTypes ==
    /\ registered \in SUBSET Users
    /\ to \in [Items -> Users \cup {Everyone}]
    /\ audience \in [Items -> SUBSET Users]
    /\ note \in [Items -> [Users -> Notes]]
    /\ pc \in [Workers -> PCs]
    /\ left \in [Workers -> SUBSET Users]
    /\ room \in [Workers -> 0..Reach]
    /\ faults \in 0..MaxFaults

Inv == RowInv /\ OutboxTypes /\ JobInv

LEMMA CurIsHeld ==
    ASSUME JobInv, NEW w \in Workers, pc[w] # "idle"
    PROVE  Cur(w) \in Items /\ Holds(w, Cur(w))
BY CurInBatch DEF JobInv

LEMMA NextCases ==
    ASSUME Next
    PROVE  \/ \E u \in Users : Register(u)
           \/ \E u \in Users : Read(u)
           \/ \E i \in Items : Emit(i)
           \/ \E i \in Items : Pass(i)
           \/ \E w \in Workers : Claim(w)
           \/ \E w \in Workers : Start(w)
           \/ \E w \in Workers : Send(w)
           \/ \E w \in Workers : Finish(w)
           \/ \E w \in Workers : Retry(w)
           \/ \E w \in Workers : GiveUp(w)
BY Zenon DEF Next

(* Whatever the jobs and the users do, the rows see a step of the lease queue. *)
LEMMA StepOfQueue ==
    ASSUME JobInv, [Next]_vars
    PROVE  [QueueNext]_queueVars
<1>1. ASSUME NEW u \in Users, Register(u) \/ Read(u) PROVE UNCHANGED queueVars
  BY <1>1 DEF Register, Read
<1>2. ASSUME NEW i \in Items, Emit(i) PROVE QueueNext
  BY <1>2 DEF Emit, QueueNext
<1>3. ASSUME NEW i \in Items, Pass(i) PROVE QueueNext
  BY <1>3 DEF Pass, QueueNext
<1>4. ASSUME NEW w \in Workers, Claim(w) PROVE QueueNext
  BY <1>4 DEF Claim, QueueNext
<1>5. ASSUME NEW w \in Workers, Start(w) \/ Send(w) PROVE UNCHANGED queueVars
  BY <1>5 DEF Start, Send
<1>6. ASSUME NEW w \in Workers, Finish(w) PROVE QueueNext
  <2>1. Cur(w) \in Items
    BY <1>6, CurIsHeld DEF Finish
  <2>2. MarkDone(w, Cur(w)) \/ Drop(w, {Cur(w)})
    BY <1>6 DEF Finish
  <2>3. QED
    BY <2>1, <2>2 DEF QueueNext
<1>7. ASSUME NEW w \in Workers, Retry(w) PROVE QueueNext
  <2>1. Cur(w) \in Items
    BY <1>7, CurIsHeld DEF Retry
  <2>2. MarkRetry(w, Cur(w)) \/ Drop(w, {Cur(w)})
    BY <1>7 DEF Retry
  <2>3. QED
    BY <2>1, <2>2 DEF QueueNext
<1>8. ASSUME NEW w \in Workers, GiveUp(w) PROVE QueueNext
  BY <1>8 DEF GiveUp, QueueNext, Held
<1>9. QED
  BY <1>1, <1>2, <1>3, <1>4, <1>5, <1>6, <1>7, <1>8, NextCases DEF vars

(* The batches and program counters move together. *)
LEMMA JobStepInv ==
    ASSUME Inv, Next
    PROVE  JobInv'
<1> USE DEF Inv, OutboxTypes, JobInv
<1>1. ASSUME NEW u \in Users, Register(u) \/ Read(u) PROVE JobInv'
  BY <1>1 DEF Register, Read, queueVars, jobVars, Held, Holds
<1>2. ASSUME NEW i \in Items, Emit(i) \/ Pass(i) PROVE JobInv'
  BY <1>2 DEF Emit, Insert, Pass, FallDue, LeaseExpire, outboxVars, jobVars, Held, Holds
<1>3. ASSUME NEW w \in Workers, Claim(w) PROVE JobInv'
  <2>1. PICK S \in SUBSET Items : ClaimRows(w, S)
    BY <1>3 DEF Claim
  <2>2. S # {} /\ \A i \in S : retry[i] # -1
    BY <2>1 DEF ClaimRows, RowInv, QueueTypeOK
  <2>3. claim' = [claim EXCEPT ![w] = [i \in Items |-> IF i \in S THEN retry[i] ELSE -1]]
    BY <2>1 DEF ClaimRows, NotHeld
  <2>4. Held(w)' = S
    BY <2>2, <2>3 DEF Held, Holds, NotHeld, RowInv, QueueTypeOK
  <2>5. \A u \in Workers : u # w => Held(u)' = Held(u)
    BY <2>3 DEF Held, Holds
  <2>6. QED
    BY <1>3, <2>2, <2>4, <2>5 DEF Claim
<1>4. ASSUME NEW w \in Workers, Start(w) \/ Send(w) PROVE JobInv'
  <2>1. \A u \in Workers : Held(u)' = Held(u)
    BY <1>4 DEF Start, Send, queueVars, Held, Holds
  <2>2. \A u \in Workers : pc'[u] = "idle" <=> pc[u] = "idle"
    BY <1>4 DEF Start, Send, OnSendError
  <2>3. QED
    BY <2>1, <2>2
<1>5. ASSUME NEW w \in Workers, Finish(w) \/ Retry(w) PROVE JobInv'
  <2>1. Cur(w) \in Items
    BY <1>5, CurIsHeld DEF Finish, Retry
  <2>2. Forget(w, {Cur(w)})
    BY <1>5 DEF Finish, Retry, MarkDone, MarkRetry, Drop
  <2>3. Held(w)' = Held(w) \ {Cur(w)} /\ \A u \in Workers : u # w => Held(u)' = Held(u)
    BY <2>1, <2>2, ForgetHeld
  <2>4. pc' = [pc EXCEPT ![w] = IF Held(w) \ {Cur(w)} = {} THEN "idle" ELSE "start"]
    BY <1>5 DEF Finish, Retry, Turn
  <2>5. QED
    BY <2>3, <2>4
<1>6. ASSUME NEW w \in Workers, GiveUp(w) PROVE JobInv'
  <2>1. Held(w)' = {} /\ \A u \in Workers : u # w => Held(u)' = Held(u)
    BY <1>6, ForgetHeld DEF GiveUp, Drop, Held
  <2>2. QED
    BY <1>6, <2>1 DEF GiveUp
<1>7. QED
  BY <1>1, <1>2, <1>3, <1>4, <1>5, <1>6, NextCases

LEMMA OutboxTypesStep ==
    ASSUME Inv, Next
    PROVE  OutboxTypes'
<1> USE OutboxAssumption DEF Inv, OutboxTypes, Notes, PCs
<1>1. ASSUME NEW u \in Users, Register(u) PROVE OutboxTypes'
  BY <1>1 DEF Register, jobVars
<1>2. ASSUME NEW u \in Users, Read(u) PROVE OutboxTypes'
  BY <1>2 DEF Read, jobVars
<1>3. ASSUME NEW i \in Items, Emit(i) PROVE OutboxTypes'
  BY <1>3 DEF Emit, jobVars
<1>4. ASSUME NEW i \in Items, Pass(i) PROVE OutboxTypes'
  BY <1>4 DEF Pass, outboxVars, jobVars
<1>5. ASSUME NEW w \in Workers, Claim(w) PROVE OutboxTypes'
  BY <1>5 DEF Claim
<1>6. ASSUME NEW w \in Workers, Start(w) PROVE OutboxTypes'
  <2>1. Cur(w) \in Items
    BY <1>6, CurIsHeld DEF Start
  <2>2. Recipients(Cur(w)) \in SUBSET Users
    BY <2>1 DEF Recipients
  <2>3. QED
    BY <1>6, <2>2 DEF Start, Fault, NoFault
<1>7. ASSUME NEW w \in Workers, Send(w) PROVE OutboxTypes'
  <2>1. Cur(w) \in Items /\ First(left[w]) \in Users
    BY <1>7, CurIsHeld, FirstIsLeast DEF Send
  <2>2. note' \in [Items -> [Users -> Notes]]
    <3> DEFINE i == Cur(w)
               u == First(left[w])
    <3>1. i \in Items /\ u \in Users
      BY <2>1
    <3>2. \/ note' = [note EXCEPT ![i][u] = Upserted(note[i][u])]
          \/ note' = note
      BY <1>7 DEF Send
    <3> HIDE DEF i, u
    <3>3. Upserted(note[i][u]) \in Notes
      BY <3>1 DEF Upserted
    <3>4. [note[i] EXCEPT ![u] = Upserted(note[i][u])] \in [Users -> Notes]
      BY <3>1, <3>3
    <3>5. CASE note' = note
      BY <3>5
    <3>6. CASE note' = [note EXCEPT ![i][u] = Upserted(note[i][u])]
      BY <3>1, <3>4, <3>6, Zenon
    <3>7. QED
      BY <3>2, <3>5, <3>6
  <2>3. QED
    BY <1>7, <2>2 DEF Send, Fault, NoFault, OnSendError
<1>8. ASSUME NEW w \in Workers, Finish(w) \/ Retry(w) PROVE OutboxTypes'
  <2>1. \E x \in PCs : pc' = [pc EXCEPT ![w] = x]
    BY <1>8 DEF Finish, Retry, Turn
  <2>2. \E x \in 0..Reach : room' = [room EXCEPT ![w] = x]
    BY <1>8 DEF Finish, Retry, Turn
  <2>3. left' = [left EXCEPT ![w] = {}] /\ faults' \in 0..MaxFaults
    BY <1>8 DEF Finish, Retry, Turn, Fault, NoFault
  <2>4. UNCHANGED <<registered, to, audience, note>>
    BY <1>8 DEF Finish, Retry
  <2>5. QED
    BY <2>1, <2>2, <2>3, <2>4
<1>9. ASSUME NEW w \in Workers, GiveUp(w) PROVE OutboxTypes'
  BY <1>9 DEF GiveUp, Fault, NoFault
<1>10. QED
  BY <1>1, <1>2, <1>3, <1>4, <1>5, <1>6, <1>7, <1>8, <1>9, NextCases

(* A notification is never taken back, nor made unread. *)
LEMMA NoteStep ==
    ASSUME Inv, [Next]_vars, NEW i \in Items, NEW u \in Users
    PROVE  /\ note[i][u] # "none" => note'[i][u] # "none"
           /\ note[i][u] = "read" => note'[i][u] = "read"
<1> USE DEF Inv, OutboxTypes
<1>1. CASE UNCHANGED note
  BY <1>1
<1>2. ASSUME NEW v \in Users, Read(v) PROVE note'[i][u] \in {note[i][u], "read"}
  BY <1>2 DEF Read
<1>3. ASSUME NEW w \in Workers, Send(w), ~UNCHANGED note
      PROVE  note'[i][u] \in {note[i][u], Upserted(note[i][u])}
  <2> DEFINE j == Cur(w)
             v == First(left[w])
  <2>1. j \in Items /\ v \in Users
    BY <1>3, CurIsHeld, FirstIsLeast, OutboxAssumption DEF Send
  <2>2. note' = [note EXCEPT ![j][v] = Upserted(note[j][v])]
    BY <1>3 DEF Send
  <2> HIDE DEF j, v
  <2>3. QED
    BY <2>1, <2>2
<1>4. \/ UNCHANGED note
      \/ \E v \in Users : Read(v)
      \/ \E w \in Workers : Send(w)
  <2>1. ASSUME NEW v \in Users, Register(v) PROVE UNCHANGED note
    BY <2>1 DEF Register
  <2>2. ASSUME NEW j \in Items, Emit(j) \/ Pass(j) PROVE UNCHANGED note
    BY <2>2 DEF Emit, Pass, outboxVars
  <2>3. ASSUME NEW w \in Workers, Claim(w) \/ Start(w) \/ Finish(w) \/ Retry(w) \/ GiveUp(w)
        PROVE  UNCHANGED note
    BY <2>3 DEF Claim, Start, Finish, Retry, GiveUp
  <2>4. CASE UNCHANGED vars
    BY <2>4 DEF vars, outboxVars
  <2>5. QED
    BY <2>1, <2>2, <2>3, <2>4, NextCases
<1>5. QED
  BY <1>1, <1>2, <1>3, <1>4 DEF Upserted

(* What a job has behind it on the row it delivers, everybody in the audience of
   that row has; and the audience is among those the delivery goes to. *)
ReachInv ==
    /\ \A i \in Items : audience[i] \subseteq registered
    /\ \A i \in Items : to[i] # Everyone => audience[i] \subseteq {to[i]}
    /\ \A w \in Workers : pc[w] = "send" =>
          \A u \in audience[Cur(w)] \ left[w] : note[Cur(w)][u] # "none"
    /\ DoneIsDelivered

(* A job that neither moves nor changes its batch keeps what it has behind it. *)
LEMMA BehindKept ==
    ASSUME Inv, ReachInv, [Next]_vars, NEW w \in Workers,
           pc'[w] = "send" =>
              pc[w] = "send" /\ left'[w] = left[w] /\ claim'[w] = claim[w],
           \A i \in Items : state[i] # "none" => audience'[i] = audience[i]
    PROVE  pc'[w] = "send" =>
              \A u \in (audience[Cur(w)])' \ left'[w] : (note[Cur(w)][u])' # "none"
<1> SUFFICES ASSUME pc'[w] = "send"
             PROVE  \A u \in (audience[Cur(w)])' \ left'[w] : (note[Cur(w)][u])' # "none"
  OBVIOUS
<1>1. pc[w] = "send" /\ left'[w] = left[w] /\ claim'[w] = claim[w]
  OBVIOUS
<1>2. Held(w)' = Held(w)
  BY <1>1 DEF Held, Holds
<1>3. Cur(w) \in Items /\ Holds(w, Cur(w))
  BY <1>1, CurIsHeld DEF Inv
<1>4. PICK i \in Items : i = Cur(w)
  BY <1>3
<1>5. i = Cur(w)'
  BY <1>2, <1>4, SameBatch
<1>6. state[i] # "none"
  BY <1>3, <1>4 DEF Inv, RowInv
<1>7. \A u \in audience[i] \ left[w] : u \in Users /\ note[i][u] # "none"
  BY <1>1, <1>4 DEF ReachInv, Inv, OutboxTypes
<1>8. \A u \in audience'[i] \ left'[w] : note'[i][u] # "none"
  BY <1>1, <1>6, <1>7, NoteStep
<1>9. QED
  BY <1>5, <1>8

(* The audience of a row is fixed when the row is written. *)
LEMMA AudienceStep ==
    ASSUME Inv, ReachInv, [Next]_vars
    PROVE  /\ \A i \in Items : audience'[i] \subseteq registered'
           /\ \A i \in Items : to'[i] # Everyone => audience'[i] \subseteq {to'[i]}
           /\ \A i \in Items : state[i] # "none" => audience'[i] = audience[i]
<1> DEFINE Goal == /\ \A i \in Items : audience'[i] \subseteq registered'
                   /\ \A i \in Items : to'[i] # Everyone => audience'[i] \subseteq {to'[i]}
                   /\ \A i \in Items : state[i] # "none" => audience'[i] = audience[i]
<1> USE DEF Inv, OutboxTypes, ReachInv
<1>1. ASSUME UNCHANGED <<to, audience>>, registered \subseteq registered' PROVE Goal
  BY <1>1
<1>2. ASSUME NEW u \in Users, Register(u) \/ Read(u) PROVE Goal
  BY <1>1, <1>2 DEF Register, Read
<1>3. ASSUME NEW i \in Items, Emit(i) PROVE Goal
  BY <1>3 DEF Emit, Insert
<1>4. ASSUME NEW i \in Items, Pass(i) PROVE Goal
  BY <1>1, <1>4 DEF Pass, outboxVars
<1>5. ASSUME NEW w \in Workers,
             Claim(w) \/ Start(w) \/ Send(w) \/ Finish(w) \/ Retry(w) \/ GiveUp(w)
      PROVE  Goal
  BY <1>1, <1>5 DEF Claim, Start, Send, Finish, Retry, GiveUp
<1>6. CASE UNCHANGED vars
  BY <1>1, <1>6 DEF vars, outboxVars
<1>7. QED
  BY <1>2, <1>3, <1>4, <1>5, <1>6, NextCases

(* A job that is sending after a step was sending before, on the same batch and
   to the same recipients, with as much time, unless the step is its own Start or Send. *)
LEMMA OnlyStartAndSend ==
    ASSUME Inv, [Next]_vars, NEW w \in Workers, ~Start(w), ~Send(w), pc'[w] = "send"
    PROVE  pc[w] = "send" /\ left'[w] = left[w] /\ room'[w] = room[w] /\ claim'[w] = claim[w]
<1> DEFINE Goal == pc[w] = "send" /\ left'[w] = left[w] /\ room'[w] = room[w] /\ claim'[w] = claim[w]
<1> USE DEF Inv, OutboxTypes, RowInv, QueueTypeOK
<1>1. ASSUME NEW u \in Users, Register(u) \/ Read(u) PROVE Goal
  BY <1>1 DEF Register, Read, queueVars, jobVars
<1>2. ASSUME NEW i \in Items, Emit(i) \/ Pass(i) PROVE Goal
  BY <1>2 DEF Emit, Insert, Pass, FallDue, LeaseExpire, outboxVars, jobVars
<1>3. ASSUME NEW v \in Workers, Claim(v) PROVE Goal
  BY <1>3 DEF Claim, ClaimRows
<1>4. ASSUME NEW v \in Workers, Start(v) \/ Send(v) PROVE Goal
  <2>1. v # w
    BY <1>4
  <2>2. QED
    BY <1>4, <2>1 DEF Start, Send, queueVars
<1>5. ASSUME NEW v \in Workers, Finish(v) \/ Retry(v) \/ GiveUp(v) PROVE Goal
  <2>1. pc'[v] # "send"
    BY <1>5 DEF Finish, Retry, GiveUp, Turn
  <2>2. v # w
    BY <2>1
  <2>3. \E S : Forget(v, S)
    BY <1>5 DEF Finish, Retry, GiveUp, MarkDone, MarkRetry, Drop
  <2>4. claim'[w] = claim[w]
    BY <2>2, <2>3 DEF Forget
  <2>5. pc'[w] = pc[w] /\ left'[w] = left[w] /\ room'[w] = room[w]
    BY <1>5, <2>2 DEF Finish, Retry, GiveUp, Turn
  <2>6. QED
    BY <2>4, <2>5
<1>6. CASE UNCHANGED vars
  BY <1>6 DEF vars, queueVars, outboxVars, jobVars
<1>7. QED
  BY <1>1, <1>2, <1>3, <1>4, <1>5, <1>6, NextCases

LEMMA BehindStep ==
    ASSUME Inv, ReachInv, [Next]_vars, NEW w \in Workers
    PROVE  pc'[w] = "send" =>
              \A u \in (audience[Cur(w)])' \ left'[w] : (note[Cur(w)][u])' # "none"
<1> SUFFICES ASSUME pc'[w] = "send"
             PROVE  \A u \in (audience[Cur(w)])' \ left'[w] : (note[Cur(w)][u])' # "none"
  OBVIOUS
<1>1. CASE Start(w)
  <2>1. PICK i \in Items : i = Cur(w)
    BY <1>1, CurIsHeld DEF Inv, Start
  <2>2. Held(w)' = Held(w)
    BY <1>1 DEF Start, queueVars, Held, Holds
  <2>3. i = Cur(w)'
    BY <2>1, <2>2, SameBatch
  <2>4. left'[w] = Recipients(i)
    BY <1>1, <2>1 DEF Start, Inv, OutboxTypes
  <2>5. audience'[i] \subseteq Recipients(i)
    BY <1>1 DEF Start, Recipients, ReachInv
  <2>6. QED
    BY <2>3, <2>4, <2>5
<1>2. CASE Send(w)
  <2>1. PICK i \in Items : i = Cur(w)
    BY <1>2, CurIsHeld DEF Inv, Send
  <2>2. Held(w)' = Held(w)
    BY <1>2 DEF Send, queueVars, Held, Holds
  <2>3. i = Cur(w)'
    BY <2>1, <2>2, SameBatch
  <2>4. PICK v \in Users : v = First(left[w])
    BY <1>2, FirstIsLeast, OutboxAssumption DEF Send, Inv, OutboxTypes
  <2>5. /\ pc[w] = "send" /\ left'[w] = left[w] \ {v} /\ audience' = audience
        /\ note' = [note EXCEPT ![i][v] = Upserted(note[i][v])]
    BY <1>2, <2>1, <2>4 DEF Send, OnSendError, Inv, OutboxTypes
  <2>6. note'[i][v] # "none"
    BY <2>5 DEF Upserted, Inv, OutboxTypes
  <2>7. \A u \in audience[i] \ left[w] : u \in Users /\ note[i][u] # "none"
    BY <2>1, <2>5 DEF ReachInv, Inv, OutboxTypes
  <2>8. \A u \in audience'[i] \ left'[w] : note'[i][u] # "none"
    BY <2>5, <2>6, <2>7, NoteStep
  <2>9. QED
    BY <2>3, <2>8
<1>3. CASE ~Start(w) /\ ~Send(w)
  BY <1>3, OnlyStartAndSend, AudienceStep, BehindKept
<1>4. QED
  BY <1>1, <1>2, <1>3

(* Only a job with nobody left to notify marks its row done. *)
LEMMA DoneStep ==
    ASSUME Inv, [Next]_vars, NEW i \in Items, state'[i] = "done", state[i] # "done"
    PROVE  \E w \in Workers : pc[w] = "send" /\ left[w] = {} /\ i = Cur(w)
<1> USE DEF Inv, RowInv, QueueTypeOK
<1>1. ASSUME NEW u \in Users, Register(u) \/ Read(u) PROVE FALSE
  BY <1>1 DEF Register, Read, queueVars, rowVars
<1>2. ASSUME NEW j \in Items, Emit(j) \/ Pass(j) PROVE FALSE
  BY <1>2 DEF Emit, Insert, Pass, FallDue, LeaseExpire
<1>3. ASSUME NEW w \in Workers, Claim(w) PROVE FALSE
  BY <1>3 DEF Claim, ClaimRows
<1>4. ASSUME NEW w \in Workers, Start(w) \/ Send(w) PROVE FALSE
  BY <1>4 DEF Start, Send, queueVars, rowVars
<1>5. ASSUME NEW w \in Workers, Retry(w) PROVE FALSE
  BY <1>5 DEF Retry, MarkRetry, Drop, rowVars
<1>6. ASSUME NEW w \in Workers, GiveUp(w) PROVE FALSE
  BY <1>6 DEF GiveUp, Drop, rowVars
<1>7. ASSUME NEW w \in Workers, Finish(w)
      PROVE  pc[w] = "send" /\ left[w] = {} /\ i = Cur(w)
  BY <1>7 DEF Finish, MarkDone, Drop, rowVars
<1>8. CASE UNCHANGED vars
  BY <1>8 DEF vars, queueVars, rowVars
<1>9. QED
  BY <1>1, <1>2, <1>3, <1>4, <1>5, <1>6, <1>7, <1>8, NextCases

LEMMA ReachStep ==
    ASSUME Inv, ReachInv, [Next]_vars
    PROVE  ReachInv'
<1>1. ASSUME NEW i \in Items, state'[i] = "done", NEW u \in audience'[i]
      PROVE  note'[i][u] # "none"
  <2>1. state[i] # "none"
    BY <1>1, DoneStep, CurIsHeld DEF Inv, RowInv
  <2>2. u \in audience[i] /\ u \in Users
    BY <1>1, <2>1, AudienceStep DEF Inv, OutboxTypes
  <2>3. CASE state[i] = "done"
    BY <2>2, <2>3, NoteStep DEF ReachInv, DoneIsDelivered
  <2>4. CASE state[i] # "done"
    <3>1. PICK w \in Workers : pc[w] = "send" /\ left[w] = {} /\ i = Cur(w)
      BY <1>1, <2>4, DoneStep
    <3>2. note[i][u] # "none"
      BY <2>2, <3>1 DEF ReachInv
    <3>3. QED
      BY <2>2, <3>2, NoteStep
  <2>5. QED
    BY <2>3, <2>4
<1>2. DoneIsDelivered'
  BY <1>1 DEF DoneIsDelivered
<1>3. QED
  BY <1>2, AudienceStep, BehindStep DEF ReachInv

-----------------------------------------------------------------------------
LEMMA InvInit == Init => Inv
<1>1. Init => RowInv
  BY QueueTypeInit DEF Init
<1>2. Init => OutboxTypes /\ JobInv
  BY OutboxAssumption DEF Init, InitQueue, OutboxTypes, JobInv, Held, Holds, Notes, PCs
<1>3. QED
  BY <1>1, <1>2 DEF Inv

LEMMA InvStep ==
    ASSUME Inv, [Next]_vars
    PROVE  Inv'
<1>1. CASE Next
  <2>1. RowInv'
    <3>1. [QueueNext]_queueVars
      BY StepOfQueue DEF Inv
    <3>2. CASE QueueNext
      BY <3>2, QueueTypeStep DEF Inv
    <3>3. CASE UNCHANGED queueVars
      BY <3>3 DEF Inv, RowInv, QueueTypeOK, queueVars, rowVars, Holds
    <3>4. QED
      BY <3>1, <3>2, <3>3
  <2>2. QED
    BY <1>1, <2>1, JobStepInv, OutboxTypesStep DEF Inv
<1>2. CASE UNCHANGED vars
  BY <1>2 DEF vars, queueVars, rowVars, outboxVars, jobVars, Inv, RowInv, QueueTypeOK,
              OutboxTypes, JobInv, Held, Holds
<1>3. QED
  BY <1>1, <1>2

LEMMA InvAlways == Spec => []Inv
BY InvInit, InvStep, PTL DEF Spec

LEMMA ReachAlways == Spec => []ReachInv
<1>1. Init => ReachInv
  BY DEF Init, InitQueue, ReachInv, DoneIsDelivered
<1>2. Inv /\ ReachInv /\ [Next]_vars => ReachInv'
  BY ReachStep
<1>3. QED
  BY <1>1, <1>2, InvAlways, PTL DEF Spec

(* Every row, note and job keeps values the code can write: no retry count passes
   the maximum, whatever jobs and faults do. *)
THEOREM OutboxTypeCorrect == Spec => []TypeOK
<1>1. Inv => TypeOK
  BY DEF Inv, RowInv, OutboxTypes, TypeOK
<1>2. QED
  BY <1>1, InvAlways, PTL

(* What ProcessPendingNotificationOutbox marks done has reached everybody it was
   meant for, whether or not leases outlive the jobs. *)
THEOREM DoneMeansDelivered == Spec => []DoneIsDelivered
<1>1. ReachInv => DoneIsDelivered
  BY DEF ReachInv
<1>2. QED
  BY <1>1, ReachAlways, PTL

(* No redelivery by CreateNotification's upsert makes a read notification unread. *)
THEOREM ReadIsKept == Spec => ReadStaysRead
<1> DEFINE A == \A i \in Items, u \in Users : note[i][u] = "read" => note'[i][u] = "read"
<1>1. Inv /\ [Next]_vars => [A]_vars
  BY NoteStep
<1>2. QED
  BY <1>1, InvAlways, PTL DEF Spec, ReadStaysRead

(* The outbox with its jobs is the abstract task queue: an item is delivered by one
   job at a time, given up after MaxRetry failed attempts, and settled once. *)
THEOREM OutboxIsTaskQueue ==
    ASSUME LeaseOutlivesRun
    PROVE  Spec => IsTaskQueue
<1>1. Init => InitQueue
  BY DEF Init
<1>2. Inv /\ [Next]_vars => [QueueNext]_queueVars
  BY StepOfQueue DEF Inv
<1>3. Spec => QueueSpec
  BY <1>1, <1>2, InvAlways, PTL DEF Spec, QueueSpec
<1>4. QED
  BY <1>3, LeasesImplementQueue

(* A row of the outbox is given up exactly when MaxRetry deliveries of it have
   failed, and what is done or given up is never touched again, although
   markNotificationOutboxRetry writes a count read at the claim, WHERE id. *)
THEOREM OutboxSettles ==
    ASSUME LeaseOutlivesRun
    PROVE  Spec => []Queue!GivenUpExactly /\ Queue!SettledStays
BY OutboxIsTaskQueue, QueuesSettle, PTL

-----------------------------------------------------------------------------
(* Every retry is paid for with a fault: the count of a row, the count its job
   carries, and the attempt that has just failed stay within the faults. *)
Attempt(w, i) == IF pc[w] = "fail" /\ i = Cur(w) THEN claim[w][i] + 1 ELSE claim[w][i]

FailuresArePaid ==
    /\ \A i \in Items : retry[i] <= faults
    /\ \A w \in Workers : \A i \in Held(w) : Attempt(w, i) <= faults

PaidInv ==
    /\ FailuresArePaid
    /\ \A i \in Items : state[i] = "failed" => retry[i] >= MaxRetry

(* A job that does not move, or turns from rows without a failure, owes nothing new. *)
LEMMA AttemptKept ==
    ASSUME Inv, Inv', PaidInv, NEW w \in Workers, faults <= faults',
           \/ claim'[w] = claim[w] /\ pc'[w] = pc[w]
           \/ pc'[w] # "fail" /\ \A i \in Items : claim'[w][i] \in {claim[w][i], NotHeld}
    PROVE  \A i \in Held(w)' : Attempt(w, i)' <= faults'
<1> SUFFICES ASSUME NEW i \in Items, claim'[w][i] # NotHeld
             PROVE  Attempt(w, i)' <= faults'
  BY DEF Held, Holds, Inv, RowInv
<1>1. faults \in Nat /\ faults' \in Nat /\ claim[w][i] \in Int
  BY OutboxAssumption DEF Inv, OutboxTypes, RowInv, QueueTypeOK, NotHeld
<1>2. claim[w][i] = claim'[w][i] /\ i \in Held(w)
  BY DEF Held, Holds
<1>3. Attempt(w, i) <= faults
  BY <1>2 DEF PaidInv, FailuresArePaid
<1>4. CASE claim'[w] = claim[w] /\ pc'[w] = pc[w]
  <2>1. Held(w)' = Held(w)
    BY <1>4 DEF Held, Holds
  <2>2. Cur(w)' = Cur(w)
    BY <2>1, SameBatch
  <2>3. Attempt(w, i)' = Attempt(w, i)
    BY <1>4, <2>2 DEF Attempt
  <2>4. Attempt(w, i) \in Int
    BY <1>1 DEF Attempt
  <2>5. QED
    BY <1>1, <1>3, <2>3, <2>4
<1>5. CASE pc'[w] # "fail"
  <2>1. Attempt(w, i)' = claim[w][i]
    BY <1>2, <1>5 DEF Attempt
  <2>2. QED
    BY <1>1, <1>3, <2>1 DEF Attempt
<1>6. QED
  BY <1>4, <1>5

LEMMA PaidStep ==
    ASSUME Inv, Inv', PaidInv, Next
    PROVE  PaidInv'
<1> DEFINE Others(w) == \A u \in Workers : u # w => claim'[u] = claim[u] /\ pc'[u] = pc[u]
           Rows == /\ \A i \in Items : retry'[i] <= faults'
                   /\ \A i \in Items : state'[i] = "failed" => retry'[i] >= MaxRetry
<1> USE LeaseQueueAssumption, OutboxAssumption
<1>0. /\ faults \in Nat /\ faults' \in Nat
      /\ retry \in [Items -> 0..MaxRetry] /\ state \in [Items -> States]
      /\ claim \in [Workers -> [Items -> NotHeld..MaxRetry]] /\ pc \in [Workers -> PCs]
  BY DEF Inv, OutboxTypes, RowInv, QueueTypeOK
<1>1. ASSUME Rows, faults <= faults', UNCHANGED <<claim, pc>> PROVE PaidInv'
  BY <1>1, AttemptKept DEF PaidInv, FailuresArePaid
<1>2. ASSUME Rows, faults <= faults', NEW w \in Workers, Others(w),
             \A i \in Held(w)' : Attempt(w, i)' <= faults'
      PROVE  PaidInv'
  BY <1>2, AttemptKept DEF PaidInv, FailuresArePaid
<1>3. ASSUME UNCHANGED <<state, retry>>, faults <= faults' PROVE Rows
  BY <1>0, <1>3 DEF PaidInv, FailuresArePaid
<1>4. ASSUME NEW u \in Users, Register(u) \/ Read(u) PROVE PaidInv'
  BY <1>0, <1>1, <1>3, <1>4 DEF Register, Read, queueVars, rowVars, jobVars
<1>5. ASSUME NEW i \in Items, Emit(i) \/ Pass(i) PROVE PaidInv'
  <2>1. UNCHANGED <<claim, pc, faults, retry>>
    BY <1>5 DEF Emit, Insert, Pass, FallDue, LeaseExpire, outboxVars, jobVars
  <2>2. \A j \in Items : state'[j] = "failed" => state[j] = "failed"
    BY <1>0, <1>5 DEF Emit, Insert, Pass, FallDue, LeaseExpire
  <2>3. Rows
    BY <1>0, <2>1, <2>2 DEF PaidInv, FailuresArePaid
  <2>4. QED
    BY <1>0, <1>1, <2>1, <2>3
<1>6. ASSUME NEW w \in Workers, Claim(w) PROVE PaidInv'
  <2>1. PICK S \in SUBSET Items : ClaimRows(w, S)
    BY <1>6 DEF Claim
  <2>2. claim' = [claim EXCEPT ![w] = [i \in Items |-> IF i \in S THEN retry[i] ELSE NotHeld]]
    BY <2>1 DEF ClaimRows
  <2>3. UNCHANGED <<retry, faults>> /\ pc' = [pc EXCEPT ![w] = "start"]
    BY <1>6, <2>1 DEF Claim, ClaimRows
  <2>4. \A i \in Items : state'[i] = "failed" => state[i] = "failed"
    BY <1>0, <2>1 DEF ClaimRows
  <2>5. Rows
    BY <1>0, <2>3, <2>4 DEF PaidInv, FailuresArePaid
  <2>6. \A i \in Held(w)' : i \in Items /\ claim'[w][i] = retry[i]
    BY <1>0, <2>2 DEF Held, Holds
  <2>7. \A i \in Held(w)' : Attempt(w, i)' <= faults'
    BY <1>0, <2>3, <2>6 DEF Attempt, PaidInv, FailuresArePaid
  <2>8. QED
    BY <1>0, <1>2, <2>2, <2>3, <2>5, <2>7
<1>7. ASSUME NEW w \in Workers, Start(w) \/ Send(w) PROVE PaidInv'
  <2>1. UNCHANGED <<state, retry, claim>>
    BY <1>7 DEF Start, Send, queueVars, rowVars
  <2>2. Held(w)' = Held(w)
    BY <2>1 DEF Held, Holds
  <2>3. Cur(w)' = Cur(w)
    BY <2>2, SameBatch
  <2>4. \/ pc' = [pc EXCEPT ![w] = "send"] /\ faults' = faults
        \/ pc' = [pc EXCEPT ![w] = "fail"] /\ faults' = faults + 1
        \/ pc' = pc /\ faults' = faults
    BY <1>7 DEF Start, Send, OnSendError, Fault, NoFault
  <2>5. pc[w] # "fail"
    BY <1>7 DEF Start, Send
  <2>6. \A i \in Held(w) : i \in Items /\ claim[w][i] \in Int /\ claim[w][i] <= faults
    BY <1>0, <2>5 DEF Held, PaidInv, FailuresArePaid, Attempt, NotHeld
  <2>7. \A i \in Held(w)' : Attempt(w, i)' <= faults'
    <3>1. CASE pc' = [pc EXCEPT ![w] = "fail"] /\ faults' = faults + 1
      BY <1>0, <2>1, <2>2, <2>6, <3>1 DEF Attempt
    <3>2. CASE pc'[w] # "fail" /\ faults' = faults
      BY <2>1, <2>2, <2>6, <3>2 DEF Attempt
    <3>3. QED
      BY <1>0, <2>4, <2>5, <3>1, <3>2
  <2>8. Others(w) /\ faults <= faults'
    BY <1>0, <2>1, <2>4
  <2>9. QED
    BY <1>2, <1>3, <2>1, <2>7, <2>8
<1>8. ASSUME NEW w \in Workers, Finish(w) \/ Retry(w) PROVE PaidInv'
  <2>1. Cur(w) \in Items /\ Holds(w, Cur(w))
    BY <1>8, CurIsHeld DEF Finish, Retry, Inv
  <2>2. PICK i \in Items : i = Cur(w)
    BY <2>1
  <2>3. claim' = [claim EXCEPT ![w] = [j \in Items |-> IF j \in {i} THEN NotHeld ELSE claim[w][j]]]
    BY <1>8, <2>2 DEF Finish, Retry, MarkDone, MarkRetry, Drop, Forget
  <2>4. /\ \E x \in {"idle", "start"} : pc' = [pc EXCEPT ![w] = x]
        /\ faults <= faults'
    BY <1>0, <1>8 DEF Finish, Retry, Turn, Fault, NoFault
  <2>5. \A j \in Held(w)' : Attempt(w, j)' <= faults'
    BY <1>0, <2>3, <2>4, AttemptKept
  <2>6. Others(w)
    BY <1>0, <2>3, <2>4
  <2>7. Rows
    <3>1. CASE MarkDone(w, i)
      <4>1. UNCHANGED retry /\ \A j \in Items : state'[j] = "failed" => state[j] = "failed"
        BY <1>0, <3>1 DEF MarkDone
      <4>2. QED
        BY <1>0, <2>4, <4>1 DEF PaidInv, FailuresArePaid
    <3>2. CASE pc[w] = "fail" /\ MarkRetry(w, i)
      <4>1. claim[w][i] + 1 <= faults /\ claim[w][i] \in Int
        BY <1>0, <2>1, <2>2, <3>2 DEF PaidInv, FailuresArePaid, Attempt, Held, NotHeld
      <4>2. /\ retry' = [retry EXCEPT ![i] = claim[w][i] + 1]
            /\ state' = [state EXCEPT ![i] = IF claim[w][i] + 1 >= MaxRetry THEN "failed" ELSE "pending"]
        BY <3>2 DEF MarkRetry, Final
      <4>3. \A j \in Items : j # i => retry'[j] = retry[j] /\ state'[j] = state[j]
        BY <1>0, <4>2
      <4>4. retry'[i] = claim[w][i] + 1 /\ (state'[i] = "failed" => claim[w][i] + 1 >= MaxRetry)
        BY <1>0, <4>2
      <4>5. QED
        BY <1>0, <2>4, <4>1, <4>3, <4>4 DEF PaidInv, FailuresArePaid
    <3>3. CASE UNCHANGED rowVars
      BY <1>3, <2>4, <3>3 DEF rowVars
    <3>4. QED
      BY <1>8, <2>2, <3>1, <3>2, <3>3 DEF Finish, Retry, Drop
  <2>8. QED
    BY <1>2, <2>4, <2>5, <2>6, <2>7
<1>9. ASSUME NEW w \in Workers, GiveUp(w) PROVE PaidInv'
  <2>1. /\ claim' = [claim EXCEPT ![w] = [j \in Items |-> IF j \in Held(w) THEN NotHeld ELSE claim[w][j]]]
        /\ pc' = [pc EXCEPT ![w] = "idle"] /\ faults <= faults' /\ UNCHANGED <<state, retry>>
    BY <1>0, <1>9 DEF GiveUp, Drop, Forget, rowVars, Fault, NoFault
  <2>2. \A j \in Held(w)' : Attempt(w, j)' <= faults'
    BY <1>0, <2>1, AttemptKept
  <2>3. QED
    BY <1>0, <1>2, <1>3, <2>1, <2>2
<1>10. QED
  BY <1>4, <1>5, <1>6, <1>7, <1>8, <1>9, NextCases

LEMMA PaidAlways == Spec => []PaidInv
<1>1. Init => PaidInv
  BY DEF Init, InitQueue, PaidInv, FailuresArePaid, Held, Holds
<1>2. ASSUME Inv, Inv', PaidInv, [Next]_vars PROVE PaidInv'
  <2>1. CASE UNCHANGED vars
    <3>1. \A w \in Workers : Held(w)' = Held(w)
      BY <2>1 DEF vars, queueVars, Held, Holds
    <3>2. \A w \in Workers : Cur(w)' = Cur(w)
      BY <3>1, SameBatch
    <3>3. \A w \in Workers, i \in Items : Attempt(w, i)' = Attempt(w, i)
      BY <2>1, <3>2 DEF vars, queueVars, outboxVars, jobVars, Attempt
    <3>4. UNCHANGED <<state, retry, faults>>
      BY <2>1 DEF vars, queueVars, rowVars, outboxVars
    <3>5. \A w \in Workers : Held(w) \subseteq Items
      BY DEF Held
    <3>6. QED
      BY <1>2, <3>1, <3>3, <3>4, <3>5 DEF PaidInv, FailuresArePaid
  <2>2. QED
    BY <1>2, <2>1, PaidStep
<1>3. Inv /\ PaidInv /\ [Next]_vars => PaidInv'
  BY <1>2, InvStep
<1>4. QED
  BY <1>1, <1>3, InvAlways, PTL DEF Spec

(* Whether or not leases outlive the jobs, no row has more failed attempts behind
   it than there were faults: neither a timeout of the job nor a second job on the
   row counts as one. *)
THEOREM RetriesArePaid == Spec => []FailuresArePaid
<1>1. PaidInv => FailuresArePaid
  BY DEF PaidInv
<1>2. QED
  BY <1>1, PaidAlways, PTL

(* The retries do for fewer faults than there are retries: no notification is given
   up then.  (That it is delivered in the end is the liveness property the runs
   check as EveryoneHears.) *)
NoneGivenUp == \A i \in Items : state[i] # "failed"

THEOREM FewFaultsLoseNothing ==
    ASSUME MaxFaults < MaxRetry
    PROVE  Spec => []NoneGivenUp
<1>1. ASSUME Inv, PaidInv PROVE NoneGivenUp
  <2>1. \A i \in Items : retry[i] \in Nat /\ retry[i] <= faults /\ faults \in 0..MaxFaults
    BY <1>1 DEF Inv, RowInv, QueueTypeOK, OutboxTypes, PaidInv, FailuresArePaid
  <2>2. QED
    BY <1>1, <2>1, LeaseQueueAssumption, OutboxAssumption DEF PaidInv, NoneGivenUp
<1>2. Spec => []PaidInv
  BY PaidAlways
<1>3. QED
  BY <1>1, <1>2, InvAlways, PTL

-----------------------------------------------------------------------------
(* A job marks a row done only when its deadline leaves room for everybody in the
   row's audience: a broadcast to more users than that is never done, however often
   it is delivered.  What holds on the way: whom a job has behind it and the writes
   it has left are together no more than a deadline allows. *)
DoneIsWithinReach == \A i \in Items : state[i] = "done" => Cardinality(audience[i]) <= Reach

Behind(w) == audience[Cur(w)] \ left[w]

RoomInv ==
    /\ IsFiniteSet(registered)
    /\ \A w \in Workers : pc[w] = "send" => Cardinality(Behind(w)) + room[w] <= Reach
    /\ DoneIsWithinReach

LEMMA AudienceFinite ==
    ASSUME RoomInv, ReachInv, NEW i \in Items, NEW S
    PROVE  IsFiniteSet(audience[i] \ S) /\ Cardinality(audience[i] \ S) \in Nat
<1>1. audience[i] \ S \subseteq registered /\ IsFiniteSet(registered)
  BY DEF RoomInv, ReachInv
<1>2. QED
  BY <1>1, FS_Subset, FS_CardinalityType

(* Whom a job has behind it grows with what it has written. *)
LEMMA RoomStep ==
    ASSUME Inv, ReachInv, RoomInv, [Next]_vars, NEW w \in Workers, pc'[w] = "send"
    PROVE  Cardinality(Behind(w)') + room'[w] <= Reach
<1>1. CASE Start(w)
  <2>1. PICK i \in Items : i = Cur(w)
    BY <1>1, CurIsHeld DEF Inv, Start
  <2>2. Held(w)' = Held(w)
    BY <1>1 DEF Start, queueVars, Held, Holds
  <2>3. i = Cur(w)'
    BY <2>1, <2>2, SameBatch
  <2>4. left'[w] = Recipients(i) /\ UNCHANGED <<audience, room>>
    BY <1>1, <2>1 DEF Start, Inv, OutboxTypes
  <2>5. audience[i] \subseteq Recipients(i)
    BY DEF Recipients, ReachInv
  <2>6. Behind(w)' = {}
    BY <2>3, <2>4, <2>5 DEF Behind
  <2>7. room'[w] \in 0..Reach
    BY <2>4 DEF Inv, OutboxTypes
  <2>8. QED
    BY <2>6, <2>7, FS_EmptySet, OutboxAssumption
<1>2. CASE Send(w)
  <2>1. PICK i \in Items : i = Cur(w)
    BY <1>2, CurIsHeld DEF Inv, Send
  <2>2. Held(w)' = Held(w)
    BY <1>2 DEF Send, queueVars, Held, Holds
  <2>3. i = Cur(w)'
    BY <2>1, <2>2, SameBatch
  <2>4. PICK v : v = First(left[w])
    OBVIOUS
  <2>5. /\ pc[w] = "send" /\ left'[w] = left[w] \ {v} /\ audience' = audience
        /\ room'[w] = room[w] - 1
    BY <1>2, <2>4 DEF Send, Inv, OutboxTypes
  <2>6. PICK B : B = Behind(w)
    OBVIOUS
  <2>7. B = audience[i] \ left[w] /\ IsFiniteSet(B) /\ Cardinality(B) \in Nat
    BY <2>1, <2>6, AudienceFinite DEF Behind
  <2>8. Behind(w)' \subseteq B \cup {v}
    BY <2>3, <2>5, <2>7 DEF Behind
  <2>9. Cardinality(B \cup {v}) \in Nat /\ Cardinality(B \cup {v}) <= Cardinality(B) + 1 /\ IsFiniteSet(B \cup {v})
    <3>1. /\ IsFiniteSet(B \cup {v})
          /\ Cardinality(B \cup {v}) = IF v \in B THEN Cardinality(B) ELSE Cardinality(B) + 1
      BY <2>7, FS_AddElement, Zenon
    <3>2. QED
      BY <2>7, <3>1
  <2>10. PICK C : C = Behind(w)'
    OBVIOUS
  <2>11. Cardinality(C) <= Cardinality(B \cup {v}) /\ Cardinality(C) \in Nat
    BY <2>8, <2>9, <2>10, FS_Subset, FS_CardinalityType
  <2>12. Cardinality(B) + room[w] <= Reach /\ room[w] \in Nat
    BY <2>5, <2>6, OutboxAssumption DEF RoomInv, Inv, OutboxTypes
  <2>13. QED
    BY <2>5, <2>7, <2>9, <2>10, <2>11, <2>12, OutboxAssumption
<1>3. CASE ~Start(w) /\ ~Send(w)
  <2>1. pc[w] = "send" /\ left'[w] = left[w] /\ room'[w] = room[w] /\ claim'[w] = claim[w]
    BY <1>3, OnlyStartAndSend
  <2>2. PICK i \in Items : i = Cur(w) /\ Holds(w, i)
    BY <2>1, CurIsHeld DEF Inv
  <2>3. Held(w)' = Held(w)
    BY <2>1 DEF Held, Holds
  <2>4. i = Cur(w)'
    BY <2>2, <2>3, SameBatch
  <2>5. audience'[i] = audience[i]
    BY <2>2, AudienceStep DEF Inv, RowInv
  <2>6. Behind(w)' = Behind(w)
    BY <2>1, <2>2, <2>4, <2>5 DEF Behind
  <2>7. QED
    BY <2>1, <2>6 DEF RoomInv
<1>4. QED
  BY <1>1, <1>2, <1>3

LEMMA RoomInvStep ==
    ASSUME Inv, ReachInv, RoomInv, [Next]_vars
    PROVE  RoomInv'
<1>1. IsFiniteSet(registered')
  <2>1. registered' = registered \/ \E u \in Users : registered' = registered \cup {u}
    <3>1. ASSUME NEW u \in Users, Register(u) PROVE registered' = registered \cup {u}
      BY <3>1 DEF Register
    <3>2. ASSUME NEW u \in Users, Read(u) PROVE registered' = registered
      BY <3>2 DEF Read
    <3>3. ASSUME NEW i \in Items, Emit(i) \/ Pass(i) PROVE registered' = registered
      BY <3>3 DEF Emit, Pass, outboxVars
    <3>4. ASSUME NEW w \in Workers,
                 Claim(w) \/ Start(w) \/ Send(w) \/ Finish(w) \/ Retry(w) \/ GiveUp(w)
          PROVE  registered' = registered
      BY <3>4 DEF Claim, Start, Send, Finish, Retry, GiveUp
    <3>5. CASE UNCHANGED vars
      BY <3>5 DEF vars, outboxVars
    <3>6. QED
      BY <3>1, <3>2, <3>3, <3>4, <3>5, NextCases
  <2>2. QED
    BY <2>1, FS_AddElement DEF RoomInv
<1>2. ASSUME NEW i \in Items, state'[i] = "done"
      PROVE  Cardinality(audience'[i]) <= Reach
  <2>1. state[i] # "none"
    BY <1>2, DoneStep, CurIsHeld DEF Inv, RowInv
  <2>2. audience'[i] = audience[i]
    BY <2>1, AudienceStep
  <2>3. CASE state[i] = "done"
    BY <2>2, <2>3 DEF RoomInv, DoneIsWithinReach
  <2>4. CASE state[i] # "done"
    <3>1. PICK w \in Workers : pc[w] = "send" /\ left[w] = {} /\ i = Cur(w)
      BY <1>2, <2>4, DoneStep
    <3>2. Behind(w) = audience[i]
      BY <3>1 DEF Behind
    <3>3. Cardinality(audience[i]) \in Nat
      <4>1. audience[i] \ {} = audience[i]
        OBVIOUS
      <4>2. QED
        BY <4>1, AudienceFinite
    <3>4. Cardinality(audience[i]) + room[w] <= Reach /\ room[w] \in Nat
      BY <3>1, <3>2, OutboxAssumption DEF RoomInv, Inv, OutboxTypes
    <3>5. QED
      BY <2>2, <3>3, <3>4, OutboxAssumption
  <2>5. QED
    BY <2>3, <2>4
<1>3. QED
  BY <1>1, <1>2, RoomStep DEF RoomInv, DoneIsWithinReach

LEMMA RoomAlways == Spec => []RoomInv
<1>1. Init => RoomInv
  BY FS_EmptySet DEF Init, InitQueue, RoomInv, DoneIsWithinReach
<1>2. Inv /\ ReachInv /\ RoomInv /\ [Next]_vars => RoomInv'
  BY RoomInvStep
<1>3. QED
  BY <1>1, <1>2, InvAlways, ReachAlways, PTL DEF Spec

(* Nothing is marked done by ProcessPendingNotificationOutbox that its ten seconds
   were too short for. *)
THEOREM DoneFitsDeadline == Spec => []DoneIsWithinReach
<1>1. RoomInv => DoneIsWithinReach
  BY DEF RoomInv
<1>2. QED
  BY <1>1, RoomAlways, PTL

(* The other side of it: as long as there are fewer faults than retries, a broadcast
   to more users than a job can write to is neither done nor given up, because the
   deadline leaves its retry count alone.  It is claimed again and again, first of
   the rows that are due (the run that refutes InteractionArrives shows one). *)
OversizeNeverSettles ==
    \A i \in Items : Cardinality(audience[i]) > Reach => state[i] \notin {"done", "failed"}

THEOREM OversizeIsKept ==
    ASSUME MaxFaults < MaxRetry
    PROVE  Spec => []OversizeNeverSettles
<1>1. RoomInv /\ ReachInv /\ NoneGivenUp => OversizeNeverSettles
  <2> SUFFICES ASSUME RoomInv, ReachInv, NoneGivenUp, NEW i \in Items,
                      Cardinality(audience[i]) > Reach, state[i] \in {"done", "failed"}
               PROVE  FALSE
    BY DEF OversizeNeverSettles
  <2>1. state[i] = "done"
    BY DEF NoneGivenUp
  <2>2. Cardinality(audience[i]) <= Reach
    BY <2>1 DEF RoomInv, DoneIsWithinReach
  <2>3. Cardinality(audience[i]) \in Nat
    <3>1. audience[i] \ {} = audience[i]
      OBVIOUS
    <3>2. QED
      BY <3>1, AudienceFinite
  <2>4. QED
    BY <2>2, <2>3, OutboxAssumption
<1>2. Spec => []RoomInv /\ []ReachInv
  BY RoomAlways, ReachAlways
<1>3. QED
  BY <1>1, <1>2, FewFaultsLoseNothing, PTL

=============================================================================
