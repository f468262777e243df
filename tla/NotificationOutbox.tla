------------------------- MODULE NotificationOutbox -------------------------
(***************************************************************************)
(* The notification outbox of campusApi (biz/campus.go, data/campus.go).   *)
(* A like, a collection or a comment writes its outbox row in its own      *)
(* transaction, an operator's broadcast writes one for all users; every    *)
(* replica's "notification_outbox" job claims rows oldest first and turns  *)
(* each into notifications, one insert per recipient, before it marks the  *)
(* row.  The unique dedupe_key of campus_notification makes a repeated     *)
(* insert an update that keeps read_at.                                    *)
(***************************************************************************)
EXTENDS LeaseQueue

CONSTANTS
    Users,      \* users that can register, numbered by id
    Everyone,   \* the audience of a broadcast
    Reach,      \* notifications a job can write before its deadline (10 s)
    MaxFaults   \* bound: database errors, crashes and shutdowns

ASSUME OutboxAssumption ==
    /\ Users \subseteq Nat
    /\ Everyone \notin Users
    /\ Reach \in Nat
    /\ MaxFaults \in Nat

VARIABLES
    registered,  \* rows of table user
    to,          \* of each outbox row: its recipient, or Everyone
    audience,    \* history: who the row was meant for when it was written
    note,        \* the notification of row i for user u
    pc, left, room,  \* each job: where it is, whom it has yet to notify, the writes it has time for
    faults       \* faults so far

jobVars == <<pc, left, room>>
outboxVars == <<registered, to, audience, note, jobVars, faults>>
vars == <<queueVars, outboxVars>>

Notes == {"none", "unread", "read"}
PCs == {"idle", "start", "send", "fail"}

Fault == faults < MaxFaults /\ faults' = faults + 1
NoFault == UNCHANGED faults

Init ==
    /\ InitQueue
    /\ registered = {}
    /\ to = [i \in Items |-> Everyone]
    /\ audience = [i \in Items |-> {}]
    /\ note = [i \in Items |-> [u \in Users |-> "none"]]
    /\ pc = [w \in Workers |-> "idle"]
    /\ left = [w \in Workers |-> {}]
    /\ room = [w \in Workers |-> 0]
    /\ faults = 0

-----------------------------------------------------------------------------
Register(u) ==
    /\ u \notin registered
    /\ registered' = registered \cup {u}
    /\ UNCHANGED <<queueVars, to, audience, note, jobVars, faults>>

(* createNotificationOutboxWithTx, in the transaction of the like or the comment,
   and AdminCreateSystemNotification.  A second row with the same dedupe_key is
   dropped (DO NOTHING) and changes nothing. *)
Emit(i) ==
    /\ \A j \in Items : j < i => state[j] # "none"
    /\ Insert(i)
    /\ \E r \in registered \cup {Everyone} :
          /\ to' = [to EXCEPT ![i] = r]
          /\ audience' = [audience EXCEPT ![i] = IF r = Everyone THEN registered ELSE {r}]
    /\ UNCHANGED <<registered, note, jobVars, faults>>

(* MarkNotificationRead, MarkAllNotificationsRead *)
Unread(u) == {i \in Items : note[i][u] = "unread"}

Read(u) ==
    /\ \E S \in {{i} : i \in Unread(u)} \cup {Unread(u)} :
          /\ S # {}
          /\ note' = [i \in Items |-> IF i \in S THEN [note[i] EXCEPT ![u] = "read"] ELSE note[i]]
    /\ UNCHANGED <<queueVars, registered, to, audience, jobVars, faults>>

-----------------------------------------------------------------------------
(* ProcessPendingNotificationOutbox *)
Claim(w) ==
    /\ pc[w] = "idle"
    /\ \E S \in SUBSET Items : ClaimRows(w, S)
    /\ pc' = [pc EXCEPT ![w] = "start"]
    /\ room' = [room EXCEPT ![w] = Reach]
    /\ UNCHANGED <<registered, to, audience, note, left, faults>>

(* ListNotificationRecipients for a broadcast, at the time of this delivery. *)
Recipients(i) == IF to[i] = Everyone THEN registered ELSE {to[i]}

Start(w) ==
    /\ pc[w] = "start"
    /\ \/ /\ left' = [left EXCEPT ![w] = Recipients(Cur(w))]
          /\ pc' = [pc EXCEPT ![w] = "send"]
          /\ NoFault
       \/ /\ to[Cur(w)] = Everyone /\ Fault
          /\ pc' = [pc EXCEPT ![w] = "fail"]
          /\ UNCHANGED left
    /\ UNCHANGED <<queueVars, registered, to, audience, note, room>>

(* Faulty variant of Upserted: a repeated insert makes the note new again. *)
UpsertedAfresh(n) == "unread"

(* CreateNotification: ON DUPLICATE KEY UPDATE leaves read_at alone. *)
Upserted(n) == IF n = "none" THEN "unread" ELSE n

(* Faulty variant of OnSendError: go on with the next recipient. *)
OnSendErrorGoOn == "send"

(* An insert that fails ends the delivery of the row. *)
OnSendError == "fail"

Send(w) ==
    /\ pc[w] = "send" /\ left[w] # {} /\ room[w] > 0
    /\ left' = [left EXCEPT ![w] = @ \ {First(left[w])}]
    /\ room' = [room EXCEPT ![w] = @ - 1]
    /\ \/ /\ note' = [note EXCEPT ![Cur(w)][First(left[w])] = Upserted(@)]
          /\ NoFault
          /\ UNCHANGED pc
       \/ /\ Fault
          /\ pc' = [pc EXCEPT ![w] = OnSendError]
          /\ UNCHANGED note
    /\ UNCHANGED <<queueVars, registered, to, audience>>

(* The next row of the batch, or the end of the job. *)
Turn(w) ==
    /\ pc' = [pc EXCEPT ![w] = IF Held(w) \ {Cur(w)} = {} THEN "idle" ELSE "start"]
    /\ left' = [left EXCEPT ![w] = {}]
    /\ room' = [room EXCEPT ![w] = IF Held(w) \ {Cur(w)} = {} THEN 0 ELSE @]

(* MarkNotificationOutboxDone; its error is only logged. *)
Finish(w) ==
    /\ pc[w] = "send" /\ left[w] = {}
    /\ \/ MarkDone(w, Cur(w)) /\ NoFault
       \/ Drop(w, {Cur(w)}) /\ Fault
    /\ Turn(w)
    /\ UNCHANGED <<registered, to, audience, note>>

(* markNotificationOutboxRetry; its error is only logged. *)
Retry(w) ==
    /\ pc[w] = "fail"
    /\ \/ MarkRetry(w, Cur(w)) /\ NoFault
       \/ Drop(w, {Cur(w)}) /\ Fault
    /\ Turn(w)
    /\ UNCHANGED <<registered, to, audience, note>>

(* The job's context has expired, or its process is gone: every call it still
   makes fails, its marks too, and the rows keep their retry counts. *)
GiveUp(w) ==
    /\ pc[w] # "idle"
    /\ \/ pc[w] = "send" /\ left[w] # {} /\ room[w] = 0 /\ NoFault
       \/ Fault
    /\ Drop(w, Held(w))
    /\ pc' = [pc EXCEPT ![w] = "idle"]
    /\ left' = [left EXCEPT ![w] = {}]
    /\ room' = [room EXCEPT ![w] = 0]
    /\ UNCHANGED <<registered, to, audience, note>>

Pass(i) == (FallDue(i) \/ LeaseExpire(i)) /\ UNCHANGED outboxVars

-----------------------------------------------------------------------------
(* The steps of a job that is not interrupted. *)
JobStep(w) ==
    \/ Claim(w) \/ Start(w) \/ Send(w) \/ Finish(w) \/ Retry(w)
    \/ room[w] = 0 /\ left[w] # {} /\ GiveUp(w)

Next ==
    \/ \E u \in Users : Register(u) \/ Read(u)
    \/ \E i \in Items : Emit(i) \/ Pass(i)
    \/ \E w \in Workers :
          \/ Claim(w) \/ Start(w) \/ Send(w) \/ Finish(w) \/ Retry(w) \/ GiveUp(w)

(* Fairness: the ticker of every replica fires each two seconds and a job runs on
   to its end; retries fall due and leases run out. *)
Spec == Init /\ [][Next]_vars
FairSpec ==
    /\ Spec
    /\ \A w \in Workers : WF_vars(JobStep(w))
    /\ \A i \in Items : WF_vars(Pass(i))

-----------------------------------------------------------------------------
(* Every row, note and job holds values the code can write. *)
TypeOK ==
    /\ QueueTypeOK
    /\ registered \in SUBSET Users
    /\ to \in [Items -> Users \cup {Everyone}]
    /\ audience \in [Items -> SUBSET Users]
    /\ note \in [Items -> [Users -> Notes]]
    /\ pc \in [Workers -> PCs]
    /\ left \in [Workers -> SUBSET Users]
    /\ room \in [Workers -> 0..Reach]
    /\ faults \in 0..MaxFaults

(* A row marked done has reached everybody it was meant for: no fault in the
   middle of a broadcast, and no second job on the row, loses a recipient. *)
DoneIsDelivered ==
    \A i \in Items : state[i] = "done" => \A u \in audience[i] : note[i][u] # "none"

(* Redelivery never makes a notification unread again, nor takes it back. *)
ReadStaysRead ==
    [][\A i \in Items, u \in Users : note[i][u] = "read" => note'[i][u] = "read"]_vars

(* Reliable delivery: whoever a notification was meant for gets it, through fewer
   faults than retries and whenever a job has time for its whole batch. *)
EveryoneHears ==
    \A i \in Items, u \in Users : u \in audience[i] ~> note[i][u] # "none"

(* What happened to one user is told to that user, or given up after MaxRetry
   attempts: the delivery of a broadcast does not stand in the way. *)
InteractionArrives ==
    \A i \in Items, u \in Users :
        (state[i] # "none" /\ to[i] = u) ~> (note[i][u] # "none" \/ state[i] = "failed")

=============================================================================
