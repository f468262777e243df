----------------------------- MODULE OpsAlerts -----------------------------
(***************************************************************************)
(* The alerts campusApi sends to the operators' Feishu group.  A row per   *)
(* dedupe key, written by INSERT ... ON CONFLICT DO UPDATE: raising an     *)
(* alert again replaces its payload and makes the row pending, whoever is  *)
(* sending it.  The job (every 5 s, ProcessPendingOpsAlerts) claims rows   *)
(* with the payload and retry count they have, sends and marks them by id. *)
(***************************************************************************)
EXTENDS LeaseQueue

CONSTANTS
    OverdueKeys,   \* Items: this hour's alert about overdue reports or posts,
    DegradedKeys,  \* and the one about alerts that fail
    Scanners,      \* replicas that scan for what is overdue
    MaxContent,    \* bound: payloads an alert is raised with
    MaxFaults      \* bound: errors and crashes

HourKeys == OverdueKeys \union DegradedKeys

ASSUME OpsAlertsAssumption ==
    /\ HourKeys \subseteq Items
    /\ MaxContent \in Nat \ {0} /\ MaxFaults \in Nat

VARIABLES
    content,       \* the payload of each row, numbered; 0 before it is inserted
    feishuStatus,  \* the column of this name
    feishu,        \* feishuOpsEnabled
    seen,          \* the payload each job has read with the rows it holds
    stage,         \* what each job does with Cur(w)
    sent,          \* payloads that reached the group
    tried,         \* history: payloads an attempt to send has failed with
    failures,      \* history: failed attempts of each row
    raced,         \* history: the last payload was written while a job held the row
    scan,          \* alerts each scan has still to raise
    faults

alertVars == <<content, feishuStatus, feishu, seen, stage, sent, tried, failures, raced, scan, faults>>
alertsVars == <<queueVars, alertVars>>

Contents == 1..MaxContent
FeishuStatuses == {"pending", "sent", "skipped", "failed"}

InitAlerts ==
    /\ InitQueue
    /\ content = [i \in Items |-> 0]
    /\ feishuStatus = [i \in Items |-> "pending"]
    /\ feishu = TRUE
    /\ seen = [w \in Workers |-> [i \in Items |-> 0]]
    /\ stage = [w \in Workers |-> "send"]
    /\ sent = [i \in Items |-> {}]
    /\ tried = [i \in Items |-> {}]
    /\ failures = [i \in Items |-> 0]
    /\ raced = [i \in Items |-> FALSE]
    /\ scan = [s \in Scanners |-> {}]
    /\ faults = 0

Fault == faults < MaxFaults /\ faults' = faults + 1

(* Faulty variant: an upsert that leaves the status of a row that is there. *)
CreateOpsAlertQuietly(i) ==
    /\ feishu /\ content[i] < MaxContent
    /\ content' = [content EXCEPT ![i] = @ + 1]
    /\ state' = [state EXCEPT ![i] = IF @ = "none" THEN "pending" ELSE @]
    /\ due' = [due EXCEPT ![i] = TRUE]
    /\ leased' = [leased EXCEPT ![i] = FALSE]
    /\ raced' = [raced EXCEPT ![i] = \E w \in Workers : Holds(w, i)]
    /\ UNCHANGED <<retry, claim, feishuStatus, feishu, seen, stage, sent, tried, failures, faults>>

(* INSERT ... ON CONFLICT DO UPDATE: retry_count stays what it was. *)
CreateOpsAlert(i) ==
    /\ feishu /\ content[i] < MaxContent
    /\ content' = [content EXCEPT ![i] = @ + 1]
    /\ state' = [state EXCEPT ![i] = "pending"]
    /\ feishuStatus' = [feishuStatus EXCEPT ![i] = "pending"]
    /\ due' = [due EXCEPT ![i] = TRUE]
    /\ leased' = [leased EXCEPT ![i] = FALSE]
    /\ raced' = [raced EXCEPT ![i] = \E w \in Workers : Holds(w, i)]
    /\ UNCHANGED <<retry, claim, feishu, seen, stage, sent, tried, failures, faults>>

(* enqueueReportOpsAlert, enqueueFeedbackOpsAlert and the audit's alerts; nothing
   is raised while Feishu is off. *)
Raise(i) == i \notin HourKeys /\ CreateOpsAlert(i) /\ UNCHANGED scan

(* ProcessOpsSLAAlerts: the snapshot.  Reports and posts may be overdue or not; rows
   that wait, have failed, or whose last send has, may have done so for long. *)
Degraded(i) == state[i] \in {"pending", "processing", "failed"} \/ feishuStatus[i] = "failed"

Snapshot(s) ==
    /\ feishu /\ scan[s] = {}
    /\ \E S \in SUBSET HourKeys :
           /\ S # {}
           /\ S \intersect DegradedKeys # {} => \E i \in Items : Degraded(i)
           /\ \A i \in S : content[i] < MaxContent
           /\ scan' = [scan EXCEPT ![s] = S]
    /\ UNCHANGED <<queueVars, content, feishuStatus, feishu, seen, stage, sent, tried, failures, raced, faults>>

(* One alert after the other, whose key is the kind and the hour. *)
RaiseOverdue(s) ==
    /\ scan[s] # {}
    /\ \/ CreateOpsAlert(First(scan[s]))
       \/ ~feishu /\ UNCHANGED <<queueVars, content, feishuStatus, feishu, seen, stage, sent, tried, failures, raced, faults>>
    /\ scan' = [scan EXCEPT ![s] = @ \ {First(scan[s])}]

(* An error ends the scan. *)
ScanFails(s) ==
    /\ scan[s] # {}
    /\ Fault
    /\ scan' = [scan EXCEPT ![s] = {}]
    /\ UNCHANGED <<queueVars, content, feishuStatus, feishu, seen, stage, sent, tried, failures, raced>>

SwitchFeishu ==
    /\ feishu' = ~feishu
    /\ UNCHANGED <<queueVars, content, feishuStatus, seen, stage, sent, tried, failures, raced, scan, faults>>

(* The switch, read, and ClaimOpsAlerts. *)
ClaimAlerts(w, S) ==
    /\ feishu
    /\ ClaimRows(w, S)
    /\ seen' = [seen EXCEPT ![w] = [i \in Items |-> IF i \in S THEN content[i] ELSE 0]]
    /\ stage' = [stage EXCEPT ![w] = "send"]
    /\ UNCHANGED <<content, feishuStatus, feishu, sent, tried, failures, raced, scan, faults>>

(* Faulty variant: an alert that is not sent counts as sent. *)
UnsentAsSent == "sent"

Unsent == "skipped"

(* processOpsAlert: the webhook gets the payload of the claim; nothing is sent
   when the switch is off by now, or the webhook is not configured. *)
Send(w) ==
    /\ Held(w) # {} /\ stage[w] = "send"
    /\ \/ /\ feishu
          /\ sent' = [sent EXCEPT ![Cur(w)] = @ \union {seen[w][Cur(w)]}]
          /\ stage' = [stage EXCEPT ![w] = "sent"]
       \/ /\ ~feishu
          /\ stage' = [stage EXCEPT ![w] = Unsent]
          /\ UNCHANGED sent
    /\ UNCHANGED <<queueVars, content, feishuStatus, feishu, seen, tried, failures, raced, scan, faults>>

(* An error of the webhook; the message may have arrived all the same. *)
SendFails(w) ==
    /\ Held(w) # {} /\ stage[w] = "send" /\ feishu
    /\ \E arrived \in SUBSET {seen[w][Cur(w)]} :
           sent' = [sent EXCEPT ![Cur(w)] = @ \union arrived]
    /\ stage' = [stage EXCEPT ![w] = "failed"]
    /\ Fault
    /\ UNCHANGED <<queueVars, content, feishuStatus, feishu, seen, tried, failures, raced, scan>>

Turn(w, i) ==
    /\ seen' = [seen EXCEPT ![w][i] = 0]
    /\ stage' = [stage EXCEPT ![w] = "send"]

(* MarkOpsAlertSent *)
MarkSent(w) ==
    /\ Held(w) # {} /\ stage[w] \in {"sent", "skipped"}
    /\ MarkDone(w, Cur(w))
    /\ feishuStatus' = [feishuStatus EXCEPT ![Cur(w)] = stage[w]]
    /\ Turn(w, Cur(w))
    /\ UNCHANGED <<content, feishu, sent, tried, failures, raced, scan, faults>>

(* Its error sends the alert to markOpsAlertRetry although the message is out. *)
MarkFails(w) ==
    /\ Held(w) # {} /\ stage[w] \in {"sent", "skipped"}
    /\ stage' = [stage EXCEPT ![w] = "failed"]
    /\ Fault
    /\ UNCHANGED <<queueVars, content, feishuStatus, feishu, seen, sent, tried, failures, raced, scan>>

(* markOpsAlertRetry *)
RetryLater(w) ==
    /\ Held(w) # {} /\ stage[w] = "failed"
    /\ MarkRetry(w, Cur(w))
    /\ feishuStatus' = [feishuStatus EXCEPT ![Cur(w)] = "failed"]
    /\ tried' = [tried EXCEPT ![Cur(w)] = @ \union {seen[w][Cur(w)]}]
    /\ failures' = [failures EXCEPT ![Cur(w)] = @ + 1]
    /\ Turn(w, Cur(w))
    /\ UNCHANGED <<content, feishu, sent, raced, scan, faults>>

(* An error of the mark is only logged: the job goes on, the lease must run out. *)
RetryFails(w) ==
    /\ Held(w) # {} /\ stage[w] = "failed"
    /\ Drop(w, {Cur(w)})
    /\ Turn(w, Cur(w))
    /\ Fault
    /\ UNCHANGED <<content, feishuStatus, feishu, sent, tried, failures, raced, scan>>

(* The process dies, or stops, or the job's twenty seconds are over. *)
GiveUp(w) ==
    /\ Held(w) # {}
    /\ Drop(w, Held(w))
    /\ seen' = [seen EXCEPT ![w] = [i \in Items |-> 0]]
    /\ stage' = [stage EXCEPT ![w] = "send"]
    /\ Fault
    /\ UNCHANGED <<content, feishuStatus, feishu, sent, tried, failures, raced, scan>>

Job(w) ==
    \/ \E S \in SUBSET Items : ClaimAlerts(w, S)
    \/ Send(w) \/ MarkSent(w) \/ RetryLater(w)

JobFaults(w) == SendFails(w) \/ MarkFails(w) \/ RetryFails(w) \/ GiveUp(w)

Time(i) == (FallDue(i) \/ LeaseExpire(i)) /\ UNCHANGED alertVars

AlertsNext ==
    \/ \E i \in Items : Raise(i) \/ Time(i)
    \/ \E s \in Scanners : Snapshot(s) \/ RaiseOverdue(s) \/ ScanFails(s)
    \/ \E w \in Workers : Job(w) \/ JobFaults(w)
    \/ SwitchFeishu

(* Jobs run to the end of their batch, and time passes. *)
AlertsSpec ==
    /\ InitAlerts /\ [][AlertsNext]_alertsVars
    /\ \A w \in Workers : WF_alertsVars(Job(w))
    /\ \A i \in Items : WF_alertsVars(Time(i))

-----------------------------------------------------------------------------
AlertsTypeOK ==
    /\ state \in [Items -> States]
    /\ retry \in [Items -> Nat]
    /\ due \in [Items -> BOOLEAN]
    /\ leased \in [Items -> BOOLEAN]
    /\ claim \in [Workers -> [Items -> Nat \union {NotHeld}]]
    /\ content \in [Items -> {0} \union Contents]
    /\ feishuStatus \in [Items -> FeishuStatuses]
    /\ feishu \in BOOLEAN
    /\ seen \in [Workers -> [Items -> {0} \union Contents]]
    /\ stage \in [Workers -> {"send", "sent", "skipped", "failed"}]
    /\ sent \in [Items -> SUBSET Contents]
    /\ tried \in [Items -> SUBSET Contents]
    /\ failures \in [Items -> Nat]
    /\ raced \in [Items -> BOOLEAN]
    /\ scan \in [Scanners -> SUBSET HourKeys]
    /\ faults \in 0..MaxFaults

(* An alert that is closed as sent has been sent with the payload it has now, although the
   mark says no more than WHERE id: unless that payload was written under a job that
   was sending an older one. *)
LatestIsSent ==
    \A i \in Items :
        state[i] = "done" /\ feishuStatus[i] = "sent" /\ ~raced[i] => content[i] \in sent[i]

(* Raising an alert again does not reset its retry count: it may be given up at the first
   failure, but never untried, and never with fewer than MaxRetry failures in all. *)
GivenUpWasTried ==
    \A i \in Items : state[i] = "failed" =>
        /\ raced[i] \/ content[i] \in tried[i]
        /\ failures[i] >= MaxRetry

(* Again and again no alert is open, or Feishu is off: none waits for ever. *)
Open(i) == state[i] \in {"pending", "processing"}
AlertsSettle == []<>(~feishu \/ \A i \in Items : ~Open(i))

=============================================================================
