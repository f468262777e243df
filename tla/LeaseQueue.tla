----------------------------- MODULE LeaseQueue ----------------------------
(***************************************************************************)
(* A task table of campusApi (notification outbox, AI replies, ops alerts; *)
(* data/campus.go): rows that are pending, processing under a lease, done  *)
(* or failed.  Jobs claim due rows in SKIP LOCKED transactions and settle  *)
(* them by marks that say WHERE id and nothing else, with a retry count    *)
(* they have carried along since the claim.  Components EXTEND this module *)
(* and add what their jobs do between a claim and its mark.                *)
(***************************************************************************)
EXTENDS Integers, FiniteSets

CONSTANTS
    Items,            \* rows that can be created, numbered in the order of created_at
    Workers,          \* replicas of the job
    MaxRetry,         \* campusNotificationOutboxMaxRetry and its like
    BatchSize,        \* the limit of a claim
    LeaseOutlivesRun  \* the job's deadline is shorter than the lease it takes

ASSUME LeaseQueueAssumption ==
    /\ Items \subseteq Nat
    /\ MaxRetry \in Nat \ {0}
    /\ BatchSize \in Nat \ {0}
    /\ LeaseOutlivesRun \in BOOLEAN

VARIABLES
    state,   \* status of each row, "none" before it is inserted
    retry,   \* retry_count
    due,     \* next_retry_at has passed, or is not set
    leased,  \* locked_until lies ahead
    claim    \* retry counts each job read with the rows it still holds

rowVars == <<state, retry, due, leased>>
queueVars == <<rowVars, claim>>

States == {"none", "pending", "processing", "done", "failed"}
NotHeld == -1
Holds(w, i) == claim[w][i] # NotHeld
Held(w) == {i \in Items : Holds(w, i)}

First(S) == CHOOSE x \in S : \A y \in S : x <= y

(* A job takes the rows of its batch in turn. *)
Cur(w) == First(Held(w))

InitQueue ==
    /\ state = [i \in Items |-> "none"]
    /\ retry = [i \in Items |-> 0]
    /\ due = [i \in Items |-> FALSE]
    /\ leased = [i \in Items |-> FALSE]
    /\ claim = [w \in Workers |-> [i \in Items |-> NotHeld]]

Insert(i) ==
    /\ state[i] = "none"
    /\ state' = [state EXCEPT ![i] = "pending"]
    /\ due' = [due EXCEPT ![i] = TRUE]
    /\ UNCHANGED <<retry, leased, claim>>

(* Faulty variants: a claim that ignores leases; one that only takes new rows. *)
ReadyUnderLease(i) == state[i] = "processing" \/ (state[i] = "pending" /\ due[i])
ReadyOnce(i) == state[i] = "pending" /\ due[i]

Ready(i) ==
    \/ state[i] = "pending" /\ due[i]
    \/ state[i] = "processing" /\ ~leased[i]

(* ORDER BY created_at LIMIT BatchSize: the oldest rows that are ready. *)
Oldest(S) ==
    LET ready == {i \in Items : Ready(i)}
    IN  /\ S \subseteq ready
        /\ \A i \in S, j \in ready \ S : i < j
        /\ Cardinality(S) = IF Cardinality(ready) < BatchSize THEN Cardinality(ready) ELSE BatchSize

ClaimRows(w, S) ==
    /\ Held(w) = {}
    /\ S # {} /\ Oldest(S)
    /\ state' = [i \in Items |-> IF i \in S THEN "processing" ELSE state[i]]
    /\ leased' = [i \in Items |-> i \in S \/ leased[i]]
    /\ claim' = [claim EXCEPT ![w] = [i \in Items |-> IF i \in S THEN retry[i] ELSE NotHeld]]
    /\ UNCHANGED <<retry, due>>

Forget(w, S) ==
    claim' = [claim EXCEPT ![w] = [i \in Items |-> IF i \in S THEN NotHeld ELSE claim[w][i]]]

(* Mark...Done *)
MarkDone(w, i) ==
    /\ Holds(w, i)
    /\ state' = [state EXCEPT ![i] = "done"]
    /\ due' = [due EXCEPT ![i] = FALSE]
    /\ leased' = [leased EXCEPT ![i] = FALSE]
    /\ Forget(w, {i})
    /\ UNCHANGED retry

(* Mark...Retry: pending again at a later time, or failed for good. *)
Final(n) == n >= MaxRetry

MarkRetry(w, i) ==
    /\ Holds(w, i)
    /\ LET n == claim[w][i] + 1
       IN  /\ state' = [state EXCEPT ![i] = IF Final(n) THEN "failed" ELSE "pending"]
           /\ retry' = [retry EXCEPT ![i] = n]
    /\ due' = [due EXCEPT ![i] = FALSE]
    /\ leased' = [leased EXCEPT ![i] = FALSE]
    /\ Forget(w, {i})

(* The job turns from rows it could not mark, or ends: their lease must run out. *)
Drop(w, S) == S \subseteq Held(w) /\ Forget(w, S) /\ UNCHANGED rowVars

(* Time: next_retry_at and locked_until pass. *)
FallDue(i) ==
    /\ state[i] = "pending" /\ ~due[i]
    /\ due' = [due EXCEPT ![i] = TRUE]
    /\ UNCHANGED <<state, retry, leased, claim>>

LeaseExpire(i) ==
    /\ state[i] = "processing" /\ leased[i]
    /\ LeaseOutlivesRun => \A w \in Workers : ~Holds(w, i)
    /\ leased' = [leased EXCEPT ![i] = FALSE]
    /\ UNCHANGED <<state, retry, due, claim>>

QueueNext ==
    \/ \E i \in Items : Insert(i) \/ FallDue(i) \/ LeaseExpire(i)
    \/ \E w \in Workers, i \in Items : MarkDone(w, i) \/ MarkRetry(w, i)
    \/ \E w \in Workers, S \in SUBSET Items : ClaimRows(w, S) \/ Drop(w, S)

QueueSpec == InitQueue /\ [][QueueNext]_queueVars

-----------------------------------------------------------------------------
(* Every row and every claim holds values the code can write. *)
QueueTypeOK ==
    /\ state \in [Items -> States]
    /\ retry \in [Items -> 0..MaxRetry]
    /\ due \in [Items -> BOOLEAN]
    /\ leased \in [Items -> BOOLEAN]
    /\ claim \in [Workers -> [Items -> NotHeld..MaxRetry]]

(* The rows and leases implement the queue they stand for, although no mark
   says who makes it. *)
Phase == [i \in Items |-> CASE state[i] = "pending" -> "waiting"
                            [] state[i] = "processing" -> "taken"
                            [] OTHER -> state[i]]
Queue == INSTANCE TaskQueue WITH
            phase <- Phase,
            tries <- retry,
            holders <- [i \in Items |-> {w \in Workers : Holds(w, i)}]
IsTaskQueue == Queue!Spec

=============================================================================
