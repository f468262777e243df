------------------------------ MODULE AIReply ------------------------------
(***************************************************************************)
(* The answers of the campus bot (e仔): a comment that mentions it queues   *)
(* one task, every replica's "ai_reply" job claims tasks, asks the model   *)
(* and posts the answer as a comment whose identifier is the task's, and   *)
(* marks the task in a later call (campusApi biz/campus.go,                *)
(* data/campus.go).  What the bot cannot or must not answer is handed over *)
(* to people by a notice to the bot's account.  Operators switch the bot   *)
(* off, withdraw answers and put tasks back whatever job works on them, so *)
(* that a claim of LeaseQueue is not exclusive here.                       *)
(*   Mentions are numbered in the order in which their tasks are written.  *)
(***************************************************************************)
EXTENDS LeaseQueue

CONSTANTS
    DailyLimit,  \* CAMPUS_AI_DAILY_LIMIT
    MaxResets,   \* bound: tasks put back by operators
    MaxFaults    \* bound: database errors, crashes and shutdowns

ASSUME AIReplyAssumption ==
    /\ IsFiniteSet(Items) /\ IsFiniteSet(Workers)
    /\ DailyLimit \in Nat \ {0}
    /\ MaxResets \in Nat
    /\ MaxFaults \in Nat

VARIABLES
    auto,     \* ops setting: automatic replies are on and a model is configured
    mention,  \* each mention: not there, new, to be handed over, or "handled"
    answer,   \* the comment whose identifier is the task's: "none", "shown" or "gone"
    posted,   \* history: answers inserted for the mention
    handed,   \* the notice campus:ezai-handoff:<comment> is in the outbox
    today,    \* tasks whose processed_at is of today
    pc, fresh, telling,  \* each job: where it is, whether on its first task, what it
                         \* has failed for good and not handed over yet
    mishap,   \* history: mentions whose notice was lost
    resets, faults

jobVars == <<pc, fresh, telling>>
worldVars == <<mention, answer, posted>>
replyVars == <<auto, worldVars, handed, today, jobVars, mishap, resets, faults>>
vars == <<queueVars, replyVars>>

PCs == {"idle", "check", "look", "refused", "post", "mark", "full", "postpone",
        "fail", "hand", "tell", "close"}

Open(i) == state[i] \in {"pending", "processing"}

Fault == faults < MaxFaults /\ faults' = faults + 1
NoFault == UNCHANGED faults
Go(w, where) == pc' = [pc EXCEPT ![w] = where] /\ UNCHANGED <<fresh, telling>>

Init ==
    /\ InitQueue
    /\ auto \in BOOLEAN
    /\ mention = [i \in Items |-> "no"]
    /\ answer = [i \in Items |-> "none"]
    /\ posted = [i \in Items |-> 0]
    /\ handed = [i \in Items |-> FALSE]
    /\ today = {}
    /\ pc = [w \in Workers |-> "idle"]
    /\ fresh = [w \in Workers |-> FALSE]
    /\ telling = [w \in Workers |-> {}]
    /\ mishap = {}
    /\ resets = 0
    /\ faults = 0

(* notifyEzaiHandoff: one notice per comment; an error is only logged. *)
Notify(i) ==
    \/ handed' = [handed EXCEPT ![i] = TRUE] /\ UNCHANGED mishap /\ NoFault
    \/ mishap' = mishap \cup {i} /\ UNCHANGED handed /\ Fault

-----------------------------------------------------------------------------
(* CreateComment of a comment that mentions the bot *)
Mention(i) ==
    /\ mention[i] = "no"
    /\ \A j \in Items : j < i => mention[j] \in {"tell", "handled"}
    /\ mention' = [mention EXCEPT ![i] = "new"]
    /\ UNCHANGED <<queueVars, auto, answer, posted, handed, today, jobVars, mishap, resets, faults>>

(* handleEzaiMention, after the comment's transaction. *)
Enqueue(i) ==
    /\ mention[i] = "new"
    /\ \/ /\ auto /\ Insert(i) /\ NoFault
          /\ mention' = [mention EXCEPT ![i] = "handled"]
       \/ /\ \/ ~auto /\ NoFault
             \/ auto /\ Fault
          /\ mention' = [mention EXCEPT ![i] = "tell"]
          /\ UNCHANGED queueVars
    /\ UNCHANGED <<auto, answer, posted, handed, today, jobVars, mishap, resets>>

TellMention(i) ==
    /\ mention[i] = "tell"
    /\ Notify(i)
    /\ mention' = [mention EXCEPT ![i] = "handled"]
    /\ UNCHANGED <<queueVars, auto, answer, posted, today, jobVars, resets>>

MentionCrash(i) ==
    /\ mention[i] \in {"new", "tell"}
    /\ Fault
    /\ mention' = [mention EXCEPT ![i] = "handled"]
    /\ mishap' = mishap \cup {i}
    /\ UNCHANGED <<queueVars, auto, answer, posted, handed, today, jobVars, resets>>

-----------------------------------------------------------------------------
(* ProcessPendingAIReplyTasks, or handoffPendingAIReplyTasks when the bot is off. *)
Claim(w) ==
    /\ pc[w] = "idle"
    /\ \E S \in SUBSET Items : ClaimRows(w, S)
    /\ pc' = [pc EXCEPT ![w] = IF auto THEN "check" ELSE "tell"]
    /\ fresh' = [fresh EXCEPT ![w] = TRUE]
    /\ UNCHANGED <<auto, worldVars, handed, today, telling, mishap, resets, faults>>

(* Faulty variant of CountedToday: the count forgets the day. *)
CountedEver == {i \in Items : state[i] = "done"}

(* CountAIRepliesToday *)
CountedToday == {i \in today : state[i] = "done"}

(* Faulty variant of Full: off by one. *)
FullTooLate == Cardinality(CountedToday) > DailyLimit

Full == Cardinality(CountedToday) >= DailyLimit

(* processAIReplyTask, its check of the day's limit. *)
Check(w) ==
    /\ pc[w] = "check"
    /\ \/ Go(w, IF Full THEN "full" ELSE "look") /\ NoFault
       \/ Go(w, "fail") /\ Fault
    /\ UNCHANGED <<queueVars, auto, worldVars, handed, today, mishap, resets>>

(* Over the limit: people are told, and the task is put off to the next day with
   its count unchanged. *)
TellFull(w) ==
    /\ pc[w] = "full"
    /\ Notify(Cur(w))
    /\ Go(w, "postpone")
    /\ UNCHANGED <<queueVars, auto, worldVars, today, resets>>

(* The next task of the batch takes the branch the job began with; the job ends
   after the last. *)
Turn(w, start) ==
    /\ pc' = [pc EXCEPT ![w] = IF Held(w) \ {Cur(w)} = {} THEN "idle" ELSE start]
    /\ fresh' = [fresh EXCEPT ![w] = FALSE]
    /\ UNCHANGED telling

(* MarkAIReplyTaskRetry of task i with count n. *)
SetRow(i, st, n) ==
    /\ state' = [state EXCEPT ![i] = st]
    /\ retry' = [retry EXCEPT ![i] = n]
    /\ due' = [due EXCEPT ![i] = FALSE]
    /\ leased' = [leased EXCEPT ![i] = FALSE]

CountPutOff(w) == claim[w][Cur(w)]

Postpone(w) ==
    /\ pc[w] = "postpone"
    /\ \/ /\ SetRow(Cur(w), "pending", CountPutOff(w))
          /\ Forget(w, {Cur(w)})
          /\ Turn(w, "check")
          /\ NoFault
       \/ Go(w, "fail") /\ Fault /\ UNCHANGED queueVars
    /\ UNCHANGED <<auto, worldVars, handed, today, mishap, resets>>

(* An answer that is there, withdrawn or not, only wants the mark.  Otherwise the
   model answers, is out of budget, or fails, as the task does of which the post or
   the comment is not visible any more. *)
Look(w) ==
    /\ pc[w] = "look"
    /\ \/ Go(w, "fail") /\ Fault
       \/ answer[Cur(w)] # "none" /\ Go(w, "mark") /\ NoFault
       \/ /\ answer[Cur(w)] = "none"
          /\ \E next \in {"post", "refused", "fail"} : Go(w, next)
          /\ NoFault
    /\ UNCHANGED <<queueVars, auto, worldVars, handed, today, mishap, resets>>

TellRefused(w) ==
    /\ pc[w] = "refused"
    /\ Notify(Cur(w))
    /\ Go(w, "fail")
    /\ UNCHANGED <<queueVars, auto, worldVars, today, resets>>

(* Faulty variant of Taken: the answer gets an identifier of its own. *)
TakenNever(i) == FALSE

(* The comment's primary key is the task's. *)
Taken(i) == answer[i] # "none"

(* CreateCommentWithOutbox, when the model has answered. *)
Post(w) ==
    /\ pc[w] = "post"
    /\ \/ /\ ~Taken(Cur(w))
          /\ answer' = [answer EXCEPT ![Cur(w)] = "shown"]
          /\ posted' = [posted EXCEPT ![Cur(w)] = @ + 1]
          /\ Go(w, "mark")
          /\ NoFault
       \/ /\ \/ Taken(Cur(w)) /\ NoFault
             \/ Fault
          /\ Go(w, "fail")
          /\ UNCHANGED <<answer, posted>>
    /\ UNCHANGED <<queueVars, auto, mention, handed, today, mishap, resets>>

(* MarkAIReplyTaskDone *)
Mark(w) ==
    /\ pc[w] = "mark"
    /\ \/ /\ MarkDone(w, Cur(w))
          /\ today' = today \cup {Cur(w)}
          /\ Turn(w, "check")
          /\ NoFault
       \/ Go(w, "fail") /\ Fault /\ UNCHANGED <<queueVars, today>>
    /\ UNCHANGED <<auto, worldVars, handed, mishap, resets>>

(* Faulty variant of AfterLast: a task that has failed for good is told to nobody. *)
AfterLastSilently(w) == {}

(* Whom the last failure of the job's task leaves to people. *)
AfterLast(w) == IF Final(claim[w][Cur(w)] + 1) THEN {Cur(w)} ELSE {}

(* markAIReplyTaskRetry; the error of the mark is only logged. *)
Fail(w) ==
    /\ pc[w] = "fail"
    /\ \/ MarkRetry(w, Cur(w)) /\ NoFault
       \/ Drop(w, {Cur(w)}) /\ Fault
    /\ telling' = [telling EXCEPT ![w] = AfterLast(w)]
    /\ pc' = [pc EXCEPT ![w] = IF AfterLast(w) # {} THEN "hand"
                               ELSE IF Held(w) = {Cur(w)} THEN "idle" ELSE "check"]
    /\ fresh' = [fresh EXCEPT ![w] = @ /\ AfterLast(w) # {}]
    /\ UNCHANGED <<auto, worldVars, handed, today, mishap, resets>>

HandOver(w) ==
    /\ pc[w] = "hand"
    /\ \E i \in telling[w] : Notify(i)
    /\ telling' = [telling EXCEPT ![w] = {}]
    /\ fresh' = [fresh EXCEPT ![w] = FALSE]
    /\ pc' = [pc EXCEPT ![w] = IF Held(w) = {} THEN "idle" ELSE "check"]
    /\ UNCHANGED <<queueVars, auto, worldVars, today, resets>>

(* handoffPendingAIReplyTasks: the notice, then the mark "failed" with the last count. *)
Tell(w) ==
    /\ pc[w] = "tell"
    /\ Notify(Cur(w))
    /\ Go(w, "close")
    /\ UNCHANGED <<queueVars, auto, worldVars, today, resets>>

Close(w) ==
    /\ pc[w] = "close"
    /\ \/ SetRow(Cur(w), "failed", MaxRetry) /\ NoFault
       \/ UNCHANGED rowVars /\ Fault
    /\ Forget(w, {Cur(w)})
    /\ Turn(w, "tell")
    /\ UNCHANGED <<auto, worldVars, handed, today, mishap, resets>>

(* The process is gone, or the job's twenty seconds are over: every call it still
   makes fails.  One task fits them, since the model has twelve. *)
GiveUp(w) ==
    /\ pc[w] # "idle"
    /\ \/ ~fresh[w] /\ NoFault
       \/ Fault
    /\ Drop(w, Held(w))
    /\ mishap' = mishap \cup telling[w]
    /\ telling' = [telling EXCEPT ![w] = {}]
    /\ pc' = [pc EXCEPT ![w] = "idle"]
    /\ fresh' = [fresh EXCEPT ![w] = FALSE]
    /\ UNCHANGED <<auto, worldVars, handed, today, resets>>

-----------------------------------------------------------------------------
(* AdminRetryAIReplyTask: ResetAIReplyTask, WHERE id, whoever works on it. *)
Reset(i) ==
    /\ state[i] # "none"
    /\ resets < MaxResets /\ resets' = resets + 1
    /\ state' = [state EXCEPT ![i] = "pending"]
    /\ retry' = [retry EXCEPT ![i] = 0]
    /\ due' = [due EXCEPT ![i] = TRUE]
    /\ leased' = [leased EXCEPT ![i] = FALSE]
    /\ UNCHANGED <<claim, auto, worldVars, handed, today, jobVars, mishap, faults>>

(* AdminModerateAIReply and other deletions of the answer. *)
Withdraw(i) ==
    /\ answer[i] = "shown"
    /\ answer' = [answer EXCEPT ![i] = "gone"]
    /\ UNCHANGED <<queueVars, auto, mention, posted, handed, today, jobVars, mishap, resets, faults>>

(* AdminUpdateEzaiSettings *)
Switch ==
    /\ auto' = ~auto
    /\ UNCHANGED <<queueVars, worldVars, handed, today, jobVars, mishap, resets, faults>>

NewDay ==
    /\ today # {}
    /\ today' = {}
    /\ UNCHANGED <<queueVars, auto, worldVars, handed, jobVars, mishap, resets, faults>>

Pass(i) == (FallDue(i) \/ LeaseExpire(i)) /\ UNCHANGED replyVars

-----------------------------------------------------------------------------
MentionStep(i) == Enqueue(i) \/ TellMention(i)

JobStep(w) ==
    \/ Claim(w) \/ Check(w) \/ TellFull(w) \/ Postpone(w) \/ Look(w) \/ TellRefused(w)
    \/ Post(w) \/ Mark(w) \/ Fail(w) \/ HandOver(w) \/ Tell(w) \/ Close(w)

Next ==
    \/ \E i \in Items :
          \/ Mention(i) \/ Enqueue(i) \/ TellMention(i) \/ MentionCrash(i)
          \/ Reset(i) \/ Withdraw(i) \/ Pass(i)
    \/ \E w \in Workers :
          \/ Claim(w) \/ Check(w) \/ TellFull(w) \/ Postpone(w) \/ Look(w) \/ TellRefused(w)
          \/ Post(w) \/ Mark(w) \/ Fail(w) \/ HandOver(w) \/ Tell(w) \/ Close(w) \/ GiveUp(w)
    \/ Switch \/ NewDay

(* Fairness: the ticker of every replica fires each five seconds and a job runs on
   to its end; requests go on, days and leases pass. *)
Spec == Init /\ [][Next]_vars
FairSpec ==
    /\ Spec
    /\ \A w \in Workers : WF_vars(JobStep(w))
    /\ \A i \in Items : WF_vars(Pass(i)) /\ WF_vars(MentionStep(i))
    /\ WF_vars(NewDay)

-----------------------------------------------------------------------------
(* Every task and job holds values the code can write: the count of a task never
   passes its maximum, also when it is put off from day to day, and when a job marks
   one that was put back meanwhile. *)
TypeOK ==
    /\ QueueTypeOK
    /\ auto \in BOOLEAN
    /\ mention \in [Items -> {"no", "new", "tell", "handled"}]
    /\ answer \in [Items -> {"none", "shown", "gone"}]
    /\ posted \in [Items -> Nat]
    /\ handed \in [Items -> BOOLEAN]
    /\ today \subseteq Items
    /\ pc \in [Workers -> PCs]
    /\ fresh \in [Workers -> BOOLEAN]
    /\ telling \in [Workers -> SUBSET Items]
    /\ mishap \subseteq Items
    /\ resets \in 0..MaxResets
    /\ faults \in 0..MaxFaults

(* A mention is answered once: whatever crashes between answer and mark, and
   whichever jobs an operator's reset sets on one task, and withdrawn for good. *)
AnsweredOnce == \A i \in Items : posted[i] <= 1

(* No mention is ignored: it has an answer, an open task, or its notice to the bot's
   people, unless that notice was lost. *)
NobodyIgnored ==
    \A i \in Items \ mishap :
        mention[i] = "handled" =>
            \/ answer[i] # "none" \/ Open(i) \/ handed[i]
            \/ \E w \in Workers : i \in telling[w]

(* The daily limit is checked before a task and counted after it: replicas overrun
   it together, each by at most one task. *)
LimitOverrun == Cardinality(CountedToday) <= DailyLimit + Cardinality(Workers) - 1

(* Every task is settled in the end, also one put off from day to day. *)
TaskSettles == \A i \in Items : Open(i) ~> state[i] \in {"done", "failed"}

(* A task that is processed again finds the answer it already has, also when the
   day's limit has been reached: it is not put off, and nobody is called for it. *)
AnswerIsRecognised == \A w \in Workers : pc[w] = "full" => answer[Cur(w)] = "none"

=============================================================================
