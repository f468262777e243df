----------------------------- MODULE PostAudit -----------------------------
(***************************************************************************)
(* The life of a forum post between its author, the AI audit worker and    *)
(* the operators (campusApi biz/campus.go, data/campus.go):                *)
(*   - CreatePost inserts the row and then hands it to somebody: to the    *)
(*     audit queue, or to the operators through an ops alert;              *)
(*   - every replica runs an "ai_audit" job that claims due tasks under a  *)
(*     lease, reads the post, waits for the campus-agent answer, writes    *)
(*     the post's status and only then settles the task;                   *)
(*   - operators review, edit and delete, authors withdraw, and the cards  *)
(*     sent to Feishu carry one-use tokens that approve or reject.         *)
(* Each database call is one step, so that two handlers interleave the way *)
(* they do over MySQL.  is_deleted is written together with the status by  *)
(* every writer (true exactly when the status is 3), so the row keeps the  *)
(* status alone.                                                           *)
(***************************************************************************)
EXTENDS Integers, FiniteSets

CONSTANTS
    Posts,            \* posts that can be created
    NoPost,           \* the value of cur[w] when worker w handles no post
    Workers,          \* replicas of the ai_audit job (one goroutine each)
    Staff,            \* operator requests and card callbacks in flight
    Settings,         \* records [mode, agentAudit, feishu] an admin may save: feishu
                      \* stands for both notification switches
    MaxRetry,         \* campusAIContentAuditTaskMaxRetry
    BatchSize,        \* CAMPUS_AI_AUDIT_BATCH_SIZE
    MaxCards,         \* bound: unspent cards of a kind kept per post
    MaxFaults,        \* bound: database errors, crashes and deadlines
    LeaseOutlivesRun  \* the job's deadline is shorter than its lease

Modes == {"off", "manual", "ai"}
ASSUME PostAuditAssumption ==
    /\ NoPost \notin Posts
    /\ MaxRetry \in Nat \ {0}
    /\ BatchSize \in Nat \ {0}
    /\ MaxCards \in Nat \ {0}
    /\ MaxFaults \in Nat
    /\ LeaseOutlivesRun \in BOOLEAN
    /\ Settings \subseteq [mode: Modes, agentAudit: BOOLEAN, feishu: BOOLEAN]

VARIABLES
    status,    \* campus_forum_post.status of each post, "none" before the insert
    gate, risk,  \* history: the gate each post entered by; the rule risk of its text
    creating,  \* what is left of the CreatePost request after the insert
    taskState, retry, due, leased,  \* campus_ai_audit_task of each post
    alert,     \* an ops alert with key audit:<post> was enqueued
    cards,     \* unspent approve and reject tokens of the post
    pc, cur, plan, claim,  \* each ai_audit job: where it is, on what, with which claims
    staff,     \* each operator request: the write it is about to make
    said,      \* history: what people asked for each post
    mishap,    \* history: posts whose alert or task was lost to a fault or a switch
    faults     \* faults so far

postVars == <<status, gate, risk>>
taskVars == <<taskState, retry, due, leased>>
workerVars == <<pc, cur, plan, claim>>
vars == <<postVars, creating, taskVars, alert, cards, workerVars, staff, said, mishap, faults>>

Risks     == {"low", "medium", "high"}
Statuses  == {"pending", "visible", "rejected", "deleted"}
Gates     == {"none", "open", "manual", "switch", "fallback", "agent"}
Actions   == {"approve", "reject"}
Sayings   == Statuses \cup {"edited"}
Plans     == {"none", "pass", "hold", "alert", "done"}
TaskStates == {"none", "pending", "processing", "done", "failed"}
NotHeld   == -1
Nobody    == [kind |-> "idle", post |-> NoPost, status |-> "none", says |-> "none"]

(* GetAnyPostByID: the row exists and is not deleted. *)
Found(p) == status[p] \in Statuses \ {"deleted"}

Holds(w, p) == claim[w][p] # NotHeld
Open(p)     == taskState[p] \in {"pending", "processing"}

(* UpdatePostStatus: WHERE id = p, whatever the row holds by now. *)
SetStatus(p, v) == status' = [status EXCEPT ![p] = v] /\ UNCHANGED <<gate, risk>>

SetRow(p, st, n, d, l) ==
    /\ taskState' = [taskState EXCEPT ![p] = st]
    /\ retry' = [retry EXCEPT ![p] = n]
    /\ due' = [due EXCEPT ![p] = d]
    /\ leased' = [leased EXCEPT ![p] = l]

Fault == faults < MaxFaults /\ faults' = faults + 1
NoFault == UNCHANGED faults

(* createOpsActionToken: tokens beyond the bound are those that fail to be created. *)
MoreCards(p) ==
    [a \in Actions |-> IF cards[p][a] < MaxCards THEN cards[p][a] + 1 ELSE cards[p][a]]

(* enqueueAuditOpsAlert: two fresh tokens, then the upsert of alert audit:<p>;
   nothing when the Feishu notifications are switched off or a call fails. *)
AlertRaised(p) ==
    /\ \E s \in Settings : s.feishu
    /\ cards' = [cards EXCEPT ![p] = MoreCards(p)]
    /\ alert' = [alert EXCEPT ![p] = TRUE]

RaiseAlert(p) ==
    \/ AlertRaised(p) /\ UNCHANGED mishap /\ NoFault
    \/ /\ \/ (\E s \in Settings : ~s.feishu) /\ NoFault
          \/ Fault
       /\ mishap' = mishap \cup {p}
       /\ UNCHANGED <<cards, alert>>

-----------------------------------------------------------------------------
Init ==
    /\ status = [p \in Posts |-> "none"]
    /\ gate = [p \in Posts |-> "none"]
    /\ risk = [p \in Posts |-> "low"]
    /\ creating = [p \in Posts |-> "no"]
    /\ taskState = [p \in Posts |-> "none"]
    /\ retry = [p \in Posts |-> 0]
    /\ due = [p \in Posts |-> FALSE]
    /\ leased = [p \in Posts |-> FALSE]
    /\ alert = [p \in Posts |-> FALSE]
    /\ cards = [p \in Posts |-> [a \in Actions |-> 0]]
    /\ pc = [w \in Workers |-> "idle"]
    /\ cur = [w \in Workers |-> NoPost]
    /\ plan = [w \in Workers |-> "none"]
    /\ claim = [w \in Workers |-> [p \in Posts |-> NotHeld]]
    /\ staff = [s \in Staff |-> Nobody]
    /\ said = [p \in Posts |-> {}]
    /\ mishap = {}
    /\ faults = 0

-----------------------------------------------------------------------------
(* Faulty variant of Gated: a post the rules hold back is told to nobody. *)
GatedSilently(g, r) ==
    CASE g = "agent" -> [status |-> "pending", next |-> "task"]
      [] g = "open" \/ (g # "manual" /\ r = "low") -> [status |-> "visible", next |-> "no"]
      [] OTHER -> [status |-> "pending", next |-> "no"]

(* CreatePost.  The gates: operators and mode "off" publish at once; in mode
   "ai" the Agent switch (or a missing model) and the budget decide whether the
   post is queued, or judged by the word rules alone. *)
Gated(g, r) ==
    CASE g = "open"   -> [status |-> "visible", next |-> "no"]
      [] g = "manual" -> [status |-> "pending", next |-> "alert"]
      [] g = "agent"  -> [status |-> "pending", next |-> "task"]
      [] OTHER -> IF r = "low" THEN [status |-> "visible", next |-> "no"]
                               ELSE [status |-> "pending", next |-> "alert"]

(* The gates a post can meet under setting s; "fallback" is a model that is
   not configured or out of budget, which no setting tells. *)
GatesOf(s) ==
    {"open"} \cup CASE s.mode = "off"    -> {}
                    [] s.mode = "manual" -> {"manual"}
                    [] s.mode = "ai"     -> IF s.agentAudit THEN {"agent", "fallback"}
                                                            ELSE {"switch"}

CreatePost(p) ==
    /\ status[p] = "none"
    /\ \E s \in Settings, r \in Risks : \E g \in GatesOf(s) :
          /\ status' = [status EXCEPT ![p] = Gated(g, r).status]
          /\ gate' = [gate EXCEPT ![p] = g]
          /\ risk' = [risk EXCEPT ![p] = r]
          /\ creating' = [creating EXCEPT ![p] = Gated(g, r).next]
    /\ UNCHANGED <<taskVars, alert, cards, workerVars, staff, said, mishap, faults>>

(* CreateAIContentAuditTask: one row per target; a failure falls back to an alert. *)
EnqueueTask(p) ==
    /\ creating[p] = "task"
    /\ \/ /\ SetRow(p, "pending", 0, TRUE, FALSE)
          /\ creating' = [creating EXCEPT ![p] = "no"]
          /\ NoFault
       \/ /\ Fault
          /\ creating' = [creating EXCEPT ![p] = "alert"]
          /\ UNCHANGED taskVars
    /\ UNCHANGED <<postVars, alert, cards, workerVars, staff, said, mishap>>

AlertNewPost(p) ==
    /\ creating[p] = "alert"
    /\ RaiseAlert(p)
    /\ creating' = [creating EXCEPT ![p] = "no"]
    /\ UNCHANGED <<postVars, taskVars, workerVars, staff, said>>

(* The process dies after the insert: nothing takes the request up again. *)
CreateCrash(p) ==
    /\ creating[p] # "no"
    /\ Fault
    /\ creating' = [creating EXCEPT ![p] = "no"]
    /\ mishap' = mishap \cup {p}
    /\ UNCHANGED <<postVars, taskVars, alert, cards, workerVars, staff, said>>

-----------------------------------------------------------------------------
(* Faulty variants of Claimable: a claim that ignores leases, and one that never
   takes back what a dead worker held. *)
ClaimableUnderLease(p) == taskState[p] = "processing" \/ (taskState[p] = "pending" /\ due[p])
ClaimableOnce(p) == taskState[p] = "pending" /\ due[p]

(* The audit queue.  ClaimAIContentAuditTasks takes up to BatchSize rows that
   are due, or whose lease ran out, in one SKIP LOCKED transaction. *)
Claimable(p) ==
    \/ taskState[p] = "pending" /\ due[p]
    \/ taskState[p] = "processing" /\ ~leased[p]

Smaller(a, b) == IF a < b THEN a ELSE b

Claim(w) ==
    /\ pc[w] = "idle"
    /\ LET ready == {p \in Posts : Claimable(p)}
       IN  \E S \in SUBSET ready :
             /\ S # {}
             /\ Cardinality(S) = Smaller(BatchSize, Cardinality(ready))
             /\ taskState' = [p \in Posts |-> IF p \in S THEN "processing" ELSE taskState[p]]
             /\ leased' = [p \in Posts |-> p \in S \/ leased[p]]
             /\ claim' = [claim EXCEPT ![w] =
                           [p \in Posts |-> IF p \in S THEN retry[p] ELSE NotHeld]]
    /\ pc' = [pc EXCEPT ![w] = "pick"]
    /\ UNCHANGED <<postVars, creating, retry, due, alert, cards, cur, plan, staff, said, mishap, faults>>

(* The worker turns from post p to the rest of its batch. *)
Release(w, p) ==
    /\ claim' = [claim EXCEPT ![w][p] = NotHeld]
    /\ pc' = [pc EXCEPT ![w] = IF \E q \in Posts \ {p} : Holds(w, q) THEN "pick" ELSE "idle"]
    /\ cur' = [cur EXCEPT ![w] = NoPost]
    /\ plan' = [plan EXCEPT ![w] = "none"]

(* What campus-agent may answer: rule is its own rule risk, computed from the
   words of the request, or nothing when its answer could not be parsed. *)
Answers(r) == [decision: {"pass", "review", "reject"}, risk: Risks, rule: {"none", r}, sure: BOOLEAN]

(* Faulty variant of AutoPass: the agent's low risk outweighs the word rules. *)
AutoPassOnAnswer(a, r) == a.decision = "pass" /\ a.risk = "low" /\ a.sure

AutoPass(a, r) ==
    LET rule == IF a.rule = "none" THEN r ELSE a.rule
    IN  rule # "high" /\ a.decision = "pass" /\ a.risk = "low" /\ a.sure

(* The plans for a post of rule risk r: the model may be unavailable or out of
   budget, the agent may fail, or it answers. *)
Verdicts(r) ==
    {IF r = "low" THEN "pass" ELSE "hold", IF r = "low" THEN "pass" ELSE "alert"}
    \cup {IF AutoPass(a, r) THEN "pass" ELSE "hold" : a \in Answers(r)}

(* processAIContentAuditTask, its read of the post, and the verdict that rests on
   the text it has read.  A deleted post is "post not found", an error like any
   other; a settled one only ends the task. *)
Look(w, p) ==
    /\ pc[w] = "pick" /\ Holds(w, p)
    /\ cur' = [cur EXCEPT ![w] = p]
    /\ \/ ~Found(p) /\ pc' = [pc EXCEPT ![w] = "fail"] /\ NoFault /\ UNCHANGED plan
       \/ Fault /\ pc' = [pc EXCEPT ![w] = "fail"] /\ UNCHANGED plan
       \/ /\ Found(p) /\ status[p] # "pending"
          /\ pc' = [pc EXCEPT ![w] = "finish"]
          /\ plan' = [plan EXCEPT ![w] = "done"]
          /\ NoFault
       \/ /\ Found(p) /\ status[p] = "pending"
          /\ \E v \in Verdicts(risk[p]) :
                /\ plan' = [plan EXCEPT ![w] = v]
                /\ pc' = [pc EXCEPT ![w] = IF v = "alert" THEN "tell" ELSE "apply"]
          /\ NoFault
    /\ UNCHANGED <<postVars, creating, taskVars, alert, cards, claim, staff, said, mishap>>

(* Faulty variant of Verdict: what is not passed is rejected. *)
VerdictOrReject(v) == IF v = "pass" THEN "visible" ELSE "rejected"

(* UpdatePostStatus with the verdict, long after the read that it rests on. *)
Verdict(v) == IF v = "pass" THEN "visible" ELSE "pending"

Apply(w) ==
    /\ pc[w] = "apply"
    /\ SetStatus(cur[w], Verdict(plan[w]))
    /\ pc' = [pc EXCEPT ![w] = IF plan[w] = "pass" THEN "finish" ELSE "tell"]
    /\ UNCHANGED <<creating, taskVars, alert, cards, cur, plan, claim, staff, said, mishap, faults>>

(* enqueueAuditOpsAlert; its error is dropped. *)
Tell(w) ==
    /\ pc[w] = "tell"
    /\ RaiseAlert(cur[w])
    /\ pc' = [pc EXCEPT ![w] = "finish"]
    /\ UNCHANGED <<postVars, creating, taskVars, cur, plan, claim, staff, said>>

(* MarkAIContentAuditTaskDone: WHERE id, whoever holds the row by now. *)
Finish(w) ==
    /\ pc[w] = "finish"
    /\ SetRow(cur[w], "done", retry[cur[w]], FALSE, FALSE)
    /\ Release(w, cur[w])
    /\ UNCHANGED <<postVars, creating, alert, cards, staff, said, mishap, faults>>

(* UpdatePostStatus or MarkAIContentAuditTaskDone returns an error. *)
Stumble(w) ==
    /\ pc[w] \in {"apply", "finish"}
    /\ Fault
    /\ pc' = [pc EXCEPT ![w] = "fail"]
    /\ UNCHANGED <<postVars, creating, taskVars, alert, cards, cur, plan, claim, staff, said, mishap>>

(* markAIContentAuditTaskRetry, from the retry count read with the claim.  The
   mark itself may fail and is then only logged. *)
Final(w) == claim[w][cur[w]] + 1 >= MaxRetry

(* Faulty variant of Retried: the attempt is not counted. *)
RetriedUncounted(w) ==
    SetRow(cur[w], IF Final(w) THEN "failed" ELSE "pending", claim[w][cur[w]], FALSE, FALSE)

Retried(w) ==
    SetRow(cur[w], IF Final(w) THEN "failed" ELSE "pending", claim[w][cur[w]] + 1, FALSE, FALSE)

MarkRetry(w) ==
    /\ pc[w] = "fail"
    /\ \/ Retried(w) /\ NoFault
       \/ Fault /\ UNCHANGED taskVars
    /\ IF Final(w) THEN /\ pc' = [pc EXCEPT ![w] = "hold"]
                        /\ claim' = [claim EXCEPT ![w][cur[w]] = NotHeld]
                        /\ plan' = [plan EXCEPT ![w] = "none"]
                        /\ UNCHANGED cur
                   ELSE Release(w, cur[w])
    /\ UNCHANGED <<postVars, creating, alert, cards, staff, said, mishap>>

(* After the last retry the post is put back to pending, an error of that write
   being dropped, and an alert is raised if the post can be found after it. *)
Hold(w) ==
    /\ pc[w] = "hold"
    /\ \/ SetStatus(cur[w], "pending") /\ RaiseAlert(cur[w])
       \/ Fault /\ UNCHANGED <<postVars, mishap>>
          /\ IF Found(cur[w]) THEN AlertRaised(cur[w]) ELSE UNCHANGED <<cards, alert>>
    /\ Release(w, cur[w])
    /\ UNCHANGED <<creating, taskVars, staff, said>>

(* The process dies, is stopped, or the job's context runs out, after which
   every call of it fails: the claims are dropped and the rows stay as they are. *)
Abandon(w) ==
    /\ pc[w] # "idle"
    /\ Fault
    /\ pc' = [pc EXCEPT ![w] = "idle"]
    /\ cur' = [cur EXCEPT ![w] = NoPost]
    /\ plan' = [plan EXCEPT ![w] = "none"]
    /\ claim' = [claim EXCEPT ![w] = [p \in Posts |-> NotHeld]]
    /\ mishap' = IF pc[w] = "hold" THEN mishap \cup {cur[w]} ELSE mishap
    /\ UNCHANGED <<postVars, creating, taskVars, alert, cards, staff, said>>

(* Time: a retry falls due, and locked_until passes.  With LeaseOutlivesRun the
   lease (45 s) is longer than the job that took it may run (at most 32 s). *)
FallDue(p) ==
    /\ taskState[p] = "pending" /\ ~due[p]
    /\ due' = [due EXCEPT ![p] = TRUE]
    /\ UNCHANGED <<postVars, taskState, retry, leased, creating, alert, cards, workerVars, staff, said, mishap, faults>>

LeaseExpire(p) ==
    /\ taskState[p] = "processing" /\ leased[p]
    /\ LeaseOutlivesRun => \A w \in Workers : ~Holds(w, p)
    /\ leased' = [leased EXCEPT ![p] = FALSE]
    /\ UNCHANGED <<postVars, taskState, retry, due, creating, alert, cards, workerVars, staff, said, mishap, faults>>

-----------------------------------------------------------------------------
(* People.  An operator request reads the post (GetAnyPostByID refuses a
   deleted one) and writes the whole status later, whatever happened between. *)
Begin(s, k, p, v, says) ==
    /\ staff[s].kind = "idle" /\ Found(p)
    /\ staff' = [staff EXCEPT ![s] = [kind |-> k, post |-> p, status |-> v, says |-> says]]
    /\ UNCHANGED <<postVars, creating, taskVars, alert, workerVars, said, mishap, faults>>

(* ReviewContent *)
Review(s, p) ==
    /\ \E v \in {"visible", "rejected", "deleted"} : Begin(s, "review", p, v, v)
    /\ UNCHANGED cards

(* AdminBatchPosts and AdminUpdatePost write the whole row back: with a status
   of their own, or (pin, feature, weight...) with the status they have read. *)
Edit(s, p) ==
    /\ \/ \E v \in Statuses : Begin(s, "edit", p, v, v)
       \/ Begin(s, "edit", p, status[p], IF status[p] = "pending" THEN "pending" ELSE "edited")
    /\ UNCHANGED cards

(* HandleFeishuCardAction: UseOpsActionToken spends the token first (it disturbs
   nobody else, so that the read after it can be the same step); the post is then
   read, and only a pending one is acted upon. *)
CardTarget(p) == Found(p) /\ status[p] = "pending"

ClickCard(s, p, a) ==
    /\ staff[s].kind = "idle"
    /\ cards[p][a] > 0
    /\ cards' = [cards EXCEPT ![p][a] = cards[p][a] - 1]
    /\ LET v == IF a = "approve" THEN "visible" ELSE "rejected"
       IN  staff' = IF CardTarget(p)
                    THEN [staff EXCEPT ![s] = [kind |-> "card", post |-> p, status |-> v, says |-> v]]
                    ELSE staff
    /\ UNCHANGED <<postVars, creating, taskVars, alert, workerVars, said, mishap, faults>>

(* UpdatePostStatus or UpdatePostByAdmin: WHERE id, no condition on the status.
   The latter writes the text too, so that the rules may rate it anew. *)
StaffWrite(s) ==
    /\ staff[s].kind # "idle"
    /\ status' = [status EXCEPT ![staff[s].post] = staff[s].status]
    /\ \/ staff[s].kind # "edit" /\ UNCHANGED risk
       \/ staff[s].kind = "edit" /\ \E r \in Risks : risk' = [risk EXCEPT ![staff[s].post] = r]
    /\ said' = [said EXCEPT ![staff[s].post] =
                   @ \cup {staff[s].says} \cup (IF staff[s].kind = "edit" THEN {"edited"} ELSE {})]
    /\ staff' = [staff EXCEPT ![s] = Nobody]
    /\ UNCHANGED <<gate, creating, taskVars, alert, cards, workerVars, mishap, faults>>

(* DeletePost of the author, AdminDeletePost: UPDATE ... WHERE is_deleted = false. *)
Withdraw(p) ==
    /\ Found(p)
    /\ SetStatus(p, "deleted")
    /\ said' = [said EXCEPT ![p] = @ \cup {"deleted"}]
    /\ UNCHANGED <<creating, taskVars, alert, cards, workerVars, staff, mishap, faults>>

-----------------------------------------------------------------------------
CreateStep(p) == EnqueueTask(p) \/ AlertNewPost(p)

WorkerStep(w) ==
    \/ Claim(w) \/ Apply(w) \/ Tell(w) \/ Finish(w)
    \/ MarkRetry(w) \/ Hold(w) \/ \E p \in Posts : Look(w, p)

Next ==
    \/ \E p \in Posts : \/ CreatePost(p) \/ EnqueueTask(p) \/ AlertNewPost(p)
                         \/ CreateCrash(p) \/ FallDue(p) \/ LeaseExpire(p) \/ Withdraw(p)
    \/ \E w \in Workers : \/ Claim(w) \/ Apply(w) \/ Tell(w) \/ Finish(w)
                           \/ MarkRetry(w) \/ Hold(w) \/ Stumble(w) \/ Abandon(w)
                           \/ \E p \in Posts : Look(w, p)
    \/ \E s \in Staff : \/ StaffWrite(s)
                         \/ \E p \in Posts : \/ Review(s, p) \/ Edit(s, p)
                                              \/ \E a \in Actions : ClickCard(s, p, a)

(* Fairness: the task server ticks every five seconds and the job runs on until
   its batch is done; time passes.  Nobody is obliged to click or to review. *)
Spec == Init /\ [][Next]_vars
FairSpec ==
    /\ Spec
    /\ \A w \in Workers : WF_vars(WorkerStep(w))
    /\ \A p \in Posts : WF_vars(CreateStep(p)) /\ WF_vars(FallDue(p)) /\ WF_vars(LeaseExpire(p))

-----------------------------------------------------------------------------
(* Every row and every job holds values the code can write: in particular the
   retry count of an audit task never passes its maximum. *)
TypeOK ==
    /\ status \in [Posts -> {"none"} \cup Statuses]
    /\ gate \in [Posts -> Gates]
    /\ risk \in [Posts -> Risks]
    /\ creating \in [Posts -> {"no", "task", "alert"}]
    /\ taskState \in [Posts -> TaskStates]
    /\ retry \in [Posts -> 0..MaxRetry]
    /\ due \in [Posts -> BOOLEAN]
    /\ leased \in [Posts -> BOOLEAN]
    /\ alert \in [Posts -> BOOLEAN]
    /\ cards \in [Posts -> [Actions -> 0..MaxCards]]
    /\ pc \in [Workers -> {"idle", "pick", "apply", "tell", "finish", "fail", "hold"}]
    /\ cur \in [Workers -> Posts \cup {NoPost}]
    /\ plan \in [Workers -> Plans]
    /\ claim \in [Workers -> [Posts -> NotHeld..MaxRetry]]
    /\ staff \in [Staff -> [kind: {"idle", "review", "edit", "card"}, post: Posts \cup {NoPost},
                            status: {"none"} \cup Statuses, says: {"none"} \cup Sayings]]
    /\ said \in [Posts -> SUBSET Sayings]
    /\ mishap \subseteq Posts
    /\ faults \in 0..MaxFaults

(* Two jobs never work on one task: whoever holds a claim holds the row, still
   "processing" under a live lease, although every mark is a bare WHERE id. *)
ClaimIsExclusive ==
    \A w \in Workers, p \in Posts :
        Holds(w, p) => /\ taskState[p] = "processing" /\ leased[p]
                       /\ \A u \in Workers \ {w} : ~Holds(u, p)

(* The audit tasks and their leases implement the abstract task queue: a task is
   worked on by one job at a time and given up after MaxRetry counted failures,
   although the marks name only the row and carry a count read long before. *)
TaskPhase == [p \in Posts |-> CASE taskState[p] = "pending" -> "waiting"
                                [] taskState[p] = "processing" -> "taken"
                                [] OTHER -> taskState[p]]
Queue == INSTANCE TaskQueue WITH
            Items <- Posts,
            phase <- TaskPhase,
            tries <- retry,
            holders <- [p \in Posts |-> {w \in Workers : Holds(w, p)}]
IsTaskQueue == Queue!Spec

(* A post held for manual review, or one whose author's text the word rules rate
   high outside mode "off", is public only if a person made it visible: no agent
   answer, budget fallback, retry or stale write of the audit publishes it. *)
PublicNeedsPerson ==
    \A p \in Posts :
        /\ status[p] = "visible"
        /\ gate[p] = "manual" \/ (gate[p] # "open" /\ risk[p] = "high" /\ "edited" \notin said[p])
        => "visible" \in said[p]

(* The audit never rejects by itself: a rejected post was rejected by a person. *)
RejectNeedsPerson ==
    \A p \in Posts : status[p] = "rejected" => "rejected" \in said[p]

(* No pending post is forgotten: its request, its audit task or an alert to the
   operators still stands, through crashes, retries and races with people;
   except a post whose own enqueueing was lost, and one an editor put back. *)
PendingIsWatched ==
    \A p \in Posts :
        /\ status[p] = "pending" /\ p \notin mishap /\ "pending" \notin said[p]
        => \/ creating[p] # "no" \/ Open(p) \/ alert[p]
           \/ \E w \in Workers : pc[w] = "hold" /\ cur[w] = p

(* Every audit task is settled, whatever crashes, errors and expired leases. *)
TaskSettles == \A p \in Posts : Open(p) ~> (taskState[p] \in {"done", "failed"})

(* A withdrawn or deleted post stays deleted: no operation offers to restore it. *)
DeletedStaysDeleted ==
    \A p \in Posts : "deleted" \in said[p] => status[p] = "deleted"

(* The target state a card action has checked still holds when it writes. *)
CardDecidesPending ==
    [][\A s \in Staff : staff[s].kind = "card" /\ staff'[s].kind = "idle"
          => status[staff[s].post] = "pending"]_vars

=============================================================================
