-------------------------- MODULE PostAuditProofs --------------------------
(***************************************************************************)
(* Theorems about PostAudit for every number of posts, audit jobs and      *)
(* operator requests, and every retry limit, batch size and fault bound.   *)
(***************************************************************************)
EXTENDS PostAudit, TLAPS

(* The steps at which a job has a post in hand and still holds its claim. *)
Busy == {"apply", "tell", "finish", "fail"}

(* The audit queue: a task that may still be claimed has retries left. *)
TaskInv ==
    /\ taskState \in [Posts -> TaskStates]
    /\ retry \in [Posts -> 0..MaxRetry]
    /\ due \in [Posts -> BOOLEAN]
    /\ leased \in [Posts -> BOOLEAN]
    /\ \A p \in Posts : Open(p) => retry[p] < MaxRetry

PCs == {"idle", "pick", "apply", "tell", "finish", "fail", "hold"}

(* The jobs: one at work has a post and a claim on it, and a claim carries the
   retry count of a task that had retries left. *)
JobsInv ==
    /\ pc \in [Workers -> PCs]
    /\ cur \in [Workers -> Posts \cup {NoPost}]
    /\ plan \in [Workers -> Plans]
    /\ claim \in [Workers -> [Posts -> -1..MaxRetry]]
    /\ \A w \in Workers : pc[w] \in Busy => cur[w] \in Posts /\ claim[w][cur[w]] # -1
    /\ \A w \in Workers : pc[w] = "hold" => cur[w] \in Posts
    /\ \A w \in Workers, p \in Posts : claim[w][p] < MaxRetry

(* The posts, their alerts and cards, and the operators' requests. *)
PostInv ==
    /\ status \in [Posts -> {"none"} \cup Statuses]
    /\ gate \in [Posts -> Gates]
    /\ risk \in [Posts -> Risks]

DeskInv ==
    /\ creating \in [Posts -> {"no", "task", "alert"}]
    /\ staff \in [Staff -> [kind: {"idle", "review", "edit", "card"}, post: Posts \cup {NoPost},
                            status: {"none"} \cup Statuses, says: {"none"} \cup Sayings]]
    /\ said \in [Posts -> SUBSET Sayings]
    /\ \A s \in Staff : staff[s].kind # "idle" =>
          staff[s].post \in Posts /\ staff[s].status \in Statuses /\ staff[s].says \in Sayings

AlertInv ==
    /\ alert \in [Posts -> BOOLEAN]
    /\ cards \in [Posts -> [Actions -> 0..MaxCards]]
    /\ mishap \subseteq Posts
    /\ faults \in 0..MaxFaults

TypeInv == PostInv /\ DeskInv /\ AlertInv /\ TaskInv /\ JobsInv

(* Every next-state step is one of these actions. *)
LEMMA NextCases ==
    ASSUME Next
    PROVE  \/ \E p \in Posts : CreatePost(p)
           \/ \E p \in Posts : EnqueueTask(p)
           \/ \E p \in Posts : AlertNewPost(p)
           \/ \E p \in Posts : CreateCrash(p)
           \/ \E p \in Posts : FallDue(p)
           \/ \E p \in Posts : LeaseExpire(p)
           \/ \E p \in Posts : Withdraw(p)
           \/ \E w \in Workers : Claim(w)
           \/ \E w \in Workers : Apply(w)
           \/ \E w \in Workers : Tell(w)
           \/ \E w \in Workers : Finish(w)
           \/ \E w \in Workers : MarkRetry(w)
           \/ \E w \in Workers : Hold(w)
           \/ \E w \in Workers : Stumble(w)
           \/ \E w \in Workers : Abandon(w)
           \/ \E w \in Workers, p \in Posts : Look(w, p)
           \/ \E s \in Staff : StaffWrite(s)
           \/ \E s \in Staff, p \in Posts : Review(s, p)
           \/ \E s \in Staff, p \in Posts : Edit(s, p)
           \/ \E s \in Staff, p \in Posts, a \in Actions : ClickCard(s, p, a)
BY Zenon DEF Next

(* An alert keeps the types of what it writes. *)
LEMMA RaiseAlertType ==
    ASSUME AlertInv, NEW p \in Posts, RaiseAlert(p)
    PROVE  AlertInv'
<1>1. MoreCards(p) \in [Actions -> 0..MaxCards]
  BY PostAuditAssumption DEF AlertInv, MoreCards
<1>2. CASE AlertRaised(p) /\ UNCHANGED mishap /\ NoFault
  BY <1>1, <1>2 DEF AlertInv, AlertRaised, NoFault
<1>3. CASE UNCHANGED <<cards, alert>> /\ mishap' = mishap \cup {p} /\ (NoFault \/ Fault)
  BY <1>3, PostAuditAssumption DEF AlertInv, NoFault, Fault
<1> QED
  BY <1>2, <1>3, Zenon DEF RaiseAlert

(* So does writing the status of a post, or the row of its task. *)
LEMMA StatusType ==
    ASSUME PostInv, NEW p \in Posts, NEW v \in Statuses, SetStatus(p, v)
    PROVE  PostInv'
BY DEF PostInv, SetStatus

LEMMA RowType ==
    ASSUME TaskInv, NEW p \in Posts, NEW st \in TaskStates, NEW n \in 0..MaxRetry,
           NEW d \in BOOLEAN, NEW l \in BOOLEAN, SetRow(p, st, n, d, l),
           st \in {"pending", "processing"} => n < MaxRetry
    PROVE  TaskInv'
<1>1. taskState' \in [Posts -> TaskStates] /\ retry' \in [Posts -> 0..MaxRetry]
  BY DEF TaskInv, SetRow
<1>2. due' \in [Posts -> BOOLEAN] /\ leased' \in [Posts -> BOOLEAN]
  BY DEF TaskInv, SetRow
<1>3. \A q \in Posts : Open(q)' => retry'[q] < MaxRetry
  BY DEF TaskInv, SetRow, Open
<1> QED
  BY <1>1, <1>2, <1>3, Zenon DEF TaskInv

(* A job that turns away from its post leaves the others as they are. *)
LEMMA ReleaseType ==
    ASSUME JobsInv, NEW w \in Workers, NEW p \in Posts, Release(w, p)
    PROVE  JobsInv'
<1>1. /\ pc' \in [Workers -> PCs] /\ pc'[w] \in {"pick", "idle"}
      /\ cur' \in [Workers -> Posts \cup {NoPost}]
      /\ plan' \in [Workers -> Plans]
  BY DEF JobsInv, Release, PCs, Plans
<1>2. /\ claim' \in [Workers -> [Posts -> -1..MaxRetry]]
      /\ \A u \in Workers, q \in Posts : claim'[u][q] < MaxRetry
  BY PostAuditAssumption DEF JobsInv, Release, NotHeld
<1>3. \A u \in Workers : u # w => pc'[u] = pc[u] /\ cur'[u] = cur[u] /\ claim'[u] = claim[u]
  BY DEF JobsInv, Release
<1> QED
  BY <1>1, <1>2, <1>3 DEF JobsInv, Busy

(* A claim takes tasks that may still be claimed, under a new lease. *)
LEMMA ClaimSet ==
    ASSUME NEW w \in Workers, Claim(w)
    PROVE  \E S \in SUBSET {p \in Posts : Claimable(p)} :
              /\ taskState' = [p \in Posts |-> IF p \in S THEN "processing" ELSE taskState[p]]
              /\ leased' = [p \in Posts |-> p \in S \/ leased[p]]
              /\ claim' = [claim EXCEPT ![w] =
                            [p \in Posts |-> IF p \in S THEN retry[p] ELSE NotHeld]]
BY DEF Claim

LEMMA TypeInit == Init => TypeInv
BY PostAuditAssumption
   DEF Init, TypeInv, PostInv, DeskInv, AlertInv, TaskInv, JobsInv, PCs, Statuses, Gates, Risks,
       Actions, Sayings, Plans, TaskStates, NotHeld, Nobody, Busy, Open

LEMMA TypeStep ==
    ASSUME TypeInv, [Next]_vars
    PROVE  TypeInv'
<1> USE DEF TypeInv
<1>1. CASE UNCHANGED vars
  BY <1>1 DEF vars, postVars, taskVars, workerVars, PostInv, DeskInv, AlertInv, TaskInv, JobsInv, Open
<1> USE DEF postVars, taskVars, workerVars
<1>2. ASSUME NEW p \in Posts, CreatePost(p) PROVE TypeInv'
  <2>1. PostInv' /\ DeskInv'
    <3>1. PICK s \in Settings, r \in Risks : \E g \in GatesOf(s) :
             /\ status' = [status EXCEPT ![p] = Gated(g, r).status]
             /\ gate' = [gate EXCEPT ![p] = g]
             /\ risk' = [risk EXCEPT ![p] = r]
             /\ creating' = [creating EXCEPT ![p] = Gated(g, r).next]
      BY <1>2 DEF CreatePost
    <3>2. PICK g \in GatesOf(s) :
             /\ status' = [status EXCEPT ![p] = Gated(g, r).status]
             /\ gate' = [gate EXCEPT ![p] = g]
             /\ risk' = [risk EXCEPT ![p] = r]
             /\ creating' = [creating EXCEPT ![p] = Gated(g, r).next]
      BY <3>1
    <3>3. s.mode \in Modes
      BY PostAuditAssumption
    <3>4. g \in Gates
      BY <3>3 DEF GatesOf, Gates, Modes
    <3>5. Gated(g, r).status \in Statuses /\ Gated(g, r).next \in {"no", "task", "alert"}
      BY DEF Gated, Statuses
    <3> QED
      BY <1>2, <3>2, <3>4, <3>5 DEF CreatePost, PostInv, DeskInv
  <2> QED
    BY <1>2, <2>1 DEF CreatePost, AlertInv, TaskInv, JobsInv, Open
<1>3. ASSUME NEW p \in Posts, EnqueueTask(p) PROVE TypeInv'
  <2>1. TaskInv'
    <3>1. CASE SetRow(p, "pending", 0, TRUE, FALSE)
      BY <3>1, PostAuditAssumption DEF SetRow, TaskInv, TaskStates, Open
    <3>2. CASE UNCHANGED taskVars
      BY <3>2 DEF TaskInv, Open
    <3> QED
      BY <1>3, <3>1, <3>2, Zenon DEF EnqueueTask
  <2>2. DeskInv' /\ faults' \in 0..MaxFaults
    <3>1. creating' \in [Posts -> {"no", "task", "alert"}]
      BY <1>3 DEF EnqueueTask, DeskInv
    <3>2. faults' \in 0..MaxFaults
      <4>1. NoFault \/ Fault
        BY <1>3, Zenon DEF EnqueueTask
      <4> QED
        BY <4>1, PostAuditAssumption DEF AlertInv, NoFault, Fault
    <3> QED
      BY <1>3, <3>1, <3>2 DEF EnqueueTask, DeskInv
  <2> QED
    BY <1>3, <2>1, <2>2 DEF EnqueueTask, PostInv, AlertInv, JobsInv
<1>4. ASSUME NEW p \in Posts, AlertNewPost(p) PROVE TypeInv'
  BY <1>4, RaiseAlertType DEF AlertNewPost, PostInv, DeskInv, TaskInv, JobsInv, Open
<1>5. ASSUME NEW p \in Posts, CreateCrash(p) PROVE TypeInv'
  BY <1>5, PostAuditAssumption DEF CreateCrash, Fault, PostInv, DeskInv, AlertInv, TaskInv, JobsInv, Open
<1>6. ASSUME NEW p \in Posts, FallDue(p) PROVE TypeInv'
  BY <1>6 DEF FallDue, PostInv, DeskInv, AlertInv, TaskInv, JobsInv, Open
<1>7. ASSUME NEW p \in Posts, LeaseExpire(p) PROVE TypeInv'
  BY <1>7 DEF LeaseExpire, PostInv, DeskInv, AlertInv, TaskInv, JobsInv, Open
<1>8. ASSUME NEW p \in Posts, Withdraw(p) PROVE TypeInv'
  <2>1. PostInv'
    BY <1>8, StatusType DEF Withdraw, Statuses
  <2> QED
    BY <1>8, <2>1 DEF Withdraw, Sayings, Statuses, DeskInv, AlertInv, TaskInv, JobsInv, Open
<1>9. ASSUME NEW w \in Workers, Claim(w) PROVE TypeInv'
  <2>1. PICK S \in SUBSET {p \in Posts : Claimable(p)} :
           /\ taskState' = [p \in Posts |-> IF p \in S THEN "processing" ELSE taskState[p]]
           /\ leased' = [p \in Posts |-> p \in S \/ leased[p]]
           /\ claim' = [claim EXCEPT ![w] =
                         [p \in Posts |-> IF p \in S THEN retry[p] ELSE NotHeld]]
    BY <1>9, ClaimSet
  <2>2. \A p \in S : p \in Posts /\ Open(p)
    BY <2>1 DEF Claimable, Open
  <2>3. TaskInv'
    BY <1>9, <2>1, <2>2 DEF Claim, TaskInv, Open, TaskStates
  <2>4. [p \in Posts |-> IF p \in S THEN retry[p] ELSE NotHeld] \in [Posts -> -1..(MaxRetry - 1)]
    BY <2>1, <2>2, PostAuditAssumption DEF TaskInv, NotHeld
  <2>5. JobsInv'
    BY <1>9, <2>1, <2>4, PostAuditAssumption DEF Claim, JobsInv, PCs, Busy
  <2> QED
    BY <1>9, <2>3, <2>5 DEF Claim, PostInv, DeskInv, AlertInv
<1>10. ASSUME NEW w \in Workers, Apply(w) PROVE TypeInv'
  <2>1. Verdict(plan[w]) \in Statuses /\ cur[w] \in Posts
    BY <1>10 DEF Verdict, Apply, JobsInv, Busy, Statuses
  <2>2. PostInv'
    BY <1>10, <2>1, StatusType DEF Apply
  <2> QED
    BY <1>10, <2>2 DEF Apply, DeskInv, AlertInv, TaskInv, JobsInv, Open, PCs, Busy
<1>11. ASSUME NEW w \in Workers, Tell(w) PROVE TypeInv'
  <2>1. AlertInv'
    BY <1>11, RaiseAlertType DEF Tell, JobsInv, Busy
  <2> QED
    BY <1>11, <2>1 DEF Tell, PostInv, DeskInv, TaskInv, JobsInv, Open, PCs, Busy
<1>12. ASSUME NEW w \in Workers, Finish(w) PROVE TypeInv'
  <2>1. cur[w] \in Posts /\ retry[cur[w]] \in 0..MaxRetry
    BY <1>12 DEF Finish, JobsInv, TaskInv, Busy
  <2>2. TaskInv' /\ JobsInv'
    BY <1>12, <2>1, RowType, ReleaseType DEF Finish, TaskStates
  <2> QED
    BY <1>12, <2>2 DEF Finish, PostInv, DeskInv, AlertInv
<1>13. ASSUME NEW w \in Workers, MarkRetry(w) PROVE TypeInv'
  <2>1. cur[w] \in Posts /\ claim[w][cur[w]] \in 0..(MaxRetry - 1)
    BY <1>13, PostAuditAssumption DEF MarkRetry, JobsInv, Busy
  <2>2. TaskInv'
    <3>1. CASE Retried(w)
      <4>1. CASE Final(w)
        BY <2>1, <3>1, <4>1, PostAuditAssumption DEF Retried, SetRow, TaskInv, TaskStates, Open
      <4>2. CASE ~Final(w)
        BY <2>1, <3>1, <4>2, PostAuditAssumption
           DEF Retried, Final, SetRow, TaskInv, TaskStates, Open
      <4> QED
        BY <4>1, <4>2
    <3>2. CASE UNCHANGED taskVars
      BY <3>2 DEF TaskInv, Open
    <3> QED
      BY <1>13, <3>1, <3>2, Zenon DEF MarkRetry
  <2>3. JobsInv'
    <3>1. CASE Release(w, cur[w])
      BY <2>1, <3>1, ReleaseType
    <3>2. CASE /\ pc' = [pc EXCEPT ![w] = "hold"]
               /\ claim' = [claim EXCEPT ![w][cur[w]] = NotHeld]
               /\ plan' = [plan EXCEPT ![w] = "none"]
               /\ UNCHANGED cur
      BY <2>1, <3>2, PostAuditAssumption DEF JobsInv, PCs, Plans, Busy, NotHeld
    <3> QED
      BY <1>13, <3>1, <3>2, Zenon DEF MarkRetry
  <2>4. faults' \in 0..MaxFaults
    BY <1>13, PostAuditAssumption DEF MarkRetry, NoFault, Fault, AlertInv
  <2> QED
    BY <1>13, <2>2, <2>3, <2>4 DEF MarkRetry, PostInv, DeskInv, AlertInv
<1>14. ASSUME NEW w \in Workers, Hold(w) PROVE TypeInv'
  <2>1. cur[w] \in Posts
    BY <1>14 DEF Hold, JobsInv
  <2>2. PostInv' /\ AlertInv'
    <3>1. CASE SetStatus(cur[w], "pending") /\ RaiseAlert(cur[w])
      BY <2>1, <3>1, StatusType, RaiseAlertType DEF Statuses
    <3>2. CASE /\ Fault /\ UNCHANGED <<postVars, mishap>>
               /\ AlertRaised(cur[w]) \/ UNCHANGED <<cards, alert>>
      <4>1. MoreCards(cur[w]) \in [Actions -> 0..MaxCards]
        BY <2>1, PostAuditAssumption DEF MoreCards, AlertInv
      <4>2. faults' \in 0..MaxFaults
        BY <3>2, PostAuditAssumption DEF Fault, AlertInv
      <4> QED
        BY <2>1, <3>2, <4>1, <4>2 DEF AlertRaised, AlertInv, PostInv
    <3> QED
      BY <1>14, <3>1, <3>2, Zenon DEF Hold
  <2>3. JobsInv'
    BY <1>14, <2>1, ReleaseType DEF Hold
  <2> QED
    BY <1>14, <2>2, <2>3 DEF Hold, DeskInv, TaskInv, Open
<1>15. ASSUME NEW w \in Workers, Stumble(w) PROVE TypeInv'
  BY <1>15, PostAuditAssumption DEF Stumble, Fault, PostInv, DeskInv, AlertInv, TaskInv, JobsInv, Open, PCs, Busy
<1>16. ASSUME NEW w \in Workers, Abandon(w) PROVE TypeInv'
  <2>1. JobsInv'
    BY <1>16, PostAuditAssumption DEF Abandon, JobsInv, PCs, Plans, Busy, NotHeld
  <2>2. AlertInv'
    BY <1>16, PostAuditAssumption DEF Abandon, Fault, AlertInv, JobsInv
  <2> QED
    BY <1>16, <2>1, <2>2 DEF Abandon, PostInv, DeskInv, TaskInv, Open
<1>17. ASSUME NEW w \in Workers, NEW p \in Posts, Look(w, p) PROVE TypeInv'
  <2>1. JobsInv'
    <3>1. Verdicts(risk[p]) \subseteq {"pass", "hold", "alert"}
      BY DEF Verdicts
    <3> QED
      BY <1>17, <3>1 DEF Look, JobsInv, PCs, Plans, Busy, Holds, NotHeld
  <2> QED
    BY <1>17, <2>1, PostAuditAssumption DEF Look, NoFault, Fault, PostInv, DeskInv, AlertInv, TaskInv, Open
<1>18. ASSUME NEW s \in Staff, StaffWrite(s) PROVE TypeInv'
  <2>1. staff[s].post \in Posts /\ staff[s].status \in Statuses /\ staff[s].says \in Sayings
    BY <1>18 DEF StaffWrite, DeskInv
  <2>2. PostInv'
    BY <1>18, <2>1 DEF StaffWrite, PostInv
  <2>3. DeskInv'
    BY <1>18, <2>1 DEF StaffWrite, DeskInv, Nobody, Sayings
  <2> QED
    BY <1>18, <2>2, <2>3 DEF StaffWrite, AlertInv, TaskInv, JobsInv, Open
<1>19. ASSUME NEW s \in Staff, NEW p \in Posts, Review(s, p) PROVE TypeInv'
  <2>1. DeskInv'
    BY <1>19 DEF Review, Begin, DeskInv, Sayings, Statuses
  <2> QED
    BY <1>19, <2>1 DEF Review, Begin, PostInv, AlertInv, TaskInv, JobsInv, Open
<1>20. ASSUME NEW s \in Staff, NEW p \in Posts, Edit(s, p) PROVE TypeInv'
  <2>1. DeskInv'
    BY <1>20 DEF Edit, Begin, DeskInv, Sayings, Statuses, Found
  <2> QED
    BY <1>20, <2>1 DEF Edit, Begin, PostInv, AlertInv, TaskInv, JobsInv, Open
<1>21. ASSUME NEW s \in Staff, NEW p \in Posts, NEW a \in Actions, ClickCard(s, p, a) PROVE TypeInv'
  <2>1. DeskInv' /\ AlertInv'
    BY <1>21, PostAuditAssumption DEF ClickCard, DeskInv, AlertInv, Sayings, Statuses
  <2> QED
    BY <1>21, <2>1 DEF ClickCard, PostInv, TaskInv, JobsInv, Open
<1> QED
  BY <1>1, <1>2, <1>3, <1>4, <1>5, <1>6, <1>7, <1>8, <1>9, <1>10, <1>11, <1>12, <1>13,
     <1>14, <1>15, <1>16, <1>17, <1>18, <1>19, <1>20, <1>21, NextCases, Zenon

(* Whatever the audit, the authors and the operators do, every row and every
   job of the system holds values the code can write; in particular the retry
   count of an audit task never passes its maximum. *)
THEOREM TypeCorrect == Spec => []TypeOK
<1>1. TypeInv => TypeOK
  BY DEF TypeInv, TypeOK, PostInv, DeskInv, AlertInv, TaskInv, JobsInv, PCs, NotHeld
<1>2. TypeInv /\ [Next]_vars => TypeInv'
  BY TypeStep
<1> QED
  BY TypeInit, <1>1, <1>2, PTL DEF Spec

-----------------------------------------------------------------------------
(* Only a post that entered by the agent gate is ever queued, once, so whatever
   a job has in hand is such a post; and a post keeps its gate. *)
GateInv ==
    /\ \A p \in Posts : status[p] = "none" => gate[p] = "none"
    /\ \A p \in Posts : creating[p] = "task" => gate[p] = "agent" /\ taskState[p] = "none"
    /\ \A p \in Posts : taskState[p] # "none" => gate[p] = "agent"
    /\ \A w \in Workers, p \in Posts : claim[w][p] # -1 =>
          gate[p] = "agent" /\ taskState[p] # "none"

LEMMA GateInit == Init => GateInv
BY DEF Init, GateInv, NotHeld

LEMMA GateStep ==
    ASSUME TypeInv, GateInv, [Next]_vars
    PROVE  GateInv'
<1> USE DEF GateInv, postVars, taskVars, workerVars
<1>1. CASE UNCHANGED vars
  BY <1>1 DEF vars
<1>2. ASSUME NEW p \in Posts, CreatePost(p) PROVE GateInv'
  <2>1. status[p] = "none" /\ gate[p] = "none" /\ taskState[p] = "none"
        /\ \A w \in Workers : claim[w][p] = -1
    BY <1>2 DEF CreatePost
  <2>2. PICK g \in Gates, r \in Risks :
             /\ status' = [status EXCEPT ![p] = Gated(g, r).status]
             /\ gate' = [gate EXCEPT ![p] = g]
             /\ creating' = [creating EXCEPT ![p] = Gated(g, r).next]
    <3>1. \A s \in Settings : s.mode \in Modes
      BY PostAuditAssumption
    <3>2. \A s \in Settings : GatesOf(s) \subseteq Gates
      BY <3>1 DEF GatesOf, Gates, Modes
    <3> QED
      BY <1>2, <3>2 DEF CreatePost
  <2>3. Gated(g, r).status # "none" /\ (Gated(g, r).next = "task" => g = "agent")
    BY DEF Gated
  <2> QED
    BY <1>2, <2>1, <2>2, <2>3 DEF CreatePost, TypeInv, PostInv, DeskInv
<1>3. ASSUME NEW p \in Posts, EnqueueTask(p) PROVE GateInv'
  BY <1>3 DEF EnqueueTask, SetRow, TypeInv, DeskInv, TaskInv
<1>4. ASSUME NEW p \in Posts, AlertNewPost(p) PROVE GateInv'
  BY <1>4 DEF AlertNewPost, TypeInv, DeskInv
<1>5. ASSUME NEW p \in Posts, CreateCrash(p) PROVE GateInv'
  BY <1>5 DEF CreateCrash, TypeInv, DeskInv
<1>6. ASSUME NEW p \in Posts, FallDue(p) PROVE GateInv'
  BY <1>6 DEF FallDue
<1>7. ASSUME NEW p \in Posts, LeaseExpire(p) PROVE GateInv'
  BY <1>7 DEF LeaseExpire
<1>8. ASSUME NEW p \in Posts, Withdraw(p) PROVE GateInv'
  BY <1>8 DEF Withdraw, SetStatus, TypeInv, PostInv
<1>9. ASSUME NEW w \in Workers, Claim(w) PROVE GateInv'
  <2>1. PICK S \in SUBSET {p \in Posts : Claimable(p)} :
           /\ taskState' = [p \in Posts |-> IF p \in S THEN "processing" ELSE taskState[p]]
           /\ leased' = [p \in Posts |-> p \in S \/ leased[p]]
           /\ claim' = [claim EXCEPT ![w] =
                         [p \in Posts |-> IF p \in S THEN retry[p] ELSE NotHeld]]
    BY <1>9, ClaimSet
  <2>2. \A p \in S : taskState[p] # "none"
    BY <2>1 DEF Claimable
  <2> QED
    BY <1>9, <2>1, <2>2 DEF Claim, NotHeld, TypeInv, JobsInv
<1>10. ASSUME NEW w \in Workers, Apply(w) PROVE GateInv'
  <2>1. Verdict(plan[w]) # "none"
    BY DEF Verdict
  <2> QED
    BY <1>10, <2>1 DEF Apply, SetStatus, TypeInv, PostInv
<1>11. ASSUME NEW w \in Workers, Tell(w) PROVE GateInv'
  BY <1>11 DEF Tell
<1>12. ASSUME NEW w \in Workers, Finish(w) PROVE GateInv'
  <2>1. cur[w] \in Posts /\ claim[w][cur[w]] # -1
    BY <1>12 DEF Finish, TypeInv, JobsInv, Busy
  <2>2. \A p \in Posts : taskState'[p] = taskState[p] \/ (p = cur[w] /\ taskState'[p] # "none")
    BY <1>12 DEF Finish, SetRow, TypeInv, TaskInv
  <2>3. \A u \in Workers, p \in Posts : claim'[u][p] = claim[u][p] \/ claim'[u][p] = -1
    BY <1>12 DEF Finish, Release, NotHeld, TypeInv, JobsInv
  <2> QED
    BY <1>12, <2>1, <2>2, <2>3 DEF Finish
<1>13. ASSUME NEW w \in Workers, MarkRetry(w) PROVE GateInv'
  <2>1. cur[w] \in Posts /\ claim[w][cur[w]] # -1
    BY <1>13 DEF MarkRetry, TypeInv, JobsInv, Busy
  <2>2. \A p \in Posts : taskState'[p] = taskState[p] \/ (p = cur[w] /\ taskState'[p] # "none")
    BY <1>13 DEF MarkRetry, Retried, SetRow, TypeInv, TaskInv
  <2>3. \A u \in Workers, p \in Posts : claim'[u][p] = claim[u][p] \/ claim'[u][p] = -1
    BY <1>13 DEF MarkRetry, Release, NotHeld, TypeInv, JobsInv
  <2> QED
    BY <1>13, <2>1, <2>2, <2>3 DEF MarkRetry
<1>14. ASSUME NEW w \in Workers, Hold(w) PROVE GateInv'
  BY <1>14 DEF Hold, SetStatus, Release, NotHeld, TypeInv, PostInv, JobsInv
<1>15. ASSUME NEW w \in Workers, Stumble(w) PROVE GateInv'
  BY <1>15 DEF Stumble
<1>16. ASSUME NEW w \in Workers, Abandon(w) PROVE GateInv'
  BY <1>16 DEF Abandon, NotHeld, TypeInv, JobsInv
<1>17. ASSUME NEW w \in Workers, NEW p \in Posts, Look(w, p) PROVE GateInv'
  BY <1>17 DEF Look
<1>18. ASSUME NEW s \in Staff, StaffWrite(s) PROVE GateInv'
  <2>1. staff[s].post \in Posts /\ staff[s].status # "none"
    BY <1>18 DEF StaffWrite, TypeInv, DeskInv, Statuses
  <2> QED
    BY <1>18, <2>1 DEF StaffWrite, TypeInv, PostInv
<1>19. ASSUME NEW s \in Staff, NEW p \in Posts, Review(s, p) PROVE GateInv'
  BY <1>19 DEF Review, Begin
<1>20. ASSUME NEW s \in Staff, NEW p \in Posts, Edit(s, p) PROVE GateInv'
  BY <1>20 DEF Edit, Begin
<1>21. ASSUME NEW s \in Staff, NEW p \in Posts, NEW a \in Actions, ClickCard(s, p, a) PROVE GateInv'
  BY <1>21 DEF ClickCard
<1> QED
  BY <1>1, <1>2, <1>3, <1>4, <1>5, <1>6, <1>7, <1>8, <1>9, <1>10, <1>11,
     <1>12, <1>13, <1>14, <1>15, <1>16, <1>17, <1>18, <1>19, <1>20, <1>21, NextCases, Zenon

-----------------------------------------------------------------------------
(* Posts that only a person may publish. *)
Guarded(p) ==
    gate[p] = "manual" \/ (gate[p] # "open" /\ risk[p] = "high" /\ "edited" \notin said[p])

(* A job passes no post of high rule risk, and an operator's request that will
   publish or reject says so, or repeats what the post already was. *)
SayInv ==
    /\ \A w \in Workers : plan[w] = "pass" =>
          pc[w] \in Busy /\ (risk[cur[w]] # "high" \/ "edited" \in said[cur[w]])
    /\ \A s \in Staff : staff[s].kind # "idle" =>
          /\ status[staff[s].post] # "none"
          /\ staff[s].status = "visible" /\ Guarded(staff[s].post) =>
                staff[s].says = "visible" \/ "visible" \in said[staff[s].post]
          /\ staff[s].status = "rejected" =>
                staff[s].says = "rejected" \/ "rejected" \in said[staff[s].post]
    /\ \A p \in Posts : status[p] = "visible" /\ Guarded(p) => "visible" \in said[p]
    /\ \A p \in Posts : status[p] = "rejected" => "rejected" \in said[p]

LEMMA SayInit == Init => SayInv
BY DEF Init, SayInv, Nobody

(* Whatever campus-agent answers, the word rules' high risk keeps a post back. *)
LEMMA PassNotHigh ==
    ASSUME NEW r \in Risks, "pass" \in Verdicts(r)
    PROVE  r # "high"
<1>1. CASE r = "low"
  BY <1>1
<1>2. CASE r # "low"
  <2>1. PICK a \in Answers(r) : AutoPass(a, r)
    BY <1>2 DEF Verdicts
  <2>2. a.rule \in {"none", r}
    BY <2>1 DEF Answers
  <2> QED
    BY <2>1, <2>2 DEF AutoPass
<1> QED
  BY <1>1, <1>2

LEMMA SayStep ==
    ASSUME TypeInv, GateInv, SayInv, [Next]_vars
    PROVE  SayInv'
<1> USE DEF SayInv, Guarded, postVars, taskVars, workerVars
<1>1. CASE UNCHANGED vars
  BY <1>1 DEF vars
<1>2. ASSUME NEW p \in Posts, CreatePost(p) PROVE SayInv'
  <2>1. status[p] = "none" /\ gate[p] = "none" /\ \A w \in Workers : claim[w][p] = -1
    BY <1>2 DEF CreatePost, GateInv
  <2>2. \A w \in Workers : plan[w] = "pass" => cur[w] \in Posts \ {p}
    BY <2>1 DEF TypeInv, JobsInv, Busy
  <2>3. PICK g \in Gates, r \in Risks :
             /\ status' = [status EXCEPT ![p] = Gated(g, r).status]
             /\ gate' = [gate EXCEPT ![p] = g]
             /\ risk' = [risk EXCEPT ![p] = r]
    <3>1. \A s \in Settings : s.mode \in Modes
      BY PostAuditAssumption
    <3>2. \A s \in Settings : GatesOf(s) \subseteq Gates
      BY <3>1 DEF GatesOf, Gates, Modes
    <3> QED
      BY <1>2, <3>2 DEF CreatePost
  <2>4. /\ Gated(g, r).status \in {"visible", "pending"}
        /\ Gated(g, r).status = "visible" => g = "open" \/ (g # "manual" /\ r # "high")
    BY DEF Gated
  <2>5. \A q \in Posts : q # p => status'[q] = status[q] /\ gate'[q] = gate[q] /\ risk'[q] = risk[q]
    BY <2>3 DEF TypeInv, PostInv
  <2>6. status'[p] = Gated(g, r).status /\ gate'[p] = g /\ risk'[p] = r
    BY <2>3 DEF TypeInv, PostInv
  <2>7. \A s \in Staff : staff[s].kind # "idle" => staff[s].post \in Posts \ {p}
    BY <2>1 DEF TypeInv, DeskInv
  <2> QED
    BY <1>2, <2>2, <2>4, <2>5, <2>6, <2>7 DEF CreatePost
<1>3. ASSUME NEW p \in Posts, EnqueueTask(p) PROVE SayInv'
  BY <1>3 DEF EnqueueTask
<1>4. ASSUME NEW p \in Posts, AlertNewPost(p) PROVE SayInv'
  BY <1>4 DEF AlertNewPost
<1>5. ASSUME NEW p \in Posts, CreateCrash(p) PROVE SayInv'
  BY <1>5 DEF CreateCrash
<1>6. ASSUME NEW p \in Posts, FallDue(p) PROVE SayInv'
  BY <1>6 DEF FallDue
<1>7. ASSUME NEW p \in Posts, LeaseExpire(p) PROVE SayInv'
  BY <1>7 DEF LeaseExpire
<1>8. ASSUME NEW p \in Posts, Withdraw(p) PROVE SayInv'
  BY <1>8 DEF Withdraw, SetStatus, TypeInv, PostInv, DeskInv
<1>9. ASSUME NEW w \in Workers, Claim(w) PROVE SayInv'
  BY <1>9 DEF Claim, Busy, TypeInv, JobsInv
<1>10. ASSUME NEW w \in Workers, Apply(w) PROVE SayInv'
  <2>1. cur[w] \in Posts /\ gate[cur[w]] = "agent"
    BY <1>10 DEF Apply, TypeInv, JobsInv, GateInv, Busy
  <2>2. /\ Verdict(plan[w]) \in {"visible", "pending"}
        /\ Verdict(plan[w]) = "visible" => risk[cur[w]] # "high" \/ "edited" \in said[cur[w]]
    BY <1>10 DEF Verdict
  <2> QED
    BY <1>10, <2>1, <2>2 DEF Apply, SetStatus, Busy, TypeInv, PostInv, JobsInv
<1>11. ASSUME NEW w \in Workers, Tell(w) PROVE SayInv'
  BY <1>11 DEF Tell, Busy, TypeInv, JobsInv
<1>12. ASSUME NEW w \in Workers, Finish(w) PROVE SayInv'
  BY <1>12 DEF Finish, Release, TypeInv, JobsInv
<1>13. ASSUME NEW w \in Workers, MarkRetry(w) PROVE SayInv'
  <2>1. /\ plan'[w] = "none"
        /\ \A u \in Workers : u # w => plan'[u] = plan[u] /\ pc'[u] = pc[u] /\ cur'[u] = cur[u]
    BY <1>13 DEF MarkRetry, Release, TypeInv, JobsInv
  <2> QED
    BY <1>13, <2>1 DEF MarkRetry
<1>14. ASSUME NEW w \in Workers, Hold(w) PROVE SayInv'
  <2>1. /\ plan'[w] = "none"
        /\ \A u \in Workers : u # w => plan'[u] = plan[u] /\ pc'[u] = pc[u] /\ cur'[u] = cur[u]
    BY <1>14 DEF Hold, Release, TypeInv, JobsInv
  <2>2. UNCHANGED postVars \/ SetStatus(cur[w], "pending")
    BY <1>14 DEF Hold
  <2>3. UNCHANGED <<staff, said>>
    BY <1>14, Zenon DEF Hold
  <2>4. /\ UNCHANGED <<gate, risk>>
        /\ \A p \in Posts : status'[p] = status[p] \/ status'[p] = "pending"
    BY <2>2 DEF SetStatus, TypeInv, PostInv
  <2> QED
    BY <2>1, <2>3, <2>4 DEF TypeInv, DeskInv
<1>15. ASSUME NEW w \in Workers, Stumble(w) PROVE SayInv'
  BY <1>15 DEF Stumble, Busy, TypeInv, JobsInv
<1>16. ASSUME NEW w \in Workers, Abandon(w) PROVE SayInv'
  BY <1>16 DEF Abandon, TypeInv, JobsInv
<1>17. ASSUME NEW w \in Workers, NEW p \in Posts, Look(w, p) PROVE SayInv'
  <2>1. risk[p] \in Risks
    BY DEF TypeInv, PostInv
  <2>2. plan'[w] = "pass" => pc'[w] \in Busy /\ cur'[w] = p /\ risk[p] # "high"
    BY <1>17, <2>1, PassNotHigh DEF Look, Busy, TypeInv, JobsInv
  <2>3. \A u \in Workers : u # w => plan'[u] = plan[u] /\ pc'[u] = pc[u] /\ cur'[u] = cur[u]
    BY <1>17 DEF Look, TypeInv, JobsInv
  <2> QED
    BY <1>17, <2>2, <2>3 DEF Look
<1>18. ASSUME NEW s \in Staff, StaffWrite(s) PROVE SayInv'
  <2>1. PICK c \in Posts : c = staff[s].post /\ staff[s].status # "none"
    BY <1>18 DEF StaffWrite, TypeInv, DeskInv, Statuses
  <2>2. \A p \in Posts : said[p] \subseteq said'[p]
    BY <1>18 DEF StaffWrite, TypeInv, DeskInv
  <2>3. staff[s].says \in said'[c]
    BY <1>18, <2>1 DEF StaffWrite, TypeInv, DeskInv
  <2>4. \A u \in Staff : staff'[u] = IF u = s THEN Nobody ELSE staff[u]
    BY <1>18 DEF StaffWrite, TypeInv, DeskInv
  <2>5. \A p \in Posts : p # c => status'[p] = status[p] /\ risk'[p] = risk[p]
    BY <1>18, <2>1 DEF StaffWrite, TypeInv, PostInv
  <2>6. status'[c] = staff[s].status /\ (risk'[c] = risk[c] \/ "edited" \in said'[c])
    BY <1>18, <2>1 DEF StaffWrite, TypeInv, PostInv, DeskInv
  <2>7. UNCHANGED <<gate, plan, pc, cur>>
    BY <1>18 DEF StaffWrite
  <2>8. \A p \in Posts : Guarded(p)' => Guarded(p)
    BY <2>1, <2>2, <2>5, <2>6, <2>7
  <2>9. \A w \in Workers : plan'[w] = "pass" =>
          pc'[w] \in Busy /\ (risk'[cur'[w]] # "high" \/ "edited" \in said'[cur'[w]])
    BY <2>2, <2>5, <2>6, <2>7 DEF TypeInv, JobsInv
  <2>10. \A u \in Staff : staff'[u].kind # "idle" =>
          /\ status'[staff'[u].post] # "none"
          /\ staff'[u].status = "visible" /\ Guarded(staff[u].post)' =>
                staff'[u].says = "visible" \/ "visible" \in said'[staff'[u].post]
          /\ staff'[u].status = "rejected" =>
                staff'[u].says = "rejected" \/ "rejected" \in said'[staff'[u].post]
    BY <2>1, <2>2, <2>4, <2>5, <2>6, <2>8 DEF Nobody, TypeInv, DeskInv
  <2>11. \A p \in Posts :
          /\ status'[p] = "visible" /\ Guarded(p)' => "visible" \in said'[p]
          /\ status'[p] = "rejected" => "rejected" \in said'[p]
    BY <1>18, <2>1, <2>2, <2>3, <2>5, <2>6, <2>8 DEF StaffWrite
  <2> QED
    BY <2>9, <2>10, <2>11
<1>19. ASSUME NEW s \in Staff, NEW p \in Posts, Review(s, p) PROVE SayInv'
  BY <1>19 DEF Review, Begin, Found, Statuses, TypeInv, DeskInv
<1>20. ASSUME NEW s \in Staff, NEW p \in Posts, Edit(s, p) PROVE SayInv'
  BY <1>20 DEF Edit, Begin, Found, Statuses, TypeInv, DeskInv
<1>21. ASSUME NEW s \in Staff, NEW p \in Posts, NEW a \in Actions, ClickCard(s, p, a) PROVE SayInv'
  BY <1>21 DEF ClickCard, CardTarget, Found, TypeInv, DeskInv
<1> QED
  BY <1>1, <1>2, <1>3, <1>4, <1>5, <1>6, <1>7, <1>8, <1>9, <1>10, <1>11,
     <1>12, <1>13, <1>14, <1>15, <1>16, <1>17, <1>18, <1>19, <1>20, <1>21, NextCases, Zenon

(* A post held for manual review, or rated high by the word rules outside mode
   "off", is public only if a person made it visible. *)
THEOREM PublicIsPersonal == Spec => []PublicNeedsPerson
<1>1. SayInv => PublicNeedsPerson
  BY DEF SayInv, Guarded, PublicNeedsPerson
<1>2. TypeInv /\ GateInv /\ SayInv /\ [Next]_vars => (TypeInv /\ GateInv /\ SayInv)'
  BY TypeStep, GateStep, SayStep
<1> QED
  BY TypeInit, GateInit, SayInit, <1>1, <1>2, PTL DEF Spec

(* The audit never rejects a post by itself. *)
THEOREM RejectIsPersonal == Spec => []RejectNeedsPerson
<1>1. SayInv => RejectNeedsPerson
  BY DEF SayInv, RejectNeedsPerson
<1>2. TypeInv /\ GateInv /\ SayInv /\ [Next]_vars => (TypeInv /\ GateInv /\ SayInv)'
  BY TypeStep, GateStep, SayStep
<1> QED
  BY TypeInit, GateInit, SayInit, <1>1, <1>2, PTL DEF Spec

-----------------------------------------------------------------------------
(* A claim is exclusive, and stands for a leased row. *)
ClaimInv ==
    /\ \A w \in Workers, p \in Posts : claim[w][p] # -1 => taskState[p] = "processing" /\ leased[p]
    /\ \A w, u \in Workers, p \in Posts : w # u /\ claim[w][p] # -1 => claim[u][p] = -1

LEMMA ClaimInit == Init => ClaimInv
BY DEF Init, ClaimInv, NotHeld

LEMMA ClaimStep ==
    ASSUME TypeInv, GateInv, ClaimInv, LeaseOutlivesRun, [Next]_vars
    PROVE  ClaimInv'
<1> USE DEF ClaimInv, postVars, taskVars, workerVars
<1>1. CASE UNCHANGED vars
  BY <1>1 DEF vars
<1>2. ASSUME NEW p \in Posts, CreatePost(p) PROVE ClaimInv'
  BY <1>2 DEF CreatePost
<1>3. ASSUME NEW p \in Posts, EnqueueTask(p) PROVE ClaimInv'
  <2>1. \A w \in Workers : claim[w][p] = -1
    BY <1>3 DEF EnqueueTask, GateInv
  <2>2. \A q \in Posts : q # p => taskState'[q] = taskState[q] /\ leased'[q] = leased[q]
    BY <1>3 DEF EnqueueTask, SetRow, TypeInv, TaskInv
  <2> QED
    BY <1>3, <2>1, <2>2 DEF EnqueueTask
<1>4. ASSUME NEW p \in Posts, AlertNewPost(p) PROVE ClaimInv'
  BY <1>4 DEF AlertNewPost
<1>5. ASSUME NEW p \in Posts, CreateCrash(p) PROVE ClaimInv'
  BY <1>5 DEF CreateCrash
<1>6. ASSUME NEW p \in Posts, FallDue(p) PROVE ClaimInv'
  BY <1>6 DEF FallDue
<1>7. ASSUME NEW p \in Posts, LeaseExpire(p) PROVE ClaimInv'
  BY <1>7 DEF LeaseExpire, Holds, NotHeld, TypeInv, TaskInv
<1>8. ASSUME NEW p \in Posts, Withdraw(p) PROVE ClaimInv'
  BY <1>8 DEF Withdraw
<1>9. ASSUME NEW w \in Workers, Claim(w) PROVE ClaimInv'
  <2>1. PICK S \in SUBSET {p \in Posts : Claimable(p)} :
           /\ taskState' = [p \in Posts |-> IF p \in S THEN "processing" ELSE taskState[p]]
           /\ leased' = [p \in Posts |-> p \in S \/ leased[p]]
           /\ claim' = [claim EXCEPT ![w] =
                         [p \in Posts |-> IF p \in S THEN retry[p] ELSE NotHeld]]
    BY <1>9, ClaimSet
  <2>2. \A p \in S, u \in Workers : p \in Posts /\ claim[u][p] = -1
    BY <2>1 DEF Claimable
  <2> QED
    BY <1>9, <2>1, <2>2 DEF NotHeld, TypeInv, JobsInv
<1>10. ASSUME NEW w \in Workers, Apply(w) PROVE ClaimInv'
  BY <1>10 DEF Apply
<1>11. ASSUME NEW w \in Workers, Tell(w) PROVE ClaimInv'
  BY <1>11 DEF Tell
<1>12. ASSUME NEW w \in Workers, Finish(w) PROVE ClaimInv'
  <2>1. cur[w] \in Posts /\ claim[w][cur[w]] # -1
    BY <1>12 DEF Finish, TypeInv, JobsInv, Busy
  <2>2. \A p \in Posts : p # cur[w] => taskState'[p] = taskState[p] /\ leased'[p] = leased[p]
    BY <1>12 DEF Finish, SetRow, TypeInv, TaskInv
  <2>3. /\ claim'[w][cur[w]] = -1
        /\ \A u \in Workers, p \in Posts : claim'[u][p] = claim[u][p] \/ claim'[u][p] = -1
    <3>1. claim' = [claim EXCEPT ![w][cur[w]] = -1]
      BY <1>12 DEF Finish, Release, NotHeld
    <3> QED
      BY <2>1, <3>1 DEF TypeInv, JobsInv
  <2> QED
    BY <2>1, <2>2, <2>3
<1>13. ASSUME NEW w \in Workers, MarkRetry(w) PROVE ClaimInv'
  <2>1. cur[w] \in Posts /\ claim[w][cur[w]] # -1
    BY <1>13 DEF MarkRetry, TypeInv, JobsInv, Busy
  <2>2. \A p \in Posts : p # cur[w] => taskState'[p] = taskState[p] /\ leased'[p] = leased[p]
    BY <1>13 DEF MarkRetry, Retried, SetRow, TypeInv, TaskInv
  <2>3. /\ claim'[w][cur[w]] = -1
        /\ \A u \in Workers, p \in Posts : claim'[u][p] = claim[u][p] \/ claim'[u][p] = -1
    <3>1. claim' = [claim EXCEPT ![w][cur[w]] = -1]
      BY <1>13 DEF MarkRetry, Release, NotHeld
    <3> QED
      BY <2>1, <3>1 DEF TypeInv, JobsInv
  <2> QED
    BY <2>1, <2>2, <2>3
<1>14. ASSUME NEW w \in Workers, Hold(w) PROVE ClaimInv'
  <2>1. \A u \in Workers, p \in Posts : claim'[u][p] = claim[u][p] \/ claim'[u][p] = -1
    BY <1>14 DEF Hold, Release, NotHeld, TypeInv, JobsInv
  <2> QED
    BY <1>14, <2>1 DEF Hold
<1>15. ASSUME NEW w \in Workers, Stumble(w) PROVE ClaimInv'
  BY <1>15 DEF Stumble
<1>16. ASSUME NEW w \in Workers, Abandon(w) PROVE ClaimInv'
  BY <1>16 DEF Abandon, NotHeld, TypeInv, JobsInv
<1>17. ASSUME NEW w \in Workers, NEW p \in Posts, Look(w, p) PROVE ClaimInv'
  BY <1>17 DEF Look
<1>18. ASSUME NEW s \in Staff, StaffWrite(s) PROVE ClaimInv'
  BY <1>18 DEF StaffWrite
<1>19. ASSUME NEW s \in Staff, NEW p \in Posts, Review(s, p) PROVE ClaimInv'
  BY <1>19 DEF Review, Begin
<1>20. ASSUME NEW s \in Staff, NEW p \in Posts, Edit(s, p) PROVE ClaimInv'
  BY <1>20 DEF Edit, Begin
<1>21. ASSUME NEW s \in Staff, NEW p \in Posts, NEW a \in Actions, ClickCard(s, p, a) PROVE ClaimInv'
  BY <1>21 DEF ClickCard
<1> QED
  BY <1>1, <1>2, <1>3, <1>4, <1>5, <1>6, <1>7, <1>8, <1>9, <1>10, <1>11,
     <1>12, <1>13, <1>14, <1>15, <1>16, <1>17, <1>18, <1>19, <1>20, <1>21, NextCases, Zenon

(* With the job's deadline below its lease, two jobs never work on one task,
   although no mark of the queue checks who holds the row. *)
THEOREM ClaimsAreExclusive ==
    ASSUME LeaseOutlivesRun
    PROVE  Spec => []ClaimIsExclusive
<1>1. ClaimInv => ClaimIsExclusive
  BY DEF ClaimInv, ClaimIsExclusive, Holds, NotHeld
<1>2. TypeInv /\ GateInv /\ ClaimInv /\ [Next]_vars => (TypeInv /\ GateInv /\ ClaimInv)'
  BY TypeStep, GateStep, ClaimStep
<1> QED
  BY TypeInit, GateInit, ClaimInit, <1>1, <1>2, PTL DEF Spec

-----------------------------------------------------------------------------
(* The operators were told of the post, or its alert was lost, or an editor has
   put it back to pending. *)
Warned(p) == alert[p] \/ p \in mishap \/ "pending" \in said[p]

(* A job settles a task only when its post is decided or warned of. *)
WatchInv ==
    /\ \A s \in Staff : staff[s].kind # "idle" /\ staff[s].status = "pending" =>
          staff[s].says = "pending"
    /\ \A w \in Workers : pc[w] = "finish" => status[cur[w]] # "pending" \/ Warned(cur[w])
    /\ \A p \in Posts : status[p] = "pending" =>
          creating[p] # "no" \/ Open(p) \/ Warned(p) \/ \E w \in Workers : pc[w] = "hold" /\ cur[w] = p

LEMMA WatchInit == Init => WatchInv
BY DEF Init, WatchInv, Nobody

(* What warns of a post stays. *)
LEMMA RaiseAlertWarns ==
    ASSUME AlertInv, NEW p \in Posts, RaiseAlert(p), UNCHANGED said
    PROVE  /\ Warned(p)'
           /\ \A q \in Posts : Warned(q) => Warned(q)'
BY DEF RaiseAlert, AlertRaised, AlertInv, Warned

LEMMA WatchStep ==
    ASSUME TypeInv, GateInv, ClaimInv, WatchInv, [Next]_vars
    PROVE  WatchInv'
<1> USE DEF WatchInv, postVars, taskVars, workerVars
<1>1. CASE UNCHANGED vars
  BY <1>1 DEF vars, Warned, Open
<1>2. ASSUME NEW p \in Posts, CreatePost(p) PROVE WatchInv'
  <2>1. status[p] = "none" /\ \A w \in Workers : claim[w][p] = -1
    BY <1>2 DEF CreatePost, GateInv
  <2>2. \A w \in Workers : pc[w] = "finish" => cur[w] \in Posts \ {p}
    BY <2>1 DEF TypeInv, JobsInv, Busy
  <2>3. \E g \in Gates, r \in Risks :
           /\ status' = [status EXCEPT ![p] = Gated(g, r).status]
           /\ creating' = [creating EXCEPT ![p] = Gated(g, r).next]
    <3>1. \A s \in Settings : s.mode \in Modes
      BY PostAuditAssumption
    <3>2. \A s \in Settings : GatesOf(s) \subseteq Gates
      BY <3>1 DEF GatesOf, Gates, Modes
    <3> QED
      BY <1>2, <3>2 DEF CreatePost
  <2>4. \A g \in Gates, r \in Risks : Gated(g, r).status # "pending" \/ Gated(g, r).next # "no"
    BY DEF Gated
  <2> QED
    BY <1>2, <2>2, <2>3, <2>4 DEF CreatePost, Warned, Open, TypeInv, PostInv, DeskInv
<1>3. ASSUME NEW p \in Posts, EnqueueTask(p) PROVE WatchInv'
  <2>1. creating'[p] # "no" \/ Open(p)'
    BY <1>3 DEF EnqueueTask, SetRow, Open, TypeInv, DeskInv, TaskInv
  <2>2. \A q \in Posts : q # p => creating'[q] = creating[q] /\ taskState'[q] = taskState[q]
    BY <1>3 DEF EnqueueTask, SetRow, TypeInv, DeskInv, TaskInv
  <2> QED
    BY <1>3, <2>1, <2>2 DEF EnqueueTask, Warned, Open
<1>4. ASSUME NEW p \in Posts, AlertNewPost(p) PROVE WatchInv'
  <2>1. Warned(p)' /\ \A q \in Posts : Warned(q) => Warned(q)'
    BY <1>4, RaiseAlertWarns DEF AlertNewPost, TypeInv
  <2>2. \A q \in Posts : q # p => creating'[q] = creating[q]
    BY <1>4 DEF AlertNewPost, TypeInv, DeskInv
  <2> QED
    BY <1>4, <2>1, <2>2 DEF AlertNewPost, Open, TypeInv, JobsInv, Busy
<1>5. ASSUME NEW p \in Posts, CreateCrash(p) PROVE WatchInv'
  BY <1>5 DEF CreateCrash, Warned, Open, TypeInv, DeskInv
<1>6. ASSUME NEW p \in Posts, FallDue(p) PROVE WatchInv'
  BY <1>6 DEF FallDue, Warned, Open
<1>7. ASSUME NEW p \in Posts, LeaseExpire(p) PROVE WatchInv'
  BY <1>7 DEF LeaseExpire, Warned, Open
<1>8. ASSUME NEW p \in Posts, Withdraw(p) PROVE WatchInv'
  BY <1>8 DEF Withdraw, SetStatus, Warned, Open, TypeInv, PostInv, DeskInv, JobsInv, Busy
<1>9. ASSUME NEW w \in Workers, Claim(w) PROVE WatchInv'
  <2>1. \A p \in Posts : Open(p) => Open(p)'
    BY <1>9, ClaimSet DEF Open
  <2>2. \A u \in Workers : pc'[u] = pc[u] \/ (pc[u] = "idle" /\ pc'[u] = "pick")
    BY <1>9 DEF Claim, TypeInv, JobsInv
  <2> QED
    BY <1>9, <2>1, <2>2 DEF Claim, Warned
<1>10. ASSUME NEW w \in Workers, Apply(w) PROVE WatchInv'
  <2>1. cur[w] \in Posts /\ claim[w][cur[w]] # -1
    BY <1>10 DEF Apply, TypeInv, JobsInv, Busy
  <2>2. \A u \in Workers : u # w /\ pc[u] = "finish" => cur[u] \in Posts \ {cur[w]}
    BY <2>1 DEF ClaimInv, TypeInv, JobsInv, Busy
  <2>3. Open(cur[w])
    BY <2>1 DEF ClaimInv, Open
  <2>4. Verdict(plan[w]) = "pending" \/ (plan[w] = "pass" /\ Verdict(plan[w]) = "visible")
    BY DEF Verdict
  <2>5. /\ \A q \in Posts : status'[q] = IF q = cur[w] THEN Verdict(plan[w]) ELSE status[q]
        /\ \A u \in Workers : pc'[u] = IF u # w THEN pc[u]
                                      ELSE IF plan[w] = "pass" THEN "finish" ELSE "tell"
        /\ \A q \in Posts : Open(q)' = Open(q) /\ Warned(q)' = Warned(q)
        /\ UNCHANGED <<cur, staff, creating>>
    BY <1>10 DEF Apply, SetStatus, Warned, Open, TypeInv, PostInv, JobsInv
  <2>6. pc[w] = "apply"
    BY <1>10 DEF Apply
  <2>7. \A u \in Workers : pc'[u] = "finish" => status'[cur'[u]] # "pending" \/ Warned(cur[u])'
    <3>1. plan[w] = "pass" => status'[cur[w]] # "pending"
      BY <2>1, <2>4, <2>5 DEF Verdict
    <3>2. \A u \in Workers : u # w /\ pc[u] = "finish" => status'[cur[u]] = status[cur[u]]
      BY <2>2, <2>5
    <3> QED
      BY <2>2, <2>5, <3>1, <3>2 DEF Warned
  <2>8. \A q \in Posts : status'[q] = "pending" =>
          creating'[q] # "no" \/ Open(q)' \/ Warned(q)' \/ \E u \in Workers : pc'[u] = "hold" /\ cur'[u] = q
    BY <2>3, <2>5, <2>6
  <2> QED
    BY <2>5, <2>7, <2>8
<1>11. ASSUME NEW w \in Workers, Tell(w) PROVE WatchInv'
  <2>1. cur[w] \in Posts
    BY <1>11 DEF Tell, TypeInv, JobsInv, Busy
  <2>2. Warned(cur[w])' /\ \A q \in Posts : Warned(q) => Warned(q)'
    BY <1>11, <2>1, RaiseAlertWarns DEF Tell, TypeInv
  <2>3. \A u \in Workers : pc'[u] = IF u = w THEN "finish" ELSE pc[u]
    BY <1>11 DEF Tell, TypeInv, JobsInv
  <2> QED
    BY <1>11, <2>1, <2>2, <2>3 DEF Tell, Open, TypeInv, JobsInv, Busy
<1>12. ASSUME NEW w \in Workers, Finish(w) PROVE WatchInv'
  <2>1. cur[w] \in Posts
    BY <1>12 DEF Finish, TypeInv, JobsInv, Busy
  <2>2. \A q \in Posts : q # cur[w] => taskState'[q] = taskState[q]
    BY <1>12 DEF Finish, SetRow, TypeInv, TaskInv
  <2>3. /\ pc'[w] \in {"pick", "idle"}
        /\ \A u \in Workers : u # w => pc'[u] = pc[u] /\ cur'[u] = cur[u]
    BY <1>12 DEF Finish, Release, TypeInv, JobsInv
  <2>4. UNCHANGED <<status, creating, staff, alert, mishap, said>>
    BY <1>12 DEF Finish
  <2>5. pc[w] = "finish"
    BY <1>12 DEF Finish
  <2> QED
    BY <2>1, <2>2, <2>3, <2>4, <2>5 DEF Open, Warned
<1>13. ASSUME NEW w \in Workers, MarkRetry(w) PROVE WatchInv'
  <2>1. PICK c \in Posts : c = cur[w] /\ taskState[c] = "processing" /\ pc[w] = "fail"
    BY <1>13 DEF MarkRetry, TypeInv, JobsInv, ClaimInv, Busy
  <2>2. /\ \A q \in Posts : q # c => taskState'[q] = taskState[q]
        /\ Open(c)' \/ Final(w)
    <3>1. CASE Retried(w)
      BY <2>1, <3>1 DEF Retried, SetRow, Open, TypeInv, TaskInv
    <3>2. CASE UNCHANGED taskVars
      BY <2>1, <3>2 DEF Open
    <3> QED
      BY <1>13, <3>1, <3>2, Zenon DEF MarkRetry
  <2>3. /\ \A u \in Workers : u # w => pc'[u] = pc[u] /\ cur'[u] = cur[u]
        /\ IF Final(w) THEN pc'[w] = "hold" /\ cur'[w] = c ELSE pc'[w] \in {"pick", "idle"}
    BY <1>13, <2>1 DEF MarkRetry, Release, TypeInv, JobsInv
  <2>4. UNCHANGED <<status, creating, staff, alert, mishap, said>>
    BY <1>13 DEF MarkRetry
  <2>5. \A u \in Workers : pc'[u] = "finish" => u # w /\ pc[u] = "finish"
    BY <2>3
  <2>6. \A u \in Workers : pc[u] = "hold" => pc'[u] = "hold" /\ cur'[u] = cur[u]
    BY <2>1, <2>3
  <2> QED
    BY <2>1, <2>2, <2>3, <2>4, <2>5, <2>6 DEF Open, Warned
<1>14. ASSUME NEW w \in Workers, Hold(w) PROVE WatchInv'
  <2>1. PICK c \in Posts : c = cur[w] /\ pc[w] = "hold"
    BY <1>14 DEF Hold, TypeInv, JobsInv
  <2>2. /\ pc'[w] \in {"pick", "idle"}
        /\ \A u \in Workers : u # w => pc'[u] = pc[u] /\ cur'[u] = cur[u]
    BY <1>14 DEF Hold, Release, TypeInv, JobsInv
  <2>3. UNCHANGED <<creating, taskState, staff, said>>
    BY <1>14, Zenon DEF Hold
  <2>4. /\ \A q \in Posts : Warned(q) => Warned(q)'
        /\ \A q \in Posts : q # c => status'[q] = status[q]
        /\ status'[c] # "pending" \/ Warned(c)'
    <3>1. CASE SetStatus(c, "pending") /\ RaiseAlert(c)
      <4>1. Warned(c)' /\ \A q \in Posts : Warned(q) => Warned(q)'
        BY <2>1, <2>3, <3>1, RaiseAlertWarns DEF TypeInv
      <4>2. \A q \in Posts : q # c => status'[q] = status[q]
        BY <2>1, <3>1 DEF SetStatus, TypeInv, PostInv
      <4> QED
        BY <4>1, <4>2
    <3>2. CASE /\ UNCHANGED <<postVars, mishap>>
               /\ IF Found(c) THEN AlertRaised(c) ELSE UNCHANGED <<cards, alert>>
      <4>1. \A q \in Posts : alert[q] => alert'[q]
        BY <3>2 DEF AlertRaised, TypeInv, AlertInv
      <4>2. status[c] = "pending" => alert'[c]
        BY <2>1, <3>2 DEF Found, Statuses, AlertRaised, TypeInv, AlertInv
      <4> QED
        BY <2>1, <2>3, <3>2, <4>1, <4>2 DEF Warned
    <3> QED
      BY <1>14, <2>1, <3>1, <3>2, Zenon DEF Hold
  <2>5. \A u \in Workers : pc'[u] = "finish" =>
          status'[cur'[u]] # "pending" \/ Warned(cur[u])'
    BY <2>1, <2>2, <2>4 DEF TypeInv, JobsInv, Busy
  <2>6. \A q \in Posts : Open(q)' = Open(q)
    BY <2>3 DEF Open
  <2>7. \A q \in Posts : status'[q] = "pending" =>
          creating'[q] # "no" \/ Open(q)' \/ Warned(q)' \/ \E u \in Workers : pc'[u] = "hold" /\ cur'[u] = q
    BY <2>1, <2>2, <2>3, <2>4, <2>6
  <2> QED
    BY <2>3, <2>5, <2>7
<1>15. ASSUME NEW w \in Workers, Stumble(w) PROVE WatchInv'
  BY <1>15 DEF Stumble, Warned, Open, TypeInv, JobsInv
<1>16. ASSUME NEW w \in Workers, Abandon(w) PROVE WatchInv'
  BY <1>16 DEF Abandon, Warned, Open, TypeInv, JobsInv
<1>17. ASSUME NEW w \in Workers, NEW p \in Posts, Look(w, p) PROVE WatchInv'
  <2>1. /\ \A u \in Workers : u # w => pc'[u] = pc[u] /\ cur'[u] = cur[u]
        /\ cur'[w] = p /\ pc[w] = "pick"
        /\ pc'[w] = "finish" => status[p] # "pending"
    BY <1>17 DEF Look, TypeInv, JobsInv
  <2> QED
    BY <1>17, <2>1 DEF Look, Warned, Open
<1>18. ASSUME NEW s \in Staff, StaffWrite(s) PROVE WatchInv'
  <2>1. PICK c \in Posts : c = staff[s].post
    BY <1>18 DEF StaffWrite, TypeInv, DeskInv
  <2>2. \A q \in Posts : Warned(q) => Warned(q)'
    <3>1. \A q \in Posts : said[q] \subseteq said'[q]
      BY <1>18 DEF StaffWrite, TypeInv, DeskInv
    <3> QED
      BY <1>18, <3>1 DEF StaffWrite, Warned
  <2>3. staff[s].status = "pending" => Warned(c)'
    <3>1. staff[s].says \in said'[c]
      BY <1>18, <2>1 DEF StaffWrite, TypeInv, DeskInv
    <3> QED
      BY <1>18, <3>1 DEF StaffWrite, Warned
  <2>4. \A u \in Staff : staff'[u] = IF u = s THEN Nobody ELSE staff[u]
    BY <1>18 DEF StaffWrite, TypeInv, DeskInv
  <2>5. \A q \in Posts : status'[q] = IF q = c THEN staff[s].status ELSE status[q]
    BY <1>18, <2>1 DEF StaffWrite, TypeInv, PostInv
  <2>6. UNCHANGED <<creating, taskState, pc, cur>>
    BY <1>18 DEF StaffWrite
  <2>7. \A u \in Staff : staff'[u].kind # "idle" /\ staff'[u].status = "pending" =>
          staff'[u].says = "pending"
    BY <2>4 DEF Nobody
  <2>8. \A u \in Workers : pc'[u] = "finish" =>
          status'[cur'[u]] # "pending" \/ Warned(cur[u])'
    BY <2>1, <2>2, <2>3, <2>5, <2>6 DEF TypeInv, JobsInv, Busy
  <2>9. \A q \in Posts : status'[q] = "pending" => status[q] = "pending" \/ Warned(q)'
    BY <2>1, <2>3, <2>5
  <2> QED
    BY <2>2, <2>6, <2>7, <2>8, <2>9 DEF Open
<1>19. ASSUME NEW s \in Staff, NEW p \in Posts, Review(s, p) PROVE WatchInv'
  BY <1>19 DEF Review, Begin, Warned, Open, TypeInv, DeskInv
<1>20. ASSUME NEW s \in Staff, NEW p \in Posts, Edit(s, p) PROVE WatchInv'
  BY <1>20 DEF Edit, Begin, Warned, Open, TypeInv, DeskInv
<1>21. ASSUME NEW s \in Staff, NEW p \in Posts, NEW a \in Actions, ClickCard(s, p, a) PROVE WatchInv'
  BY <1>21 DEF ClickCard, Warned, Open, TypeInv, DeskInv
<1> QED
  BY <1>1, <1>2, <1>3, <1>4, <1>5, <1>6, <1>7, <1>8, <1>9, <1>10, <1>11,
     <1>12, <1>13, <1>14, <1>15, <1>16, <1>17, <1>18, <1>19, <1>20, <1>21, NextCases, Zenon

(* With the job's deadline below its lease, no pending post is forgotten. *)
THEOREM PendingAreWatched ==
    ASSUME LeaseOutlivesRun
    PROVE  Spec => []PendingIsWatched
<1>1. WatchInv => PendingIsWatched
  BY DEF WatchInv, Warned, PendingIsWatched
<1>2. TypeInv /\ GateInv /\ ClaimInv /\ WatchInv /\ [Next]_vars
         => (TypeInv /\ GateInv /\ ClaimInv /\ WatchInv)'
  BY TypeStep, GateStep, ClaimStep, WatchStep
<1> QED
  BY TypeInit, GateInit, ClaimInit, WatchInit, <1>1, <1>2, PTL DEF Spec

-----------------------------------------------------------------------------
(* What the task queue sees of a step of the audit. *)
Forgotten(w, S) ==
    \A u \in Workers, p \in Posts :
        claim'[u][p] = IF u = w /\ p \in S THEN -1 ELSE claim[u][p]

Submitted(p) ==
    /\ creating[p] = "task"
    /\ taskState' = [taskState EXCEPT ![p] = "pending"]
    /\ retry' = [retry EXCEPT ![p] = 0]
    /\ UNCHANGED claim

Taken(w, S) ==
    /\ \A p \in S : Claimable(p)
    /\ taskState' = [p \in Posts |-> IF p \in S THEN "processing" ELSE taskState[p]]
    /\ \A u \in Workers, p \in Posts :
          claim'[u][p] = IF u = w /\ p \in S THEN retry[p] ELSE claim[u][p]
    /\ UNCHANGED retry

Settled(w, p) ==
    /\ claim[w][p] # -1
    /\ taskState' = [taskState EXCEPT ![p] = "done"]
    /\ Forgotten(w, {p})
    /\ UNCHANGED retry

Failed(w, p) ==
    /\ claim[w][p] # -1
    /\ taskState' = [taskState EXCEPT ![p] =
                        IF claim[w][p] + 1 >= MaxRetry THEN "failed" ELSE "pending"]
    /\ retry' = [retry EXCEPT ![p] = claim[w][p] + 1]
    /\ Forgotten(w, {p})

Left(w, S) == Forgotten(w, S) /\ UNCHANGED <<taskState, retry>>

Unseen == UNCHANGED <<taskState, retry, claim>>

(* A job that is idle has let go of its claims. *)
IdleInv == \A w \in Workers, p \in Posts : pc[w] = "idle" => claim[w][p] = -1

LEMMA IdleInit == Init => IdleInv
BY DEF Init, IdleInv, NotHeld

LEMMA ReleaseForgets ==
    ASSUME JobsInv, NEW w \in Workers, NEW p \in Posts, Release(w, p)
    PROVE  Forgotten(w, {p})
BY DEF JobsInv, Release, Forgotten, NotHeld

LEMMA ReleaseIdle ==
    ASSUME JobsInv, IdleInv, NEW w \in Workers, NEW p \in Posts, Release(w, p)
    PROVE  IdleInv'
<1>1. Forgotten(w, {p})
  BY ReleaseForgets
<1>2. pc' = [pc EXCEPT ![w] = IF \E q \in Posts \ {p} : Holds(w, q) THEN "pick" ELSE "idle"]
  BY DEF Release
<1>3. ASSUME NEW u \in Workers, NEW q \in Posts, pc'[u] = "idle" PROVE claim'[u][q] = -1
  <2>1. CASE u = w
    BY <1>1, <1>2, <1>3, <2>1 DEF Forgotten, Holds, NotHeld, JobsInv
  <2>2. CASE u # w
    BY <1>1, <1>2, <1>3, <2>2 DEF Forgotten, IdleInv, JobsInv
  <2> QED
    BY <2>1, <2>2
<1> QED
  BY <1>3 DEF IdleInv

LEMMA IdleStep ==
    ASSUME TypeInv, IdleInv, [Next]_vars
    PROVE  IdleInv'
<1> USE DEF postVars, taskVars, workerVars
<1>1. ASSUME UNCHANGED <<pc, claim>> PROVE IdleInv'
  BY <1>1 DEF IdleInv
<1>2. CASE UNCHANGED vars
  BY <1>1, <1>2 DEF vars
<1>3. ASSUME NEW p \in Posts,
             \/ CreatePost(p) \/ EnqueueTask(p) \/ AlertNewPost(p) \/ CreateCrash(p)
             \/ FallDue(p) \/ LeaseExpire(p) \/ Withdraw(p)
      PROVE  IdleInv'
  BY <1>1, <1>3 DEF CreatePost, EnqueueTask, AlertNewPost, CreateCrash, FallDue, LeaseExpire, Withdraw
<1>4. ASSUME NEW s \in Staff,
             \/ StaffWrite(s)
             \/ \E p \in Posts : Review(s, p) \/ Edit(s, p) \/ \E a \in Actions : ClickCard(s, p, a)
      PROVE  IdleInv'
  BY <1>1, <1>4 DEF StaffWrite, Review, Edit, Begin, ClickCard
<1>5. ASSUME NEW w \in Workers, Claim(w) PROVE IdleInv'
  BY <1>5 DEF Claim, IdleInv, TypeInv, JobsInv
<1>6. ASSUME NEW w \in Workers,
             Apply(w) \/ Tell(w) \/ Stumble(w) \/ \E p \in Posts : Look(w, p)
      PROVE  IdleInv'
  BY <1>6 DEF Apply, Tell, Stumble, Look, IdleInv, TypeInv, JobsInv
<1>7. ASSUME NEW w \in Workers, Finish(w) \/ Hold(w) PROVE IdleInv'
  <2>1. cur[w] \in Posts /\ Release(w, cur[w])
    BY <1>7 DEF Finish, Hold, TypeInv, JobsInv, Busy
  <2> QED
    BY <2>1, ReleaseIdle DEF TypeInv
<1>8. ASSUME NEW w \in Workers, MarkRetry(w) PROVE IdleInv'
  <2>1. CASE Final(w)
    <3>1. pc' = [pc EXCEPT ![w] = "hold"] /\ claim' = [claim EXCEPT ![w][cur[w]] = NotHeld]
      BY <1>8, <2>1 DEF MarkRetry
    <3> QED
      BY <3>1 DEF IdleInv, TypeInv, JobsInv
  <2>2. CASE ~Final(w)
    <3>1. cur[w] \in Posts /\ Release(w, cur[w])
      BY <1>8, <2>2 DEF MarkRetry, TypeInv, JobsInv, Busy
    <3> QED
      BY <3>1, ReleaseIdle DEF TypeInv
  <2> QED
    BY <2>1, <2>2
<1>9. ASSUME NEW w \in Workers, Abandon(w) PROVE IdleInv'
  BY <1>9 DEF Abandon, IdleInv, TypeInv, JobsInv, NotHeld
<1> QED
  BY <1>2, <1>3, <1>4, <1>5, <1>6, <1>7, <1>8, <1>9, NextCases, Zenon

(* Every step of the audit is one of these to its queue. *)
LEMMA SeenStep ==
    ASSUME TypeInv, IdleInv, [Next]_vars
    PROVE  \/ Unseen
           \/ \E p \in Posts : Submitted(p)
           \/ \E w \in Workers, S \in SUBSET Posts : Taken(w, S) \/ Left(w, S)
           \/ \E w \in Workers, p \in Posts : Settled(w, p) \/ Failed(w, p)
<1> DEFINE Seen == \/ Unseen
                   \/ \E p \in Posts : Submitted(p)
                   \/ \E w \in Workers, S \in SUBSET Posts : Taken(w, S) \/ Left(w, S)
                   \/ \E w \in Workers, p \in Posts : Settled(w, p) \/ Failed(w, p)
<1> USE DEF postVars, taskVars, workerVars
<1>1. CASE UNCHANGED vars
  BY <1>1 DEF vars, Unseen
<1>2. ASSUME NEW p \in Posts,
             \/ CreatePost(p) \/ AlertNewPost(p) \/ CreateCrash(p)
             \/ FallDue(p) \/ LeaseExpire(p) \/ Withdraw(p)
      PROVE  Unseen
  BY <1>2 DEF CreatePost, AlertNewPost, CreateCrash, FallDue, LeaseExpire, Withdraw, Unseen
<1>3. ASSUME NEW p \in Posts, EnqueueTask(p) PROVE Unseen \/ Submitted(p)
  BY <1>3 DEF EnqueueTask, SetRow, Unseen, Submitted
<1>4. ASSUME NEW s \in Staff,
             \/ StaffWrite(s)
             \/ \E p \in Posts : Review(s, p) \/ Edit(s, p) \/ \E a \in Actions : ClickCard(s, p, a)
      PROVE  Unseen
  BY <1>4 DEF StaffWrite, Review, Edit, Begin, ClickCard, Unseen
<1>5. ASSUME NEW w \in Workers,
             Apply(w) \/ Tell(w) \/ Stumble(w) \/ \E p \in Posts : Look(w, p)
      PROVE  Unseen
  BY <1>5 DEF Apply, Tell, Stumble, Look, Unseen
<1>6. ASSUME NEW w \in Workers, Claim(w) PROVE \E S \in SUBSET Posts : Taken(w, S)
  <2>1. PICK S \in SUBSET {p \in Posts : Claimable(p)} :
           /\ taskState' = [p \in Posts |-> IF p \in S THEN "processing" ELSE taskState[p]]
           /\ leased' = [p \in Posts |-> p \in S \/ leased[p]]
           /\ claim' = [claim EXCEPT ![w] =
                         [p \in Posts |-> IF p \in S THEN retry[p] ELSE NotHeld]]
    BY <1>6, ClaimSet
  <2>2. \A p \in Posts : claim[w][p] = -1
    BY <1>6 DEF Claim, IdleInv
  <2>3. \A u \in Workers, p \in Posts :
           claim'[u][p] = IF u = w /\ p \in S THEN retry[p] ELSE claim[u][p]
    BY <2>1, <2>2 DEF TypeInv, JobsInv, NotHeld
  <2>4. UNCHANGED retry
    BY <1>6 DEF Claim
  <2>5. Taken(w, S) /\ S \in SUBSET Posts
    BY <2>1, <2>3, <2>4 DEF Taken
  <2> QED
    BY <2>5
<1>7. ASSUME NEW w \in Workers, Finish(w) PROVE \E p \in Posts : Settled(w, p)
  <2>1. cur[w] \in Posts /\ claim[w][cur[w]] # -1
    BY <1>7 DEF Finish, TypeInv, JobsInv, Busy
  <2>2. Forgotten(w, {cur[w]})
    BY <1>7, <2>1, ReleaseForgets DEF Finish, TypeInv
  <2>3. taskState' = [taskState EXCEPT ![cur[w]] = "done"] /\ UNCHANGED retry
    BY <1>7, <2>1 DEF Finish, SetRow, TypeInv, TaskInv
  <2>4. Settled(w, cur[w])
    BY <2>1, <2>2, <2>3 DEF Settled
  <2> QED
    BY <2>1, <2>4
<1>8. ASSUME NEW w \in Workers, MarkRetry(w)
      PROVE  \/ \E p \in Posts : Failed(w, p)
             \/ \E S \in SUBSET Posts : Left(w, S)
  <2>1. cur[w] \in Posts /\ claim[w][cur[w]] # -1
    BY <1>8 DEF MarkRetry, TypeInv, JobsInv, Busy
  <2>2. claim' = [claim EXCEPT ![w][cur[w]] = -1]
    BY <1>8 DEF MarkRetry, Release, NotHeld
  <2>3. Forgotten(w, {cur[w]})
    BY <2>1, <2>2 DEF Forgotten, TypeInv, JobsInv
  <2>4. CASE Retried(w)
    <3>1. Failed(w, cur[w])
      BY <2>1, <2>3, <2>4 DEF Failed, Retried, SetRow, Final
    <3> QED
      BY <2>1, <3>1
  <2>5. CASE UNCHANGED taskVars
    <3>1. Left(w, {cur[w]})
      BY <2>3, <2>5 DEF Left
    <3> QED
      BY <2>1, <3>1
  <2> QED
    BY <1>8, <2>4, <2>5 DEF MarkRetry
<1>9. ASSUME NEW w \in Workers, Hold(w) PROVE \E S \in SUBSET Posts : Left(w, S)
  <2>1. cur[w] \in Posts
    BY <1>9 DEF Hold, TypeInv, JobsInv
  <2>2. Forgotten(w, {cur[w]})
    BY <1>9, <2>1, ReleaseForgets DEF Hold, TypeInv
  <2>3. Left(w, {cur[w]})
    BY <1>9, <2>2 DEF Hold, Left
  <2> QED
    BY <2>1, <2>3
<1>10. ASSUME NEW w \in Workers, Abandon(w) PROVE Left(w, Posts)
  BY <1>10 DEF Abandon, Left, Forgotten, TypeInv, JobsInv, NotHeld
<1>11. Seen
  BY <1>1, <1>2, <1>3, <1>4, <1>5, <1>6, <1>7, <1>8, <1>9, <1>10, NextCases, Zenon
<1> QED
  BY <1>11

-----------------------------------------------------------------------------
(* A claim carries its task's retry count, and a task that is not there has none. *)
CountInv ==
    /\ \A w \in Workers, p \in Posts : claim[w][p] # -1 => claim[w][p] = retry[p]
    /\ \A p \in Posts : taskState[p] = "none" => retry[p] = 0

LEMMA CountInit == Init => CountInv
BY DEF Init, CountInv, NotHeld

LEMMA CountStep ==
    ASSUME TypeInv, GateInv, ClaimInv, IdleInv, CountInv, [Next]_vars
    PROVE  CountInv'
<1> USE DEF CountInv, TypeInv, TaskInv
<1>1. CASE Unseen
  BY <1>1 DEF Unseen
<1>2. ASSUME NEW p \in Posts, Submitted(p) PROVE CountInv'
  BY <1>2 DEF Submitted, GateInv
<1>3. ASSUME NEW w \in Workers, NEW S \in SUBSET Posts, Taken(w, S) PROVE CountInv'
  BY <1>3 DEF Taken
<1>4. ASSUME NEW w \in Workers, NEW S \in SUBSET Posts, Left(w, S) PROVE CountInv'
  BY <1>4 DEF Left, Forgotten
<1>5. ASSUME NEW w \in Workers, NEW p \in Posts, Settled(w, p) PROVE CountInv'
  BY <1>5 DEF Settled, Forgotten
<1>6. ASSUME NEW w \in Workers, NEW p \in Posts, Failed(w, p) PROVE CountInv'
  <2>1. \A q \in Posts : q # p => retry'[q] = retry[q] /\ taskState'[q] = taskState[q]
    BY <1>6 DEF Failed
  <2>2. taskState'[p] # "none"
    BY <1>6 DEF Failed
  <2>3. \A u \in Workers : claim'[u][p] = -1
    BY <1>6 DEF Failed, Forgotten, ClaimInv
  <2>4. \A u \in Workers, q \in Posts : q # p => claim'[u][q] = claim[u][q]
    BY <1>6 DEF Failed, Forgotten
  <2> QED
    BY <2>1, <2>2, <2>3, <2>4
<1> QED
  BY <1>1, <1>2, <1>3, <1>4, <1>5, <1>6, SeenStep, Zenon

Holding == [p \in Posts |-> {w \in Workers : Holds(w, p)}]

(* The abstract view of the jobs' claims after a step. *)
LEMMA HoldingAfter ==
    ASSUME NEW w \in Workers, NEW S \in SUBSET Posts, Forgotten(w, S)
    PROVE  Holding' = [p \in Posts |-> IF p \in S THEN Holding[p] \ {w} ELSE Holding[p]]
<1>1. \A u \in Workers, p \in Posts : Holds(u, p)' <=> Holds(u, p) /\ ~(u = w /\ p \in S)
  BY DEF Forgotten, Holds, NotHeld
<1> QED
  BY <1>1 DEF Holding

LEMMA HolderIsAlone ==
    ASSUME ClaimInv, CountInv, NEW w \in Workers, NEW p \in Posts, claim[w][p] # -1
    PROVE  TaskPhase[p] = "taken" /\ Holding[p] = {w} /\ claim[w][p] = retry[p]
BY DEF ClaimInv, CountInv, Holding, Holds, NotHeld, TaskPhase

LEMMA AuditInitRefines == Init => Queue!Init
<1> SUFFICES ASSUME Init PROVE Queue!Init
  OBVIOUS
<1>1. TaskPhase = [p \in Posts |-> "none"]
  BY DEF Init, TaskPhase
<1>2. [p \in Posts |-> {w \in Workers : Holds(w, p)}] = [p \in Posts |-> {}]
  BY DEF Init, Holds
<1> QED
  BY <1>1, <1>2 DEF Queue!Init, Init

LEMMA AuditStepRefines ==
    ASSUME TypeInv, GateInv, ClaimInv, IdleInv, CountInv, [Next]_vars
    PROVE  [Queue!Next]_(Queue!vars)
<1> DEFINE TQ == [Queue!Next]_(Queue!vars)
<1> USE DEF TypeInv, TaskInv
<1>1. CASE Unseen
  BY <1>1 DEF Unseen, Queue!vars, TaskPhase, Holds
<1>2. ASSUME NEW p \in Posts, Submitted(p) PROVE TQ
  <2>1. taskState[p] = "none" /\ retry[p] = 0
    BY <1>2 DEF Submitted, GateInv, CountInv
  <2>2. TaskPhase[p] = "none" /\ TaskPhase' = [TaskPhase EXCEPT ![p] = "waiting"]
    BY <1>2, <2>1 DEF Submitted, TaskPhase
  <2>3. retry' = retry /\ Holding' = Holding
    BY <1>2, <2>1 DEF Submitted, Holding, Holds
  <2>4. Queue!Submit(p)
    BY <2>2, <2>3 DEF Queue!Submit, Holding
  <2> QED
    BY <2>4 DEF Queue!Next
<1>3. ASSUME NEW w \in Workers, NEW S \in SUBSET Posts, Taken(w, S) PROVE TQ
  <2>1. \A p \in S : TaskPhase[p] \in {"waiting", "taken"} /\ Holding[p] = {}
    <3>1. ASSUME NEW p \in S PROVE taskState[p] \in {"pending", "processing"} /\ \A u \in Workers : claim[u][p] = -1
      BY <1>3 DEF Taken, Claimable, ClaimInv
    <3> QED
      BY <3>1 DEF TaskPhase, Holding, Holds, NotHeld
  <2>2. TaskPhase' = [p \in Posts |-> IF p \in S THEN "taken" ELSE TaskPhase[p]]
    BY <1>3 DEF Taken, TaskPhase
  <2>3. \A u \in Workers, p \in Posts :
           Holds(u, p)' <=> (p \in S /\ u = w) \/ (p \notin S /\ Holds(u, p))
    <3>1. \A u \in Workers, p \in S : claim[u][p] = -1
      BY <2>1 DEF Holding, Holds, NotHeld
    <3>2. \A p \in Posts : retry[p] # -1
      OBVIOUS
    <3> QED
      BY <1>3, <3>1, <3>2 DEF Taken, Holds, NotHeld
  <2>4. Holding' = [p \in Posts |-> IF p \in S THEN {w} ELSE Holding[p]]
    BY <2>3 DEF Holding
  <2>5. Queue!Take(w, S)
    BY <1>3, <2>1, <2>2, <2>4 DEF Queue!Take, Taken, Holding
  <2> QED
    BY <2>5 DEF Queue!Next
<1>4. ASSUME NEW w \in Workers, NEW S \in SUBSET Posts, Left(w, S) PROVE TQ
  <2>1. Holding' = [p \in Posts |-> IF p \in S THEN Holding[p] \ {w} ELSE Holding[p]]
    BY <1>4, HoldingAfter DEF Left
  <2>2. TaskPhase' = TaskPhase /\ retry' = retry
    BY <1>4 DEF Left, TaskPhase
  <2>3. Queue!Leave(w, S)
    BY <2>1, <2>2 DEF Queue!Leave, Holding
  <2> QED
    BY <2>3 DEF Queue!Next
<1>5. ASSUME NEW w \in Workers, NEW p \in Posts, Settled(w, p) PROVE TQ
  <2>1. TaskPhase[p] = "taken" /\ Holding[p] = {w}
    BY <1>5, HolderIsAlone DEF Settled
  <2>2. TaskPhase' = [TaskPhase EXCEPT ![p] = "done"]
    BY <1>5 DEF Settled, TaskPhase
  <2>3. Holding' = [q \in Posts |-> IF q \in {p} THEN Holding[q] \ {w} ELSE Holding[q]]
    BY <1>5, HoldingAfter DEF Settled
  <2>4. Holding' = [Holding EXCEPT ![p] = {}]
    BY <2>1, <2>3 DEF Holding
  <2>5. Queue!Settle(w, p)
    BY <1>5, <2>1, <2>2, <2>4 DEF Queue!Settle, Settled, Holding
  <2> QED
    BY <2>5 DEF Queue!Next
<1>6. ASSUME NEW w \in Workers, NEW p \in Posts, Failed(w, p) PROVE TQ
  <2>1. TaskPhase[p] = "taken" /\ Holding[p] = {w} /\ claim[w][p] = retry[p]
    BY <1>6, HolderIsAlone DEF Failed
  <2>2. retry' = [retry EXCEPT ![p] = retry[p] + 1]
    BY <1>6, <2>1 DEF Failed
  <2>3. TaskPhase' = [TaskPhase EXCEPT ![p] = IF retry[p] + 1 >= MaxRetry THEN "failed" ELSE "waiting"]
    BY <1>6, <2>1 DEF Failed, TaskPhase
  <2>4. Holding' = [q \in Posts |-> IF q \in {p} THEN Holding[q] \ {w} ELSE Holding[q]]
    BY <1>6, HoldingAfter DEF Failed
  <2>5. Holding' = [Holding EXCEPT ![p] = {}]
    BY <2>1, <2>4 DEF Holding
  <2>6. Queue!Fail(w, p)
    BY <2>1, <2>2, <2>3, <2>5 DEF Queue!Fail, Holding
  <2> QED
    BY <2>6 DEF Queue!Next
<1> QED
  BY <1>1, <1>2, <1>3, <1>4, <1>5, <1>6, SeenStep, Zenon

(* The audit queue is the abstract task queue when the job's deadline is below its
   lease: every failed attempt is counted once by a mark that writes a count read
   with the claim, and no mark touches a task that another job works on. *)
THEOREM AuditIsTaskQueue ==
    ASSUME LeaseOutlivesRun
    PROVE  Spec => IsTaskQueue
<1> DEFINE Ok == TypeInv /\ GateInv /\ ClaimInv /\ IdleInv /\ CountInv
<1>1. Init => Ok
  BY TypeInit, GateInit, ClaimInit, IdleInit, CountInit
<1>2. Ok /\ [Next]_vars => Ok'
  BY TypeStep, GateStep, ClaimStep, IdleStep, CountStep
<1>3. Init => Queue!Init
  BY AuditInitRefines
<1>4. Ok /\ [Next]_vars => [Queue!Next]_(Queue!vars)
  BY AuditStepRefines
<1> HIDE DEF Ok
<1> QED
  BY <1>1, <1>2, <1>3, <1>4, PTL DEF Spec, IsTaskQueue, Queue!Spec

-----------------------------------------------------------------------------
(* What the abstract queue keeps: who works on an item has taken it, and what is
   not given up has attempts left. *)
TakenInv ==
    /\ Queue!WorkedOnAlone
    /\ \A i \in Posts : Holding[i] # {} => TaskPhase[i] = "taken"
    /\ retry \in [Posts -> Nat]
    /\ Queue!GivenUpExactly

LEMMA TakenInit == Queue!Init => TakenInv
BY PostAuditAssumption DEF Queue!Init, TakenInv, Queue!WorkedOnAlone, Queue!GivenUpExactly, Holding

LEMMA TakenStep ==
    ASSUME TakenInv, [Queue!Next]_(Queue!vars)
    PROVE  /\ TakenInv'
           /\ \A i \in Posts : TaskPhase[i] \in {"done", "failed"}
                 => TaskPhase'[i] = TaskPhase[i] /\ retry'[i] = retry[i]
<1> DEFINE Goal == /\ TakenInv'
                   /\ \A i \in Posts : TaskPhase[i] \in {"done", "failed"}
                         => TaskPhase'[i] = TaskPhase[i] /\ retry'[i] = retry[i]
<1>0. TaskPhase = [i \in Posts |-> TaskPhase[i]] /\ Holding = [i \in Posts |-> Holding[i]]
  BY Zenon DEF TaskPhase, Holding
<1> USE <1>0, PostAuditAssumption DEF TakenInv, Queue!WorkedOnAlone, Queue!GivenUpExactly
<1>1. ASSUME NEW i \in Posts, Queue!Submit(i) PROVE Goal
  BY <1>1 DEF Queue!Submit, Holding
<1>2. ASSUME NEW w \in Workers, NEW i \in Posts, Queue!Settle(w, i) PROVE Goal
  BY <1>2 DEF Queue!Settle, Holding
<1>3. ASSUME NEW w \in Workers, NEW i \in Posts, Queue!Fail(w, i) PROVE Goal
  <2>1. TaskPhase[i] = "taken" /\ retry[i] < MaxRetry /\ retry[i] \in Nat /\ MaxRetry \in Nat
    BY <1>3 DEF Queue!Fail
  <2>2. retry' = [retry EXCEPT ![i] = retry[i] + 1]
    BY <1>3 DEF Queue!Fail
  <2>3. TaskPhase' = [TaskPhase EXCEPT ![i] = IF retry[i] + 1 >= MaxRetry THEN "failed" ELSE "waiting"]
    BY <1>3 DEF Queue!Fail
  <2>4. Holding' = [Holding EXCEPT ![i] = {}]
    BY <1>3 DEF Queue!Fail, Holding
  <2>5. \A j \in Posts : j # i => TaskPhase'[j] = TaskPhase[j] /\ retry'[j] = retry[j] /\ Holding'[j] = Holding[j]
    BY <1>0, <2>2, <2>3, <2>4
  <2>6. Holding'[i] = {} /\ retry'[i] = retry[i] + 1 /\ (TaskPhase'[i] = "failed" <=> retry[i] + 1 >= MaxRetry)
    BY <1>0, <2>2, <2>3, <2>4
  <2>7. retry' \in [Posts -> Nat]
    BY <2>1, <2>2
  <2>8. QED
    BY <2>1, <2>5, <2>6, <2>7 DEF Holding
<1>4. ASSUME NEW w \in Workers, NEW S \in SUBSET Posts, Queue!Take(w, S) PROVE Goal
  <2>1. /\ \A i \in S : TaskPhase[i] \in {"waiting", "taken"}
        /\ TaskPhase' = [i \in Posts |-> IF i \in S THEN "taken" ELSE TaskPhase[i]]
        /\ Holding' = [i \in Posts |-> IF i \in S THEN {w} ELSE Holding[i]]
        /\ retry' = retry
    BY <1>4 DEF Queue!Take, Holding
  <2>2. \A i \in Posts : IF i \in S THEN TaskPhase'[i] = "taken" /\ Holding'[i] = {w}
                                    ELSE TaskPhase'[i] = TaskPhase[i] /\ Holding'[i] = Holding[i]
    BY <2>1
  <2>3. Queue!WorkedOnAlone' /\ \A i \in Posts : Holding'[i] # {} => TaskPhase'[i] = "taken"
    BY <2>2 DEF Holding
  <2>4. Queue!GivenUpExactly' /\ retry' \in [Posts -> Nat]
    BY <2>1, <2>2
  <2>5. \A i \in Posts : TaskPhase[i] \in {"done", "failed"} => TaskPhase'[i] = TaskPhase[i] /\ retry'[i] = retry[i]
    BY <2>1, <2>2
  <2>6. QED
    BY <2>3, <2>4, <2>5
<1>5. ASSUME NEW w \in Workers, NEW S \in SUBSET Posts, Queue!Leave(w, S) PROVE Goal
  BY <1>5 DEF Queue!Leave, Holding
<1>6. CASE UNCHANGED (Queue!vars)
  BY <1>6 DEF Queue!vars, Holding
<1>7. QED
  BY <1>1, <1>2, <1>3, <1>4, <1>5, <1>6 DEF Queue!Next

(* An audit task is given up exactly when MaxRetry attempts at it have failed, no two
   jobs are at one task, and what is done or given up stays so, although the marks say
   WHERE id only. *)
THEOREM AuditSettles ==
    ASSUME LeaseOutlivesRun
    PROVE  Spec => []Queue!WorkedOnAlone /\ []Queue!GivenUpExactly /\ Queue!SettledStays
<1> DEFINE A == \A i \in Posts : TaskPhase[i] \in {"done", "failed"}
                  => TaskPhase'[i] = TaskPhase[i] /\ retry'[i] = retry[i]
<1>1. TakenInv /\ [Queue!Next]_(Queue!vars) => TakenInv' /\ [A]_(Queue!vars)
  BY TakenStep
<1>2. TakenInv => Queue!WorkedOnAlone /\ Queue!GivenUpExactly
  BY DEF TakenInv
<1>3. IsTaskQueue => []Queue!WorkedOnAlone /\ []Queue!GivenUpExactly /\ Queue!SettledStays
  BY TakenInit, <1>1, <1>2, PTL DEF IsTaskQueue, Queue!Spec, Queue!SettledStays
<1> QED
  BY <1>3, AuditIsTaskQueue

-----------------------------------------------------------------------------
(* A deleted post that no job holds or is at, no open task, unfinished request or
   undecided operator refers to. *)
LaidToRest(p) ==
    /\ status[p] = "deleted" /\ creating[p] = "no" /\ ~Open(p)
    /\ \A w \in Workers : ~Holds(w, p) /\ cur[w] # p
    /\ \A s \in Staff : staff[s].kind # "idle" => staff[s].post # p

(* How far the restoring of deleted posts goes (see DeletedStaysDeleted): once what was
   under way when the post was deleted has ended, nothing brings it back. *)
RestingStays == [][\A p \in Posts : LaidToRest(p) => LaidToRest(p)']_vars

LEMMA RestStep ==
    ASSUME TypeInv, [Next]_vars, NEW p \in Posts, LaidToRest(p)
    PROVE  LaidToRest(p)'
<1> USE DEF postVars, taskVars, workerVars
<1>1. ASSUME status'[p] = status[p], taskState'[p] = taskState[p], creating'[p] = creating[p],
             UNCHANGED <<claim, cur, staff>>
      PROVE  LaidToRest(p)'
  BY <1>1 DEF LaidToRest, Open, Holds
<1>2. CASE UNCHANGED vars
  BY <1>1, <1>2 DEF vars
<1>3. ASSUME NEW q \in Posts,
             \/ CreatePost(q) \/ EnqueueTask(q) \/ AlertNewPost(q) \/ CreateCrash(q)
             \/ FallDue(q) \/ LeaseExpire(q) \/ Withdraw(q)
      PROVE  LaidToRest(p)'
  <2>1. UNCHANGED <<claim, cur, staff>>
    BY <1>3 DEF CreatePost, EnqueueTask, AlertNewPost, CreateCrash, FallDue, LeaseExpire, Withdraw
  <2>2. /\ CreatePost(q) => status[q] = "none" /\ UNCHANGED taskState
                            /\ \E x : status' = [status EXCEPT ![q] = x]
                            /\ \E y : creating' = [creating EXCEPT ![q] = y]
        /\ EnqueueTask(q) => creating[q] = "task" /\ UNCHANGED status
                            /\ ((\E x : taskState' = [taskState EXCEPT ![q] = x]) \/ UNCHANGED taskState)
                            /\ \E x : creating' = [creating EXCEPT ![q] = x]
        /\ AlertNewPost(q) \/ CreateCrash(q) =>
              creating[q] # "no" /\ UNCHANGED <<status, taskState>> /\ \E x : creating' = [creating EXCEPT ![q] = x]
        /\ FallDue(q) \/ LeaseExpire(q) => UNCHANGED <<status, taskState, creating>>
        /\ Withdraw(q) => UNCHANGED <<taskState, creating>> /\ status[q] # "deleted"
                          /\ \E x : status' = [status EXCEPT ![q] = x]
    BY DEF CreatePost, EnqueueTask, AlertNewPost, CreateCrash, FallDue, LeaseExpire, Withdraw, SetRow, SetStatus, Found
  <2>3. CASE FallDue(q) \/ LeaseExpire(q)
    BY <1>1, <2>1, <2>2, <2>3
  <2>4. CASE ~(FallDue(q) \/ LeaseExpire(q))
    <3>1. q # p
      BY <1>3, <2>2, <2>4 DEF LaidToRest
    <3>2. status'[p] = status[p] /\ taskState'[p] = taskState[p] /\ creating'[p] = creating[p]
      BY <1>3, <2>2, <2>4, <3>1 DEF TypeInv, PostInv, TaskInv, DeskInv
    <3> QED
      BY <1>1, <2>1, <3>2
  <2> QED
    BY <2>3, <2>4
<1>4. ASSUME NEW s \in Staff, StaffWrite(s) PROVE LaidToRest(p)'
  <2>1. staff[s].post # p
    BY <1>4 DEF StaffWrite, LaidToRest
  <2>2. UNCHANGED <<taskState, creating, claim, cur>> /\ status'[p] = status[p]
    BY <1>4, <2>1 DEF StaffWrite, TypeInv, PostInv
  <2>3. staff' = [staff EXCEPT ![s] = Nobody]
    BY <1>4 DEF StaffWrite
  <2> QED
    BY <2>2, <2>3 DEF LaidToRest, Open, Holds, Nobody, TypeInv, DeskInv
<1>5. ASSUME NEW s \in Staff, NEW q \in Posts,
             Review(s, q) \/ Edit(s, q) \/ \E a \in Actions : ClickCard(s, q, a)
      PROVE  LaidToRest(p)'
  <2>1. UNCHANGED <<status, taskState, creating, claim, cur>>
    BY <1>5 DEF Review, Edit, Begin, ClickCard
  <2>2. \/ staff' = staff
        \/ Found(q) /\ \E x : x.post = q /\ staff' = [staff EXCEPT ![s] = x]
    BY <1>5 DEF Review, Edit, Begin, ClickCard, CardTarget
  <2>3. Found(q) => q # p
    BY DEF Found, LaidToRest
  <2> QED
    BY <2>1, <2>2, <2>3 DEF LaidToRest, Open, Holds, TypeInv, DeskInv
<1>6. ASSUME NEW w \in Workers, Claim(w) PROVE LaidToRest(p)'
  <2>1. PICK S \in SUBSET {q \in Posts : Claimable(q)} :
          /\ taskState' = [q \in Posts |-> IF q \in S THEN "processing" ELSE taskState[q]]
          /\ claim' = [claim EXCEPT ![w] = [q \in Posts |-> IF q \in S THEN retry[q] ELSE NotHeld]]
    BY <1>6 DEF Claim
  <2>2. p \notin S
    BY <2>1 DEF Claimable, LaidToRest, Open
  <2>3. UNCHANGED <<status, creating, cur, staff>> /\ taskState'[p] = taskState[p]
    BY <1>6, <2>1, <2>2 DEF Claim
  <2>4. \A u \in Workers : claim'[u][p] = -1
    BY <2>1, <2>2 DEF LaidToRest, Holds, NotHeld, TypeInv, JobsInv
  <2> QED
    BY <2>3, <2>4 DEF LaidToRest, Open, Holds, NotHeld
<1>7. ASSUME NEW w \in Workers, NEW q \in Posts, Look(w, q) PROVE LaidToRest(p)'
  <2>1. q # p
    BY <1>7 DEF Look, LaidToRest
  <2>2. UNCHANGED <<status, creating, taskState, claim, staff>> /\ cur' = [cur EXCEPT ![w] = q]
    BY <1>7 DEF Look
  <2> QED
    BY <2>1, <2>2 DEF LaidToRest, Open, Holds, TypeInv, JobsInv
<1>8. ASSUME NEW w \in Workers,
             Apply(w) \/ Tell(w) \/ Finish(w) \/ MarkRetry(w) \/ Hold(w) \/ Stumble(w) \/ Abandon(w)
      PROVE  LaidToRest(p)'
  <2>1. PICK c : c = cur[w]
    OBVIOUS
  <2>2. c # p
    BY <2>1 DEF LaidToRest
  <2>3. UNCHANGED <<creating, staff>>
    BY <1>8 DEF Apply, Tell, Finish, MarkRetry, Hold, Stumble, Abandon
  <2>4. status'[p] = status[p]
    BY <1>8, <2>1, <2>2 DEF Apply, Tell, Finish, MarkRetry, Hold, Stumble, Abandon, SetStatus, TypeInv, PostInv
  <2>5. taskState'[p] = taskState[p]
    BY <1>8, <2>1, <2>2 DEF Apply, Tell, Finish, MarkRetry, Retried, Hold, Stumble, Abandon, SetRow, TypeInv, TaskInv
  <2>6. \A u \in Workers : cur'[u] \in {cur[u], NoPost}
    BY <1>8 DEF Apply, Tell, Finish, MarkRetry, Hold, Stumble, Abandon, Release, TypeInv, JobsInv
  <2>7. \A u \in Workers : claim'[u][p] \in {claim[u][p], NotHeld}
    <3>1. \/ claim' = claim
          \/ claim' = [claim EXCEPT ![w][c] = NotHeld]
          \/ claim' = [claim EXCEPT ![w] = [q \in Posts |-> NotHeld]]
      BY <1>8, <2>1, Zenon DEF Apply, Tell, Finish, MarkRetry, Hold, Stumble, Abandon, Release
    <3> QED
      BY <3>1, <2>2 DEF TypeInv, JobsInv
  <2> QED
    BY <2>3, <2>4, <2>5, <2>6, <2>7, PostAuditAssumption DEF LaidToRest, Open, Holds
<1> QED
  BY <1>2, <1>3, <1>4, <1>5, <1>6, <1>7, <1>8, NextCases, Zenon

(* UpdatePostStatus and UpdatePostByAdmin, WHERE id alone, restore a deleted post only
   for somebody who was already at it, or for its own audit task. *)
THEOREM DeletionSettles == Spec => RestingStays
<1> DEFINE A == \A p \in Posts : LaidToRest(p) => LaidToRest(p)'
<1>1. TypeInv /\ [Next]_vars => [A]_vars
  BY RestStep
<1>2. TypeInv /\ [Next]_vars => TypeInv'
  BY TypeStep
<1> QED
  BY TypeInit, <1>1, <1>2, PTL DEF Spec, RestingStays

=============================================================================
