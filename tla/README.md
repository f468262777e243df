# Verification of lehu-video (校园e站)

The repository is a set of Go (Kratos) services behind a campus mini-program: `campusApi`
(forum, audits, notifications, operations), `campusUser` and `base` (users, accounts, files),
a Python `campus-agent` (LLM answers) and `campus-rag`. All shared state is in MySQL, with Redis
caches; what makes the system hard is that every replica of `campusApi` runs the same background
jobs (`server/campus_task_server.go`) over the same tables that requests write, by statements that
say `WHERE id` and nothing more.

Paths below: **B** = `src/app/campusApi/service/internal/biz/campus.go`, **D** =
`.../internal/data/campus.go`, **S** = `.../internal/server/campus_task_server.go`.
`PROJECT.json` names the source lines of every definition, the runs, mutants, hazards and theorems.

## 1. Inventory

| Component | State | Operations | Talks to | Hard behaviour | What makes it correct | Here |
|---|---|---|---|---|---|---|
| Content moderation | `campus_forum_post`, `campus_ai_audit_task`, audit switches, one-use tokens | create, audit job, review, edit, card approval, withdrawal | agent (call), ops alerts, outbox | read, wait for a model, write by id; retries; leases; people meanwhile | nothing public or rejected that should not be; no pending post forgotten; tasks settle | `PostAudit` |
| Task tables (lease queues) | `status, retry_count, next_retry_at, locked_until` of four tables | insert, claim (SKIP LOCKED), mark done, mark retry | every job | marks name only the row; crashed jobs | one job at a time, counted attempts | `TaskQueue`, `LeaseQueue` |
| Notification outbox | `campus_notification_outbox`, `campus_notification`, users | emit in the write's transaction, broadcast, deliver, read | queue | partial deliveries repeated, deadlines, errors of the mark | done means delivered, read stays read, all are told | `NotificationOutbox` |
| Comments and their counters | `campus_forum_comment`, `comment_count`, `reply_count` | comment, reply, delete (cascade), review, delete post | posts, outbox | checks before the transaction, cascades, restored rows | counters match visible rows | `CommentThreads` |
| Likes and collections | three relation tables, `like_count`, `collected_count` | add, remove | posts, outbox | double taps; locks on absent rows | each counts once | `Reactions` |
| Statistics reconciliation | the same counters | hourly recount | the two above | writes over what others count | heals | `ForumStats` |
| AI replies (e仔) | `campus_ai_reply_task`, answer comments, handoff messages | mention, claim, answer, retry, handoff, reset | agent, comments, notices | answer written, then task marked; resets under a running job; daily limits | one answer per mention, nobody ignored | `AIReply` |
| Ops alerts, tokens, reports, SLA | `campus_ops_alert`, `ops_action_token`, reports | upsert, send to Feishu, retry, card callbacks, settle reports, SLA scans | posts, audits, notices | upsert under a sending worker; tokens spent before the action | every alert's last content is sent; a spent token settles its report; reporters are told | `OpsAlerts`, `Reports` (alerts and post cards also in `PostAudit` as far as audits need them) |
| Post caches, recommend pool | Redis detail and list caches, list version, pool snapshot | read-through, invalidate, refresh | posts | fills that race with invalidations | staleness is bounded; caches follow the writes | `PostCache` |
| Event batching and task server | in-memory buffer, goroutines, tickers | add, flush, stop | events table | Add during Stop; drained batches lost | nothing waits unwatched; a stop in time loses nothing, and ends | `TaskServer` |
| AI budget and usage | usage log, one setting per warning | check, record, warn | audits, replies, agent runs | check before use; callers race for a warning | bounded overspend; no warning is skipped | `AIBudget` |
| Knowledge documents, RAG index | document row, chunks, Qdrant points, an index batch in memory | create, edit, take down, reindex | campus-rag (call) | three stores, calls that time out and run on, whole rows written by id | the three agree; nothing stays "indexing" | `KnowledgeIndex` |
| RAG queries and evaluation, agent runs, copilot | runs, steps | ask, evaluate | agent | mostly I/O and text | - | not modelled |
| Users and accounts, WeChat login | `account`, `user`, `campus_wechat_identity`, `campus_profile` | WeChat login, register, take back; log in, bind | base, campusUser (calls) | four rows in four calls, lost replies, first logins at once | one identity, one user, one profile; a retry gets through | `WechatLogin`, `Registration` |
| Files | file rows, objects | pre-sign, report | object storage | uploads never reported | - | planned |
| Request security, moments, HTTP layer, assembler, observability, admin web | counters in Redis; queries | - | - | - | - | not modelled |

Requests, tickers and card callbacks never share memory except the in-process batch buffer: they meet
in MySQL, one statement or transaction at a time. A step of a model is therefore one database
call (or one transaction over locked rows), and a handler that makes several is several steps with
everybody else's between them. The hazards found while reading are in `PROJECT.json`, each at the
line where it bites; those without a property are what the plan is for.

## 2. Modules

```
TaskQueue  <--(implements)--  LeaseQueue  <--EXTENDS--  NotificationOutbox  <-- MCNotificationOutbox
     |                             ^-------EXTENDS--  AIReply  <-- MCAIReply
     +---------(implements)-- PostAudit   <-- MCPostAudit
CommentThreads, Reactions  <--EXTENDS--  ForumStats  <-- MCForumStats
LeaseQueue  <--EXTENDS--  OpsAlerts
OpsAlerts, Reports, PostCache, TaskServer, AIBudget, KnowledgeIndex,
WechatLogin, Registration  <--EXTENDS--  MCServices
EventLog  <--(implements)--  TaskServer
AddressBook  <--(implements)--  Registration
*Proofs modules EXTEND the module they are about: OpsProofs is about OpsAlerts and Reports,
ServicesProofs about PostCache, TaskServer, WechatLogin and Registration, AIProofs about AIBudget and KnowledgeIndex.
```

### PostAudit
`CreatePost` is one action for the insert and further ones (`EnqueueTask`, `AlertNewPost`) for the
calls after it, with `CreateCrash` in between. The `ai_audit` job of a replica is a worker:
`Claim` (the batch, with the retry counts it read), `Look` (`GetAnyPostByID` and the verdict),
`Apply` (`UpdatePostStatus`), `Tell` (`enqueueAuditOpsAlert`), `Finish` or `MarkRetry` and `Hold`.
Operators are `Review`, `Edit` and `ClickCard` followed by `StaffWrite`, since each reads the post
and writes it later; `Withdraw` is the single-statement delete. Faults: an error of a call
(`Stumble`, the second disjuncts), a crash, a shutdown or an expired context (`Abandon`).
`said` is the history of what people asked for, `mishap` of the posts whose own alert was lost.

Abstractions: the text of a post is its rule risk; the word lists are fixed between the request and
the audit; an answer of the agent is any decision, risk, rule risk of the text and certainty;
`feishu` stands for both notification switches; the settings, budget and model configuration may
change between any two calls; spending a card's token and reading its target are one step; the order of
a batch is any; due times and leases are Booleans that time (`FallDue`, `LeaseExpire`) turns.
Audit logs, caches and notices are no part of the module.

### TaskQueue, LeaseQueue, NotificationOutbox
`TaskQueue` is the abstract promise: an item is taken by one job, settled or failed by that job only, each
failure counts once, and after `MaxRetry` of them it is given up. What a table gains by implementing it is stated there,
of the abstract queue (`WorkedOnAlone`, `GivenUpExactly`, `SettledStays`). `LeaseQueue` is the code's way to keep it:
rows with `locked_until`, and marks `WHERE id` that write the retry count carried since the claim.
`NotificationOutbox` adds what its job does between claim and mark: recipients read at delivery,
one upsert each, an error that ends the row's delivery, and a context with time for `Reach` writes;
when time is up every later call fails, the marks too (`GiveUp`). Rows are numbered by
`created_at` and users by id, the orders of the two queries. A second row of one dedupe key is dropped
by the database, hence no step.

### AIReply
EXTENDS `LeaseQueue` and uses its claims and marks, but is no refinement of `TaskQueue`: `Reset`
(AdminRetryAIReplyTask), `Close` (the job of a bot that is switched off) and `Postpone` write a row whoever holds it.
A mention goes `Mention` (the comment's transaction), `Enqueue`, `TellMention` (handleEzaiMention, after it), with
`MentionCrash` in between. A job reads the switch and claims (`Claim`), then for each task of its
batch: `Check` (the day's count), `TellFull` and `Postpone` over the limit, `Look` (an existing answer, post and
comment, the model), `TellRefused` when the budget is spent, `Post`, `Mark`; errors go to `Fail` and, after the last, to `HandOver`.
`GiveUp` is the crash, the shutdown or the end of the job's twenty seconds: the model alone may take twelve, so that
one task fits them and the second need not (`fresh`).
`posted` and `mishap` are histories: answers inserted, and mentions whose notice to people was lost.

Abstractions: the answer's text, the knowledge base and the budget are the outcome of `Look`; so is whether post
and comment are still visible, since nothing else depends on it. The switch and the model's configuration are one Boolean;
reading them and the claim are one step, since `Switch` may come right after it. `processed_at` is the set
`today`. Mentions are numbered in the order of their tasks; retry waits and the wait for the next day are the
Booleans of `LeaseQueue`. The configuration without a bot account, where no task and no notice exists, is left out.

### CommentThreads, Reactions, ForumStats
`Ask` is CreateComment's checks and `Insert` its transaction, whatever happened between. `Delete`,
`SetCommentStatus` and `DeletePost` are transactions with their cascades; `RecountThreads`
and `RecountReactions` are the statements of `ReconcileCampusStats`, composed in
`ForumStats!Reconcile`. These transactions lock the rows they read (FOR UPDATE, or the update
itself) up to the commit, and two that cross end in a wait or in a deadlock that rolls one back: a
transaction is one step. The exception is a reaction, whose SELECT ... FOR UPDATE locks nothing when the row is absent:
`Sees` and `Adds` are two steps, and the unique key decides. Likes of posts, likes of comments and
collections have one shape, and `Targets` are any of them. `loose` is a history variable: the posts
and comments over whose counter a cascade has passed since it was last exact.
That the post of a comment is checked against a cache needs no action: the post may change between
`Ask` and `Insert` anyway.

### OpsAlerts
EXTENDS `LeaseQueue` with the one table whose rows are upserted: `CreateOpsAlert` replaces the payload and makes the
row pending, due and free, whoever holds it, and leaves the retry count as it was. That is why it is no
refinement of `TaskQueue`. `Raise` is a report, a feedback or an audit; `Snapshot` and `RaiseOverdue` are the scan of
ProcessOpsSLAAlerts, which raises the hour's key again at every scan. The job is `ClaimAlerts`, `Send` or `SendFails`, `MarkSent`
or `MarkFails`, `RetryLater` or `RetryFails`; `GiveUp` as in the other tables. `seen` is the payload a job has read.
Histories: `raced` (the last payload was written while a job held the row), `tried`, `failures`.

The upsert makes a row that was sent pending again, so that an alert about what is overdue goes out at every scan
(five minutes) and not once an hour, as `docs/deployment-launch.md:263` and `docs/agent-copilot.md:132` say.

### Reports
One piece of content. A request stores the report and raises its card (`Store`, `RaiseReport`); a click spends its token
(`Click`), acts on the content (`Act`), lists the pending reports, settles all that are pending by one statement
and tells those it had listed (`ListPending`, `Settle`, `Tell`). `Review` is the operators' page, for one report.
`CallDies` is an error or a crash between any two of these calls. Histories: `had`, `unheard`, `crossed`, `wasted`.
When the content is a post that is deleted (`gone`), GetAnyPostByID does not find it: the token is spent, the reports
stay pending (`ActOnNothing`), and the branch that would settle the reports of a deleted post (B 4577) is never reached.

### PostCache
One post and one list. A writer changes the row and then makes up to two calls to Redis (`DeleteDetail`, `BumpVersion`), each of
which may fail; a reader looks into the cache, reads the row and fills the cache in three steps; a reader of the list
reads the version first and keeps its answer under the key of that version. The job that refreshes the recommend pool is a reader of the list.
Time is in ticks: entries expire, requests have a deadline, `old` is the time since a copy was replaced.
Every write has an edition of its own, and `CachesFollowWrites` asks of each edition that the cached detail lacks where its deletion has gone:
the fill came after it and had read before it (`filled`), its writer has yet to delete the detail (`dirty`) or has failed to (`undeleted`), or it
is a recount (`recounted`). The last is no failure: of all that write the row, ReconcileCampusStats (D 3905) alone makes no call to
Redis, and what it corrects shows when the entry expires. A list of the version of now is behind only while a
writer is between its commit and the version, or after a version that it failed to raise (`unbumped`): a fill with rows older than its version is excused by nothing.
What a list contains is its edition; likes and counters change the detail and not the list. Hot and recommended lists are ordered by
counters and age as well, which no version follows: that order is as old as the entry.

### TaskServer
The batch of events with its timer, the loop of the task server, exclusive jobs, and the shutdown: Kratos (external, from
`main.go`) stops the HTTP server and the task server side by side and then the process exits. `Stop` waits for the loop, for the jobs, then takes the
batch for the last time; events that come after that are written at once. `lost` is what a failed write or
the exit cut off. The loop's `select` may choose a ticker although its context is cancelled.
When a batch fails, its events are written one by one (`PersistFails`); gorm's transaction has taken back what the batch
had written, unless it is the reply of the COMMIT that was lost. Then the rows are there, and the events that follow get rows and
identifiers of their own (D 3769, 3796), so that they are counted twice (`PersistsTwice`, `twice`).
`EventLog` is what those who add an event may count on: it waits until it is written or dropped, never both, and it is
written a second time only by such a commit (`Repeat`). An event that has come in
and is neither waits in the batch or in the hands of a flusher (`Log`, the refinement mapping); `dropped` is `lost`, `repeated` is `twice`.

### AIBudget
A caller reads the sums of the day and the month (`Ask`, or `AskBlindly` when they cannot be read), asks the model, and logs
the cost (`Record`); then it sums up the month, looks at each mark and raises and stores its warning (`Sum`, `Skip`, `Warn`, `Announce`).
Costs are whole numbers of a small unit; the month does not end within a behaviour, days do.

### KnowledgeIndex
One document in three stores. An operator's request reads the row and writes all of it back (`Begin`, `Overwrite`), after taking points
and chunks away when it takes the document down (`Erase`, `Clear`), or before it adds a copy to the batch (`Enqueue`). An indexer takes the
batch and for each copy calls campus-rag (`RagDeletes`, `RagUpserts`), saves the chunks and writes the row from
its copy. A call that times out goes on as `stray`. A content is the edition it was written from, `doubt` the history that
says that two changes overlapped or one was left halfway: then the three stores may disagree, and do.

### WechatLogin
Every row a WeChat login touches is found by its open_id, so the module has one identity and several logins. A first login is
`Enter`, `RegisterWechat` (the address is unique), `Check` and `Find` when Register did not return an account, `LookUp`, `AddUser`, `SaveIdentity`;
all go on with `LoadUser`, `ReadProfile`, `KeepProfile`. The password is made from the auth secret, which
`Rotate` changes. Errors the code goes on after are `RegisterFails`, `CheckFails` and `LookUpFails`; `LoginFails` is every other, with or without what
the call has written, and the death of a replica. What a failed call has not written by then it does not write later.
The upsert of the profile meets the unique open_id of another user's row and leaves that row's user
as it is: two first logins at once may leave the user the identity names without a profile for ever, GetProfile and UpdateProfile answering "not found" (`overlapped`).

### Registration
The attempts to sign up with one address: `Register` in base, `CreateUser` in campusUser, `DeleteAccount` when that fails. `cut` are the accounts
whose attempt ended without its undoing: the reply of Register was lost, DeleteAccount failed, or the process died. Such an address can neither
be registered again nor logged in to.
`AddressBook` is the promise: one owner at most, a welcomed owner for ever, and only a refused attempt gives the address back. It allows what the code
cannot exclude, an address taken by an attempt that was told it failed.

### MCServices
These eight share no state: alerts are raised by what other modules do, but nothing they do depends on the alert's fate, and
caches, budget, batch, documents and accounts have tables and keys of their own. A behaviour picks one of them and lets the others rest,
which checks each as a run of its own would.

## 3. Runs

| Run | Question | Bounds |
|---|---|---|
| `audit_people` | Under all modes, with people acting: does the audit publish or reject by itself what it must not, is a pending post ever forgotten? | 1 post, 2 jobs, 1 operator request, 2 faults, 1 card of a kind; Feishu on |
| `audit_queue` | Are claims exclusive, is it the abstract queue, does every task settle? | 2 posts (one batch, two batches), 2 jobs, 1 fault, MaxRetry 3 as in the code |
| `audit_deleted` | (violated) does a deleted post stay deleted? | 1 post, 1 job, no faults |
| `audit_card` | (violated) does the state a card checked still hold at its write? | 1 post, 1 job, 2 operator requests |
| `outbox` | Exclusive claims, delivery, reads, refinement and liveness | 2 rows, 2 users, 2 jobs, 1 fault, MaxRetry 2 |
| `outbox_reach` | (violated) is a notification behind a broadcast delivered or given up in the end? | a job with time for 1 of 2 recipients, no faults |
| `forum` | Do counters cover the rows, are they exact outside cascades, do likes count once, does the reconciliation heal? | 1 post, 3 comments (a root, a reply and a third beside, under or deeper), 2 requests of one user, counters to 3 |
| `replies` | Is a mention answered once? | 2 mentions, 2 jobs, batch of 2, 1 reset, MaxRetry 2, limit of 1 a day, no faults |
| `replies_settle` | Does one job keep the limit, is every task settled, do faults leave nobody ignored? | the same with 1 job and 1 fault |
| `services` | Is what is closed as sent sent, and nothing given up untried? Are reporters told, do spent tokens settle? Do caches follow writes and catch up? Does a stop end, and lose nothing? Is the overspend bounded, is every warning given? Do the stores of a document agree, does indexing end? Do logins reach one user, and get through after a failure? Is a sign-up that was confirmed kept? Do the batch and the sign-ups implement their abstract specifications (`ServicesImplement`)? | alerts: 2 rows (1 of the scan), 2 jobs, 2 payloads, 1 fault, MaxRetry 1; reports: 2 reporters, 2 filings, 2 calls, 1 crash; caches: 2 writers, 1 reader, the refresher, 2 writes, TTLs 2 and 1, deadline 1, 1 outage; server: 2 requests, 3 events, 2 jobs, batch of 2, 1 cut; budget: 2 callers, 3 calls, budgets 1 and 2; document: 2 requests at a time, 3 changes, 1 indexer, 1 error; logins: 2 at a time, 3 in all, 2 secrets, 1 lapse; sign-ups: 3 attempts, 2 flaws |
| `knowledge_disabled` | (violated) is a document that was taken down no longer searched? | 2 requests, 2 changes, 1 indexer, no errors |
| `replies_recognised` | (violated) is an answer recognised when its task is processed again? | 1 job, 1 fault, no reset |

A post meets others only in a batch, so one post with two jobs shows the races of its row and two
posts those of batches. Two jobs are what it takes to break a claim. Two faults let a failed
alert follow a failed write. Two jobs on one task, which only a reset brings about, are what could
answer twice; two mentions with a limit of one are the least that overruns it or is put off. Three comments are the least with a reply to a reply. A payload raised under a job, a report filed between a list and its update, a write between a read and a fill, two callers past the budget, a request that comes while the server stops, a change during an index and two first logins each need two actors and no more, and a third login finds what they left; MaxRetry 1 makes the first failure the last, and three events fill a batch of two and leave one. Two requests of one user are the double tap. The
proofs remove these bounds for the safety properties.
`CHECK_DEADLOCK FALSE` everywhere: when no post, row or comment is left to create and all is
settled, the bounded system has nothing to do.

What the violated runs show (`findings`): a deleted post comes back when its audit task is still open,
because every write of the audit is `WHERE id`; a card overwrites a decision made after its
check; a document that is taken down while it is indexed stays searchable; a broadcast longer than the job's ten seconds is cut off and repeated for ever, and the rows
behind it starve, uncounted; and the daily limit is looked at before the existing answer, so that a task whose
answer was posted but not marked is put off and handed over to people although it is answered.

Met on the way and not given a run: with the AI first audit switched off, mode `ai` publishes posts of low rule risk
(B 2332), where `docs/developer-guide.md:229` says it degrades to manual review; alerts by kind and hour are sent at
every scan (above); a card on a deleted post leaves its reports pending (above); the hourly recount leaves the cached details of the
posts it corrects as they are (`Recount`); and a batch of events whose commit is not heard of is written again (`PersistsTwice`).

## 4. Fairness

* Audit and outbox jobs (`WF` of the steps of each worker): every replica ticks (5 s and 2 s) and
  `runExclusive` starts the job in its own goroutine; a job that is not interrupted runs its batch to
  the end. Faults, crashes and shutdowns are not fair and are bounded by `MaxFaults`.
* `FallDue`, `LeaseExpire`: time passes. `LeaseExpire` is weakly fair only as far as it is enabled: under
  `LeaseOutlivesRun` a lease cannot end while its job is alive.
* What is left of a CreatePost request goes on (`CreateStep`).
* AI reply jobs, `MentionStep` and `Pass` as above; `NewDay`: days pass.
* `Reconcile`: the hourly ticker; its success again and again is assumed.
* Alert jobs and `Time` as in the other tables. `AlertsSettle` excuses the switch: while Feishu is off nothing is claimed.
* `Tick`, writers that finish, the refresher (a ticker of the task server): without any of these a cache may be behind
  for ever, in the model as in the code.
* `Persist`, `EndJob`, `LoopGoesOn`, the steps of `Stop`: calls have deadlines. `LoopEnds` is strongly fair: Go's
  `select` picks at random among what is ready, so that a cancelled context is chosen in the end although tickers fire.
* Requests about a document, its indexers (the batch's timer fires after a second) and calls of campus-rag end.
* Nobody is obliged to click, review, read or comment.

`LeaseOutlivesRun` is an assumption, not a fact of the code: the audit's lease is 45 s and its
default deadline at most 32 s (B 3452, S 226-234, a batch of at most three), but `CAMPUS_AI_AUDIT_TASK_TIMEOUT` times
`CAMPUS_AI_AUDIT_BATCH_SIZE` may be configured above it; the outbox has 10 s under 30 s.
`EveryoneHears` needs fewer faults than retries and time for the whole batch (`Reach` 4): the run
`outbox_reach` is what happens without.

## 5. Proofs

All by TLAPS, for every value of the constants that the ASSUMEs allow. Every invariant and action property of a passing run, the
refinements included, is a theorem, and so is every type invariant. Each rests on an inductive invariant named below; lemmas `...Init` and
`...Step` say that it holds at first and is kept by every step, and PTL puts the two together.

* `PostAuditProofs`: `TypeCorrect`; `PublicIsPersonal` and `RejectIsPersonal` (no assumption on
  leases: stale writes included); `ClaimsAreExclusive`, `PendingAreWatched`, `AuditIsTaskQueue`, `AuditSettles`
  (if leases outlive jobs); `DeletionSettles`. `TypeInv` is the typing made inductive: an open task has retries left, a job at work
  has a claim. `GateInv`
  says that only a post of the agent gate is ever queued or held by a job. `SayInv` says
  that a "pass" verdict in a job's hands belongs to a post the rules do not rate high, unless it
  has been edited, and that a write an operator has pending says what was asked for or repeats
  what the post already was: without it a late write could not be judged. `ClaimInv` is
  exclusivity; `WatchInv` adds that a job settles a task only when its post is decided or the
  operators are warned, and that a job at the last retry (`hold`) is itself a watcher. `CountInv` ties the count carried by a claim to the row's, which makes
  `MarkRetry` the abstract `Fail`. `DeletionSettles` bounds the finding of `audit_deleted`: a deleted post that no request, open task,
  job or operator is at (`LaidToRest`) is never restored. What restores it was under way already, leases or not.
* `LeaseQueueProofs`: `LeasesImplementQueue`, from `RowInv` (types) and `HoldInv` (a held row is
  processing, leased, held by one job and its count is the row's). `QueuesSettle` is proved once, of the abstract queue: from
  `TakenInv` (an item somebody holds is taken, and held by one) follow exclusivity, that an item is given up exactly after `MaxRetry`
  failures, and that what is settled stays. `OutboxSettles` follows from it by the refinement alone; `AuditSettles` says the same of the
  audit tasks, whose module is another implementation.
* `NotificationOutboxProofs`: `OutboxTypeCorrect`, `DoneMeansDelivered`, `ReadIsKept`,
  `OutboxIsTaskQueue`, `OutboxSettles`. `DoneMeansDelivered` rests on `ReachInv`: when a job sends, everyone in the audience and not
  in `left` already has the notification; it needs no exclusivity, and neither do the next four. `RetriesArePaid` (`PaidInv`): a count, in the row or in a
  job's hands, never passes the number of faults. So, with fewer faults than retries, no row is given up (`FewFaultsLoseNothing`), which is the safety side of
  `EveryoneHears`. `DoneFitsDeadline` (`RoomInv`: the recipients a job has written to and the calls it has left are at most `Reach`): a row
  that is done had an audience of at most `Reach`. The two give `OversizeIsKept`: with fewer faults than retries, a
  broadcast to more than `Reach` users stays unsettled, whatever the numbers. That is the cause of the finding of `outbox_reach`,
  which TLC shows for one of them: the deadline cuts the marks off too, so that its retries are never counted.
* `ForumStatsProofs`: `StatsTypeCorrect`, `CountersCover`, `CountersExact`, `LikesAreCounted`, `ReconcileCorrects`.
  `ThreadInv` is the typing with `CountsCover` and `ExactUnlessLoose`, which are inductive together with the two-level
  shape of threads and with "a comment that was asked for has no row". All writers of one comment reduce to lemma
  `OneMoves`; the cascades have a lemma each. `ReactionInv` adds to `LikesCounted` that a lock is held on a row that is off, by one request.
  `ReconcileCorrects` is the action property behind `StatsHeal`: one run of the job makes every counter exact, raises none and leaves
  the right ones alone.
* `AIReplyProofs`: `ReplyTypeCorrect`, `OneAnswer`, `MentionsAreHeard`, `LimitHolds`, none of which assumes that claims are
  exclusive. `Inv` is the typing with "a job at work has a batch" and "a job that hands over has one task to hand over". `OnceInv` ties the number of answers inserted to the row under the
  task's identifier. `LimitInv` counts the jobs past the check with the tasks of the day: their sum stays below the limit plus
  the number of jobs. `WorkInv` says that a job about to mark has an answer and one about to close has told people,
  which makes every way to lose an open task leave one of the two behind. Claims are not exclusive here, since `Reset` frees a row
  under its job; `ResetsLetIn` says by how much, if leases outlive jobs: a task has one job and one more for each reset. Its
  invariant `LoadInv` counts a row that could be claimed as a job.
* `OpsProofs` (EXTENDS `LeaseQueueProofs`): `AlertsTypeCorrect`, `ReportsTypeCorrect`; `ReportersHear` from `TellInv`, which follows a report from the list a click made to
  the statement that settles it; `TokensSettle` from `TokenInv`, which keeps a spent card in the hands of its click until the
  reports it listed are settled. Both need that a request which has stored a report has numbered its filing. `ClosedAlertsWereSent` and `GivenUpAlertsWereTried`
  come from one invariant: a job that is about to mark an alert has sent what it read, and unless the row was raised meanwhile that is its payload;
  each retry counted in the row or in a job's hands was paid for by a failure.
* `AIProofs`: `BudgetTypeCorrect`, `BudgetsHold`, `MarksAreAnnounced`; `KnowledgeTypeCorrect`, `StoresAgree`, `IndexingIsWorkedOn`. `BudgetsHold`
  counts the callers that may still log a cost (`SpendInv`): sum and what is on its way
  stay below the budget and a caller's answer each, and logging moves a cost from one to the other. `MarksAreAnnounced` adds
  to the property that the alert of a mark comes before its setting. Marks are in 1..MonthBudget, as parseAIBudgetWarnRatios keeps ratios between 0 and 1.
  `StoresAgree` rests on `Calm`: while nobody doubts a document, one request, one waiting copy or one indexer
  is at work on it and nothing else, and each phase says what its next step will find; `NoneInv` says that nothing is at work
  before the document exists. A call that runs on may disturb only a document that is failed or about to be. That a document at rest
  is not "indexing" is a part of `Calm`, and with it `IndexingIsWorkedOn` is the safety side of `IndexingEnds`: an indexing
  document nobody doubts has a request, a batch or an indexer that will end it.
* `ServicesProofs`, caches: `CacheTypeCorrect` needs `RoomInv` (each write raises the list version once at most, so that the keys suffice);
  `CacheStaleIsBounded` needs `OldInv`, the age of copies in readers' hands; `CacheFollowsWrites` needs `DirtyInv` (a writer owes a deletion only between its commit and that call, so that
  a new write takes no earlier one's place) and `ListInv`: nothing is kept under
  a version still to come, and a reader that holds an old list under the version of now has a writer behind it that will raise it.
  Task server: `TasksTypeCorrect`; `BatchesAreTimed` (of `BufferIsTimed`: what waits in the batch has a timer, and the batch is never full) is inductive as it stands; `StopsAreClean` adds the order of the waits, and that a loop that has ended starts no job and
  a stopped batch takes no event. `EventsAreLogged` is the refinement of `EventLog`, from `PlacesInv`: an event is in one of the batch, the hands of
  one flusher, the table and `lost`; a batch written twice is the log's `Repeat`.
  Logins: `LoginsTypeCorrect`; `LoginsReachOneUser` from `FoundInv` (what a login holds is a user of the account, which exists once it was met) and
  `OneByOne` (unless they overlapped, first logins end before the identity is there, and profile and tokens follow it); that the
  query's first row exists is the well-foundedness of the numbers. From the same invariants, `IdentityStays`: the upserts never change a
  profile, nor an identity unless first logins overlapped.
  Sign-ups: `SignUpsTypeCorrect`; `SignUpsAreKept` needs that an attempt under way has the account it inserted, alive; so does
  `AddressHasOneOwner`, the refinement of `AddressBook`.
  The composition: `ServicesAreComponents` (a behaviour of MCServices is one of each component, fairness aside), from
  which `ServicesTypeCorrect` and `ServicesKeepPromises` follow, and every theorem above holds of the run.

Assumptions: the ASSUMEs on constants of each module, and `LeaseOutlivesRun` where it is a hypothesis (section 4). `FewFaultsLoseNothing` and `OversizeIsKept`
assume `MaxFaults < MaxRetry`, the case in which retries are meant to suffice.

Only model-checked: liveness (`TaskSettles` of both modules, `EveryoneHears`, `StatsHeal`, `AlertsSettle`, `ViewsCatchUp`,
`ShutdownEnds`, `IndexingEnds`), since fairness is ENABLED, which is out of the prover's reach; and the violated properties, of which a counterexample is the proof.
Where liveness rests on an invariant, that part is proved (`FewFaultsLoseNothing`, `ReconcileCorrects`, `IndexingIsWorkedOn`).
No module declares a RECURSIVE operator.

## 6. Not modelled, and the plan

Left for later, in the order of importance:

1. File uploads that are signed and never reported; IP blocks and rate limits.
2. Bind, Unbind and the upgrade of old password hashes, which write the whole account row (no caller in campusApi binds).
3. Feedback and its cards; the agent runs' step log; the candidates' cache of the moments.
4. `ListRecommendPosts` with its fallbacks, and filters of lists, as far as they choose rows.

Left out for good: prompts, retrieval quality and text handling (no state that TLC could tell
apart), queries that only read, hydration, HTTP translation, the admin web, deployment and
monitoring. Cryptography and the clients of MySQL, Redis, Feishu and the object storage are external.
