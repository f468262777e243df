----------------------------- MODULE TaskServer -----------------------------
(***************************************************************************)
(* The task server of a campusApi process (server/campus_task_server.go),  *)
(* a batch processor (biz/campus_batch_processor.go) and how both end.     *)
(* Requests add events to the batch; whoever fills it, a timer of the      *)
(* batch, or the loop of the task server takes it and writes it.  Kratos   *)
(* stops the HTTP server and the task server side by side, then the        *)
(* process exits, whatever still runs.                                     *)
(***************************************************************************)
EXTENDS Integers, FiniteSets

CONSTANTS
    Requests,   \* places for requests at one time
    Events,     \* bound: events that come in
    Jobs,       \* names of the jobs: a job does not run twice at a time
    Size,       \* a batch of this size is written at once
    MaxCuts     \* bound: writes that fail

Timer == "timer"
Loop == "loop"
Stopper == "Stop"

ASSUME TaskServerAssumption ==
    /\ Size \in Nat \ {0} /\ MaxCuts \in Nat /\ IsFiniteSet(Events)
    /\ Requests \intersect {Timer, Loop, Stopper} = {}

Flushers == Requests \union {Timer, Loop, Stopper}

VARIABLES
    buffer,      \* items
    timer,       \* of the batch: "off", "armed", or "fired" when its flush waits for the lock
    stopped,     \* the batch is: events are written one by one
    taken,       \* events each flusher is writing
    stored,
    twice,       \* those of them that have two rows
    lost,        \* events whose write has failed, or was cut off
    phase,       \* what Stop of the task server waits for
    loop,        \* the task server's loop
    running,     \* jobs that run
    http,        \* the HTTP server
    exited,
    timedOut,    \* Stop has given up waiting
    cuts

batchVars == <<buffer, timer, stopped>>
eventVars == <<taken, stored, twice, lost>>
serverVars == <<phase, loop, running, http, exited, timedOut>>
taskVars == <<batchVars, eventVars, serverVars, cuts>>

InitTasks ==
    /\ buffer = {} /\ timer = "off" /\ stopped = FALSE
    /\ taken = [f \in Flushers |-> {}]
    /\ stored = {} /\ twice = {} /\ lost = {}
    /\ phase = "serving" /\ loop = "waits" /\ running = {}
    /\ http = "open" /\ exited = FALSE /\ timedOut = FALSE
    /\ cuts = 0

Cut == cuts < MaxCuts /\ cuts' = cuts + 1
Up == ~exited
Cancelled == phase # "serving"
Known(e) == e \in buffer \union stored \union lost \union UNION {taken[f] : f \in Flushers}

(* Faulty variant: what is taken stays in the batch. *)
TakeCopied(f, items) ==
    /\ taken' = [taken EXCEPT ![f] = items]
    /\ buffer' = buffer /\ timer' = "off"

(* takeLocked, by a flusher that has nothing else in its hands. *)
Take(f, items) ==
    /\ taken' = [taken EXCEPT ![f] = items]
    /\ buffer' = {} /\ timer' = "off"

(* Add: into the batch, which the request writes if that fills it; the first event
   arms the timer. *)
Full(items) == Cardinality(items) >= Size
Armed == IF buffer = {} THEN "armed" ELSE timer

Add(r, e) ==
    /\ Up /\ http = "open" /\ taken[r] = {} /\ ~Known(e)
    /\ IF stopped
       THEN taken' = [taken EXCEPT ![r] = {e}] /\ UNCHANGED <<buffer, timer>>
       ELSE IF Full(buffer \union {e})
       THEN Take(r, buffer \union {e})
       ELSE buffer' = buffer \union {e} /\ timer' = Armed /\ UNCHANGED taken
    /\ UNCHANGED <<stopped, stored, twice, lost, serverVars, cuts>>

(* flushOnTimer, with a deadline of its own: nobody waits for it. *)
TimerFires ==
    /\ Up /\ timer = "armed"
    /\ timer' = "fired"
    /\ UNCHANGED <<buffer, stopped, eventVars, serverVars, cuts>>

TimerFlush ==
    /\ Up /\ timer = "fired" /\ taken[Timer] = {}
    /\ Take(Timer, buffer)
    /\ UNCHANGED <<stopped, stored, twice, lost, serverVars, cuts>>

(* FlushCampusBatches, in the loop; its select may choose the ticker although the
   context is cancelled. *)
LoopFlush ==
    /\ Up /\ loop = "waits"
    /\ Take(Loop, buffer)
    /\ loop' = "flushes"
    /\ UNCHANGED <<stopped, stored, twice, lost, phase, running, http, exited, timedOut, cuts>>

LoopGoesOn ==
    /\ Up /\ loop = "flushes" /\ taken[Loop] = {}
    /\ loop' = "waits"
    /\ UNCHANGED <<batchVars, eventVars, phase, running, http, exited, timedOut, cuts>>

(* persistCampusEvents: all at once, *)
Persist(f) ==
    /\ Up /\ taken[f] # {}
    /\ stored' = stored \union taken[f]
    /\ taken' = [taken EXCEPT ![f] = {}]
    /\ UNCHANGED <<batchVars, twice, lost, serverVars, cuts>>

(* or, if that fails, one by one under the same context, which may be why it has failed. *)
PersistFails(f) ==
    /\ Up /\ taken[f] # {}
    /\ IF f = Loop /\ Cancelled THEN UNCHANGED cuts ELSE Cut
    /\ \E gone \in SUBSET taken[f] \ {{}} :
           stored' = stored \union (taken[f] \ gone) /\ lost' = lost \union gone
    /\ taken' = [taken EXCEPT ![f] = {}]
    /\ UNCHANGED <<batchVars, twice, serverVars>>

(* If it is the reply of the commit that fails, the rows are there, and those that follow
   one by one have identifiers of their own. *)
PersistsTwice(f) ==
    /\ Up /\ taken[f] # {}
    /\ Cut
    /\ stored' = stored \union taken[f]
    /\ \E again \in SUBSET taken[f] : twice' = twice \union again
    /\ taken' = [taken EXCEPT ![f] = {}]
    /\ UNCHANGED <<batchVars, lost, serverVars>>

(* runExclusive: from the loop, and not while a job of this name runs. *)
StartJob(j) ==
    /\ Up /\ loop = "waits" /\ j \notin running
    /\ running' = running \union {j}
    /\ UNCHANGED <<batchVars, eventVars, phase, loop, http, exited, timedOut, cuts>>

EndJob(j) ==
    /\ Up /\ j \in running
    /\ running' = running \ {j}
    /\ UNCHANGED <<batchVars, eventVars, phase, loop, http, exited, timedOut, cuts>>

(* Kratos, on a signal: no new requests, and Stop cancels the context, *)
Signal ==
    /\ Up /\ phase = "serving"
    /\ phase' = "loop"
    /\ UNCHANGED <<batchVars, eventVars, loop, running, http, exited, timedOut, cuts>>

CloseHTTP ==
    /\ Up /\ Cancelled /\ http = "open"
    /\ http' = "closing"
    /\ UNCHANGED <<batchVars, eventVars, phase, loop, running, exited, timedOut, cuts>>

LoopEnds ==
    /\ Up /\ Cancelled /\ loop = "waits"
    /\ loop' = "ended"
    /\ UNCHANGED <<batchVars, eventVars, phase, running, http, exited, timedOut, cuts>>

(* Faulty variant: Stop waits for the loop to be idle. *)
LoopIsIdle == loop = "waits"

(* then waits for the loop, *)
LoopIsDone == loop = "ended"

LoopAwaited ==
    /\ Up /\ phase = "loop" /\ LoopIsDone
    /\ phase' = "jobs"
    /\ UNCHANGED <<batchVars, eventVars, loop, running, http, exited, timedOut, cuts>>

(* Faulty variant: the batch stays open. *)
StopBatchOpen ==
    /\ stopped' = stopped
    /\ Take(Stopper, buffer)

(* for the jobs, and takes the batch for the last time, *)
StopBatch ==
    /\ stopped' = TRUE
    /\ Take(Stopper, buffer)

JobsAwaited ==
    /\ Up /\ phase = "jobs" /\ running = {}
    /\ StopBatch
    /\ phase' = "batch"
    /\ UNCHANGED <<stored, twice, lost, loop, running, http, exited, timedOut, cuts>>

BatchStopped ==
    /\ Up /\ phase = "batch" /\ taken[Stopper] = {}
    /\ phase' = "stopped"
    /\ UNCHANGED <<batchVars, eventVars, loop, running, http, exited, timedOut, cuts>>

(* or returns early when Kratos does not wait any longer. *)
StopTimesOut ==
    /\ Up /\ phase \in {"loop", "jobs"}
    /\ phase' = "stopped" /\ timedOut' = TRUE
    /\ Cut
    /\ UNCHANGED <<batchVars, eventVars, loop, running, http, exited>>

(* The process ends when both servers have stopped: what runs is cut off. *)
Exit ==
    /\ Up /\ phase = "stopped"
    /\ http = "closing" /\ \A r \in Requests : taken[r] = {}
    /\ exited' = TRUE
    /\ lost' = lost \union taken[Timer] \union taken[Loop]
    /\ taken' = [f \in Flushers |-> {}]
    /\ UNCHANGED <<batchVars, stored, twice, phase, loop, running, http, timedOut, cuts>>

Stopping == CloseHTTP \/ LoopAwaited \/ JobsAwaited \/ BatchStopped \/ Exit
Flushing == TimerFires \/ TimerFlush \/ LoopFlush \/ LoopGoesOn

TasksNext ==
    \/ \E r \in Requests, e \in Events : Add(r, e)
    \/ \E f \in Flushers : Persist(f) \/ PersistFails(f) \/ PersistsTwice(f)
    \/ \E j \in Jobs : StartJob(j) \/ EndJob(j)
    \/ Flushing \/ Signal \/ LoopEnds \/ Stopping \/ StopTimesOut

(* Writes and jobs end; the loop's select chooses the cancelled context some time. *)
TasksFairness ==
    /\ WF_taskVars(\E f \in Flushers : Persist(f))
    /\ WF_taskVars(\E j \in Jobs : EndJob(j))
    /\ WF_taskVars(LoopGoesOn) /\ SF_taskVars(LoopEnds)
    /\ WF_taskVars(Stopping)

TasksSpec == InitTasks /\ [][TasksNext]_taskVars /\ TasksFairness

-----------------------------------------------------------------------------
(* The batch, the servers and the events have values the code can give them. *)
TasksTypeOK ==
    /\ buffer \subseteq Events
    /\ timer \in {"off", "armed", "fired"}
    /\ stopped \in BOOLEAN
    /\ taken \in [Flushers -> SUBSET Events]
    /\ stored \subseteq Events /\ twice \subseteq Events /\ lost \subseteq Events
    /\ phase \in {"serving", "loop", "jobs", "batch", "stopped"}
    /\ loop \in {"waits", "flushes", "ended"}
    /\ running \subseteq Jobs
    /\ http \in {"open", "closing"}
    /\ exited \in BOOLEAN /\ timedOut \in BOOLEAN
    /\ cuts \in 0..MaxCuts

(* Events that wait in the batch have a timer, and the batch is not full. *)
BufferIsTimed == buffer # {} => timer # "off" /\ ~Full(buffer)

(* A process that stops in time leaves no event in the batch, although requests go on while
   the task server stops, and no job running when the batch is taken for the last time. *)
ShutdownIsClean ==
    /\ exited /\ ~timedOut => buffer = {} /\ running = {}
    /\ phase \in {"batch", "stopped"} /\ ~timedOut => running = {} /\ loop = "ended"

(* Whoever writes a part of the batch, and whenever the process ends: an event is written, or
   given up, and never both; none that came in is forgotten without a word; and none has a
   second row but by a commit whose reply was lost. *)
Log == INSTANCE EventLog WITH
          waiting <- buffer \union UNION {taken[f] : f \in Flushers},
          written <- stored,
          repeated <- twice,
          dropped <- lost
IsEventLog == Log!Spec

(* A process that is told to stop exits (neither is taken back, so that this is ~>). *)
ShutdownEnds == []<>(Cancelled => exited)

=============================================================================
