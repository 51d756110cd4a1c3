------------------------------- MODULE TaskQueue -------------------------------
(***************************************************************************)
(* The unified task queue of messaging/queue/queue.go: the normal channel, *)
(* the priority queue, the timer queue and the worker pool, composed.      *)
(*                                                                         *)
(* Goroutines: callers of Push (one per task) and of Cancel, the timer     *)
(* loop processTimers, the pool's workers, and for each dispatched task    *)
(* the goroutine that runs executeTask.  The sub-queues are the modules    *)
(* PriorityQueue and TimerQueue; the pool is used through Executor, the    *)
(* specification that WorkerPool implements.  The statistics that nothing  *)
(* in the queue reads back (QueueLength, WaitTime, ProcessingTime) and the *)
(* loop that publishes them are left out.                                  *)
(***************************************************************************)
EXTENDS Integers, Sequences, FiniteSets

CONSTANTS
  Task, NoTask, Worker,
  IdOf,         \* task.ID
  TriggerAt,    \* task.TriggerAt; 0 is the zero time
  AskedPrio,    \* the Priority the caller gave each task
  QueueSize,    \* config.QueueSize, used for all three queues and the pool
  MaxPrio,      \* config.MaxPriority
  MaxRetries,   \* task.MaxRetries, after Push replaced 0 by the default
  Offered,      \* sets of tasks, of which callers push one
  TaskDeadline, \* whether config.TaskTimeout can elapse
  Results,      \* what the processor may return: "ok", "retryable", "fatal"
  Horizon,      \* bound on the clock
  Canceled,     \* the IDs that Cancel is called with
  MaxCancels    \* bound on the calls of Cancel that find their task

ASSUME TaskAssumption ==
  /\ IsFiniteSet(Task) /\ NoTask \notin Task
  /\ TriggerAt \in [Task -> Nat] /\ AskedPrio \in [Task -> Int]
  /\ MaxRetries \in [Task -> Nat]
ASSUME QueueAssumption ==
  /\ QueueSize \in Nat \ {0} /\ MaxPrio \in Nat \ {0} /\ Horizon \in Nat
  /\ Offered \subseteq SUBSET Task
  /\ Canceled \subseteq {IdOf[t] : t \in Task}
  /\ Results \subseteq {"ok", "retryable", "fatal"}

VARIABLES
  \* the pool; exited is the set of its workers that returned
  backlog, hand, settled, good, bad, exited,
  \* the timer queue; batch is the slice that DueTasks returned
  items, tlookup, now, status, tmetrics, batch,
  \* the priority queue
  levels, lookup, size, prio, enqueueCount, dequeueCount, answer,
  \* the queue itself
  normalQueue,  \* the channel q.normalQueue
  qstate,       \* "new", "started", then how far Stop has come
  ppc,          \* how each Push call ended
  tpc,          \* where processTimers is
  epc,          \* where each task's executeTask is
  attempt,      \* the attempt that processTaskWithRetry is at
  ctxDone,      \* tasks whose own context was cancelled
  processing,   \* q.processing: the executing task of each ID
  cpc,          \* the task that a Cancel call has loaded
  qm,           \* the counters of metrics
  crashed       \* an unrecovered panic has ended the process

poolVars  == <<backlog, hand, settled, good, bad, exited>>
timerVars == <<items, tlookup, now, tmetrics, batch>>
prioVars  == <<levels, lookup, size, prio, enqueueCount, dequeueCount, answer>>
execVars  == <<epc, attempt, ctxDone, processing, cpc>>
vars == <<poolVars, timerVars, status, prioVars, normalQueue, qstate, ppc, tpc,
          execVars, qm, crashed>>

ID == {IdOf[t] : t \in Task}

Pool  == INSTANCE Executor WITH Slot <- Worker, Capacity <- QueueSize
Timer == INSTANCE TimerQueue WITH
           Capacity <- QueueSize, returned <- batch,
           MaxEnqueued <- Cardinality(Task)
Prio  == INSTANCE PriorityQueue WITH
           Capacity <- QueueSize, Asked <- {AskedPrio[t] : t \in Task},
           BatchSizes <- {1}, MaxEnqueued <- Cardinality(Task)

\* Stop: q.cancel(), close(q.normalQueue), then, in workerPool.Stop, p.cancel(),
\* close(p.tasks) and the wait for the workers.
StopStages == <<"started", "cancelled", "closed", "poolCancelled", "poolClosed",
                "stopped">>
Reached(stage) ==
  \E i, j \in DOMAIN StopStages :
    i <= j /\ StopStages[i] = stage /\ StopStages[j] = qstate

Executing == {t \in Task : epc[t] \in {"attempt", "waiting", "succeeding", "failing"}}
Refused == {t \in Task : epc[t] = "refused"}

PoolTypeOK ==
  /\ backlog \in Seq(Task) /\ Len(backlog) <= QueueSize
  /\ hand \in [Worker -> Task \cup {NoTask}]
  /\ settled \subseteq Task /\ good \in Nat /\ bad \in Nat
  /\ exited \subseteq Worker

ExecTypeOK ==
  /\ epc \in [Task -> {"none", "refused", "dispatched", "attempt", "waiting",
                       "succeeding", "failing", "ok", "err"}]
  /\ attempt \in [Task -> Nat] /\ \A t \in Task : attempt[t] <= MaxRetries[t]
  /\ ctxDone \subseteq Task
  /\ processing \in [ID -> Task \cup {NoTask}]
  /\ cpc \in Task \cup {NoTask}
  /\ qm \in [enqueue : Nat, process : Nat, success : Nat, failure : Nat,
             retry : Nat, cancel : Nat, activeTasks : Int]

TypeOK ==
  /\ Timer!TTypeOK /\ Prio!TypeOK /\ PoolTypeOK /\ ExecTypeOK
  /\ normalQueue \in Seq(Task)
  /\ qstate \in {"new"} \cup {StopStages[i] : i \in DOMAIN StopStages}
  /\ ppc \in [Task -> {"never", "idle", "accepted", "rejected", "panicked"}]
  /\ tpc \in {"new", "select", "submit", "exited"}
  /\ crashed \in BOOLEAN

Init ==
  /\ Pool!EInit /\ Timer!TInit /\ Prio!Init
  /\ exited = {}
  /\ prio = AskedPrio
  /\ normalQueue = <<>>
  /\ qstate = "new"
  /\ \E S \in Offered :
       ppc = [t \in Task |-> IF t \in S THEN "idle" ELSE "never"]
  /\ tpc = "new"
  /\ epc = [t \in Task |-> "none"]
  /\ attempt = [t \in Task |-> 0]
  /\ ctxDone = {}
  /\ processing = [id \in ID |-> NoTask]
  /\ cpc = NoTask
  /\ qm = [enqueue |-> 0, process |-> 0, success |-> 0, failure |-> 0,
           retry |-> 0, cancel |-> 0, activeTasks |-> 0]
  /\ crashed = FALSE

-----------------------------------------------------------------------------
(***************************************************************************)
(* Push                                                                    *)
(***************************************************************************)

\* What every Push does besides offering the task to one of the three queues.
PushRest(t, outcome) ==
  /\ ppc[t] = "idle"
  /\ ppc' = [ppc EXCEPT ![t] = outcome]
  /\ qm' = [qm EXCEPT !.enqueue = @ + 1]
  /\ UNCHANGED <<poolVars, qstate, tpc, execVars>>

PushTimer(t) ==
  /\ TriggerAt[t] # 0
  /\ \/ Timer!TPush(t) /\ PushRest(t, "accepted")
     \/ /\ Timer!TPushRejects(t) /\ PushRest(t, "rejected")
        /\ status' = [status EXCEPT ![t] = "pending"]
        /\ UNCHANGED timerVars
  /\ UNCHANGED <<prioVars, normalQueue, crashed>>

PushPriority(t) ==
  /\ TriggerAt[t] = 0 /\ prio[t] > 0
  /\ status' = [status EXCEPT ![t] = "pending"]
  /\ \/ Prio!PushAccepted(t) /\ PushRest(t, "accepted")
     \/ Prio!PushRejected(t) /\ PushRest(t, "rejected")
  /\ UNCHANGED <<timerVars, normalQueue, crashed>>

\* The send on the channel.  After Stop closed it, it panics in the caller's
\* goroutine, which ends the process unless that caller recovers.
PushNormal(t) ==
  /\ TriggerAt[t] = 0 /\ prio[t] <= 0
  /\ status' = [status EXCEPT ![t] = "pending"]
  /\ \/ /\ ~Reached("closed") /\ Len(normalQueue) < QueueSize
        /\ PushRest(t, "accepted")
        /\ normalQueue' = Append(normalQueue, t)
        /\ UNCHANGED crashed
     \/ /\ ~Reached("closed") /\ Len(normalQueue) >= QueueSize
        /\ PushRest(t, "rejected")
        /\ UNCHANGED <<normalQueue, crashed>>
     \/ /\ Reached("closed")
        /\ PushRest(t, "panicked")
        /\ crashed' \in BOOLEAN
        /\ UNCHANGED normalQueue
  /\ UNCHANGED <<timerVars, prioVars>>

Push(t) == PushTimer(t) \/ PushPriority(t) \/ PushNormal(t)

-----------------------------------------------------------------------------
(***************************************************************************)
(* processTimers                                                           *)
(***************************************************************************)

\* Mutant of TimerPoll: a poll that finds nothing ends the loop.
TimerPollGivesUp ==
  /\ tpc = "select"
  /\ Timer!TDueTasks
  /\ tpc' = IF batch' = <<>> THEN "exited" ELSE "submit"
  /\ UNCHANGED <<poolVars, prioVars, normalQueue, qstate, ppc, execVars, qm, crashed>>

\* A tick: DueTasks takes every due task out of the timer queue.
TimerPoll ==
  /\ tpc = "select"
  /\ Timer!TDueTasks
  /\ tpc' = IF batch' = <<>> THEN "select" ELSE "submit"
  /\ UNCHANGED <<poolVars, prioVars, normalQueue, qstate, ppc, execVars, qm,
                 crashed>>

TimerExit ==
  /\ tpc = "select" /\ Reached("cancelled")
  /\ tpc' = "exited"
  /\ UNCHANGED <<poolVars, timerVars, status, prioVars, normalQueue, qstate,
                 ppc, execVars, qm, crashed>>

\* What is left of the loop over the batch once its first task is dealt with.
NextInBatch ==
  /\ batch' = Tail(batch)
  /\ tpc' = IF Len(batch) = 1 THEN "select" ELSE "submit"
  /\ UNCHANGED <<items, tlookup, now, tmetrics, prioVars, normalQueue, qstate,
                 ppc, attempt, ctxDone, processing, cpc>>

\* workerPool.Submit takes the task ...
TimerSubmit ==
  /\ tpc = "submit" /\ ~Reached("poolClosed")
  /\ Pool!Admit(Head(batch))
  /\ NextInBatch
  /\ UNCHANGED <<exited, status, epc, qm, crashed>>

\* Mutant of TimerSubmitFull: the error of Submit is ignored.
TimerSubmitFullIgnored ==
  /\ tpc = "submit" /\ ~Reached("poolClosed") /\ Len(backlog) = QueueSize
  /\ NextInBatch
  /\ UNCHANGED <<poolVars, status, epc, qm, crashed>>

\* ... or its channel is full: the task fails, for good ...
TimerSubmitFull ==
  /\ tpc = "submit" /\ ~Reached("poolClosed") /\ Len(backlog) = QueueSize
  /\ status' = [status EXCEPT ![Head(batch)] = "failed"]
  /\ epc' = [epc EXCEPT ![Head(batch)] = "refused"]
  /\ qm' = [qm EXCEPT !.failure = @ + 1]
  /\ NextInBatch
  /\ UNCHANGED <<poolVars, crashed>>

\* ... or Stop closed it during the loop, and nothing recovers the panic.
TimerSubmitClosed ==
  /\ tpc = "submit" /\ Reached("poolClosed")
  /\ crashed' = TRUE
  /\ UNCHANGED <<poolVars, timerVars, status, prioVars, normalQueue, qstate, ppc,
                 tpc, execVars, qm>>

ProcessTimers ==
  \/ TimerPoll \/ TimerExit
  \/ TimerSubmit \/ TimerSubmitFull \/ TimerSubmitClosed

-----------------------------------------------------------------------------
(***************************************************************************)
(* The pool's workers, as far as the queue sees them                       *)
(***************************************************************************)

workerRest == <<timerVars, status, prioVars, normalQueue, qstate, ppc, tpc,
                attempt, ctxDone, processing, cpc, qm, crashed>>

\* A worker receives a task and starts the goroutine that executes it.
WorkerTake(w) ==
  /\ qstate # "new" /\ w \notin exited
  /\ Pool!Take(w)
  /\ epc' = [epc EXCEPT ![hand'[w]] = "dispatched"]
  /\ UNCHANGED <<workerRest, exited>>

\* executeTask returned, and its worker counts the result.
WorkerCollect(w) ==
  /\ hand[w] # NoTask
  /\ epc[hand[w]] \in {"ok", "err"}
  /\ Pool!Settle(w)
  /\ good' = IF epc[hand[w]] = "ok" THEN good + 1 ELSE good
  /\ UNCHANGED <<workerRest, epc, exited>>

\* The worker gives the task up; its goroutine goes on.
WorkerTimeout(w) ==
  /\ hand[w] # NoTask
  /\ TaskDeadline \/ Reached("poolCancelled")
  /\ Pool!Settle(w)
  /\ good' = good
  /\ UNCHANGED <<workerRest, epc, exited>>

WorkerExit(w) ==
  /\ Reached("poolCancelled") /\ w \notin exited /\ hand[w] = NoTask
  /\ exited' = exited \cup {w}
  /\ UNCHANGED <<workerRest, epc, backlog, hand, settled, good, bad>>

WorkerStep(w) ==
  WorkerTake(w) \/ WorkerCollect(w) \/ WorkerTimeout(w) \/ WorkerExit(w)

-----------------------------------------------------------------------------
(***************************************************************************)
(* executeTask, in the goroutine that the pool started for the task        *)
(***************************************************************************)

queueRest == <<poolVars, timerVars, prioVars, normalQueue, qstate, ppc, tpc,
               crashed>>

ExecuteBegin(t) ==
  /\ epc[t] = "dispatched"
  /\ epc' = [epc EXCEPT ![t] = "attempt"]
  /\ status' = [status EXCEPT ![t] = "running"]
  /\ processing' = [processing EXCEPT ![IdOf[t]] = t]
  /\ qm' = [qm EXCEPT !.process = @ + 1, !.activeTasks = @ + 1]
  /\ UNCHANGED <<queueRest, attempt, ctxDone, cpc>>

\* Mutant of Conclude: a failure is not counted.
ConcludeUncounted(t, verdict) ==
  /\ epc' = [epc EXCEPT ![t] = verdict]
  /\ status' = [status EXCEPT ![t] = IF verdict = "succeeding" THEN "completed" ELSE "failed"]
  /\ qm' = [qm EXCEPT !.success = IF verdict = "succeeding" THEN @ + 1 ELSE @]

\* The end of the retry loop with nil or an error, and what executeTask makes of
\* it: the final status, whatever Cancel wrote before.
Conclude(t, verdict) ==
  /\ epc' = [epc EXCEPT ![t] = verdict]
  /\ IF verdict = "succeeding"
     THEN /\ status' = [status EXCEPT ![t] = "completed"]
          /\ qm' = [qm EXCEPT !.success = @ + 1]
     ELSE /\ status' = [status EXCEPT ![t] = "failed"]
          /\ qm' = [qm EXCEPT !.failure = @ + 1]

\* The processor returns nil, or an error that ends the loop: one that is not
\* retryable, or the last attempt's.
ExecuteConclude(t, result) ==
  /\ epc[t] = "attempt"
  /\ result = "retryable" => attempt[t] = MaxRetries[t]
  /\ Conclude(t, IF result = "ok" THEN "succeeding" ELSE "failing")
  /\ UNCHANGED <<queueRest, attempt, ctxDone, processing, cpc>>

\* A retryable error with attempts left: the loop waits for RetryDelay ...
ExecuteWait(t) ==
  /\ epc[t] = "attempt" /\ "retryable" \in Results /\ attempt[t] < MaxRetries[t]
  /\ epc' = [epc EXCEPT ![t] = "waiting"]
  /\ UNCHANGED <<queueRest, status, attempt, ctxDone, processing, cpc,
                 qm>>

\* ... and tries again when it has passed ...
ExecuteRetry(t) ==
  /\ epc[t] = "waiting"
  /\ epc' = [epc EXCEPT ![t] = "attempt"]
  /\ attempt' = [attempt EXCEPT ![t] = @ + 1]
  /\ status' = [status EXCEPT ![t] = "retrying"]
  /\ qm' = [qm EXCEPT !.retry = @ + 1]
  /\ UNCHANGED <<queueRest, ctxDone, processing, cpc>>

\* ... or gives up with context.Canceled, when the task's context, a child of
\* q.ctx, is done.
ExecuteCanceled(t) ==
  /\ epc[t] = "waiting" /\ (t \in ctxDone \/ Reached("cancelled"))
  /\ Conclude(t, "failing")
  /\ UNCHANGED <<queueRest, attempt, ctxDone, processing, cpc>>

\* Mutant of ExecuteReturn: the deferred processing.Delete is missing.
ExecuteReturnKeeps(t) ==
  /\ epc[t] \in {"succeeding", "failing"}
  /\ epc' = [epc EXCEPT ![t] = IF @ = "succeeding" THEN "ok" ELSE "err"]
  /\ qm' = [qm EXCEPT !.activeTasks = @ - 1]
  /\ UNCHANGED <<queueRest, status, attempt, ctxDone, processing, cpc>>

\* The deferred calls, and the result handed to the pool through doneCh.
ExecuteReturn(t) ==
  /\ epc[t] \in {"succeeding", "failing"}
  /\ epc' = [epc EXCEPT ![t] = IF @ = "succeeding" THEN "ok" ELSE "err"]
  /\ processing' = [processing EXCEPT ![IdOf[t]] = NoTask]
  /\ qm' = [qm EXCEPT !.activeTasks = @ - 1]
  /\ UNCHANGED <<queueRest, status, attempt, ctxDone, cpc>>

Execute(t) ==
  \/ ExecuteBegin(t)
  \/ \E result \in Results : ExecuteConclude(t, result)
  \/ ExecuteWait(t) \/ ExecuteRetry(t) \/ ExecuteCanceled(t)
  \/ ExecuteReturn(t)

-----------------------------------------------------------------------------
(***************************************************************************)
(* Cancel, Start and Stop                                                  *)
(***************************************************************************)

\* Cancel finds the task of an ID in the map of executing tasks ...
CancelLoad(id) ==
  /\ cpc = NoTask /\ processing[id] # NoTask /\ qm.cancel < MaxCancels
  /\ cpc' = processing[id]
  /\ UNCHANGED <<queueRest, status, epc, attempt, ctxDone, processing,
                 qm>>

\* ... and cancels its context and marks it, though it may be over by then.
CancelApply ==
  /\ cpc # NoTask
  /\ ctxDone' = ctxDone \cup {cpc}
  /\ status' = [status EXCEPT ![cpc] = "canceled"]
  /\ qm' = [qm EXCEPT !.cancel = @ + 1]
  /\ cpc' = NoTask
  /\ UNCHANGED <<queueRest, epc, attempt, processing>>

QueueStart ==
  /\ qstate = "new"
  /\ qstate' = "started"
  /\ tpc' = "select"
  /\ UNCHANGED <<poolVars, timerVars, status, prioVars, normalQueue, ppc,
                 execVars, qm, crashed>>

\* One stage of Stop.  The last wait ends when the workers have returned, or with
\* the context given to Stop.
QueueStop ==
  /\ \E i \in 1..(Len(StopStages) - 1) :
       qstate = StopStages[i] /\ qstate' = StopStages[i + 1]
  /\ UNCHANGED <<poolVars, timerVars, status, prioVars, normalQueue, ppc, tpc,
                 execVars, qm, crashed>>

-----------------------------------------------------------------------------

Tick ==
  /\ Timer!TTick
  /\ UNCHANGED <<poolVars, prioVars, normalQueue, qstate, ppc, tpc, execVars, qm,
                 crashed>>

Step ==
  \/ \E t \in Task : Push(t)
  \/ ProcessTimers
  \/ \E w \in Worker : WorkerStep(w)
  \/ \E t \in Task : Execute(t)
  \/ \E id \in Canceled : CancelLoad(id)
  \/ CancelApply
  \/ QueueStart \/ QueueStop
  \/ Tick

Next == ~crashed /\ Step

(***************************************************************************)
(* Goroutines that can run do run, time passes, and the processor returns. *)
(* Nothing is assumed of the callers of Push, Cancel, Start and Stop.      *)
(***************************************************************************)
Fairness ==
  /\ WF_vars(~crashed /\ ProcessTimers)
  /\ \A w \in Worker : WF_vars(~crashed /\ WorkerStep(w))
  /\ \A t \in Task : WF_vars(~crashed /\ Execute(t))
  /\ WF_vars(~crashed /\ Tick)

Spec == Init /\ [][Next]_vars /\ Fairness

-----------------------------------------------------------------------------
(***************************************************************************)
(* Properties                                                              *)
(***************************************************************************)

\* The places where a pushed task can be, the end of the line included.
Places(t) ==
  {<<"normal", i>> : i \in {j \in DOMAIN normalQueue : normalQueue[j] = t}}
    \cup (IF lookup[IdOf[t]] = t THEN {<<"priority", 0>>} ELSE {})
    \cup (IF t \in items THEN {<<"timer", 0>>} ELSE {})
    \cup {<<"batch", i>> : i \in {j \in DOMAIN batch : batch[j] = t}}
    \cup {<<"backlog", i>> : i \in {j \in DOMAIN backlog : backlog[j] = t}}
    \cup {<<"hand", w>> : w \in {v \in Worker : hand[v] = t}}
    \cup (IF t \in settled THEN {<<"settled", 0>>} ELSE {})
    \cup (IF t \in Refused THEN {<<"refused", 0>>} ELSE {})

\* A task whose Push succeeded is in exactly one place at any time, from the
\* sub-queue through the timer loop's batch to the pool, and a task whose Push
\* did not succeed is nowhere: hand-overs neither lose nor copy tasks.  What
\* executes is in a worker's hand or was given up by one.
TaskInOnePlace ==
  \A t \in Task :
    /\ Cardinality(Places(t)) = IF ppc[t] = "accepted" THEN 1 ELSE 0
    /\ epc[t] \notin {"none", "refused"} =>
         t \in settled \cup {hand[w] : w \in Worker}

\* No task starts before its trigger, on any path from Push to executeTask.
NeverEarly ==
  \A t \in Task : epc[t] \notin {"none", "refused"} => TriggerAt[t] <= now

\* Hand-overs between Push, the sub-queues, processTimers and the pool neither lose, copy
\* nor start a task too early (TaskInOnePlace, NeverEarly).
PlacesSound == TypeOK /\ TaskInOnePlace /\ NeverEarly

\* What q.processing points to is executing, under its ID, so that Cancel never
\* loads a task that is over; and ActiveTasks counts the executing tasks, which
\* may be more than the pool has workers once tasks time out.
ProcessingIsLive ==
  /\ \A id \in ID : processing[id] # NoTask =>
       processing[id] \in Executing /\ IdOf[processing[id]] = id
  /\ qm.activeTasks = Cardinality(Executing)

\* The queue's counters and the pool's agree on what they both saw: a task that
\* the pool counts as completed is one the queue counts as a success, and every
\* started task is counted once, when it is over.
OutcomesAgree ==
  LET count(states) == Cardinality({t \in Task : epc[t] \in states}) IN
  /\ good <= qm.success /\ good + bad = Cardinality(settled)
  /\ qm.success = count({"succeeding", "ok"})
  /\ qm.failure = count({"failing", "err", "refused"})
  /\ qm.process = qm.success + qm.failure + count({"attempt", "waiting"})
                  - Cardinality(Refused)
  /\ \A t \in Task : status[t] \in {"completed", "failed"} => epc[t] \in
       IF status[t] = "completed" THEN {"succeeding", "ok"}
                                  ELSE {"failing", "err", "refused"}

\* A timer task is executed, or refused by a full pool, unless Stop or a panic
\* intervenes.
TimerTaskRuns ==
  \A t \in Task :
    (t \in items /\ qstate = "started")
      ~> (epc[t] \in {"ok", "err", "refused"}
          \/ Reached("cancelled") \/ crashed)

\* Every task that Push accepted into a started queue is executed or refused,
\* unless Stop or a panic intervenes.
PushedTaskRuns ==
  \A t \in Task :
    (ppc[t] = "accepted" /\ qstate = "started")
      ~> (epc[t] \in {"ok", "err", "refused"}
          \/ Reached("cancelled") \/ crashed)

===============================================================================
