------------------------------ MODULE WorkerPool ------------------------------
(***************************************************************************)
(* The worker pool of concurrency/worker/worker.go.                        *)
(*                                                                         *)
(* Goroutines: one submitter per task (a call of Submit), MaxWorkers       *)
(* workers, one goroutine per dispatched task that runs the processor, and *)
(* the owner, who calls Start and later Stop.  The channel p.tasks is a    *)
(* bounded sequence; the context p.ctx is the flag cancelled; the four     *)
(* counters of Metrics are atomic integers, changed one at a time.         *)
(***************************************************************************)
EXTENDS Integers, Sequences, FiniteSets

CONSTANTS
  Task,          \* calls of Submit, each with a task of its own
  Worker,        \* the worker goroutines; Cardinality(Worker) is maxWorkers
  QueueSize,     \* capacity of the channel p.tasks
  NoTask,        \* "no task in hand"
  TaskOutcomes,  \* what the processor may do: "ok", "err" or "panic"
  TaskDeadline   \* whether a task's TaskTimeout can elapse

ASSUME TaskAssumption ==
  IsFiniteSet(Task) /\ NoTask \notin Task
ASSUME WorkerAssumption ==
  IsFiniteSet(Worker) /\ Worker # {}
ASSUME QueueSizeAssumption ==
  QueueSize \in Nat \ {0}
ASSUME EnvironmentAssumption ==
  /\ TaskOutcomes \subseteq {"ok", "err", "panic"}
  /\ TaskDeadline \in BOOLEAN

VARIABLES
  tasks,      \* the channel's buffer
  closed,     \* close(p.tasks) has happened
  cancelled,  \* p.cancel() has happened
  spc,        \* where each Submit call is
  wpc,        \* where each worker goroutine is
  cur,        \* the task each worker has in hand
  proc,       \* each task's processor goroutine, and what it left in doneCh
  owner,      \* where the owner of the pool is
  active,     \* metrics.ActiveWorkers
  pending,    \* metrics.PendingTasks
  completed,  \* metrics.CompletedTasks
  failed,     \* metrics.FailedTasks
  crashed     \* an unrecovered panic has ended the process

chanVars == <<tasks, closed, cancelled>>
metrics  == <<active, pending, completed, failed>>
vars == <<tasks, closed, cancelled, spc, wpc, cur, proc, owner,
          active, pending, completed, failed, crashed>>

SubmitStates == {"idle", "sent", "accepted", "full", "panicked"}
WorkerStates == {"new", "select", "got", "counted", "waiting", "leaving",
                 "exited"}
ProcStates   == {"none", "running", "ok", "err", "panic"}
OwnerStates  == {"new", "running", "cancelled", "closed", "done", "timeout"}

TypeOK ==
  /\ tasks \in Seq(Task)
  /\ Len(tasks) <= QueueSize
  /\ closed \in BOOLEAN
  /\ cancelled \in BOOLEAN
  /\ spc \in [Task -> SubmitStates]
  /\ wpc \in [Worker -> WorkerStates]
  /\ cur \in [Worker -> Task \cup {NoTask}]
  /\ proc \in [Task -> ProcStates]
  /\ owner \in OwnerStates
  /\ active \in Int
  /\ pending \in Int
  /\ completed \in Nat
  /\ failed \in Nat
  /\ crashed \in BOOLEAN

Init ==
  /\ tasks = <<>>
  /\ closed = FALSE
  /\ cancelled = FALSE
  /\ spc = [t \in Task |-> "idle"]
  /\ wpc = [w \in Worker |-> "new"]
  /\ cur = [w \in Worker |-> NoTask]
  /\ proc = [t \in Task |-> "none"]
  /\ owner = "new"
  /\ active = 0
  /\ pending = 0
  /\ completed = 0
  /\ failed = 0
  /\ crashed = FALSE

-----------------------------------------------------------------------------
(***************************************************************************)
(* Submit                                                                  *)
(***************************************************************************)

\* Mutant of SubmitSend: the send does not look at the channel's capacity.
SubmitSendUnbounded(t) ==
  /\ spc[t] = "idle" /\ ~closed
  /\ tasks' = Append(tasks, t)
  /\ spc' = [spc EXCEPT ![t] = "sent"]
  /\ UNCHANGED <<closed, cancelled, wpc, cur, proc, owner, metrics, crashed>>

\* The non-blocking send of Submit succeeds: the task is in the channel, but
\* PendingTasks does not count it yet.
SubmitSend(t) ==
  /\ spc[t] = "idle" /\ ~closed /\ Len(tasks) < QueueSize
  /\ tasks' = Append(tasks, t)
  /\ spc' = [spc EXCEPT ![t] = "sent"]
  /\ UNCHANGED <<closed, cancelled, wpc, cur, proc, owner, metrics, crashed>>

\* The second half of Submit: the task is counted, and Submit returns nil.
SubmitCount(t) ==
  /\ spc[t] = "sent"
  /\ pending' = pending + 1
  /\ spc' = [spc EXCEPT ![t] = "accepted"]
  /\ UNCHANGED <<chanVars, wpc, cur, proc, owner, active, completed, failed,
                 crashed>>

\* The buffer is full: the default branch returns ErrQueueFull.
SubmitFull(t) ==
  /\ spc[t] = "idle" /\ ~closed /\ Len(tasks) >= QueueSize
  /\ spc' = [spc EXCEPT ![t] = "full"]
  /\ UNCHANGED <<chanVars, wpc, cur, proc, owner, metrics, crashed>>

\* After close(p.tasks) the send panics in the caller's goroutine, which ends
\* the process unless that caller recovers.
SubmitClosed(t) ==
  /\ spc[t] = "idle" /\ closed
  /\ spc' = [spc EXCEPT ![t] = "panicked"]
  /\ crashed' \in BOOLEAN
  /\ UNCHANGED <<chanVars, wpc, cur, proc, owner, metrics>>

Submit(t) == SubmitSend(t) \/ SubmitFull(t) \/ SubmitClosed(t)

-----------------------------------------------------------------------------
(***************************************************************************)
(* The workers                                                             *)
(***************************************************************************)

\* Mutant of WorkerReceive: the task is read but stays in the channel.
WorkerReceivePeeks(w) ==
  /\ wpc[w] = "select" /\ tasks # <<>>
  /\ cur' = [cur EXCEPT ![w] = Head(tasks)]
  /\ wpc' = [wpc EXCEPT ![w] = "got"]
  /\ UNCHANGED <<chanVars, spc, proc, owner, metrics, crashed>>

\* The receive branch of worker()'s select.  It stays enabled after p.cancel():
\* a Go select with several ready branches takes any of them.
WorkerReceive(w) ==
  /\ wpc[w] = "select" /\ tasks # <<>>
  /\ cur' = [cur EXCEPT ![w] = Head(tasks)]
  /\ tasks' = Tail(tasks)
  /\ wpc' = [wpc EXCEPT ![w] = "got"]
  /\ UNCHANGED <<closed, cancelled, spc, proc, owner, metrics, crashed>>

\* The worker returns: its context is done, or the channel is closed and empty.
WorkerExit(w) ==
  /\ wpc[w] = "select" /\ (cancelled \/ (closed /\ tasks = <<>>))
  /\ wpc' = [wpc EXCEPT ![w] = "exited"]
  /\ UNCHANGED <<chanVars, spc, cur, proc, owner, metrics, crashed>>

\* Mutant of ProcessBegin: ActiveWorkers.Add(1) is missing.
ProcessBeginUncounted(w) ==
  /\ wpc[w] = "got"
  /\ wpc' = [wpc EXCEPT ![w] = "counted"]
  /\ UNCHANGED <<chanVars, spc, cur, proc, owner, metrics, crashed>>

\* processTask counts the worker as active before it uncounts the task.
ProcessBegin(w) ==
  /\ wpc[w] = "got"
  /\ active' = active + 1
  /\ wpc' = [wpc EXCEPT ![w] = "counted"]
  /\ UNCHANGED <<chanVars, spc, cur, proc, owner, pending, completed, failed,
                 crashed>>

\* The task leaves PendingTasks and its goroutine is started.
ProcessDispatch(w) ==
  /\ wpc[w] = "counted"
  /\ pending' = pending - 1
  /\ proc' = [proc EXCEPT ![cur[w]] = "running"]
  /\ wpc' = [wpc EXCEPT ![w] = "waiting"]
  /\ UNCHANGED <<chanVars, spc, cur, owner, active, completed, failed, crashed>>

\* The worker receives the processor's error from doneCh.
ProcessCollect(w) ==
  /\ wpc[w] = "waiting" /\ proc[cur[w]] \in {"ok", "err"}
  /\ IF proc[cur[w]] = "ok"
     THEN completed' = completed + 1 /\ UNCHANGED failed
     ELSE failed' = failed + 1 /\ UNCHANGED completed
  /\ wpc' = [wpc EXCEPT ![w] = "leaving"]
  /\ cur' = [cur EXCEPT ![w] = NoTask]
  /\ UNCHANGED <<chanVars, spc, proc, owner, active, pending, crashed>>

\* Mutant of ProcessTimeout: the worker counts the failure and keeps waiting.
ProcessTimeoutStays(w) ==
  /\ wpc[w] = "waiting" /\ (TaskDeadline \/ cancelled)
  /\ failed' = failed + 1
  /\ UNCHANGED <<chanVars, spc, wpc, cur, proc, owner, active, pending,
                 completed, crashed>>

\* Mutant of ProcessTimeout: processTask waits for doneCh only.
ProcessTimeoutNever(w) ==
  /\ wpc[w] = "waiting" /\ proc[cur[w]] = "none"
  /\ UNCHANGED vars

\* taskCtx is done, by its own deadline or because p.ctx, its parent, is
\* cancelled.  The task's goroutine is abandoned, not stopped.
ProcessTimeout(w) ==
  /\ wpc[w] = "waiting" /\ (TaskDeadline \/ cancelled)
  /\ failed' = failed + 1
  /\ wpc' = [wpc EXCEPT ![w] = "leaving"]
  /\ cur' = [cur EXCEPT ![w] = NoTask]
  /\ UNCHANGED <<chanVars, spc, proc, owner, active, pending, completed,
                 crashed>>

\* Mutant of ProcessEnd: the deferred ActiveWorkers.Add(-1) is missing.
ProcessEndUncounted(w) ==
  /\ wpc[w] = "leaving"
  /\ wpc' = [wpc EXCEPT ![w] = "select"]
  /\ UNCHANGED <<chanVars, spc, cur, proc, owner, metrics, crashed>>

\* The deferred function of processTask; the worker is back at its select.
ProcessEnd(w) ==
  /\ wpc[w] = "leaving"
  /\ active' = active - 1
  /\ wpc' = [wpc EXCEPT ![w] = "select"]
  /\ UNCHANGED <<chanVars, spc, cur, proc, owner, pending, completed, failed,
                 crashed>>

WorkerStep(w) ==
  \/ WorkerReceive(w) \/ WorkerExit(w)
  \/ ProcessBegin(w) \/ ProcessDispatch(w)
  \/ ProcessCollect(w) \/ ProcessTimeout(w) \/ ProcessEnd(w)

\* The processor goroutine of task t returns an error or nil into doneCh.  A
\* panic is not recovered, for the recover of processTask is deferred in the
\* worker's goroutine: the process dies.
ProcessorReturn(t, outcome) ==
  /\ proc[t] = "running"
  /\ proc' = [proc EXCEPT ![t] = outcome]
  /\ crashed' = (outcome = "panic")
  /\ UNCHANGED <<chanVars, spc, wpc, cur, owner, metrics>>

-----------------------------------------------------------------------------
(***************************************************************************)
(* The owner                                                               *)
(***************************************************************************)

Start ==
  /\ owner = "new"
  /\ owner' = "running"
  /\ wpc' = [w \in Worker |-> "select"]
  /\ UNCHANGED <<chanVars, spc, cur, proc, metrics, crashed>>

StopCancel ==
  /\ owner = "running"
  /\ owner' = "cancelled"
  /\ cancelled' = TRUE
  /\ UNCHANGED <<tasks, closed, spc, wpc, cur, proc, metrics, crashed>>

StopClose ==
  /\ owner = "cancelled"
  /\ owner' = "closed"
  /\ closed' = TRUE
  /\ UNCHANGED <<tasks, cancelled, spc, wpc, cur, proc, metrics, crashed>>

\* Mutant of StopDone: Stop does not wait for the workers.
StopDoneAtOnce ==
  /\ owner = "closed"
  /\ owner' = "done"
  /\ UNCHANGED <<chanVars, spc, wpc, cur, proc, metrics, crashed>>

\* wg.Wait() returned, so the helper goroutine closed done.
StopDone ==
  /\ owner = "closed" /\ \A w \in Worker : wpc[w] = "exited"
  /\ owner' = "done"
  /\ UNCHANGED <<chanVars, spc, wpc, cur, proc, metrics, crashed>>

\* The context given to Stop ended first; the workers go on.
StopTimeout ==
  /\ owner = "closed"
  /\ owner' = "timeout"
  /\ UNCHANGED <<chanVars, spc, wpc, cur, proc, metrics, crashed>>

Stop == StopCancel \/ StopClose \/ StopDone \/ StopTimeout

-----------------------------------------------------------------------------

Step ==
  \/ \E t \in Task : Submit(t) \/ SubmitCount(t)
  \/ \E w \in Worker : WorkerStep(w)
  \/ \E t \in Task, outcome \in TaskOutcomes : ProcessorReturn(t, outcome)
  \/ Start
  \/ Stop

Next == ~crashed /\ Step

Safety == Init /\ [][Next]_vars

(***************************************************************************)
(* Goroutines that can run do run: each worker, each Submit that sent its  *)
(* task, and a Stop once begun.  Nothing is assumed of the processor, of   *)
(* the callers of Submit, Start and Stop, or of the deadline given to Stop. *)
(***************************************************************************)
Fairness ==
  /\ \A t \in Task : WF_vars(~crashed /\ SubmitCount(t))
  /\ \A w \in Worker : WF_vars(~crashed /\ WorkerStep(w))
  /\ WF_vars(~crashed /\ (StopClose \/ StopDone))

Spec == Safety /\ Fairness

-----------------------------------------------------------------------------
(***************************************************************************)
(* Properties                                                              *)
(***************************************************************************)

\* Workers between the receive of a task and its removal from PendingTasks;
\* workers inside processTask; Submit calls between the send and the count.
Uncounted  == {w \in Worker : wpc[w] \in {"got", "counted"}}
Processing == {w \in Worker : wpc[w] \in {"counted", "waiting", "leaving"}}
Sending    == {t \in Task : spc[t] = "sent"}

\* The tasks the channel took that are no longer in it or in a worker's hands.
Settled ==
  {t \in Task : /\ spc[t] \in {"sent", "accepted"}
                /\ \A i \in 1..Len(tasks) : tasks[i] # t
                /\ \A w \in Worker : cur[w] # t}
Succeeded == {t \in Settled : proc[t] = "ok"}

IsIdle == active = 0
IsEmpty == pending = 0

\* The two gauges against the goroutines they describe.  PendingTasks is the
\* channel's backlog, plus the received tasks that processTask has not
\* uncounted yet, less those sent whose Submit has not counted them (so it may
\* be negative); ActiveWorkers is the number of workers inside processTask.
GaugesExact ==
  /\ pending = Len(tasks) + Cardinality(Uncounted) - Cardinality(Sending)
  /\ active = Cardinality(Processing)

\* Every task that left the pool was counted exactly once: none is lost, counted
\* twice, or counted while still queued or in hand.  One counted as completed is
\* one whose processor did return nil; the converse fails, since a task that
\* timed out and was counted as failed may still succeed afterwards.
VerdictsExact ==
  /\ completed + failed = Cardinality(Settled)
  /\ completed <= Cardinality(Succeeded)

\* When no Submit is under way, a pool that reports IsIdle and IsEmpty has a
\* verdict on every task it accepted.  The order of the two counter updates of
\* processTask (active first, then pending) is what makes this true.
IdleAndEmptyMeansDrained ==
  IsIdle /\ IsEmpty /\ Sending = {}
    => \A t \in Task : spc[t] = "accepted" => t \in Settled

\* Once Stop has returned by itself (its workers joined), no counter of the
\* pool moves except PendingTasks, by a Submit that was between send and count.
QuietAfterStop ==
  [][owner = "done" => UNCHANGED <<active, completed, failed, tasks>>]_vars

\* With workers running, a task the channel took gets a verdict, even when its
\* processor never returns, unless the pool is stopped or the process dies.
AcceptedIsSettled ==
  \A t \in Task :
    (owner = "running" /\ spc[t] \in {"sent", "accepted"})
      ~> (t \in Settled \/ cancelled \/ crashed)

\* A Stop that was begun returns, whatever the processors do.
StopReturns ==
  (owner = "cancelled") ~> (owner \in {"done", "timeout"} \/ crashed)

Pool == INSTANCE Executor WITH
          Slot <- Worker, Capacity <- QueueSize,
          backlog <- tasks, hand <- cur, settled <- Settled,
          good <- completed, bad <- failed

\* The pool implements the abstract executor: tasks are taken in the order in
\* which Submit sent them, each by one worker, and each gets one verdict.
ImplementsExecutor == Pool!ESpec

\* The inductive invariant behind the safety properties.  A task the channel
\* took is in one place: once in the channel, or in one worker's hand.
HandedOnce ==
  /\ \A i, j \in 1..Len(tasks) : tasks[i] = tasks[j] => i = j
  /\ \A v, w \in Worker : cur[v] = cur[w] /\ cur[v] # NoTask => v = w
  /\ \A w \in Worker, i \in 1..Len(tasks) : cur[w] # tasks[i]

\* Tasks in the channel or in hand were sent, and a worker has a task in hand
\* exactly between its receive and the verdict.
HandsMatch ==
  /\ \A i \in 1..Len(tasks) : spc[tasks[i]] \in {"sent", "accepted"}
  /\ \A w \in Worker : cur[w] # NoTask => spc[cur[w]] \in {"sent", "accepted"}
  /\ \A w \in Worker :
       cur[w] # NoTask <=> wpc[w] \in {"got", "counted", "waiting"}

\* The owner's progress against the flags and the workers it joined.
OwnerMatch ==
  /\ closed <=> owner \in {"closed", "done", "timeout"}
  /\ owner = "new" <=> \E w \in Worker : wpc[w] = "new"
  /\ owner = "new" => \A w \in Worker : wpc[w] = "new"
  /\ owner = "done" => \A w \in Worker : wpc[w] = "exited"

IInv ==
  /\ TypeOK /\ HandedOnce /\ HandsMatch /\ OwnerMatch
  /\ GaugesExact /\ VerdictsExact

===============================================================================
