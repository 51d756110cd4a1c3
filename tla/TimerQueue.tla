------------------------------ MODULE TimerQueue ------------------------------
(***************************************************************************)
(* The timer queue of messaging/queue/timer.go.  Every method runs under   *)
(* tq.mu, so a call is one step.  The heap of container/heap is modelled   *)
(* by what it does: the set of its tasks, of which Pop removes one with a  *)
(* least TriggerAt (ties are broken arbitrarily).  Time is a discrete      *)
(* clock that runs to Horizon.                                             *)
(***************************************************************************)
EXTENDS Integers, Sequences, FiniteSets

CONSTANTS
  Task,       \* *QueuedTask pointers
  NoTask,     \* the nil pointer
  IdOf,       \* task.ID; "" is the empty ID
  TriggerAt,  \* task.TriggerAt; 0 is the zero time
  Capacity,   \* tq.capacity, already defaulted by NewTimerQueue
  Horizon,    \* bound on the clock
  MaxEnqueued \* bound on the number of accepted pushes

ASSUME TaskAssumption == IsFiniteSet(Task) /\ NoTask \notin Task
ASSUME TimeAssumption ==
  /\ Horizon \in Nat /\ Capacity \in Nat \ {0}
  /\ TriggerAt \in [Task -> Nat]

VARIABLES
  items,    \* *tq.items
  tlookup,  \* tq.lookup
  now,      \* time.Now()
  status,   \* task.Status
  tmetrics, \* tq.metrics
  returned  \* the tasks that the last Pop or DueTasks returned

tvars == <<items, tlookup, now, status, tmetrics, returned>>

ID == {IdOf[t] : t \in Task}
Statuses == {"new", "pending", "running", "completed", "failed", "canceled",
             "retrying"}

TTypeOK ==
  /\ items \subseteq Task /\ Cardinality(items) <= Capacity
  /\ tlookup \in [ID -> Task \cup {NoTask}]
  /\ now \in 0..Horizon
  /\ status \in [Task -> Statuses]
  /\ tmetrics \in [enqueue : Nat, dequeue : Nat, cancel : Nat, overdue : Nat]
  /\ returned \in Seq(Task)

TInit ==
  /\ items = {}
  /\ tlookup = [id \in ID |-> NoTask]
  /\ now = 0
  /\ status = [t \in Task |-> "new"]
  /\ tmetrics = [enqueue |-> 0, dequeue |-> 0, cancel |-> 0, overdue |-> 0]
  /\ returned = <<>>

\* Mutant of Due: the operands of Before are swapped.
DueSwapped(t) == now < TriggerAt[t]

\* t.TriggerAt.Before(now)
Due(t) == TriggerAt[t] < now

\* The orders in which repeated heap.Pop can return the tasks of a set.
HeapOrders(S) ==
  {s \in [1..Cardinality(S) -> S] :
     \A i, j \in 1..Cardinality(S) :
       i < j => s[i] # s[j] /\ TriggerAt[s[i]] <= TriggerAt[s[j]]}

Forget(S) == [id \in ID |-> IF \E t \in S : IdOf[t] = id THEN NoTask
                                                         ELSE tlookup[id]]

-----------------------------------------------------------------------------

TPushRejects(t) ==
  \/ IdOf[t] = "" \/ TriggerAt[t] = 0
  \/ Cardinality(items) >= Capacity
  \/ tlookup[IdOf[t]] # NoTask

\* Push when it is not rejected.
TPush(t) ==
  /\ ~TPushRejects(t)
  /\ tmetrics.enqueue < MaxEnqueued
  /\ status' = [status EXCEPT ![t] = "pending"]
  /\ items' = items \cup {t}
  /\ tlookup' = [tlookup EXCEPT ![IdOf[t]] = t]
  /\ tmetrics' = [tmetrics EXCEPT !.enqueue = @ + 1,
                                  !.overdue = IF Due(t) THEN @ + 1 ELSE @]
  /\ UNCHANGED <<now, returned>>

\* Pop: the task with the earliest trigger, due or not.
TPop(t) ==
  /\ t \in items
  /\ \A u \in items : TriggerAt[t] <= TriggerAt[u]
  /\ items' = items \ {t}
  /\ tlookup' = Forget({t})
  /\ tmetrics' = [tmetrics EXCEPT !.dequeue = @ + 1]
  /\ returned' = <<t>>
  /\ UNCHANGED <<now, status>>

\* DueTasks: heap.Pop while the root is due.
TDueTasks ==
  LET due == {t \in items : Due(t)} IN
  /\ returned' \in HeapOrders(due)
  /\ items' = items \ due
  /\ tlookup' = Forget(due)
  /\ tmetrics' = [tmetrics EXCEPT !.dequeue = @ + Cardinality(due)]
  /\ UNCHANGED <<now, status>>

\* Mutant of TCancel: the index keeps the cancelled task.
TCancelKeepsIndex(id) ==
  /\ tlookup[id] # NoTask
  /\ \E t \in items : IdOf[t] = id /\ items' = items \ {t}
  /\ status' = [status EXCEPT ![tlookup[id]] = "canceled"]
  /\ tmetrics' = [tmetrics EXCEPT !.cancel = @ + 1]
  /\ UNCHANGED <<tlookup, now, returned>>

TCancel(id) ==
  /\ tlookup[id] # NoTask
  /\ \E t \in items : IdOf[t] = id /\ items' = items \ {t}
  /\ tlookup' = [tlookup EXCEPT ![id] = NoTask]
  /\ status' = [status EXCEPT ![tlookup[id]] = "canceled"]
  /\ tmetrics' = [tmetrics EXCEPT !.cancel = @ + 1]
  /\ UNCHANGED <<now, returned>>

TClear ==
  /\ items' = {}
  /\ tlookup' = [id \in ID |-> NoTask]
  /\ UNCHANGED <<now, status, tmetrics, returned>>

\* NextDue: -1 when empty, 0 when something is overdue.
NextDue ==
  IF items = {} THEN -1
  ELSE LET t == CHOOSE t \in items : \A u \in items : TriggerAt[t] <= TriggerAt[u]
       IN  IF Due(t) THEN 0 ELSE TriggerAt[t] - now

TTick ==
  /\ now < Horizon
  /\ now' = now + 1
  /\ UNCHANGED <<items, tlookup, status, tmetrics, returned>>

-----------------------------------------------------------------------------
(***************************************************************************)
(* The queue used on its own, by callers that push, pop, poll and cancel.  *)
(***************************************************************************)

TNext ==
  \/ \E t \in Task : TPush(t) \/ TPop(t)
  \/ TDueTasks
  \/ \E id \in ID : TCancel(id)
  \/ TClear
  \/ TTick

\* Time passes, and someone keeps polling DueTasks.
TSpec == TInit /\ [][TNext]_tvars /\ WF_tvars(TTick) /\ WF_tvars(TDueTasks)

\* The heap and the index hold the same tasks, one per ID,
\* through any order of pushes, pops, polls and cancellations, and
\* what the heap holds is pending: a canceled task can never fire.
TIndexMatches ==
  /\ \A t \in Task : t \in items <=> tlookup[IdOf[t]] = t
  /\ \A t \in items : status[t] = "pending"
  /\ Cardinality(items) + tmetrics.dequeue + tmetrics.cancel <= tmetrics.enqueue

\* NextDue never tells a poller to wait while a task is due, and a poller that
\* waits as long as it says finds a task one instant later (DueTasks is strict,
\* so a task is not due at its very TriggerAt).
NextDueIsSafe ==
  items # {} =>
    /\ (\E t \in items : Due(t)) => NextDue = 0
    /\ \E t \in items : TriggerAt[t] < now + NextDue + 1

\* Heap and index hold the same pending tasks (TIndexMatches) and NextDue is safe to
\* sleep on (NextDueIsSafe), after any sequence of calls (Push, Cancel, DueTasks, NextDue).
TimerConsistent == TTypeOK /\ TIndexMatches /\ NextDueIsSafe

\* A queued task does not stay: it fires, or is popped, canceled or cleared.
Fires == \A t \in Task : (t \in items) ~> (t \notin items)

===============================================================================
