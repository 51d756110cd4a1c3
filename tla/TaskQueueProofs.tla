--------------------------- MODULE TaskQueueProofs ---------------------------
(***************************************************************************)
(* Theorems about TaskQueue: the queue composed of the normal channel, the *)
(* priority queue, the timer queue and the pool, for every finite set of   *)
(* tasks, any set of workers and any queue size.                           *)
(***************************************************************************)
EXTENDS TaskQueue, FiniteSetTheorems, TLAPS

-----------------------------------------------------------------------------
(***************************************************************************)
(* The inductive invariant.  TaskInOnePlace counts places; what a step     *)
(* preserves is how the place of a task goes with the rest of its state.   *)
(***************************************************************************)

In(s, t) == \E i \in 1..Len(s) : s[i] = t
Distinct(s) == \A i, j \in 1..Len(s) : s[i] = s[j] => i = j

Held(t) == \E w \in Worker : hand[w] = t
Started(t) == epc[t] \notin {"none", "refused"}
Accepted(t) == ppc[t] = "accepted"
Ripe(t) == Accepted(t) /\ TriggerAt[t] # 0 /\ TriggerAt[t] < now

\* No task stands twice in a line, and the timer loop submits exactly while its
\* batch has tasks.
Lines ==
  /\ Distinct(normalQueue) /\ Distinct(batch) /\ Distinct(backlog)
  /\ \A v, w \in Worker : hand[v] = hand[w] /\ hand[v] # NoTask => v = w
  /\ (tpc = "submit") <=> (batch # <<>>)
  /\ qstate = "new" => tpc = "new"

\* Where a task is tells how it came there: by its trigger, its priority and what
\* became of its Push and its executeTask.
Route(t) ==
  /\ In(normalQueue, t) =>
       Accepted(t) /\ TriggerAt[t] = 0 /\ prio[t] <= 0 /\ epc[t] = "none"
  /\ lookup[IdOf[t]] = t =>
       Accepted(t) /\ TriggerAt[t] = 0 /\ prio[t] > 0 /\ epc[t] = "none"
  /\ t \in items =>
       /\ Accepted(t) /\ TriggerAt[t] # 0 /\ epc[t] = "none"
       /\ ~In(batch, t) /\ ~In(backlog, t)
  /\ In(batch, t) => Ripe(t) /\ epc[t] = "none" /\ ~In(backlog, t)
  /\ In(backlog, t) => Ripe(t) /\ epc[t] = "none"
  /\ epc[t] = "refused" => Ripe(t)
  /\ Held(t) => Started(t) /\ t \notin settled
  /\ t \in settled => Started(t)
  /\ Started(t) => Ripe(t) /\ (Held(t) \/ t \in settled)
  /\ epc[t] = "waiting" => attempt[t] < MaxRetries[t]
  /\ Accepted(t) =>
       IF TriggerAt[t] = 0
       THEN In(normalQueue, t) \/ lookup[IdOf[t]] = t
       ELSE t \in items \/ In(batch, t) \/ In(backlog, t) \/ epc[t] # "none"

Routes == \A t \in Task : Route(t)

PlaceInv == TypeOK /\ Lines /\ Routes

-----------------------------------------------------------------------------
(***************************************************************************)
(* Lines of tasks that gain or lose one.                                   *)
(***************************************************************************)

\* A task sent to a channel stands behind the others.
LEMMA AppendIn ==
  ASSUME NEW s \in Seq(Task), NEW t \in Task
  PROVE  /\ Append(s, t) \in Seq(Task) /\ Len(Append(s, t)) = Len(s) + 1
         /\ \A u : In(Append(s, t), u) <=> In(s, u) \/ u = t
         /\ Distinct(s) /\ ~In(s, t) => Distinct(Append(s, t))
<1>1. /\ Append(s, t) \in Seq(Task)
      /\ Len(Append(s, t)) = Len(s) + 1 /\ Len(s) \in Nat
      /\ \A i \in 1..Len(s) : Append(s, t)[i] = s[i]
      /\ Append(s, t)[Len(s) + 1] = t
  OBVIOUS
<1> DEFINE r == Append(s, t)
<1>2. \A i \in 1..Len(r) : i \in 1..Len(s) \/ i = Len(s) + 1
  BY <1>1
<1>3. 1..Len(s) \subseteq 1..Len(r) /\ Len(s) + 1 \in 1..Len(r)
  BY <1>1
<1> HIDE DEF r
<1>4. ASSUME NEW u PROVE In(r, u) <=> In(s, u) \/ u = t
  BY <1>1, <1>2, <1>3 DEF In, r
<1>5. ASSUME Distinct(s), ~In(s, t) PROVE Distinct(r)
  BY <1>1, <1>2, <1>5 DEF In, Distinct, r
<1> QED BY <1>1, <1>4, <1>5 DEF r

\* Receiving from a channel takes the first task out of the line.
LEMMA TailIn ==
  ASSUME NEW s \in Seq(Task), s # <<>>, Distinct(s)
  PROVE  /\ Head(s) \in Task /\ In(s, Head(s))
         /\ Tail(s) \in Seq(Task) /\ Len(Tail(s)) = Len(s) - 1 /\ Len(s) \in Nat \ {0}
         /\ \A u : In(Tail(s), u) <=> In(s, u) /\ u # Head(s)
         /\ Distinct(Tail(s))
<1> DEFINE r == Tail(s)
<1>1. /\ Len(s) \in Nat /\ Len(s) > 0 /\ Head(s) = s[1] /\ Head(s) \in Task
      /\ Tail(s) \in Seq(Task) /\ Len(Tail(s)) = Len(s) - 1
      /\ \A i \in 1..Len(s) - 1 : Tail(s)[i] = s[i + 1]
  OBVIOUS
<1>2. \A i \in 1..Len(r) : i + 1 \in 1..Len(s) /\ r[i] = s[i + 1] /\ i + 1 # 1
  BY <1>1
<1>3. \A i \in 1..Len(s) : i = 1 \/ (i - 1 \in 1..Len(r) /\ r[i - 1] = s[i])
  <2> TAKE i \in 1..Len(s)
  <2>1. i # 1 => i - 1 \in 1..Len(s) - 1 /\ (i - 1) + 1 = i
    BY <1>1
  <2> QED BY <1>1, <2>1
<1>4. 1 \in 1..Len(s)
  BY <1>1
<1> HIDE DEF r
<1>5. ASSUME NEW u PROVE In(r, u) <=> In(s, u) /\ u # Head(s)
  BY <1>1, <1>2, <1>3, <1>4 DEF In, Distinct
<1>6. Distinct(r)
  <2> SUFFICES ASSUME NEW i \in 1..Len(r), NEW j \in 1..Len(r), r[i] = r[j]
               PROVE  i = j
    BY DEF Distinct
  <2>1. i + 1 = j + 1
    BY <1>2 DEF Distinct
  <2> QED BY <2>1
<1> QED BY <1>1, <1>4, <1>5, <1>6 DEF In, r

\* A slice with no tasks.
LEMMA EmptyIn == Distinct(<<>>) /\ \A u : ~In(<<>>, u)
BY DEF Distinct, In

-----------------------------------------------------------------------------
(***************************************************************************)
(* Type correctness.                                                       *)
(***************************************************************************)

\* Sets of tasks are finite.
LEMMA Counts ==
  ASSUME NEW S, S \subseteq Task
  PROVE  IsFiniteSet(S) /\ Cardinality(S) \in Nat
BY TaskAssumption, FS_Subset, FS_CardinalityType

\* The timer queue counts as everyone does.
LEMMA TimerCardinality == ASSUME NEW S PROVE Timer!Cardinality(S) = Cardinality(S)
BY DEF Timer!Cardinality, Cardinality

\* What DueTasks returns: every due task of the heap, once.
LEMMA HeapOrdersFacts ==
  ASSUME NEW S, S \subseteq Task, NEW s \in Timer!HeapOrders(S)
  PROVE  /\ s \in Seq(Task) /\ Distinct(s)
         /\ \A u : In(s, u) <=> u \in S
<1> DEFINE n == Cardinality(S)
<1>1. n \in Nat /\ IsFiniteSet(S)
  BY Counts
<1>2. /\ s \in [1..n -> S]
      /\ \A i, j \in 1..n : i < j => s[i] # s[j]
  BY TimerCardinality DEF Timer!HeapOrders
<1>3. s \in Seq(Task) /\ Len(s) = n
  BY <1>1, <1>2
<1>4. ASSUME NEW i \in 1..n, NEW j \in 1..n, s[i] = s[j] PROVE i = j
  <2>1. ~(i < j) /\ ~(j < i)
    BY <1>2, <1>4
  <2> QED BY <1>1, <2>1
<1>5. s \in Injection(1..n, S)
  BY <1>2, <1>4 DEF Injection, IsInjective
<1>6. Cardinality(1..n) = n /\ IsFiniteSet(1..n)
  BY <1>1, FS_Interval
<1>7. s \in Surjection(1..n, S)
  <2> HIDE DEF n
  <2>1. n = Cardinality(S)
    BY DEF n
  <2> QED BY <1>1, <1>5, <1>6, <2>1, FS_Injection
<1>8. \A u \in S : \E i \in 1..n : s[i] = u
  BY <1>7 DEF Surjection
<1> HIDE DEF n
<1>9. Distinct(s)
  BY <1>3, <1>4 DEF Distinct
<1>10. \A u : In(s, u) <=> u \in S
  BY <1>2, <1>3, <1>8 DEF In
<1> QED BY <1>3, <1>9, <1>10

\* The actions of Next, one by one.
LEMMA Actions ==
  ASSUME [Next]_vars
  PROVE  \/ \E t \in Task : PushTimer(t) \/ PushPriority(t) \/ PushNormal(t)
         \/ TimerPoll \/ TimerExit \/ TimerSubmit \/ TimerSubmitFull \/ TimerSubmitClosed
         \/ \E w \in Worker :
              WorkerTake(w) \/ WorkerCollect(w) \/ WorkerTimeout(w) \/ WorkerExit(w)
         \/ \E t \in Task :
              \/ ExecuteBegin(t) \/ \E result \in Results : ExecuteConclude(t, result)
              \/ ExecuteWait(t) \/ ExecuteRetry(t) \/ ExecuteCanceled(t) \/ ExecuteReturn(t)
         \/ \E id \in Canceled : CancelLoad(id)
         \/ CancelApply \/ QueueStart \/ QueueStop \/ Tick
         \/ UNCHANGED vars
BY DEF Next, Step, Push, ProcessTimers, WorkerStep, Execute

\* The priority queue changes in PushPriority only.
LEMMA PrioTypeOK == TypeOK /\ [Next]_vars => Prio!TypeOK'
<1> SUFFICES ASSUME TypeOK, [Next]_vars PROVE Prio!TypeOK'
  OBVIOUS
<1>1. ASSUME NEW t \in Task, Prio!PushAccepted(t) PROVE Prio!TypeOK'
  <2> DEFINE p == Prio!Normalize(prio[t])
  <2>1. prio[t] \in Int /\ p \in Prio!Levels /\ p \in Int
    BY QueueAssumption DEF TypeOK, Prio!TypeOK, Prio!Normalize, Prio!Levels
  <2>2. /\ prio' = [prio EXCEPT ![t] = p]
        /\ levels' = [levels EXCEPT ![p] = Append(@, t)]
        /\ lookup' = [lookup EXCEPT ![IdOf[t]] = t]
        /\ size' = size + 1 /\ enqueueCount' = enqueueCount + 1
        /\ answer' = <<>> /\ dequeueCount' = dequeueCount
    BY <1>1 DEF Prio!PushAccepted
  <2> HIDE DEF p
  <2>3. levels' \in [Prio!Levels -> Seq(Task)]
    <3>1. levels[p] \in Seq(Task) /\ levels \in [Prio!Levels -> Seq(Task)]
      BY <2>1 DEF TypeOK, Prio!TypeOK
    <3>2. Append(levels[p], t) \in Seq(Task)
      BY <3>1
    <3> QED BY <2>2, <3>1, <3>2
  <2>4. lookup' \in [Prio!ID -> Task \cup {NoTask}]
    BY <2>2 DEF TypeOK, Prio!TypeOK
  <2>5. prio' \in [Task -> Int]
    BY <2>1, <2>2 DEF TypeOK, Prio!TypeOK
  <2> QED BY <2>2, <2>3, <2>4, <2>5 DEF TypeOK, Prio!TypeOK
<1>2. ASSUME NEW t \in Task, Prio!PushRejected(t) PROVE Prio!TypeOK'
  BY <1>2 DEF TypeOK, Prio!TypeOK, Prio!PushRejected, Prio!counts
<1>3. CASE UNCHANGED prioVars
  BY <1>3 DEF TypeOK, Prio!TypeOK, prioVars
<1>4. \/ UNCHANGED prioVars
      \/ \E t \in Task : Prio!PushAccepted(t) \/ Prio!PushRejected(t)
  <2> USE DEF queueRest, workerRest
  <2>1. ASSUME NEW t \in Task, PushTimer(t) \/ PushPriority(t) \/ PushNormal(t)
        PROVE  UNCHANGED prioVars \/ Prio!PushAccepted(t) \/ Prio!PushRejected(t)
    BY <2>1 DEF PushTimer, PushPriority, PushNormal
  <2>2. CASE TimerPoll \/ TimerExit \/ TimerSubmit \/ TimerSubmitFull \/ TimerSubmitClosed
    BY <2>2 DEF TimerPoll, TimerExit, TimerSubmit, TimerSubmitFull, TimerSubmitClosed,
                NextInBatch
  <2>3. ASSUME NEW w \in Worker,
               WorkerTake(w) \/ WorkerCollect(w) \/ WorkerTimeout(w) \/ WorkerExit(w)
        PROVE  UNCHANGED prioVars
    BY <2>3 DEF WorkerTake, WorkerCollect, WorkerTimeout, WorkerExit
  <2>4. ASSUME NEW t \in Task,
               \/ ExecuteBegin(t) \/ \E result \in Results : ExecuteConclude(t, result)
               \/ ExecuteWait(t) \/ ExecuteRetry(t) \/ ExecuteCanceled(t) \/ ExecuteReturn(t)
        PROVE  UNCHANGED prioVars
    BY <2>4 DEF ExecuteBegin, ExecuteConclude, ExecuteWait, ExecuteRetry, ExecuteCanceled,
                ExecuteReturn
  <2>5. ASSUME NEW id \in Canceled, CancelLoad(id) PROVE UNCHANGED prioVars
    BY <2>5 DEF CancelLoad
  <2>6. CASE CancelApply \/ QueueStart \/ QueueStop \/ Tick \/ UNCHANGED vars
    BY <2>6 DEF CancelApply, QueueStart, QueueStop, Tick, vars
  <2> QED BY Actions, <2>1, <2>2, <2>3, <2>4, <2>5, <2>6
<1> QED BY <1>1, <1>2, <1>3, <1>4

\* Every write to task.Status writes one of its values.
LEMMA StatusTypeOK == TypeOK /\ Lines /\ [Next]_vars => status' \in [Task -> Timer!Statuses]
<1> SUFFICES ASSUME TypeOK, Lines, [Next]_vars PROVE status' \in [Task -> Timer!Statuses]
  OBVIOUS
<1>0. status \in [Task -> Timer!Statuses]
  BY DEF TypeOK, Timer!TTypeOK
<1>1. ASSUME NEW t \in Task, NEW x \in Timer!Statuses, status' = [status EXCEPT ![t] = x]
      PROVE  status' \in [Task -> Timer!Statuses]
  BY <1>0, <1>1
<1>2. {"pending", "running", "completed", "failed", "canceled", "retrying"}
         \subseteq Timer!Statuses
  BY DEF Timer!Statuses
<1> USE DEF queueRest, workerRest
<1>3. ASSUME NEW t \in Task, PushTimer(t) \/ PushPriority(t) \/ PushNormal(t)
      PROVE  status' = [status EXCEPT ![t] = "pending"]
  BY <1>3 DEF PushTimer, PushPriority, PushNormal, Timer!TPush
<1>4. CASE TimerSubmitFull
  <2>1. Head(batch) \in Task
    BY <1>4, TailIn DEF TimerSubmitFull, TypeOK, Timer!TTypeOK, Lines
  <2> QED BY <1>1, <1>2, <1>4, <2>1 DEF TimerSubmitFull
<1>5. CASE TimerPoll \/ TimerExit \/ TimerSubmit \/ TimerSubmitClosed
  BY <1>0, <1>5 DEF TimerPoll, TimerExit, TimerSubmit, TimerSubmitClosed, Timer!TDueTasks
<1>6. ASSUME NEW w \in Worker,
             WorkerTake(w) \/ WorkerCollect(w) \/ WorkerTimeout(w) \/ WorkerExit(w)
      PROVE  status' = status
  BY <1>6 DEF WorkerTake, WorkerCollect, WorkerTimeout, WorkerExit
<1>7. ASSUME NEW t \in Task,
             \/ ExecuteBegin(t) \/ \E result \in Results : ExecuteConclude(t, result)
             \/ ExecuteWait(t) \/ ExecuteRetry(t) \/ ExecuteCanceled(t) \/ ExecuteReturn(t)
      PROVE  \/ status' = status
             \/ \E x \in {"running", "completed", "failed", "retrying"} :
                  status' = [status EXCEPT ![t] = x]
  <2>1. ASSUME NEW v, Conclude(t, v)
        PROVE  \E x \in {"completed", "failed"} : status' = [status EXCEPT ![t] = x]
    BY <2>1 DEF Conclude
  <2>2. ASSUME NEW result \in Results, ExecuteConclude(t, result)
        PROVE  \E x \in {"completed", "failed"} : status' = [status EXCEPT ![t] = x]
    BY <2>1, <2>2 DEF ExecuteConclude
  <2>3. CASE ExecuteCanceled(t)
    BY <2>1, <2>3 DEF ExecuteCanceled
  <2> QED BY <1>7, <2>2, <2>3 DEF ExecuteBegin, ExecuteWait, ExecuteRetry, ExecuteReturn
<1>8. ASSUME NEW id \in Canceled, CancelLoad(id) PROVE status' = status
  BY <1>8 DEF CancelLoad
<1>9. CASE CancelApply
  <2>1. cpc \in Task
    BY <1>9 DEF CancelApply, TypeOK, ExecTypeOK
  <2> QED BY <1>1, <1>2, <1>9, <2>1 DEF CancelApply
<1>10. CASE QueueStart \/ QueueStop \/ Tick \/ UNCHANGED vars
  BY <1>0, <1>10 DEF QueueStart, QueueStop, Tick, Timer!TTick, vars
<1> QED BY Actions, <1>0, <1>1, <1>2, <1>3, <1>4, <1>5, <1>6, <1>7, <1>8, <1>9, <1>10

\* The steps that touch the timer queue, its clock or the batch taken from it.
LEMMA TimerFrame ==
  ASSUME [Next]_vars
  PROVE  \/ UNCHANGED timerVars
         \/ \E t \in Task : Timer!TPush(t)
         \/ Timer!TDueTasks /\ tpc = "select"
         \/ NextInBatch /\ tpc = "submit"
         \/ Timer!TTick
<1> USE DEF queueRest, workerRest
<1>1. ASSUME NEW t \in Task, PushTimer(t) \/ PushPriority(t) \/ PushNormal(t)
      PROVE  UNCHANGED timerVars \/ Timer!TPush(t)
  BY <1>1 DEF PushTimer, PushPriority, PushNormal
<1>2. CASE TimerPoll
  BY <1>2 DEF TimerPoll
<1>3. CASE TimerSubmit \/ TimerSubmitFull
  BY <1>3 DEF TimerSubmit, TimerSubmitFull
<1>4. CASE TimerExit \/ TimerSubmitClosed
  BY <1>4 DEF TimerExit, TimerSubmitClosed
<1>5. ASSUME NEW w \in Worker,
             WorkerTake(w) \/ WorkerCollect(w) \/ WorkerTimeout(w) \/ WorkerExit(w)
      PROVE  UNCHANGED timerVars
  BY <1>5 DEF WorkerTake, WorkerCollect, WorkerTimeout, WorkerExit
<1>6. ASSUME NEW t \in Task,
             \/ ExecuteBegin(t) \/ \E result \in Results : ExecuteConclude(t, result)
             \/ ExecuteWait(t) \/ ExecuteRetry(t) \/ ExecuteCanceled(t) \/ ExecuteReturn(t)
      PROVE  UNCHANGED timerVars
  BY <1>6 DEF ExecuteBegin, ExecuteConclude, ExecuteWait, ExecuteRetry, ExecuteCanceled,
              ExecuteReturn
<1>7. ASSUME NEW id \in Canceled, CancelLoad(id) PROVE UNCHANGED timerVars
  BY <1>7 DEF CancelLoad
<1>8. CASE CancelApply \/ QueueStart \/ QueueStop \/ UNCHANGED vars
  BY <1>8 DEF CancelApply, QueueStart, QueueStop, vars
<1>9. CASE Tick
  BY <1>9 DEF Tick
<1> QED BY Actions, <1>1, <1>2, <1>3, <1>4, <1>5, <1>6, <1>7, <1>8, <1>9

\* The timer queue keeps its type inside the composed queue.
LEMMA TimerTypeOK == TypeOK /\ Lines /\ [Next]_vars => Timer!TTypeOK'
<1> SUFFICES ASSUME TypeOK, Lines, [Next]_vars PROVE Timer!TTypeOK'
  OBVIOUS
<1>0. /\ items \subseteq Task /\ IsFiniteSet(items) /\ Cardinality(items) \in Nat
      /\ Cardinality(items) <= QueueSize
      /\ tlookup \in [Timer!ID -> Task \cup {NoTask}]
      /\ now \in 0..Horizon /\ batch \in Seq(Task)
      /\ tmetrics \in [enqueue : Nat, dequeue : Nat, cancel : Nat, overdue : Nat]
      /\ status' \in [Task -> Timer!Statuses]
  BY Counts, StatusTypeOK, TimerCardinality DEF TypeOK, Timer!TTypeOK
<1> SUFFICES /\ items' \subseteq Task /\ Cardinality(items') <= QueueSize
             /\ tlookup' \in [Timer!ID -> Task \cup {NoTask}]
             /\ now' \in 0..Horizon /\ batch' \in Seq(Task)
             /\ tmetrics' \in [enqueue : Nat, dequeue : Nat, cancel : Nat, overdue : Nat]
  BY <1>0, TimerCardinality DEF Timer!TTypeOK
<1>1. ASSUME NEW t \in Task, Timer!TPush(t)
      PROVE  /\ items' \subseteq Task /\ Cardinality(items') <= QueueSize
             /\ tlookup' \in [Timer!ID -> Task \cup {NoTask}]
             /\ now' \in 0..Horizon /\ batch' \in Seq(Task)
             /\ tmetrics' \in [enqueue : Nat, dequeue : Nat, cancel : Nat, overdue : Nat]
  <2>1. Cardinality(items') <= QueueSize
    <3>1. /\ Cardinality(items \cup {t}) <= Cardinality(items) + 1
          /\ Cardinality(items \cup {t}) \in Nat
      <4>1. IsFiniteSet(items \cup {t})
        BY <1>0, FS_AddElement
      <4>2. Cardinality(items \cup {t}) \in Nat
        BY <4>1, FS_CardinalityType
      <4>3. Cardinality(items \cup {t}) = IF t \in items THEN Cardinality(items)
                                                         ELSE Cardinality(items) + 1
        BY <1>0, FS_AddElement
      <4> QED BY <1>0, <4>2, <4>3
    <3>2. items' = items \cup {t} /\ ~(Cardinality(items) >= QueueSize)
      BY <1>1, TimerCardinality DEF Timer!TPush, Timer!TPushRejects
    <3> QED BY <1>0, <3>1, <3>2, QueueAssumption
  <2>2. tmetrics' \in [enqueue : Nat, dequeue : Nat, cancel : Nat, overdue : Nat]
    <3> DEFINE late == IF Timer!Due(t) THEN tmetrics.overdue + 1 ELSE tmetrics.overdue
    <3> DEFINE counted == [tmetrics EXCEPT !.enqueue = @ + 1]
    <3>1. late \in Nat
      BY <1>0
    <3>2. counted \in [enqueue : Nat, dequeue : Nat, cancel : Nat, overdue : Nat]
      BY <1>0
    <3>3. tmetrics' = [counted EXCEPT !.overdue = late]
      BY <1>0, <1>1 DEF Timer!TPush
    <3> HIDE DEF late, counted
    <3> QED BY <3>1, <3>2, <3>3
  <2>3. tlookup' \in [Timer!ID -> Task \cup {NoTask}]
    BY <1>0, <1>1 DEF Timer!TPush
  <2> QED BY <1>0, <1>1, <2>1, <2>2, <2>3 DEF Timer!TPush
<1>2. ASSUME Timer!TDueTasks
      PROVE  /\ items' \subseteq Task /\ Cardinality(items') <= QueueSize
             /\ tlookup' \in [Timer!ID -> Task \cup {NoTask}]
             /\ now' \in 0..Horizon /\ batch' \in Seq(Task)
             /\ tmetrics' \in [enqueue : Nat, dequeue : Nat, cancel : Nat, overdue : Nat]
  <2> DEFINE due == {t \in items : Timer!Due(t)}
  <2>1. due \subseteq Task /\ due \subseteq items
    BY <1>0
  <2>2. /\ batch' \in Timer!HeapOrders(due) /\ items' = items \ due
        /\ tlookup' = Timer!Forget(due)
        /\ tmetrics' = [tmetrics EXCEPT !.dequeue = @ + Cardinality(due)]
        /\ now' = now
    BY <1>2, TimerCardinality DEF Timer!TDueTasks
  <2> HIDE DEF due
  <2>3. Cardinality(due) \in Nat
    BY <2>1, Counts
  <2>4. items' \subseteq items
    BY <2>2
  <2>5. Cardinality(items') <= Cardinality(items) /\ Cardinality(items') \in Nat
    BY <1>0, <2>4, FS_Subset, FS_CardinalityType
  <2>6. tlookup' \in [Timer!ID -> Task \cup {NoTask}]
    BY <1>0, <2>2 DEF Timer!Forget
  <2>7. tmetrics' \in [enqueue : Nat, dequeue : Nat, cancel : Nat, overdue : Nat]
    BY <1>0, <2>2, <2>3
  <2>8. batch' \in Seq(Task)
    BY <2>1, <2>2, HeapOrdersFacts
  <2>9. Cardinality(items') <= QueueSize
    BY <1>0, <2>5, QueueAssumption
  <2> QED BY <1>0, <2>2, <2>4, <2>6, <2>7, <2>8, <2>9
<1>3. ASSUME NextInBatch, tpc = "submit" PROVE batch' \in Seq(Task)
  BY <1>0, <1>3, TailIn DEF NextInBatch, Lines
<1>4. ASSUME Timer!TTick PROVE now' \in 0..Horizon
  BY <1>0, <1>4, QueueAssumption DEF Timer!TTick
<1> QED BY TimerFrame, <1>0, <1>1, <1>2, <1>3, <1>4 DEF timerVars, NextInBatch, Timer!TTick

\* The steps of the pool's workers and of executeTask keep the pool's and the
\* executions' variables of their types.
LEMMA PoolTypeNext == TypeOK /\ Lines /\ [Next]_vars => PoolTypeOK'
<1> SUFFICES ASSUME TypeOK, Lines, [Next]_vars PROVE PoolTypeOK'
  OBVIOUS
<1>0. PoolTypeOK
  BY DEF TypeOK
<1>1. ASSUME NEW t \in Task, PushTimer(t) \/ PushPriority(t) \/ PushNormal(t)
      PROVE  UNCHANGED poolVars
  BY <1>1 DEF PushTimer, PushPriority, PushNormal, PushRest
<1>2. CASE TimerSubmit
  <2>1. Head(batch) \in Task
    BY <1>2, TailIn DEF TimerSubmit, TypeOK, Timer!TTypeOK, Lines
  <2>2. /\ backlog' = Append(backlog, Head(batch)) /\ Len(backlog) < QueueSize
        /\ UNCHANGED <<hand, settled, good, bad, exited>>
    BY <1>2 DEF TimerSubmit, Pool!Admit
  <2>3. backlog' \in Seq(Task) /\ Len(backlog') = Len(backlog) + 1 /\ Len(backlog) \in Nat
    BY <1>0, <2>1, <2>2, AppendIn DEF PoolTypeOK
  <2> QED BY <1>0, <2>2, <2>3, QueueAssumption DEF PoolTypeOK
<1>3. CASE TimerPoll \/ TimerExit \/ TimerSubmitFull \/ TimerSubmitClosed
  BY <1>0, <1>3 DEF TimerPoll, TimerExit, TimerSubmitFull, TimerSubmitClosed, poolVars,
                    PoolTypeOK
<1>4. ASSUME NEW w \in Worker, WorkerTake(w) PROVE PoolTypeOK'
  <2>1. /\ backlog # <<>> /\ hand' = [hand EXCEPT ![w] = Head(backlog)]
        /\ backlog' = Tail(backlog) /\ UNCHANGED <<settled, good, bad, exited>>
    BY <1>4 DEF WorkerTake, Pool!Take
  <2>2. /\ Head(backlog) \in Task /\ Tail(backlog) \in Seq(Task)
        /\ Len(Tail(backlog)) = Len(backlog) - 1 /\ Len(backlog) \in Nat
    BY <1>0, <2>1, TailIn DEF PoolTypeOK, Lines
  <2> QED BY <1>0, <2>1, <2>2, QueueAssumption DEF PoolTypeOK
<1>5. ASSUME NEW w \in Worker, WorkerCollect(w) \/ WorkerTimeout(w) PROVE PoolTypeOK'
  <2>1. /\ hand[w] # NoTask /\ settled' = settled \cup {hand[w]}
        /\ hand' = [hand EXCEPT ![w] = NoTask]
        /\ \/ good' = good + 1 /\ bad' = bad
           \/ good' = good /\ bad' = bad + 1
        /\ UNCHANGED <<backlog, exited>>
    BY <1>5 DEF WorkerCollect, WorkerTimeout, Pool!Settle
  <2> QED BY <1>0, <2>1 DEF PoolTypeOK
<1>6. ASSUME NEW w \in Worker, WorkerExit(w) PROVE PoolTypeOK'
  BY <1>0, <1>6 DEF WorkerExit, PoolTypeOK
<1> USE DEF queueRest
<1>7. ASSUME NEW t \in Task,
             \/ ExecuteBegin(t) \/ \E result \in Results : ExecuteConclude(t, result)
             \/ ExecuteWait(t) \/ ExecuteRetry(t) \/ ExecuteCanceled(t) \/ ExecuteReturn(t)
      PROVE  UNCHANGED poolVars
  BY <1>7 DEF ExecuteBegin, ExecuteConclude, ExecuteWait, ExecuteRetry, ExecuteCanceled,
              ExecuteReturn
<1>8. ASSUME NEW id \in Canceled, CancelLoad(id) PROVE UNCHANGED poolVars
  BY <1>8 DEF CancelLoad
<1>9. CASE CancelApply \/ QueueStart \/ QueueStop \/ Tick \/ UNCHANGED vars
  BY <1>0, <1>9 DEF CancelApply, QueueStart, QueueStop, Tick, vars, poolVars, PoolTypeOK
<1>10. CASE UNCHANGED poolVars
  BY <1>0, <1>10 DEF poolVars, PoolTypeOK
<1> QED BY Actions, <1>1, <1>2, <1>3, <1>4, <1>5, <1>6, <1>7, <1>8, <1>9, <1>10

Counters == [enqueue : Nat, process : Nat, success : Nat, failure : Nat,
             retry : Nat, cancel : Nat, activeTasks : Int]

\* A step changes the counters of the queue one at a time, except executeTask's
\* first, which counts in Process and in ActiveTasks.
LEMMA CounterTypes ==
  ASSUME NEW m \in Counters
  PROVE  /\ [m EXCEPT !.enqueue = @ + 1] \in Counters
         /\ [m EXCEPT !.success = @ + 1] \in Counters
         /\ [m EXCEPT !.failure = @ + 1] \in Counters
         /\ [m EXCEPT !.retry = @ + 1] \in Counters
         /\ [m EXCEPT !.cancel = @ + 1] \in Counters
         /\ [m EXCEPT !.activeTasks = @ - 1] \in Counters
         /\ [m EXCEPT !.process = @ + 1, !.activeTasks = @ + 1] \in Counters
<1> USE DEF Counters
<1>1. [m EXCEPT !.enqueue = @ + 1] \in Counters  OBVIOUS
<1>2. [m EXCEPT !.success = @ + 1] \in Counters  OBVIOUS
<1>3. [m EXCEPT !.failure = @ + 1] \in Counters  OBVIOUS
<1>4. [m EXCEPT !.retry = @ + 1] \in Counters  OBVIOUS
<1>5. [m EXCEPT !.cancel = @ + 1] \in Counters  OBVIOUS
<1>6. [m EXCEPT !.activeTasks = @ - 1] \in Counters  OBVIOUS
<1>7. [m EXCEPT !.process = @ + 1, !.activeTasks = @ + 1] \in Counters
  <2> DEFINE k == [m EXCEPT !.process = @ + 1]
  <2>1. k \in Counters /\ m.activeTasks + 1 \in Int
    OBVIOUS
  <2>2. [m EXCEPT !.process = @ + 1, !.activeTasks = @ + 1]
          = [k EXCEPT !.activeTasks = m.activeTasks + 1]
    OBVIOUS
  <2> HIDE DEF k
  <2>3. [k EXCEPT !.activeTasks = m.activeTasks + 1] \in Counters
    BY <2>1
  <2> QED BY <2>2, <2>3
<1> QED BY <1>1, <1>2, <1>3, <1>4, <1>5, <1>6, <1>7

\* executeTask, Cancel and the timer loop keep the types of what they write.
LEMMA ExecTypeNext == PlaceInv /\ [Next]_vars => ExecTypeOK'
<1> SUFFICES ASSUME TypeOK, Lines, Routes, [Next]_vars PROVE ExecTypeOK'
  BY DEF PlaceInv
<1>0. ExecTypeOK /\ qm \in Counters
  BY DEF TypeOK, ExecTypeOK, Counters
<1>a. CASE qm' \in Counters /\ UNCHANGED execVars
  BY <1>0, <1>a DEF ExecTypeOK, execVars, Counters
<1>b. ASSUME NEW t \in Task, NEW x \in {"refused", "dispatched", "attempt", "waiting",
                                        "succeeding", "failing", "ok", "err"},
             epc' = [epc EXCEPT ![t] = x], qm' \in Counters,
             UNCHANGED <<attempt, ctxDone, processing, cpc>>
      PROVE  ExecTypeOK'
  BY <1>0, <1>b DEF ExecTypeOK, Counters
<1> USE DEF queueRest, workerRest
<1>1. ASSUME NEW t \in Task, PushTimer(t) \/ PushPriority(t) \/ PushNormal(t)
      PROVE  qm' \in Counters /\ UNCHANGED execVars
  <2>1. qm' = [qm EXCEPT !.enqueue = @ + 1] /\ UNCHANGED execVars
    BY <1>1 DEF PushTimer, PushPriority, PushNormal, PushRest
  <2> QED BY <1>0, <2>1, CounterTypes
<1>2. CASE TimerSubmitFull
  <2>1. Head(batch) \in Task
    BY <1>2, TailIn DEF TimerSubmitFull, TypeOK, Timer!TTypeOK, Lines
  <2>2. /\ epc' = [epc EXCEPT ![Head(batch)] = "refused"]
        /\ qm' = [qm EXCEPT !.failure = @ + 1]
        /\ UNCHANGED <<attempt, ctxDone, processing, cpc>>
    BY <1>2 DEF TimerSubmitFull, NextInBatch
  <2> QED BY <1>0, <1>b, <2>1, <2>2, CounterTypes
<1>3. CASE TimerPoll \/ TimerExit \/ TimerSubmit \/ TimerSubmitClosed
  BY <1>0, <1>a, <1>3 DEF TimerPoll, TimerExit, TimerSubmit, TimerSubmitClosed, NextInBatch,
                          execVars
<1>4. ASSUME NEW w \in Worker, WorkerTake(w) PROVE ExecTypeOK'
  <2>1. hand'[w] \in Task
    <3>1. backlog # <<>> /\ hand' = [hand EXCEPT ![w] = Head(backlog)]
      BY <1>4 DEF WorkerTake, Pool!Take
    <3>2. Head(backlog) \in Task /\ hand \in [Worker -> Task \cup {NoTask}]
      BY <3>1, TailIn DEF TypeOK, PoolTypeOK, Lines
    <3> QED BY <3>1, <3>2
  <2> QED BY <1>0, <1>b, <1>4, <2>1 DEF WorkerTake
<1>5. ASSUME NEW w \in Worker, WorkerCollect(w) \/ WorkerTimeout(w) \/ WorkerExit(w)
      PROVE  qm' \in Counters /\ UNCHANGED execVars
  BY <1>0, <1>5 DEF WorkerCollect, WorkerTimeout, WorkerExit, execVars
<1>6. ASSUME NEW t \in Task, ExecuteBegin(t) PROVE ExecTypeOK'
  <2>1. /\ epc' = [epc EXCEPT ![t] = "attempt"]
        /\ processing' = [processing EXCEPT ![IdOf[t]] = t]
        /\ qm' = [qm EXCEPT !.process = @ + 1, !.activeTasks = @ + 1]
        /\ UNCHANGED <<attempt, ctxDone, cpc>>
    BY <1>6 DEF ExecuteBegin
  <2>2. qm' \in Counters
    BY <1>0, <2>1, CounterTypes
  <2>3. epc' \in [Task -> {"none", "refused", "dispatched", "attempt", "waiting",
                           "succeeding", "failing", "ok", "err"}]
    BY <1>0, <2>1 DEF ExecTypeOK
  <2>4. processing' \in [ID -> Task \cup {NoTask}]
    BY <1>0, <2>1 DEF ExecTypeOK
  <2> QED BY <1>0, <2>1, <2>2, <2>3, <2>4 DEF ExecTypeOK, Counters
<1>7. ASSUME NEW t \in Task, NEW v \in {"succeeding", "failing"}, Conclude(t, v),
             UNCHANGED <<attempt, ctxDone, processing, cpc>>
      PROVE  ExecTypeOK'
  <2>1. /\ epc' = [epc EXCEPT ![t] = v]
        /\ qm' = [qm EXCEPT !.success = @ + 1] \/ qm' = [qm EXCEPT !.failure = @ + 1]
    BY <1>7 DEF Conclude
  <2> QED BY <1>0, <1>b, <1>7, <2>1, CounterTypes
<1>8. ASSUME NEW t \in Task, NEW result \in Results, ExecuteConclude(t, result)
      PROVE  ExecTypeOK'
  BY <1>7, <1>8 DEF ExecuteConclude
<1>9. ASSUME NEW t \in Task, ExecuteCanceled(t) PROVE ExecTypeOK'
  BY <1>7, <1>9 DEF ExecuteCanceled
<1>10. ASSUME NEW t \in Task, ExecuteWait(t) PROVE ExecTypeOK'
  BY <1>0, <1>b, <1>10 DEF ExecuteWait
<1>11. ASSUME NEW t \in Task, ExecuteReturn(t) PROVE ExecTypeOK'
  <2>1. /\ epc' = [epc EXCEPT ![t] = IF epc[t] = "succeeding" THEN "ok" ELSE "err"]
        /\ processing' = [processing EXCEPT ![IdOf[t]] = NoTask]
        /\ qm' = [qm EXCEPT !.activeTasks = @ - 1]
        /\ UNCHANGED <<attempt, ctxDone, cpc>>
    BY <1>0, <1>11 DEF ExecuteReturn, ExecTypeOK
  <2>2. qm' \in Counters
    BY <1>0, <2>1, CounterTypes
  <2>3. epc' \in [Task -> {"none", "refused", "dispatched", "attempt", "waiting",
                           "succeeding", "failing", "ok", "err"}]
    BY <1>0, <2>1 DEF ExecTypeOK
  <2>4. processing' \in [ID -> Task \cup {NoTask}]
    BY <1>0, <2>1 DEF ExecTypeOK
  <2> QED BY <1>0, <2>1, <2>2, <2>3, <2>4 DEF ExecTypeOK, Counters
<1>12. CASE CancelApply
  <2>1. qm' \in Counters
    BY <1>0, <1>12, CounterTypes DEF CancelApply
  <2> QED BY <1>0, <1>12, <2>1 DEF CancelApply, ExecTypeOK, Counters
<1>13. ASSUME NEW id \in Canceled, CancelLoad(id) PROVE ExecTypeOK'
  <2>1. id \in ID
    BY QueueAssumption DEF ID
  <2>2. cpc' \in Task \cup {NoTask}
    BY <1>0, <1>13, <2>1 DEF CancelLoad, ExecTypeOK
  <2> QED BY <1>0, <1>13, <2>2 DEF CancelLoad, ExecTypeOK
<1>14. CASE QueueStart \/ QueueStop \/ Tick \/ UNCHANGED vars
  BY <1>0, <1>a, <1>14 DEF QueueStart, QueueStop, Tick, vars
<1>15. ASSUME NEW t \in Task, ExecuteRetry(t) PROVE ExecTypeOK'
  <2>1. /\ epc[t] = "waiting" /\ epc' = [epc EXCEPT ![t] = "attempt"]
        /\ attempt' = [attempt EXCEPT ![t] = @ + 1]
        /\ qm' = [qm EXCEPT !.retry = @ + 1]
        /\ UNCHANGED <<ctxDone, processing, cpc>>
    BY <1>15 DEF ExecuteRetry
  <2>2. qm' \in Counters
    BY <1>0, <2>1, CounterTypes
  <2>3. attempt[t] < MaxRetries[t]
    BY <2>1 DEF Routes, Route
  <2>4. attempt' \in [Task -> Nat] /\ \A u \in Task : attempt'[u] <= MaxRetries[u]
    <3>1. /\ attempt \in [Task -> Nat] /\ MaxRetries \in [Task -> Nat]
          /\ \A u \in Task : attempt[u] <= MaxRetries[u]
      BY <1>0, TaskAssumption DEF ExecTypeOK
    <3>2. \A u \in Task : attempt'[u] = IF u = t THEN attempt[t] + 1 ELSE attempt[u]
      BY <2>1, <3>1
    <3>3. attempt[t] \in Nat /\ MaxRetries[t] \in Nat
      BY <3>1
    <3>4. attempt[t] + 1 <= MaxRetries[t]
      BY <2>3, <3>3
    <3> QED BY <2>1, <3>1, <3>2, <3>3, <3>4
  <2> QED BY <1>0, <2>1, <2>2, <2>4 DEF ExecTypeOK, Counters
<1> QED BY Actions, <1>a, <1>1, <1>2, <1>3, <1>4, <1>5, <1>6, <1>8, <1>9, <1>10, <1>11,
           <1>12, <1>13, <1>14, <1>15

\* The composed queue keeps its type.
LEMMA NextTypeOK == PlaceInv /\ [Next]_vars => TypeOK'
<1> SUFFICES ASSUME TypeOK, Lines, PlaceInv, [Next]_vars PROVE TypeOK'
  BY DEF PlaceInv
<1>0. Timer!TTypeOK' /\ Prio!TypeOK' /\ PoolTypeOK' /\ ExecTypeOK'
  BY TimerTypeOK, PrioTypeOK, PoolTypeNext, ExecTypeNext
<1> DEFINE rest == <<normalQueue, qstate, ppc, tpc, crashed>>
<1> DEFINE RestTypeOK ==
      /\ normalQueue \in Seq(Task)
      /\ qstate \in {"new"} \cup {StopStages[i] : i \in DOMAIN StopStages}
      /\ ppc \in [Task -> {"never", "idle", "accepted", "rejected", "panicked"}]
      /\ tpc \in {"new", "select", "submit", "exited"}
      /\ crashed \in BOOLEAN
<1> SUFFICES RestTypeOK'
  BY <1>0 DEF TypeOK
<1>a. CASE UNCHANGED rest
  BY <1>a DEF TypeOK
<1> USE DEF queueRest, workerRest
<1>1. ASSUME NEW t \in Task, PushTimer(t) \/ PushPriority(t) PROVE RestTypeOK'
  <2>1. /\ \E x \in {"accepted", "rejected"} : ppc' = [ppc EXCEPT ![t] = x]
        /\ UNCHANGED <<normalQueue, qstate, tpc, crashed>>
    BY <1>1 DEF PushTimer, PushPriority, PushRest
  <2> QED BY <2>1 DEF TypeOK
<1>2. ASSUME NEW t \in Task, PushNormal(t) PROVE RestTypeOK'
  <2>1. /\ \E x \in {"accepted", "rejected", "panicked"} : ppc' = [ppc EXCEPT ![t] = x]
        /\ UNCHANGED <<qstate, tpc>> /\ (crashed' = crashed \/ crashed' \in BOOLEAN)
        /\ normalQueue' = normalQueue \/ normalQueue' = Append(normalQueue, t)
    BY <1>2 DEF PushNormal, PushRest
  <2> QED BY <2>1 DEF TypeOK
<1>3. CASE TimerPoll \/ TimerExit \/ TimerSubmit \/ TimerSubmitFull \/ TimerSubmitClosed
  <2>1. /\ tpc' \in {"select", "submit", "exited"} \/ tpc' = tpc
        /\ UNCHANGED <<normalQueue, qstate, ppc>> /\ (crashed' = crashed \/ crashed' = TRUE)
    BY <1>3 DEF TimerPoll, TimerExit, TimerSubmit, TimerSubmitFull, TimerSubmitClosed,
                NextInBatch
  <2> QED BY <2>1 DEF TypeOK
<1>4. ASSUME NEW w \in Worker,
             WorkerTake(w) \/ WorkerCollect(w) \/ WorkerTimeout(w) \/ WorkerExit(w)
      PROVE  UNCHANGED rest
  BY <1>4 DEF WorkerTake, WorkerCollect, WorkerTimeout, WorkerExit
<1>5. ASSUME NEW t \in Task,
             \/ ExecuteBegin(t) \/ \E result \in Results : ExecuteConclude(t, result)
             \/ ExecuteWait(t) \/ ExecuteRetry(t) \/ ExecuteCanceled(t) \/ ExecuteReturn(t)
      PROVE  UNCHANGED rest
  BY <1>5 DEF ExecuteBegin, ExecuteConclude, ExecuteWait, ExecuteRetry, ExecuteCanceled,
              ExecuteReturn
<1>6. ASSUME NEW id \in Canceled, CancelLoad(id) PROVE UNCHANGED rest
  BY <1>6 DEF CancelLoad
<1>7. ASSUME CancelApply \/ Tick \/ UNCHANGED vars PROVE UNCHANGED rest
  BY <1>7 DEF CancelApply, Tick, vars
<1>8. CASE QueueStart
  BY <1>8 DEF QueueStart, TypeOK, StopStages
<1>9. CASE QueueStop
  BY <1>9 DEF QueueStop, TypeOK, StopStages
<1> QED BY Actions, <1>a, <1>1, <1>2, <1>3, <1>4, <1>5, <1>6, <1>7, <1>8, <1>9

-----------------------------------------------------------------------------
(***************************************************************************)
(* No step of any goroutine takes a task off its route.                    *)
(***************************************************************************)

\* Push leaves the task in the queue that accepted it, or nowhere.
LEMMA PushRoutes ==
  ASSUME PlaceInv, NEW t \in Task, PushTimer(t) \/ PushPriority(t) \/ PushNormal(t)
  PROVE  Lines' /\ Routes'
<1>0. /\ TypeOK /\ Lines /\ \A u \in Task : Route(u)
      /\ ppc \in [Task -> {"never", "idle", "accepted", "rejected", "panicked"}]
      /\ prio \in [Task -> Int] /\ normalQueue \in Seq(Task)
      /\ lookup \in [Prio!ID -> Task \cup {NoTask}]
      /\ \A u \in Task : IdOf[u] \in Prio!ID
  BY DEF PlaceInv, Routes, TypeOK, Prio!TypeOK, Prio!ID
<1>1. /\ ppc[t] = "idle" /\ UNCHANGED <<poolVars, qstate, tpc, execVars>>
      /\ \E x \in {"accepted", "rejected", "panicked"} : ppc' = [ppc EXCEPT ![t] = x]
  BY DEF PushTimer, PushPriority, PushNormal, PushRest
<1>2. /\ ~Accepted(t) /\ ~In(normalQueue, t) /\ lookup[IdOf[t]] # t /\ t \notin items
      /\ ~In(batch, t) /\ ~In(backlog, t) /\ epc[t] = "none" /\ ~Held(t) /\ t \notin settled
  BY <1>0, <1>1 DEF Route, Accepted, Ripe, Started
<1>3. \A u \in Task : u # t => ppc'[u] = ppc[u]
  BY <1>0, <1>1
<1>4. /\ backlog' = backlog /\ hand' = hand /\ settled' = settled /\ epc' = epc
      /\ attempt' = attempt /\ tpc' = tpc /\ qstate' = qstate
  BY <1>1 DEF poolVars, execVars
<1>5. CASE PushTimer(t)
  <2>1. /\ batch' = batch /\ now' = now /\ normalQueue' = normalQueue
        /\ lookup' = lookup /\ prio' = prio /\ TriggerAt[t] # 0
        /\ \/ items' = items \cup {t} /\ ppc'[t] = "accepted"
           \/ items' = items /\ ppc'[t] = "rejected"
    BY <1>0, <1>5 DEF PushTimer, PushRest, Timer!TPush, timerVars, prioVars
  <2>2. Lines'
    BY <1>0, <1>4, <2>1 DEF Lines
  <2>3. ASSUME NEW u \in Task PROVE Route(u)'
    BY <1>0, <1>2, <1>3, <1>4, <2>1 DEF Route, Accepted, Ripe, Started, Held
  <2> QED BY <2>2, <2>3 DEF Routes
<1>6. CASE PushPriority(t)
  <2>1. /\ batch' = batch /\ now' = now /\ normalQueue' = normalQueue
        /\ items' = items /\ TriggerAt[t] = 0 /\ prio[t] > 0
    BY <1>6 DEF PushPriority, timerVars
  <2>2. Lines'
    BY <1>0, <1>4, <2>1 DEF Lines
  <2>3. CASE Prio!PushAccepted(t) /\ PushRest(t, "accepted")
    <3>1. /\ ppc'[t] = "accepted" /\ lookup[IdOf[t]] = NoTask
          /\ lookup' = [lookup EXCEPT ![IdOf[t]] = t]
          /\ prio' = [prio EXCEPT ![t] = Prio!Normalize(prio[t])]
      BY <1>0, <2>3 DEF Prio!PushAccepted, PushRest
    <3>2. Prio!Normalize(prio[t]) > 0
      BY <1>0, <2>1, QueueAssumption DEF Prio!Normalize
    <3>3. /\ prio'[t] > 0 /\ \A u \in Task : u # t => prio'[u] = prio[u]
      BY <1>0, <3>1, <3>2
    <3>4. /\ lookup'[IdOf[t]] = t
          /\ \A u \in Task : u # t => (lookup'[IdOf[u]] = u <=> lookup[IdOf[u]] = u)
      BY <1>0, <3>1, TaskAssumption
    <3>5. ASSUME NEW u \in Task PROVE Route(u)'
      <4>1. CASE u = t
        BY <1>2, <1>4, <2>1, <3>1, <3>3, <3>4, <4>1
        DEF Route, Accepted, Ripe, Started, Held
      <4>2. CASE u # t
        BY <1>0, <1>3, <1>4, <2>1, <3>3, <3>4, <4>2
        DEF Route, Accepted, Ripe, Started, Held
      <4> QED BY <4>1, <4>2
    <3> QED BY <2>2, <3>5 DEF Routes
  <2>4. CASE Prio!PushRejected(t) /\ PushRest(t, "rejected")
    <3>1. ppc'[t] = "rejected" /\ lookup' = lookup /\ prio' = prio
      BY <1>0, <2>4 DEF Prio!PushRejected, PushRest
    <3>2. ASSUME NEW u \in Task PROVE Route(u)'
      BY <1>0, <1>2, <1>3, <1>4, <2>1, <3>1 DEF Route, Accepted, Ripe, Started, Held
    <3> QED BY <2>2, <3>2 DEF Routes
  <2> QED BY <1>6, <2>3, <2>4 DEF PushPriority
<1>7. CASE PushNormal(t)
  <2>1. /\ batch' = batch /\ now' = now /\ items' = items
        /\ lookup' = lookup /\ prio' = prio /\ TriggerAt[t] = 0 /\ prio[t] <= 0
        /\ \/ normalQueue' = Append(normalQueue, t) /\ ppc'[t] = "accepted"
           \/ normalQueue' = normalQueue /\ ppc'[t] \in {"rejected", "panicked"}
    BY <1>0, <1>7 DEF PushNormal, PushRest, timerVars, prioVars
  <2>2. /\ Distinct(normalQueue')
        /\ \A u \in Task : u # t => (In(normalQueue', u) <=> In(normalQueue, u))
        /\ In(normalQueue', t) <=> (ppc'[t] = "accepted")
    <3>0. Distinct(normalQueue)
      BY <1>0 DEF Lines
    <3>1. CASE normalQueue' = Append(normalQueue, t) /\ ppc'[t] = "accepted"
      BY <1>0, <1>2, <3>0, <3>1, AppendIn
    <3>2. CASE normalQueue' = normalQueue /\ ppc'[t] \in {"rejected", "panicked"}
      BY <1>2, <3>0, <3>2
    <3> QED BY <2>1, <3>1, <3>2
  <2>3. Lines'
    BY <1>0, <1>4, <2>1, <2>2 DEF Lines
  <2>4. ASSUME NEW u \in Task PROVE Route(u)'
    <3>1. CASE u = t
      BY <1>2, <1>4, <2>1, <2>2, <3>1 DEF Route, Accepted, Ripe, Started, Held
    <3>2. CASE u # t
      BY <1>0, <1>3, <1>4, <2>1, <2>2, <3>2 DEF Route, Accepted, Ripe, Started, Held
    <3> QED BY <3>1, <3>2
  <2> QED BY <2>3, <2>4 DEF Routes
<1> QED BY <1>5, <1>6, <1>7

\* A poll of processTimers moves every due task from the heap to the batch.
LEMMA PollRoutes ==
  ASSUME PlaceInv, TimerPoll
  PROVE  Lines' /\ Routes'
<1> DEFINE due == {t \in items : Timer!Due(t)}
<1>0. /\ Lines /\ \A u \in Task : Route(u)
      /\ items \subseteq Task /\ now \in Nat
  BY QueueAssumption DEF PlaceInv, Routes, TypeOK, Timer!TTypeOK
<1>1. /\ batch' \in Timer!HeapOrders(due) /\ items' = items \ due /\ now' = now
      /\ tpc = "select" /\ tpc' = IF batch' = <<>> THEN "select" ELSE "submit"
      /\ backlog' = backlog /\ hand' = hand /\ settled' = settled
      /\ normalQueue' = normalQueue /\ qstate' = qstate /\ ppc' = ppc
      /\ epc' = epc /\ attempt' = attempt /\ lookup' = lookup /\ prio' = prio
  BY DEF TimerPoll, Timer!TDueTasks, poolVars, prioVars, execVars
<1>2. due \subseteq Task /\ \A u \in Task : u \in due <=> u \in items /\ TriggerAt[u] < now
  BY <1>0 DEF Timer!Due
<1> HIDE DEF due
<1>3. Distinct(batch') /\ \A u : In(batch', u) <=> u \in due
  BY <1>1, <1>2, HeapOrdersFacts
<1>4. batch = <<>> /\ \A u : ~In(batch, u)
  BY <1>0, <1>1, EmptyIn DEF Lines
<1>5. Lines'
  BY <1>0, <1>1, <1>3 DEF Lines
<1>6. ASSUME NEW u \in Task PROVE Route(u)'
  BY <1>0, <1>1, <1>2, <1>3, <1>4 DEF Route, Accepted, Ripe, Started, Held
<1> QED BY <1>5, <1>6 DEF Routes

\* processTimers submits the first task of its batch: to the pool's channel, or,
\* when that is full, to its failure.
LEMMA SubmitRoutes ==
  ASSUME PlaceInv, TimerSubmit \/ TimerSubmitFull
  PROVE  Lines' /\ Routes'
<1> DEFINE t == Head(batch)
<1>0. /\ Lines /\ \A u \in Task : Route(u)
      /\ batch \in Seq(Task) /\ backlog \in Seq(Task)
      /\ epc \in [Task -> {"none", "refused", "dispatched", "attempt", "waiting",
                           "succeeding", "failing", "ok", "err"}]
  BY DEF PlaceInv, Routes, TypeOK, Timer!TTypeOK, PoolTypeOK, ExecTypeOK
<1>1. /\ tpc = "submit" /\ batch' = Tail(batch)
      /\ tpc' = IF Len(batch) = 1 THEN "select" ELSE "submit"
      /\ items' = items /\ now' = now /\ normalQueue' = normalQueue
      /\ qstate' = qstate /\ ppc' = ppc /\ attempt' = attempt
      /\ lookup' = lookup /\ prio' = prio
      /\ hand' = hand /\ settled' = settled
  BY DEF TimerSubmit, TimerSubmitFull, NextInBatch, Pool!Admit, poolVars, prioVars
<1>2. batch # <<>> /\ Distinct(batch) /\ Distinct(backlog)
  BY <1>0, <1>1 DEF Lines
<1>3. /\ t \in Task /\ In(batch, t) /\ Len(batch) \in Nat \ {0} /\ Distinct(batch')
      /\ batch' \in Seq(Task) /\ Len(batch') = Len(batch) - 1
      /\ \A u \in Task : In(batch', u) <=> In(batch, u) /\ u # t
  BY <1>0, <1>1, <1>2, TailIn
<1>4. (tpc' = "submit") <=> (batch' # <<>>)
  <2>1. Len(batch') = 0 <=> batch' = <<>>
    BY <1>3
  <2> QED BY <1>1, <1>3, <2>1
<1>5. Ripe(t) /\ epc[t] = "none" /\ ~In(backlog, t) /\ t \notin items
  BY <1>0, <1>3 DEF Route
<1>6. CASE TimerSubmit
  <2>1. backlog' = Append(backlog, t) /\ epc' = epc
    BY <1>6 DEF TimerSubmit, Pool!Admit
  <2>2. Distinct(backlog') /\ \A u \in Task : In(backlog', u) <=> In(backlog, u) \/ u = t
    BY <1>0, <1>2, <1>3, <1>5, <2>1, AppendIn
  <2>3. Lines'
    BY <1>0, <1>1, <1>3, <1>4, <2>2 DEF Lines
  <2> HIDE DEF t
  <2>4. ASSUME NEW u \in Task PROVE Route(u)'
    BY <1>0, <1>1, <1>3, <1>5, <2>1, <2>2 DEF Route, Accepted, Ripe, Started, Held
  <2> QED BY <2>3, <2>4 DEF Routes
<1>7. CASE TimerSubmitFull
  <2>1. backlog' = backlog /\ epc' = [epc EXCEPT ![t] = "refused"]
    BY <1>7 DEF TimerSubmitFull, poolVars
  <2>2. Lines'
    BY <1>0, <1>1, <1>3, <1>4, <2>1 DEF Lines
  <2> HIDE DEF t
  <2>3. epc'[t] = "refused" /\ \A u \in Task : u # t => epc'[u] = epc[u]
    BY <1>0, <1>3, <2>1
  <2>4. ASSUME NEW u \in Task PROVE Route(u)'
    <3>1. CASE u = t
      BY <1>0, <1>1, <1>3, <1>5, <2>1, <2>3, <3>1
      DEF Route, Accepted, Ripe, Started, Held
    <3>2. CASE u # t
      BY <1>0, <1>1, <1>3, <2>1, <2>3, <3>2 DEF Route, Accepted, Ripe, Started, Held
    <3> QED BY <3>1, <3>2
  <2> QED BY <2>2, <2>4 DEF Routes
<1> QED BY <1>6, <1>7

\* A worker takes a task from the channel into its hand, and from its hand to a
\* verdict.
LEMMA WorkerRoutes ==
  ASSUME PlaceInv, NEW w \in Worker,
         WorkerTake(w) \/ WorkerCollect(w) \/ WorkerTimeout(w)
  PROVE  Lines' /\ Routes'
<1>0. /\ Lines /\ \A u \in Task : Route(u)
      /\ backlog \in Seq(Task) /\ hand \in [Worker -> Task \cup {NoTask}]
      /\ epc \in [Task -> {"none", "refused", "dispatched", "attempt", "waiting",
                           "succeeding", "failing", "ok", "err"}]
  BY DEF PlaceInv, Routes, TypeOK, PoolTypeOK, ExecTypeOK
<1>1. /\ batch' = batch /\ items' = items /\ now' = now /\ normalQueue' = normalQueue
      /\ qstate' = qstate /\ ppc' = ppc /\ tpc' = tpc /\ attempt' = attempt
      /\ lookup' = lookup /\ prio' = prio
  BY DEF WorkerTake, WorkerCollect, WorkerTimeout, workerRest, timerVars, prioVars
<1>2. CASE WorkerTake(w)
  <2>0. backlog # <<>> /\ Distinct(backlog)
    BY <1>0, <1>2 DEF WorkerTake, Pool!Take, Lines
  <2>2. PICK t \in Task : t = Head(backlog)
    BY <1>0, <2>0, TailIn
  <2>1. /\ hand[w] = NoTask /\ backlog' = Tail(backlog)
        /\ hand' = [hand EXCEPT ![w] = t] /\ settled' = settled
        /\ epc' = [epc EXCEPT ![hand'[w]] = "dispatched"]
    BY <1>2, <2>2 DEF WorkerTake, Pool!Take
  <2>3. /\ In(backlog, t) /\ Distinct(backlog')
        /\ \A u \in Task : In(backlog', u) <=> In(backlog, u) /\ u # t
    BY <1>0, <2>0, <2>1, <2>2, TailIn
  <2>4. hand'[w] = t /\ \A v \in Worker : v # w => hand'[v] = hand[v]
    BY <1>0, <2>1
  <2>5. epc'[t] = "dispatched" /\ \A u \in Task : u # t => epc'[u] = epc[u]
    BY <1>0, <2>1, <2>3, <2>4
  <2>6. /\ Ripe(t) /\ epc[t] = "none" /\ t \notin items /\ ~In(batch, t) /\ ~Held(t)
        /\ t \notin settled /\ t # NoTask /\ ~In(normalQueue, t) /\ lookup[IdOf[t]] # t
    BY <1>0, <2>3, TaskAssumption DEF Route, Started, Ripe
  <2>7. Held(t)' /\ \A u \in Task : u # t => (Held(u)' <=> Held(u))
    BY <2>1, <2>4, TaskAssumption DEF Held
  <2>8. Lines'
    <3>1. ASSUME NEW u \in Worker, NEW v \in Worker, hand'[u] = hand'[v], hand'[u] # NoTask
          PROVE  u = v
      BY <1>0, <2>4, <2>6, <3>1 DEF Lines, Held
    <3> QED BY <1>0, <1>1, <2>3, <3>1 DEF Lines
  <2>9. ASSUME NEW u \in Task PROVE Route(u)'
    <3>1. CASE u = t
      BY <1>1, <2>1, <2>3, <2>5, <2>6, <2>7, <3>1 DEF Route, Accepted, Ripe, Started
    <3>2. CASE u # t
      BY <1>0, <1>1, <2>1, <2>3, <2>5, <2>7, <3>2 DEF Route, Accepted, Ripe, Started
    <3> QED BY <3>1, <3>2
  <2> QED BY <2>8, <2>9 DEF Routes
<1>3. CASE WorkerCollect(w) \/ WorkerTimeout(w)
  <2>0. PICK t \in Task : t = hand[w]
    BY <1>0, <1>3 DEF WorkerCollect, WorkerTimeout
  <2>1. /\ t # NoTask /\ settled' = settled \cup {t} /\ backlog' = backlog
        /\ hand' = [hand EXCEPT ![w] = NoTask] /\ epc' = epc
    BY <1>3, <2>0 DEF WorkerCollect, WorkerTimeout, Pool!Settle
  <2>2. Held(t) /\ Started(t)
    BY <1>0, <2>0 DEF Held, Route
  <2>3. hand'[w] = NoTask /\ \A v \in Worker : v # w => hand'[v] = hand[v]
    BY <1>0, <2>1
  <2>4. ~Held(t)' /\ \A u \in Task : u # t => (Held(u)' <=> Held(u))
    BY <1>0, <2>0, <2>1, <2>3, TaskAssumption DEF Held, Lines
  <2>5. Lines'
    <3>1. ASSUME NEW u \in Worker, NEW v \in Worker, hand'[u] = hand'[v], hand'[u] # NoTask
          PROVE  u = v
      BY <1>0, <2>3, <3>1 DEF Lines
    <3> QED BY <1>0, <1>1, <2>1, <3>1 DEF Lines
  <2>6. ASSUME NEW u \in Task PROVE Route(u)'
    <3>1. CASE u = t
      BY <1>0, <1>1, <2>1, <2>2, <2>4, <3>1 DEF Route, Accepted, Ripe, Started
    <3>2. CASE u # t
      BY <1>0, <1>1, <2>1, <2>4, <3>2 DEF Route, Accepted, Ripe, Started
    <3> QED BY <3>1, <3>2
  <2> QED BY <2>5, <2>6 DEF Routes
<1> QED BY <1>2, <1>3

\* A step of executeTask changes no place: it goes on with a started task.
LEMMA ExecuteRoutes ==
  ASSUME PlaceInv, NEW t \in Task,
         \/ ExecuteBegin(t) \/ \E result \in Results : ExecuteConclude(t, result)
         \/ ExecuteWait(t) \/ ExecuteRetry(t) \/ ExecuteCanceled(t) \/ ExecuteReturn(t)
  PROVE  Lines' /\ Routes'
<1>0. /\ Lines /\ \A u \in Task : Route(u)
      /\ epc \in [Task -> {"none", "refused", "dispatched", "attempt", "waiting",
                           "succeeding", "failing", "ok", "err"}]
      /\ attempt \in [Task -> Nat]
  BY DEF PlaceInv, Routes, TypeOK, ExecTypeOK
<1> USE DEF queueRest, Conclude
<1>1. UNCHANGED queueRest
  BY DEF ExecuteBegin, ExecuteConclude, ExecuteWait, ExecuteRetry, ExecuteCanceled,
         ExecuteReturn
<1>2. /\ batch' = batch /\ items' = items /\ now' = now /\ normalQueue' = normalQueue
      /\ qstate' = qstate /\ ppc' = ppc /\ tpc' = tpc /\ lookup' = lookup /\ prio' = prio
      /\ backlog' = backlog /\ hand' = hand /\ settled' = settled
  BY <1>1 DEF timerVars, prioVars, poolVars
<1>3. /\ epc[t] \in {"dispatched", "attempt", "waiting", "succeeding", "failing"}
      /\ \E x \in {"attempt", "waiting", "succeeding", "failing", "ok", "err"} :
           epc' = [epc EXCEPT ![t] = x]
  <2>1. ASSUME NEW result \in Results, ExecuteConclude(t, result)
        PROVE  /\ epc[t] = "attempt"
               /\ \E x \in {"succeeding", "failing"} : epc' = [epc EXCEPT ![t] = x]
    BY <2>1 DEF ExecuteConclude
  <2>2. CASE ExecuteReturn(t)
    BY <1>0, <2>2 DEF ExecuteReturn
  <2>3. CASE ExecuteBegin(t) \/ ExecuteWait(t) \/ ExecuteRetry(t) \/ ExecuteCanceled(t)
    BY <2>3 DEF ExecuteBegin, ExecuteWait, ExecuteRetry, ExecuteCanceled
  <2> QED BY <2>1, <2>2, <2>3
<1>4. epc'[t] = "waiting" => attempt' = attempt /\ attempt[t] < MaxRetries[t]
  <2>1. ASSUME NEW result \in Results, ExecuteConclude(t, result)
        PROVE  epc'[t] # "waiting"
    BY <1>0, <2>1 DEF ExecuteConclude
  <2>2. CASE ExecuteReturn(t) \/ ExecuteBegin(t) \/ ExecuteRetry(t) \/ ExecuteCanceled(t)
    BY <1>0, <2>2 DEF ExecuteReturn, ExecuteBegin, ExecuteRetry, ExecuteCanceled
  <2>3. CASE ExecuteWait(t)
    BY <2>3 DEF ExecuteWait
  <2> QED BY <2>1, <2>2, <2>3
<1>5. \A u \in Task : u # t => attempt'[u] = attempt[u]
  BY <1>0 DEF ExecuteBegin, ExecuteConclude, ExecuteWait, ExecuteRetry, ExecuteCanceled,
              ExecuteReturn
<1>6. /\ epc'[t] \in {"attempt", "waiting", "succeeding", "failing", "ok", "err"}
      /\ \A u \in Task : u # t => epc'[u] = epc[u]
  BY <1>0, <1>3
<1>7. Lines'
  BY <1>0, <1>2 DEF Lines
<1>8. ASSUME NEW u \in Task PROVE Route(u)'
  <2>1. CASE u = t
    BY <1>0, <1>2, <1>3, <1>4, <1>6, <2>1 DEF Route, Accepted, Ripe, Started, Held
  <2>2. CASE u # t
    BY <1>0, <1>2, <1>5, <1>6, <2>2 DEF Route, Accepted, Ripe, Started, Held
  <2> QED BY <2>1, <2>2
<1> QED BY <1>7, <1>8 DEF Routes

\* The steps that move no task.
LEMMA OtherRoutes ==
  ASSUME PlaceInv,
         \/ TimerExit \/ TimerSubmitClosed
         \/ \E w \in Worker : WorkerExit(w)
         \/ \E id \in Canceled : CancelLoad(id)
         \/ CancelApply \/ QueueStart \/ QueueStop \/ Tick \/ UNCHANGED vars
  PROVE  Lines' /\ Routes'
<1>0. /\ Lines /\ \A u \in Task : Route(u)
      /\ now \in Nat /\ TriggerAt \in [Task -> Nat]
      /\ qstate \in {"new"} \cup {StopStages[i] : i \in DOMAIN StopStages}
      /\ tpc \in {"new", "select", "submit", "exited"}
  BY TaskAssumption, QueueAssumption DEF PlaceInv, Routes, TypeOK, Timer!TTypeOK
<1>1. /\ batch' = batch /\ items' = items /\ normalQueue' = normalQueue
      /\ ppc' = ppc /\ lookup' = lookup /\ prio' = prio /\ epc' = epc /\ attempt' = attempt
      /\ backlog' = backlog /\ hand' = hand /\ settled' = settled
      /\ now' = now \/ now' = now + 1
  <2> USE DEF timerVars, prioVars, poolVars, execVars, queueRest, workerRest
  <2>1. CASE TimerExit \/ TimerSubmitClosed
    BY <2>1 DEF TimerExit, TimerSubmitClosed
  <2>2. CASE \E w \in Worker : WorkerExit(w)
    BY <2>2 DEF WorkerExit
  <2>3. CASE \E id \in Canceled : CancelLoad(id)
    BY <2>3 DEF CancelLoad
  <2>4. CASE CancelApply
    BY <2>4 DEF CancelApply
  <2>5. CASE QueueStart \/ QueueStop
    BY <2>5 DEF QueueStart, QueueStop
  <2>6. CASE Tick
    BY <2>6 DEF Tick, Timer!TTick
  <2>7. CASE UNCHANGED vars
    BY <2>7 DEF vars
  <2> QED BY <2>1, <2>2, <2>3, <2>4, <2>5, <2>6, <2>7
<1>2. ASSUME NEW u \in Task PROVE Route(u)'
  <2>1. Ripe(u) => Ripe(u)'
    BY <1>0, <1>1 DEF Ripe, Accepted
  <2> QED BY <1>0, <1>1, <2>1 DEF Route, Accepted, Started, Held
<1>3. /\ (tpc' = "submit") <=> (tpc = "submit")
      /\ qstate' = "new" => tpc' = "new"
  <2>1. CASE TimerExit
    <3>1. tpc = "select" /\ tpc' = "exited" /\ qstate' = qstate
      BY <2>1 DEF TimerExit
    <3> QED BY <1>0, <3>1 DEF Lines
  <2>2. CASE QueueStart
    BY <1>0, <2>2 DEF QueueStart, Lines
  <2>3. CASE QueueStop
    <3>1. tpc' = tpc /\ qstate' # "new"
      BY <2>3 DEF QueueStop, StopStages
    <3> QED BY <3>1
  <2>4. ASSUME \/ TimerSubmitClosed \/ (\E w \in Worker : WorkerExit(w))
               \/ (\E id \in Canceled : CancelLoad(id)) \/ CancelApply \/ Tick
               \/ UNCHANGED vars
        PROVE  tpc' = tpc /\ qstate' = qstate
    BY <2>4 DEF TimerSubmitClosed, WorkerExit, CancelLoad, CancelApply, Tick, vars,
                queueRest, workerRest
  <2> QED BY <1>0, <2>1, <2>2, <2>3, <2>4 DEF Lines
<1>4. Lines'
  BY <1>0, <1>1, <1>3 DEF Lines
<1> QED BY <1>2, <1>4 DEF Routes

\* Before anything is pushed every line is empty and every task is on its route.
LEMMA InitPlaceInv == Init => PlaceInv
<1> SUFFICES ASSUME Init PROVE PlaceInv
  OBVIOUS
<1>1. Timer!TTypeOK
  <2>1. Timer!Cardinality({}) = 0
    BY TimerCardinality, FS_EmptySet
  <2> QED BY <2>1, QueueAssumption DEF Init, Timer!TInit, Timer!TTypeOK, Timer!Statuses
<1>2. Prio!TypeOK
  <2>1. /\ levels = [p \in Prio!Levels |-> <<>>] /\ lookup = [id \in Prio!ID |-> NoTask]
        /\ size = 0 /\ enqueueCount = 0 /\ dequeueCount = 0 /\ answer = <<>>
        /\ prio = AskedPrio
    BY DEF Init, Prio!Init
  <2> QED BY <2>1, TaskAssumption DEF Prio!TypeOK
<1>3. PoolTypeOK
  BY QueueAssumption DEF Init, Pool!EInit, PoolTypeOK
<1>4. ExecTypeOK
  BY TaskAssumption DEF Init, ExecTypeOK
<1>5. ppc \in [Task -> {"never", "idle"}]
  BY DEF Init
<1>6. TypeOK
  <2>1. ppc \in [Task -> {"never", "idle", "accepted", "rejected", "panicked"}]
    BY <1>5
  <2>2. normalQueue \in Seq(Task) /\ qstate = "new" /\ tpc = "new"
    BY DEF Init
  <2>3. crashed \in BOOLEAN
    BY DEF Init
  <2> QED BY <1>1, <1>2, <1>3, <1>4, <2>1, <2>2, <2>3 DEF TypeOK
<1>7. Lines
  BY EmptyIn DEF Init, Pool!EInit, Timer!TInit, Lines
<1>8. ASSUME NEW t \in Task PROVE Route(t)
  <2>1. /\ normalQueue = <<>> /\ batch = <<>> /\ backlog = <<>> /\ items = {}
        /\ settled = {} /\ epc[t] = "none" /\ lookup[IdOf[t]] = NoTask
    BY DEF Init, Pool!EInit, Timer!TInit, Prio!Init, Prio!ID
  <2>2. ~Held(t) /\ ~Accepted(t) /\ t # NoTask
    BY <1>5, TaskAssumption DEF Init, Pool!EInit, Held, Accepted
  <2> QED BY <2>1, <2>2, EmptyIn DEF Route, Started, Accepted, Ripe
<1> QED BY <1>6, <1>7, <1>8 DEF PlaceInv, Routes

\* The invariant is inductive: the lemmas about the actions, put together.
LEMMA NextPlaceInv == PlaceInv /\ [Next]_vars => PlaceInv'
<1> SUFFICES ASSUME PlaceInv, [Next]_vars PROVE PlaceInv'
  OBVIOUS
<1>1. Lines' /\ Routes'
  BY Actions, PushRoutes, PollRoutes, SubmitRoutes, WorkerRoutes, ExecuteRoutes, OtherRoutes
<1> QED BY <1>1, NextTypeOK DEF PlaceInv

-----------------------------------------------------------------------------
(***************************************************************************)
(* A task is in one place.                                                 *)
(***************************************************************************)

\* The members of Places, spelled out.
LEMMA PlacesMembers ==
  ASSUME TypeOK, NEW t \in Task, NEW x
  PROVE  x \in Places(t) <=>
           \/ \E i \in 1..Len(normalQueue) : normalQueue[i] = t /\ x = <<"normal", i>>
           \/ lookup[IdOf[t]] = t /\ x = <<"priority", 0>>
           \/ t \in items /\ x = <<"timer", 0>>
           \/ \E i \in 1..Len(batch) : batch[i] = t /\ x = <<"batch", i>>
           \/ \E i \in 1..Len(backlog) : backlog[i] = t /\ x = <<"backlog", i>>
           \/ \E w \in Worker : hand[w] = t /\ x = <<"hand", w>>
           \/ t \in settled /\ x = <<"settled", 0>>
           \/ epc[t] = "refused" /\ x = <<"refused", 0>>
<1>1. /\ DOMAIN normalQueue = 1..Len(normalQueue) /\ DOMAIN batch = 1..Len(batch)
      /\ DOMAIN backlog = 1..Len(backlog)
  BY DEF TypeOK, Timer!TTypeOK, PoolTypeOK
<1> QED BY <1>1, Zenon DEF Places, Refused

\* What the route of a task says about its places.
LEMMA OnePlace ==
  ASSUME PlaceInv, NEW t \in Task
  PROVE  IF Accepted(t) THEN \E p : Places(t) = {p} ELSE Places(t) = {}
<1>0. TypeOK /\ Lines /\ Route(t)
  BY DEF PlaceInv, Routes
<1> DEFINE InNormal(x) == \E i \in 1..Len(normalQueue) : normalQueue[i] = t /\ x = <<"normal", i>>
           InBatch(x) == \E i \in 1..Len(batch) : batch[i] = t /\ x = <<"batch", i>>
           InBacklog(x) == \E i \in 1..Len(backlog) : backlog[i] = t /\ x = <<"backlog", i>>
           InHand(x) == \E w \in Worker : hand[w] = t /\ x = <<"hand", w>>
<1>1. \A x : x \in Places(t) <=>
           \/ InNormal(x) \/ InBatch(x) \/ InBacklog(x) \/ InHand(x)
           \/ (lookup[IdOf[t]] = t /\ x = <<"priority", 0>>)
           \/ (t \in items /\ x = <<"timer", 0>>)
           \/ (t \in settled /\ x = <<"settled", 0>>)
           \/ (epc[t] = "refused" /\ x = <<"refused", 0>>)
  BY <1>0, PlacesMembers
<1>2. /\ (\E x : InNormal(x)) <=> In(normalQueue, t)
      /\ (\E x : InBatch(x)) <=> In(batch, t)
      /\ (\E x : InBacklog(x)) <=> In(backlog, t)
      /\ (\E x : InHand(x)) <=> Held(t)
  <2>1. (\E x : InNormal(x)) <=> In(normalQueue, t)  BY Zenon DEF In
  <2>2. (\E x : InBatch(x)) <=> In(batch, t)  BY Zenon DEF In
  <2>3. (\E x : InBacklog(x)) <=> In(backlog, t)  BY Zenon DEF In
  <2>4. (\E x : InHand(x)) <=> Held(t)  BY Zenon DEF Held
  <2> QED BY <2>1, <2>2, <2>3, <2>4
<1>3. /\ \A x, y : InNormal(x) /\ InNormal(y) => x = y
      /\ \A x, y : InBatch(x) /\ InBatch(y) => x = y
      /\ \A x, y : InBacklog(x) /\ InBacklog(y) => x = y
      /\ \A x, y : InHand(x) /\ InHand(y) => x = y
  BY <1>0, TaskAssumption DEF Lines, Distinct
<1> HIDE DEF InNormal, InBatch, InBacklog, InHand
<1>4. CASE ~Accepted(t)
  <2>1. /\ ~In(normalQueue, t) /\ lookup[IdOf[t]] # t /\ t \notin items /\ ~In(batch, t)
        /\ ~In(backlog, t) /\ ~Held(t) /\ t \notin settled /\ epc[t] # "refused"
    BY <1>0, <1>4 DEF Route, Ripe
  <2>2. \A x : x \notin Places(t)
    BY <1>1, <1>2, <2>1
  <2> QED BY <1>4, <2>2
<1>5. CASE Accepted(t)
  <2>b. ASSUME \E p : p \in Places(t), \A x, y : x \in Places(t) /\ y \in Places(t) => x = y
        PROVE  \E q : Places(t) = {q}
    <3>1. PICK p : p \in Places(t)
      BY <2>b
    <3> QED BY <2>b, <3>1
  <2> SUFFICES \E p : Places(t) = {p}
    BY <1>5
  <2>1. CASE TriggerAt[t] = 0 /\ prio[t] <= 0
    <3>1. /\ lookup[IdOf[t]] # t /\ t \notin items /\ ~In(batch, t) /\ In(normalQueue, t)
          /\ ~In(backlog, t) /\ ~Held(t) /\ t \notin settled /\ epc[t] # "refused"
      <4>1. ~(prio[t] > 0)
        BY <1>0, <2>1 DEF TypeOK, Prio!TypeOK
      <4> QED BY <1>0, <1>5, <2>1, <4>1 DEF Route, Ripe
    <3>2. \A x : x \in Places(t) <=> InNormal(x)
      BY <1>1, <1>2, <3>1
    <3> QED BY <1>2, <1>3, <2>b, <3>1, <3>2
  <2>2. CASE TriggerAt[t] = 0 /\ ~(prio[t] <= 0)
    <3>1. /\ lookup[IdOf[t]] = t /\ t \notin items /\ ~In(batch, t) /\ ~In(normalQueue, t)
          /\ ~In(backlog, t) /\ ~Held(t) /\ t \notin settled /\ epc[t] # "refused"
      BY <1>0, <1>5, <2>2 DEF Route, Ripe
    <3>2. \A x : x \in Places(t) <=> x = <<"priority", 0>>
      BY <1>1, <1>2, <3>1
    <3>3. Places(t) = {<<"priority", 0>>}
      BY <3>2, Zenon
    <3> QED BY <3>3, Zenon
  <2>3. CASE TriggerAt[t] # 0
    <3>0. lookup[IdOf[t]] # t /\ ~In(normalQueue, t)
      BY <1>0, <2>3 DEF Route
    <3>1. CASE t \in items
      <4>1. /\ ~In(batch, t) /\ ~In(backlog, t) /\ ~Held(t) /\ t \notin settled
            /\ epc[t] # "refused"
        BY <1>0, <3>1 DEF Route, Started
      <4>2. \A x : x \in Places(t) <=> x = <<"timer", 0>>
        BY <1>1, <1>2, <3>0, <3>1, <4>1
      <4>3. Places(t) = {<<"timer", 0>>}
        BY <4>2, Zenon
      <4> QED BY <4>3, Zenon
    <3>2. CASE In(batch, t)
      <4>1. /\ t \notin items /\ ~In(backlog, t) /\ ~Held(t) /\ t \notin settled
            /\ epc[t] # "refused"
        BY <1>0, <3>2 DEF Route, Started
      <4>2. \A x : x \in Places(t) <=> InBatch(x)
        BY <1>1, <1>2, <3>0, <3>2, <4>1
      <4> QED BY <1>2, <1>3, <2>b, <3>2, <4>2
    <3>3. CASE In(backlog, t)
      <4>1. /\ t \notin items /\ ~In(batch, t) /\ ~Held(t) /\ t \notin settled
            /\ epc[t] # "refused"
        BY <1>0, <3>3 DEF Route, Started
      <4>2. \A x : x \in Places(t) <=> InBacklog(x)
        BY <1>1, <1>2, <3>0, <3>3, <4>1
      <4> QED BY <1>2, <1>3, <2>b, <3>3, <4>2
    <3>4. CASE epc[t] = "refused"
      <4>1. /\ t \notin items /\ ~In(batch, t) /\ ~In(backlog, t) /\ ~Held(t)
            /\ t \notin settled
        BY <1>0, <3>4 DEF Route, Started
      <4>2. \A x : x \in Places(t) <=> x = <<"refused", 0>>
        BY <1>1, <1>2, <3>0, <3>4, <4>1
      <4>3. Places(t) = {<<"refused", 0>>}
        BY <4>2, Zenon
      <4> QED BY <4>3, Zenon
    <3>5. CASE Started(t)
      <4>1. /\ t \notin items /\ ~In(batch, t) /\ ~In(backlog, t) /\ epc[t] # "refused"
            /\ (Held(t) /\ t \notin settled) \/ (~Held(t) /\ t \in settled)
        BY <1>0, <3>5 DEF Route, Started
      <4>2. CASE Held(t) /\ t \notin settled
        <5>1. \A x : x \in Places(t) <=> InHand(x)
          BY <1>1, <1>2, <3>0, <4>1, <4>2
        <5> QED BY <1>2, <1>3, <2>b, <4>2, <5>1
      <4>3. CASE ~Held(t) /\ t \in settled
        <5>1. \A x : x \in Places(t) <=> x = <<"settled", 0>>
          BY <1>1, <1>2, <3>0, <4>1, <4>3
        <5>2. Places(t) = {<<"settled", 0>>}
          BY <5>1, Zenon
        <5> QED BY <5>2, Zenon
      <4> QED BY <4>1, <4>2, <4>3
    <3> QED BY <1>0, <1>5, <2>3, <3>1, <3>2, <3>3, <3>4, <3>5 DEF Route, Started
  <2> QED BY <2>1, <2>2, <2>3
<1> QED BY <1>4, <1>5

\* From Push through the sub-queues, the timer loop's batch and the pool to the
\* verdict, no hand-over loses a task, copies it or starts it before its trigger.
THEOREM PlacesSoundThm == Spec => []PlacesSound
<1>1. PlaceInv => PlacesSound
  <2> SUFFICES ASSUME PlaceInv PROVE PlacesSound
    OBVIOUS
  <2>1. ASSUME NEW t \in Task
        PROVE  Cardinality(Places(t)) = IF ppc[t] = "accepted" THEN 1 ELSE 0
    <3>1. IF ppc[t] = "accepted" THEN \E p : Places(t) = {p} ELSE Places(t) = {}
      BY OnePlace DEF Accepted
    <3> QED BY <3>1, FS_EmptySet, FS_Singleton
  <2>2. ASSUME NEW t \in Task, epc[t] \notin {"none", "refused"}
        PROVE  /\ t \in settled \cup {hand[w] : w \in Worker}
               /\ TriggerAt[t] <= now
    <3>1. Ripe(t) /\ (Held(t) \/ t \in settled)
      BY <2>2 DEF PlaceInv, Routes, Route, Started
    <3>2. TriggerAt[t] \in Nat /\ now \in Nat
      BY TaskAssumption, QueueAssumption DEF PlaceInv, TypeOK, Timer!TTypeOK
    <3>3. t \in settled \cup {hand[w] : w \in Worker}
      BY <3>1 DEF Held
    <3>4. TriggerAt[t] <= now
      BY <3>1, <3>2 DEF Ripe
    <3> QED BY <3>3, <3>4
  <2> QED BY <2>1, <2>2 DEF PlacesSound, PlaceInv, TaskInOnePlace, NeverEarly
<1> QED BY InitPlaceInv, NextPlaceInv, <1>1, PTL DEF Spec

-----------------------------------------------------------------------------
(***************************************************************************)
(* Outcomes.  A step either leaves every execution where it is or moves    *)
(* one, and moves the counters with it.                                    *)
(***************************************************************************)

\* The execution of t goes from one stage to another, and the counters of
\* processed, successful, failed and active tasks change by so much.
Moves(t, from, to, process, success, failure, active) ==
  /\ epc[t] = from /\ epc' = [epc EXCEPT ![t] = to]
  /\ qm'.process = qm.process + process
  /\ qm'.success = qm.success + success
  /\ qm'.failure = qm.failure + failure
  /\ qm'.activeTasks = qm.activeTasks + active

Stays ==
  /\ epc' = epc /\ processing' = processing
  /\ qm'.process = qm.process /\ qm'.success = qm.success
  /\ qm'.failure = qm.failure /\ qm'.activeTasks = qm.activeTasks
  /\ \A t \in Task : status'[t] \in {"completed", "failed"} => status'[t] = status[t]

Refuses(t) ==
  /\ Moves(t, "none", "refused", 0, 0, 1, 0)
  /\ status' = [status EXCEPT ![t] = "failed"] /\ processing' = processing

Dispatches(t) ==
  /\ Moves(t, "none", "dispatched", 0, 0, 0, 0)
  /\ status' = status /\ processing' = processing

Begins(t) ==
  /\ Moves(t, "dispatched", "attempt", 1, 0, 0, 1)
  /\ status' = [status EXCEPT ![t] = "running"]
  /\ processing' = [processing EXCEPT ![IdOf[t]] = t]

Repeats(t) ==
  /\ \/ Moves(t, "attempt", "waiting", 0, 0, 0, 0) /\ status' = status
     \/ /\ Moves(t, "waiting", "attempt", 0, 0, 0, 0)
        /\ status' = [status EXCEPT ![t] = "retrying"]
  /\ processing' = processing

Concludes(t) ==
  /\ \E from \in {"attempt", "waiting"} :
       \/ /\ Moves(t, from, "succeeding", 0, 1, 0, 0)
          /\ status' = [status EXCEPT ![t] = "completed"]
       \/ /\ Moves(t, from, "failing", 0, 0, 1, 0)
          /\ status' = [status EXCEPT ![t] = "failed"]
  /\ processing' = processing

Returns(t) ==
  /\ \/ Moves(t, "succeeding", "ok", 0, 0, 0, -1)
     \/ Moves(t, "failing", "err", 0, 0, 0, -1)
  /\ status' = status
  /\ processing' = [processing EXCEPT ![IdOf[t]] = NoTask]

\* What the steps of Next do to the executions.
LEMMA OutcomeSteps ==
  ASSUME PlaceInv, [Next]_vars
  PROVE  \/ Stays
         \/ \E t \in Task : \/ Refuses(t) \/ Dispatches(t) \/ Begins(t) \/ Repeats(t)
                            \/ Concludes(t) \/ Returns(t)
<1>0. /\ qm \in Counters /\ Lines /\ \A u \in Task : Route(u)
      /\ epc \in [Task -> {"none", "refused", "dispatched", "attempt", "waiting",
                           "succeeding", "failing", "ok", "err"}]
      /\ status \in [Task -> Timer!Statuses]
      /\ batch \in Seq(Task) /\ backlog \in Seq(Task)
      /\ hand \in [Worker -> Task \cup {NoTask}] /\ cpc \in Task \cup {NoTask}
  BY DEF PlaceInv, Routes, TypeOK, ExecTypeOK, PoolTypeOK, Timer!TTypeOK, Counters
<1>1. /\ qm.process \in Nat /\ qm.success \in Nat /\ qm.failure \in Nat
      /\ qm.activeTasks \in Int
  BY <1>0 DEF Counters
<1>2. ASSUME NEW t \in Task, PushTimer(t) \/ PushPriority(t) \/ PushNormal(t)
      PROVE  Stays
  <2>1. /\ epc' = epc /\ processing' = processing
        /\ qm' = [qm EXCEPT !.enqueue = @ + 1]
        /\ status' = [status EXCEPT ![t] = "pending"]
    BY <1>2 DEF PushTimer, PushPriority, PushNormal, PushRest, execVars, Timer!TPush
  <2> QED BY <1>0, <2>1 DEF Stays, Counters
<1>3. CASE TimerSubmitFull
  <2>1. Head(batch) \in Task /\ In(batch, Head(batch))
    BY <1>0, <1>3, TailIn DEF TimerSubmitFull, Lines
  <2>2. epc[Head(batch)] = "none"
    BY <1>0, <2>1 DEF Route
  <2>3. /\ epc' = [epc EXCEPT ![Head(batch)] = "refused"]
        /\ qm' = [qm EXCEPT !.failure = @ + 1] /\ processing' = processing
        /\ status' = [status EXCEPT ![Head(batch)] = "failed"]
    BY <1>3 DEF TimerSubmitFull, NextInBatch
  <2>4. Refuses(Head(batch))
    BY <1>0, <1>1, <2>2, <2>3 DEF Refuses, Moves, Counters
  <2> QED BY <2>1, <2>4
<1>4. ASSUME TimerPoll \/ TimerExit \/ TimerSubmit \/ TimerSubmitClosed
      PROVE  epc' = epc /\ processing' = processing /\ qm' = qm /\ status' = status
  BY <1>4 DEF TimerPoll, TimerExit, TimerSubmit, TimerSubmitClosed, NextInBatch, execVars,
              Timer!TDueTasks
<1> USE DEF queueRest, workerRest
<1>5. ASSUME NEW w \in Worker, WorkerTake(w) PROVE \E t \in Task : Dispatches(t)
  <2>1. backlog # <<>> /\ hand' = [hand EXCEPT ![w] = Head(backlog)]
    BY <1>5 DEF WorkerTake, Pool!Take
  <2>2. Head(backlog) \in Task /\ In(backlog, Head(backlog)) /\ hand'[w] = Head(backlog)
    BY <1>0, <2>1, TailIn DEF Lines
  <2>3. epc[Head(backlog)] = "none"
    BY <1>0, <2>2 DEF Route
  <2>4. /\ epc' = [epc EXCEPT ![Head(backlog)] = "dispatched"]
        /\ qm' = qm /\ status' = status /\ processing' = processing
    BY <1>5, <2>2 DEF WorkerTake
  <2>5. Dispatches(Head(backlog))
    BY <1>1, <2>3, <2>4 DEF Dispatches, Moves
  <2> QED BY <2>2, <2>5
<1>6. ASSUME NEW w \in Worker, WorkerCollect(w) \/ WorkerTimeout(w) \/ WorkerExit(w)
      PROVE  epc' = epc /\ processing' = processing /\ qm' = qm /\ status' = status
  BY <1>6 DEF WorkerCollect, WorkerTimeout, WorkerExit
<1>7. ASSUME NEW t \in Task, ExecuteBegin(t) PROVE Begins(t)
  <2>1. /\ epc[t] = "dispatched" /\ epc' = [epc EXCEPT ![t] = "attempt"]
        /\ status' = [status EXCEPT ![t] = "running"]
        /\ processing' = [processing EXCEPT ![IdOf[t]] = t]
        /\ qm' = [qm EXCEPT !.process = @ + 1, !.activeTasks = @ + 1]
    BY <1>7 DEF ExecuteBegin
  <2>2. /\ qm'.process = qm.process + 1 /\ qm'.activeTasks = qm.activeTasks + 1
        /\ qm'.success = qm.success /\ qm'.failure = qm.failure
    BY <1>0, <2>1 DEF Counters
  <2> QED BY <1>1, <2>1, <2>2 DEF Begins, Moves
<1>8. ASSUME NEW t \in Task, NEW v \in {"succeeding", "failing"}, Conclude(t, v),
             epc[t] \in {"attempt", "waiting"}, processing' = processing
      PROVE  Concludes(t)
  <2>1. CASE v = "succeeding"
    <3>1. /\ epc' = [epc EXCEPT ![t] = "succeeding"]
          /\ status' = [status EXCEPT ![t] = "completed"]
          /\ qm' = [qm EXCEPT !.success = @ + 1]
      BY <1>8, <2>1 DEF Conclude
    <3>2. Moves(t, epc[t], "succeeding", 0, 1, 0, 0)
      BY <1>0, <1>1, <3>1 DEF Moves, Counters
    <3> QED BY <1>8, <3>1, <3>2 DEF Concludes
  <2>2. CASE v = "failing"
    <3>1. /\ epc' = [epc EXCEPT ![t] = "failing"]
          /\ status' = [status EXCEPT ![t] = "failed"]
          /\ qm' = [qm EXCEPT !.failure = @ + 1]
      BY <1>8, <2>2 DEF Conclude
    <3>2. Moves(t, epc[t], "failing", 0, 0, 1, 0)
      BY <1>0, <1>1, <3>1 DEF Moves, Counters
    <3> QED BY <1>8, <3>1, <3>2 DEF Concludes
  <2> QED BY <1>8, <2>1, <2>2
<1>9. ASSUME NEW t \in Task, NEW result \in Results, ExecuteConclude(t, result)
      PROVE  Concludes(t)
  BY <1>8, <1>9 DEF ExecuteConclude
<1>10. ASSUME NEW t \in Task, ExecuteCanceled(t) PROVE Concludes(t)
  BY <1>8, <1>10 DEF ExecuteCanceled
<1>11. ASSUME NEW t \in Task, ExecuteWait(t) PROVE Repeats(t)
  BY <1>1, <1>11 DEF ExecuteWait, Repeats, Moves
<1>12. ASSUME NEW t \in Task, ExecuteRetry(t) PROVE Repeats(t)
  <2>1. /\ epc[t] = "waiting" /\ epc' = [epc EXCEPT ![t] = "attempt"]
        /\ status' = [status EXCEPT ![t] = "retrying"]
        /\ qm' = [qm EXCEPT !.retry = @ + 1] /\ processing' = processing
    BY <1>12 DEF ExecuteRetry
  <2>2. Moves(t, "waiting", "attempt", 0, 0, 0, 0)
    BY <1>0, <1>1, <2>1 DEF Moves, Counters
  <2> QED BY <2>1, <2>2 DEF Repeats
<1>13. ASSUME NEW t \in Task, ExecuteReturn(t) PROVE Returns(t)
  <2>1. /\ epc[t] \in {"succeeding", "failing"} /\ status' = status
        /\ epc' = [epc EXCEPT ![t] = IF epc[t] = "succeeding" THEN "ok" ELSE "err"]
        /\ processing' = [processing EXCEPT ![IdOf[t]] = NoTask]
        /\ qm' = [qm EXCEPT !.activeTasks = @ - 1]
    BY <1>0, <1>13 DEF ExecuteReturn
  <2>2. /\ qm'.activeTasks = qm.activeTasks + -1 /\ qm'.process = qm.process + 0
        /\ qm'.success = qm.success + 0 /\ qm'.failure = qm.failure + 0
    BY <1>0, <1>1, <2>1 DEF Counters
  <2>3. CASE epc[t] = "succeeding"
    BY <2>1, <2>2, <2>3 DEF Returns, Moves
  <2>4. CASE epc[t] = "failing"
    BY <2>1, <2>2, <2>4 DEF Returns, Moves
  <2> QED BY <2>1, <2>3, <2>4
<1>14. CASE CancelApply
  <2>1. /\ cpc \in Task /\ epc' = epc /\ processing' = processing
        /\ status' = [status EXCEPT ![cpc] = "canceled"]
        /\ qm' = [qm EXCEPT !.cancel = @ + 1]
    BY <1>0, <1>14 DEF CancelApply
  <2>2. Stays
    BY <1>0, <2>1 DEF Stays, Counters
  <2> QED BY <2>2
<1>15. ASSUME (\E id \in Canceled : CancelLoad(id)) \/ QueueStart \/ QueueStop \/ Tick
                \/ UNCHANGED vars
      PROVE  epc' = epc /\ processing' = processing /\ qm' = qm /\ status' = status
  BY <1>15 DEF CancelLoad, QueueStart, QueueStop, Tick, Timer!TTick, vars, execVars
<1>16. ASSUME epc' = epc, processing' = processing, qm' = qm, status' = status PROVE Stays
  BY <1>16 DEF Stays
<1> QED BY Actions, <1>16, <1>2, <1>3, <1>4, <1>5, <1>6, <1>7, <1>9, <1>10, <1>11, <1>12,
           <1>13, <1>14, <1>15

Stages == {"none", "refused", "dispatched", "attempt", "waiting", "succeeding",
           "failing", "ok", "err"}

\* How many tasks a function maps to the stages of a set.
CountIn(f, stages) == Cardinality({t \in Task : f[t] \in stages})
Unit(x, stages) == IF x \in stages THEN 1 ELSE 0

\* Moving one task changes how many are at the stages of a set by one, or not at
\* all.
LEMMA CountMove ==
  ASSUME NEW f \in [Task -> Stages], NEW t \in Task, NEW x, NEW stages
  PROVE  /\ CountIn(f, stages) \in Nat
         /\ CountIn([f EXCEPT ![t] = x], stages)
              = CountIn(f, stages) + Unit(x, stages) - Unit(f[t], stages)
<1> DEFINE g == [f EXCEPT ![t] = x]
           S == {u \in Task : f[u] \in stages}
           T == {u \in Task : g[u] \in stages}
<1>1. IsFiniteSet(S) /\ Cardinality(S) \in Nat
  BY Counts
<1>2. /\ x \in stages <=> f[t] \in stages => T = S
      /\ f[t] \notin stages /\ x \in stages => T = S \cup {t} /\ t \notin S
      /\ f[t] \in stages /\ x \notin stages => T = S \ {t} /\ t \in S
  OBVIOUS
<1>3. CountIn(f, stages) = Cardinality(S) /\ CountIn(g, stages) = Cardinality(T)
  BY DEF CountIn
<1> HIDE DEF S, T, g
<1>4. /\ t \notin S => Cardinality(S \cup {t}) = Cardinality(S) + 1
      /\ t \in S => Cardinality(S \ {t}) = Cardinality(S) - 1
  BY <1>1, FS_AddElement, FS_RemoveElement
<1>5. Cardinality(T) = Cardinality(S) + Unit(x, stages) - Unit(f[t], stages)
  <2>1. CASE x \in stages <=> f[t] \in stages
    <3>1. Cardinality(T) = Cardinality(S)
      BY <1>2, <2>1
    <3>2. Unit(x, stages) = Unit(f[t], stages) /\ Unit(x, stages) \in {0, 1}
      BY <2>1 DEF Unit
    <3> QED BY <1>1, <3>1, <3>2
  <2>2. CASE f[t] \notin stages /\ x \in stages
    <3>1. Cardinality(T) = Cardinality(S) + 1
      BY <1>2, <1>4, <2>2
    <3>2. Unit(x, stages) = 1 /\ Unit(f[t], stages) = 0
      BY <2>2 DEF Unit
    <3> QED BY <1>1, <3>1, <3>2
  <2>3. CASE f[t] \in stages /\ x \notin stages
    <3>1. Cardinality(T) = Cardinality(S) - 1
      BY <1>2, <1>4, <2>3
    <3>2. Unit(x, stages) = 0 /\ Unit(f[t], stages) = 1
      BY <2>3 DEF Unit
    <3> QED BY <1>1, <3>1, <3>2
  <2> QED BY <2>1, <2>2, <2>3
<1> QED BY <1>1, <1>3, <1>5 DEF g

\* The map of executing tasks and the ActiveTasks counter follow every move.
LEMMA NextProcessing ==
  PlaceInv /\ ProcessingIsLive /\ [Next]_vars => ProcessingIsLive'
<1> SUFFICES ASSUME PlaceInv, ProcessingIsLive, [Next]_vars PROVE ProcessingIsLive'
  OBVIOUS
<1> DEFINE E == {"attempt", "waiting", "succeeding", "failing"}
<1>0. /\ processing \in [ID -> Task \cup {NoTask}] /\ qm.activeTasks \in Int
      /\ epc \in [Task -> Stages] /\ \A t \in Task : IdOf[t] \in ID
  BY DEF PlaceInv, TypeOK, ExecTypeOK, ID, Stages
<1>1. /\ Cardinality(Executing) = CountIn(epc, E)
      /\ Cardinality(Executing') = CountIn(epc', E)
      /\ \A t \in Task : (t \in Executing' <=> epc'[t] \in E)
      /\ \A t \in Task : (t \in Executing <=> epc[t] \in E)
  BY DEF Executing, CountIn
<1>2. /\ \A id \in ID : processing[id] # NoTask =>
           processing[id] \in Executing /\ IdOf[processing[id]] = id
      /\ qm.activeTasks = CountIn(epc, E)
  BY <1>1 DEF ProcessingIsLive
<1> SUFFICES /\ \A id \in ID : processing'[id] # NoTask =>
                  processing'[id] \in Executing' /\ IdOf[processing'[id]] = id
             /\ qm'.activeTasks = CountIn(epc', E)
  BY <1>1 DEF ProcessingIsLive
<1>3. CASE Stays
  <2>1. processing' = processing /\ qm'.activeTasks = qm.activeTasks /\ Executing' = Executing
    BY <1>3 DEF Stays, Executing
  <2> QED BY <1>1, <1>2, <2>1
<1>4. ASSUME NEW t \in Task, NEW x, epc' = [epc EXCEPT ![t] = x],
             epc[t] \in E <=> x \in E, processing' = processing,
             qm'.activeTasks = qm.activeTasks + 0
      PROVE  /\ \A id \in ID : processing'[id] # NoTask =>
                  processing'[id] \in Executing' /\ IdOf[processing'[id]] = id
             /\ qm'.activeTasks = CountIn(epc', E)
  <2>1. \A u \in Task : epc[u] \in E <=> epc'[u] \in E
    BY <1>0, <1>4
  <2>2. Executing' = Executing
    BY <2>1 DEF Executing
  <2> QED BY <1>0, <1>1, <1>2, <1>4, <2>2
<1>5. ASSUME NEW t \in Task,
             Refuses(t) \/ Dispatches(t) \/ Repeats(t) \/ Concludes(t)
      PROVE  /\ \A id \in ID : processing'[id] # NoTask =>
                  processing'[id] \in Executing' /\ IdOf[processing'[id]] = id
             /\ qm'.activeTasks = CountIn(epc', E)
  <2>1. \E x : /\ epc' = [epc EXCEPT ![t] = x] /\ (epc[t] \in E <=> x \in E)
               /\ processing' = processing /\ qm'.activeTasks = qm.activeTasks + 0
    BY <1>5 DEF Refuses, Dispatches, Repeats, Concludes, Moves
  <2> QED BY <1>4, <2>1
<1>6. ASSUME NEW t \in Task, Begins(t)
      PROVE  /\ \A id \in ID : processing'[id] # NoTask =>
                  processing'[id] \in Executing' /\ IdOf[processing'[id]] = id
             /\ qm'.activeTasks = CountIn(epc', E)
  <2>1. /\ epc[t] = "dispatched" /\ epc' = [epc EXCEPT ![t] = "attempt"]
        /\ processing' = [processing EXCEPT ![IdOf[t]] = t]
        /\ qm'.activeTasks = qm.activeTasks + 1
    BY <1>6 DEF Begins, Moves
  <2>2. CountIn(epc', E) = CountIn(epc, E) + 1
    <3>1. /\ CountIn(epc, E) \in Nat
          /\ CountIn(epc', E) = CountIn(epc, E) + Unit("attempt", E) - Unit(epc[t], E)
      <4> HIDE DEF E
      <4> QED BY <1>0, <2>1, CountMove
    <3>2. Unit("attempt", E) = 1 /\ Unit(epc[t], E) = 0
      BY <2>1 DEF Unit
    <3> QED BY <3>1, <3>2
  <2>3. \A u \in Task : epc'[u] = IF u = t THEN "attempt" ELSE epc[u]
    BY <1>0, <2>1
  <2>4. \A u \in Task : u \in Executing \/ u = t => u \in Executing'
    BY <1>1, <2>3
  <2>5. ASSUME NEW id \in ID, processing'[id] # NoTask
        PROVE  processing'[id] \in Executing' /\ IdOf[processing'[id]] = id
    <3>1. processing'[id] = IF id = IdOf[t] THEN t ELSE processing[id]
      BY <1>0, <2>1
    <3> QED BY <1>0, <1>2, <2>4, <2>5, <3>1
  <2> QED BY <1>2, <2>1, <2>2, <2>5
<1>7. ASSUME NEW t \in Task, Returns(t)
      PROVE  /\ \A id \in ID : processing'[id] # NoTask =>
                  processing'[id] \in Executing' /\ IdOf[processing'[id]] = id
             /\ qm'.activeTasks = CountIn(epc', E)
  <2>1. PICK x \in {"ok", "err"} :
          /\ epc[t] \in {"succeeding", "failing"} /\ epc' = [epc EXCEPT ![t] = x]
          /\ processing' = [processing EXCEPT ![IdOf[t]] = NoTask]
          /\ qm'.activeTasks = qm.activeTasks + -1
    BY <1>7 DEF Returns, Moves
  <2>2. /\ CountIn(epc', E) = CountIn(epc, E) - 1
        /\ CountIn(epc, E) \in Nat
    <3>1. /\ CountIn(epc, E) \in Nat
          /\ CountIn(epc', E) = CountIn(epc, E) + Unit(x, E) - Unit(epc[t], E)
      <4> HIDE DEF E
      <4> QED BY <1>0, <2>1, CountMove
    <3>2. Unit(x, E) = 0 /\ Unit(epc[t], E) = 1
      BY <2>1 DEF Unit
    <3> QED BY <3>1, <3>2
  <2>3. \A u \in Task : u # t => epc'[u] = epc[u]
    BY <1>0, <2>1
  <2>4. ASSUME NEW id \in ID, processing'[id] # NoTask
        PROVE  processing'[id] \in Executing' /\ IdOf[processing'[id]] = id
    <3>1. id # IdOf[t] /\ processing'[id] = processing[id]
      BY <1>0, <2>1, <2>4
    <3>2. processing[id] \in Executing /\ IdOf[processing[id]] = id /\ processing[id] # t
      BY <1>2, <2>4, <3>1
    <3> QED BY <1>0, <1>1, <2>3, <3>1, <3>2, <2>4
  <2> QED BY <1>0, <1>2, <2>1, <2>2, <2>4
<1> QED BY OutcomeSteps, <1>3, <1>5, <1>6, <1>7

\* What q.processing points to executes under its ID, and ActiveTasks is the number
\* of executing tasks, whatever Cancel, retries, timeouts and Stop do.
THEOREM ProcessingIsLiveThm == Spec => []ProcessingIsLive
<1>1. Init => ProcessingIsLive
  <2> SUFFICES ASSUME Init PROVE ProcessingIsLive
    OBVIOUS
  <2>1. Executing = {}
    BY DEF Init, Executing
  <2>2. Cardinality(Executing) = 0
    BY <2>1, FS_EmptySet
  <2> QED BY <2>2 DEF Init, ProcessingIsLive
<1> QED BY InitPlaceInv, NextPlaceInv, NextProcessing, <1>1, PTL DEF Spec

\* The queue's own counters and the final statuses go with the executions.
CountersAgree ==
  /\ qm.success = CountIn(epc, {"succeeding", "ok"})
  /\ qm.failure = CountIn(epc, {"failing", "err", "refused"})
  /\ qm.process + CountIn(epc, {"refused"})
       = qm.success + qm.failure + CountIn(epc, {"attempt", "waiting"})
  /\ \A t \in Task :
       /\ status[t] = "completed" => epc[t] \in {"succeeding", "ok"}
       /\ status[t] = "failed" => epc[t] \in {"failing", "err", "refused"}

\* Every move of an execution is counted where CountersAgree expects it.
LEMMA NextCounters == PlaceInv /\ CountersAgree /\ [Next]_vars => CountersAgree'
<1> SUFFICES ASSUME PlaceInv, CountersAgree, [Next]_vars PROVE CountersAgree'
  OBVIOUS
<1> DEFINE S == {"succeeding", "ok"}
           F == {"failing", "err", "refused"}
           R == {"refused"}
           A == {"attempt", "waiting"}
           Change(stages, from, to) == Unit(to, stages) - Unit(from, stages)
           Final(st, stage) == /\ st = "completed" => stage \in S
                               /\ st = "failed" => stage \in F
<1>0. /\ epc \in [Task -> Stages] /\ status \in [Task -> Timer!Statuses]
      /\ qm.process \in Nat /\ qm.success \in Nat /\ qm.failure \in Nat
  BY DEF PlaceInv, TypeOK, ExecTypeOK, Timer!TTypeOK, Stages
<1>1. /\ qm.success = CountIn(epc, S) /\ qm.failure = CountIn(epc, F)
      /\ qm.process + CountIn(epc, R) = qm.success + qm.failure + CountIn(epc, A)
      /\ \A u \in Task : Final(status[u], epc[u])
  BY DEF CountersAgree
<1>2. CASE Stays
  BY <1>2 DEF Stays, CountersAgree
<1>3. ASSUME NEW t \in Task, NEW to, NEW x,
             epc' = [epc EXCEPT ![t] = to], status' = [status EXCEPT ![t] = x],
             qm'.success = qm.success + Change(S, epc[t], to),
             qm'.failure = qm.failure + Change(F, epc[t], to),
             qm'.process = qm.process + Change(S, epc[t], to) + Change(F, epc[t], to)
                             + Change(A, epc[t], to) - Change(R, epc[t], to),
             Final(x, to)
      PROVE  CountersAgree'
  <2>1. ASSUME NEW stages
        PROVE  /\ CountIn(epc, stages) \in Nat /\ Change(stages, epc[t], to) \in Int
               /\ CountIn(epc', stages) = CountIn(epc, stages) + Change(stages, epc[t], to)
    <3>1. /\ CountIn(epc, stages) \in Nat
          /\ CountIn(epc', stages)
               = CountIn(epc, stages) + Unit(to, stages) - Unit(epc[t], stages)
      <4>1. epc' = [epc EXCEPT ![t] = to]
        BY <1>3
      <4> QED BY <1>0, <4>1, CountMove
    <3>2. Unit(to, stages) \in Int /\ Unit(epc[t], stages) \in Int
      BY DEF Unit
    <3> QED BY <3>1, <3>2
  <2> HIDE DEF Change
  <2>2. /\ qm'.success = CountIn(epc', S) /\ qm'.failure = CountIn(epc', F)
        /\ qm'.process + CountIn(epc', R) = qm'.success + qm'.failure + CountIn(epc', A)
    <3> HIDE DEF S, F, R, A
    <3>1. /\ CountIn(epc, S) \in Nat /\ Change(S, epc[t], to) \in Int
          /\ CountIn(epc', S) = CountIn(epc, S) + Change(S, epc[t], to)
      BY <2>1
    <3>2. /\ CountIn(epc, F) \in Nat /\ Change(F, epc[t], to) \in Int
          /\ CountIn(epc', F) = CountIn(epc, F) + Change(F, epc[t], to)
      BY <2>1
    <3>3. /\ CountIn(epc, R) \in Nat /\ Change(R, epc[t], to) \in Int
          /\ CountIn(epc', R) = CountIn(epc, R) + Change(R, epc[t], to)
      BY <2>1
    <3>4. /\ CountIn(epc, A) \in Nat /\ Change(A, epc[t], to) \in Int
          /\ CountIn(epc', A) = CountIn(epc, A) + Change(A, epc[t], to)
      BY <2>1
    <3> QED BY <1>0, <1>1, <1>3, <3>1, <3>2, <3>3, <3>4
  <2>3. \A u \in Task : Final(status'[u], epc'[u])
    <3>1. \A u \in Task : /\ epc'[u] = IF u = t THEN to ELSE epc[u]
                          /\ status'[u] = IF u = t THEN x ELSE status[u]
      BY <1>0, <1>3
    <3> QED BY <1>1, <1>3, <3>1
  <2> QED BY <2>2, <2>3 DEF CountersAgree
<1>4. ASSUME NEW t \in Task, status' = status
      PROVE  status' = [status EXCEPT ![t] = status[t]] /\ Final(status[t], epc[t])
  BY <1>0, <1>1, <1>4
<1>5. ASSUME NEW t \in Task, Refuses(t) PROVE CountersAgree'
  <2>1. ASSUME Moves(t, "none", "refused", 0, 0, 1, 0),
               status' = [status EXCEPT ![t] = "failed"]
        PROVE  CountersAgree'
    <3>1. /\ epc[t] = "none" /\ epc' = [epc EXCEPT ![t] = "refused"]
          /\ qm'.success = qm.success + 0 /\ qm'.failure = qm.failure + 1
          /\ qm'.process = qm.process + 0
      BY <2>1 DEF Moves
    <3>2. /\ Change(S, epc[t], "refused") = 0 /\ Change(F, epc[t], "refused") = 1
          /\ Change(A, epc[t], "refused") = 0 /\ Change(R, epc[t], "refused") = 1
          /\ Final("failed", "refused")
      BY <2>1, <3>1 DEF Unit
    <3>3. /\ qm'.success = qm.success + Change(S, epc[t], "refused")
          /\ qm'.failure = qm.failure + Change(F, epc[t], "refused")
          /\ qm'.process = qm.process + Change(S, epc[t], "refused") + Change(F, epc[t], "refused")
                             + Change(A, epc[t], "refused") - Change(R, epc[t], "refused")
      BY <1>0, <3>1, <3>2
    <3> HIDE DEF Change, Final, S, F, R, A
    <3> QED BY <1>3, <2>1, <3>1, <3>2, <3>3, Zenon
  <2> QED BY <1>4, <1>5, <2>1 DEF Refuses
<1>6. ASSUME NEW t \in Task, Dispatches(t) PROVE CountersAgree'
  <2>1. ASSUME Moves(t, "none", "dispatched", 0, 0, 0, 0),
               status' = [status EXCEPT ![t] = status[t]],
               Final(status[t], epc[t])
        PROVE  CountersAgree'
    <3>1. /\ epc[t] = "none" /\ epc' = [epc EXCEPT ![t] = "dispatched"]
          /\ qm'.success = qm.success + 0 /\ qm'.failure = qm.failure + 0
          /\ qm'.process = qm.process + 0
      BY <2>1 DEF Moves
    <3>2. /\ Change(S, epc[t], "dispatched") = 0 /\ Change(F, epc[t], "dispatched") = 0
          /\ Change(A, epc[t], "dispatched") = 0 /\ Change(R, epc[t], "dispatched") = 0
          /\ Final(status[t], "dispatched")
      BY <2>1, <3>1 DEF Unit
    <3>3. /\ qm'.success = qm.success + Change(S, epc[t], "dispatched")
          /\ qm'.failure = qm.failure + Change(F, epc[t], "dispatched")
          /\ qm'.process = qm.process + Change(S, epc[t], "dispatched") + Change(F, epc[t], "dispatched")
                             + Change(A, epc[t], "dispatched") - Change(R, epc[t], "dispatched")
      BY <1>0, <3>1, <3>2
    <3> HIDE DEF Change, Final, S, F, R, A
    <3> QED BY <1>3, <2>1, <3>1, <3>2, <3>3, Zenon
  <2> QED BY <1>4, <1>6, <2>1 DEF Dispatches
<1>7. ASSUME NEW t \in Task, Begins(t) PROVE CountersAgree'
  <2>1. ASSUME Moves(t, "dispatched", "attempt", 1, 0, 0, 1),
               status' = [status EXCEPT ![t] = "running"]
        PROVE  CountersAgree'
    <3>1. /\ epc[t] = "dispatched" /\ epc' = [epc EXCEPT ![t] = "attempt"]
          /\ qm'.success = qm.success + 0 /\ qm'.failure = qm.failure + 0
          /\ qm'.process = qm.process + 1
      BY <2>1 DEF Moves
    <3>2. /\ Change(S, epc[t], "attempt") = 0 /\ Change(F, epc[t], "attempt") = 0
          /\ Change(A, epc[t], "attempt") = 1 /\ Change(R, epc[t], "attempt") = 0
          /\ Final("running", "attempt")
      BY <2>1, <3>1 DEF Unit
    <3>3. /\ qm'.success = qm.success + Change(S, epc[t], "attempt")
          /\ qm'.failure = qm.failure + Change(F, epc[t], "attempt")
          /\ qm'.process = qm.process + Change(S, epc[t], "attempt") + Change(F, epc[t], "attempt")
                             + Change(A, epc[t], "attempt") - Change(R, epc[t], "attempt")
      BY <1>0, <3>1, <3>2
    <3> HIDE DEF Change, Final, S, F, R, A
    <3> QED BY <1>3, <2>1, <3>1, <3>2, <3>3, Zenon
  <2> QED BY <1>4, <1>7, <2>1 DEF Begins
<1>8. ASSUME NEW t \in Task, Repeats(t) PROVE CountersAgree'
  <2>1. ASSUME Moves(t, "attempt", "waiting", 0, 0, 0, 0),
               status' = [status EXCEPT ![t] = status[t]],
               Final(status[t], epc[t])
        PROVE  CountersAgree'
    <3>1. /\ epc[t] = "attempt" /\ epc' = [epc EXCEPT ![t] = "waiting"]
          /\ qm'.success = qm.success + 0 /\ qm'.failure = qm.failure + 0
          /\ qm'.process = qm.process + 0
      BY <2>1 DEF Moves
    <3>2. /\ Change(S, epc[t], "waiting") = 0 /\ Change(F, epc[t], "waiting") = 0
          /\ Change(A, epc[t], "waiting") = 0 /\ Change(R, epc[t], "waiting") = 0
          /\ Final(status[t], "waiting")
      BY <2>1, <3>1 DEF Unit
    <3>3. /\ qm'.success = qm.success + Change(S, epc[t], "waiting")
          /\ qm'.failure = qm.failure + Change(F, epc[t], "waiting")
          /\ qm'.process = qm.process + Change(S, epc[t], "waiting") + Change(F, epc[t], "waiting")
                             + Change(A, epc[t], "waiting") - Change(R, epc[t], "waiting")
      BY <1>0, <3>1, <3>2
    <3> HIDE DEF Change, Final, S, F, R, A
    <3> QED BY <1>3, <2>1, <3>1, <3>2, <3>3, Zenon
  <2>2. ASSUME Moves(t, "waiting", "attempt", 0, 0, 0, 0),
               status' = [status EXCEPT ![t] = "retrying"]
        PROVE  CountersAgree'
    <3>1. /\ epc[t] = "waiting" /\ epc' = [epc EXCEPT ![t] = "attempt"]
          /\ qm'.success = qm.success + 0 /\ qm'.failure = qm.failure + 0
          /\ qm'.process = qm.process + 0
      BY <2>2 DEF Moves
    <3>2. /\ Change(S, epc[t], "attempt") = 0 /\ Change(F, epc[t], "attempt") = 0
          /\ Change(A, epc[t], "attempt") = 0 /\ Change(R, epc[t], "attempt") = 0
          /\ Final("retrying", "attempt")
      BY <2>2, <3>1 DEF Unit
    <3>3. /\ qm'.success = qm.success + Change(S, epc[t], "attempt")
          /\ qm'.failure = qm.failure + Change(F, epc[t], "attempt")
          /\ qm'.process = qm.process + Change(S, epc[t], "attempt") + Change(F, epc[t], "attempt")
                             + Change(A, epc[t], "attempt") - Change(R, epc[t], "attempt")
      BY <1>0, <3>1, <3>2
    <3> HIDE DEF Change, Final, S, F, R, A
    <3> QED BY <1>3, <2>2, <3>1, <3>2, <3>3, Zenon
  <2> QED BY <1>4, <1>8, <2>1, <2>2 DEF Repeats
<1>9. ASSUME NEW t \in Task, Concludes(t) PROVE CountersAgree'
  <2>1. ASSUME Moves(t, "attempt", "succeeding", 0, 1, 0, 0),
               status' = [status EXCEPT ![t] = "completed"]
        PROVE  CountersAgree'
    <3>1. /\ epc[t] = "attempt" /\ epc' = [epc EXCEPT ![t] = "succeeding"]
          /\ qm'.success = qm.success + 1 /\ qm'.failure = qm.failure + 0
          /\ qm'.process = qm.process + 0
      BY <2>1 DEF Moves
    <3>2. /\ Change(S, epc[t], "succeeding") = 1 /\ Change(F, epc[t], "succeeding") = 0
          /\ Change(A, epc[t], "succeeding") = -1 /\ Change(R, epc[t], "succeeding") = 0
          /\ Final("completed", "succeeding")
      BY <2>1, <3>1 DEF Unit
    <3>3. /\ qm'.success = qm.success + Change(S, epc[t], "succeeding")
          /\ qm'.failure = qm.failure + Change(F, epc[t], "succeeding")
          /\ qm'.process = qm.process + Change(S, epc[t], "succeeding") + Change(F, epc[t], "succeeding")
                             + Change(A, epc[t], "succeeding") - Change(R, epc[t], "succeeding")
      BY <1>0, <3>1, <3>2
    <3> HIDE DEF Change, Final, S, F, R, A
    <3> QED BY <1>3, <2>1, <3>1, <3>2, <3>3, Zenon
  <2>2. ASSUME Moves(t, "waiting", "succeeding", 0, 1, 0, 0),
               status' = [status EXCEPT ![t] = "completed"]
        PROVE  CountersAgree'
    <3>1. /\ epc[t] = "waiting" /\ epc' = [epc EXCEPT ![t] = "succeeding"]
          /\ qm'.success = qm.success + 1 /\ qm'.failure = qm.failure + 0
          /\ qm'.process = qm.process + 0
      BY <2>2 DEF Moves
    <3>2. /\ Change(S, epc[t], "succeeding") = 1 /\ Change(F, epc[t], "succeeding") = 0
          /\ Change(A, epc[t], "succeeding") = -1 /\ Change(R, epc[t], "succeeding") = 0
          /\ Final("completed", "succeeding")
      BY <2>2, <3>1 DEF Unit
    <3>3. /\ qm'.success = qm.success + Change(S, epc[t], "succeeding")
          /\ qm'.failure = qm.failure + Change(F, epc[t], "succeeding")
          /\ qm'.process = qm.process + Change(S, epc[t], "succeeding") + Change(F, epc[t], "succeeding")
                             + Change(A, epc[t], "succeeding") - Change(R, epc[t], "succeeding")
      BY <1>0, <3>1, <3>2
    <3> HIDE DEF Change, Final, S, F, R, A
    <3> QED BY <1>3, <2>2, <3>1, <3>2, <3>3, Zenon
  <2>3. ASSUME Moves(t, "attempt", "failing", 0, 0, 1, 0),
               status' = [status EXCEPT ![t] = "failed"]
        PROVE  CountersAgree'
    <3>1. /\ epc[t] = "attempt" /\ epc' = [epc EXCEPT ![t] = "failing"]
          /\ qm'.success = qm.success + 0 /\ qm'.failure = qm.failure + 1
          /\ qm'.process = qm.process + 0
      BY <2>3 DEF Moves
    <3>2. /\ Change(S, epc[t], "failing") = 0 /\ Change(F, epc[t], "failing") = 1
          /\ Change(A, epc[t], "failing") = -1 /\ Change(R, epc[t], "failing") = 0
          /\ Final("failed", "failing")
      BY <2>3, <3>1 DEF Unit
    <3>3. /\ qm'.success = qm.success + Change(S, epc[t], "failing")
          /\ qm'.failure = qm.failure + Change(F, epc[t], "failing")
          /\ qm'.process = qm.process + Change(S, epc[t], "failing") + Change(F, epc[t], "failing")
                             + Change(A, epc[t], "failing") - Change(R, epc[t], "failing")
      BY <1>0, <3>1, <3>2
    <3> HIDE DEF Change, Final, S, F, R, A
    <3> QED BY <1>3, <2>3, <3>1, <3>2, <3>3, Zenon
  <2>4. ASSUME Moves(t, "waiting", "failing", 0, 0, 1, 0),
               status' = [status EXCEPT ![t] = "failed"]
        PROVE  CountersAgree'
    <3>1. /\ epc[t] = "waiting" /\ epc' = [epc EXCEPT ![t] = "failing"]
          /\ qm'.success = qm.success + 0 /\ qm'.failure = qm.failure + 1
          /\ qm'.process = qm.process + 0
      BY <2>4 DEF Moves
    <3>2. /\ Change(S, epc[t], "failing") = 0 /\ Change(F, epc[t], "failing") = 1
          /\ Change(A, epc[t], "failing") = -1 /\ Change(R, epc[t], "failing") = 0
          /\ Final("failed", "failing")
      BY <2>4, <3>1 DEF Unit
    <3>3. /\ qm'.success = qm.success + Change(S, epc[t], "failing")
          /\ qm'.failure = qm.failure + Change(F, epc[t], "failing")
          /\ qm'.process = qm.process + Change(S, epc[t], "failing") + Change(F, epc[t], "failing")
                             + Change(A, epc[t], "failing") - Change(R, epc[t], "failing")
      BY <1>0, <3>1, <3>2
    <3> HIDE DEF Change, Final, S, F, R, A
    <3> QED BY <1>3, <2>4, <3>1, <3>2, <3>3, Zenon
  <2> QED BY <1>4, <1>9, <2>1, <2>2, <2>3, <2>4 DEF Concludes
<1>10. ASSUME NEW t \in Task, Returns(t) PROVE CountersAgree'
  <2>1. ASSUME Moves(t, "succeeding", "ok", 0, 0, 0, -1),
               status' = [status EXCEPT ![t] = status[t]],
               Final(status[t], epc[t])
        PROVE  CountersAgree'
    <3>1. /\ epc[t] = "succeeding" /\ epc' = [epc EXCEPT ![t] = "ok"]
          /\ qm'.success = qm.success + 0 /\ qm'.failure = qm.failure + 0
          /\ qm'.process = qm.process + 0
      BY <2>1 DEF Moves
    <3>2. /\ Change(S, epc[t], "ok") = 0 /\ Change(F, epc[t], "ok") = 0
          /\ Change(A, epc[t], "ok") = 0 /\ Change(R, epc[t], "ok") = 0
          /\ Final(status[t], "ok")
      BY <2>1, <3>1 DEF Unit
    <3>3. /\ qm'.success = qm.success + Change(S, epc[t], "ok")
          /\ qm'.failure = qm.failure + Change(F, epc[t], "ok")
          /\ qm'.process = qm.process + Change(S, epc[t], "ok") + Change(F, epc[t], "ok")
                             + Change(A, epc[t], "ok") - Change(R, epc[t], "ok")
      BY <1>0, <3>1, <3>2
    <3> HIDE DEF Change, Final, S, F, R, A
    <3> QED BY <1>3, <2>1, <3>1, <3>2, <3>3, Zenon
  <2>2. ASSUME Moves(t, "failing", "err", 0, 0, 0, -1),
               status' = [status EXCEPT ![t] = status[t]],
               Final(status[t], epc[t])
        PROVE  CountersAgree'
    <3>1. /\ epc[t] = "failing" /\ epc' = [epc EXCEPT ![t] = "err"]
          /\ qm'.success = qm.success + 0 /\ qm'.failure = qm.failure + 0
          /\ qm'.process = qm.process + 0
      BY <2>2 DEF Moves
    <3>2. /\ Change(S, epc[t], "err") = 0 /\ Change(F, epc[t], "err") = 0
          /\ Change(A, epc[t], "err") = 0 /\ Change(R, epc[t], "err") = 0
          /\ Final(status[t], "err")
      BY <2>2, <3>1 DEF Unit
    <3>3. /\ qm'.success = qm.success + Change(S, epc[t], "err")
          /\ qm'.failure = qm.failure + Change(F, epc[t], "err")
          /\ qm'.process = qm.process + Change(S, epc[t], "err") + Change(F, epc[t], "err")
                             + Change(A, epc[t], "err") - Change(R, epc[t], "err")
      BY <1>0, <3>1, <3>2
    <3> HIDE DEF Change, Final, S, F, R, A
    <3> QED BY <1>3, <2>2, <3>1, <3>2, <3>3, Zenon
  <2> QED BY <1>4, <1>10, <2>1, <2>2 DEF Returns
<1> QED BY OutcomeSteps, <1>2, <1>5, <1>6, <1>7, <1>8, <1>9, <1>10

\* The pool's counters: every settled task is counted, and what it counts as completed
\* returned nil.
Earned == {t \in settled : epc[t] = "ok"}
PoolAgrees == good + bad = Cardinality(settled) /\ good <= Cardinality(Earned)

\* A worker that lets go of its task counts it once, and as completed only after
\* executeTask returned nil; nothing else moves the pool's counters.
LEMMA NextPool == PlaceInv /\ PoolAgrees /\ [Next]_vars => PoolAgrees'
<1> SUFFICES ASSUME PlaceInv, PoolAgrees, [Next]_vars PROVE PoolAgrees'
  OBVIOUS
<1>0. /\ settled \subseteq Task /\ good \in Nat /\ bad \in Nat
      /\ hand \in [Worker -> Task \cup {NoTask}] /\ \A t \in Task : Route(t)
      /\ epc \in [Task -> Stages]
  BY DEF PlaceInv, Routes, TypeOK, PoolTypeOK, ExecTypeOK, Stages
<1>1. /\ IsFiniteSet(settled) /\ Cardinality(settled) \in Nat
      /\ IsFiniteSet(Earned) /\ Cardinality(Earned) \in Nat
  BY <1>0, Counts, TaskAssumption, FS_Subset, FS_CardinalityType DEF Earned
<1>2. \A t \in Task : epc[t] = "ok" => epc'[t] = "ok"
  <2>1. CASE Stays
    BY <2>1 DEF Stays
  <2>2. ASSUME NEW t \in Task, NEW x, epc[t] # "ok", epc' = [epc EXCEPT ![t] = x]
        PROVE  \A u \in Task : epc[u] = "ok" => epc'[u] = "ok"
    BY <1>0, <2>2
  <2>3. ASSUME NEW t \in Task, \/ Refuses(t) \/ Dispatches(t) \/ Begins(t) \/ Repeats(t)
                               \/ Concludes(t) \/ Returns(t)
        PROVE  \E x : epc[t] # "ok" /\ epc' = [epc EXCEPT ![t] = x]
    BY <2>3 DEF Refuses, Dispatches, Begins, Repeats, Concludes, Returns, Moves
  <2> QED BY OutcomeSteps, <2>1, <2>2, <2>3
<1>3. ASSUME good' = good, bad' = bad, settled' = settled PROVE PoolAgrees'
  <2>1. IsFiniteSet(Earned') /\ Earned \subseteq Earned'
    <3>1. Earned' \subseteq settled
      BY <1>3 DEF Earned
    <3> QED BY <1>0, <1>1, <1>2, <1>3, <3>1, FS_Subset DEF Earned
  <2>2. Cardinality(Earned) <= Cardinality(Earned') /\ Cardinality(Earned') \in Nat
    BY <2>1, FS_Subset, FS_CardinalityType
  <2>3. good' <= Cardinality(Earned')
    BY <1>0, <1>1, <1>3, <2>2 DEF PoolAgrees
  <2> QED BY <1>3, <2>3 DEF PoolAgrees
<1>4. ASSUME NEW w \in Worker, WorkerCollect(w) \/ WorkerTimeout(w) PROVE PoolAgrees'
  <2>0. PICK t \in Task : t = hand[w]
    BY <1>0, <1>4 DEF WorkerCollect, WorkerTimeout
  <2>1. t \notin settled
    BY <1>0, <2>0 DEF Route, Held
  <2>2. /\ settled' = settled \cup {t} /\ epc' = epc
        /\ \/ good' = good + 1 /\ bad' = bad /\ epc[t] = "ok"
           \/ good' = good /\ bad' = bad + 1
    BY <1>0, <1>4, <2>0 DEF WorkerCollect, WorkerTimeout, Pool!Settle
  <2>3. Cardinality(settled') = Cardinality(settled) + 1
    BY <1>1, <2>1, <2>2, FS_AddElement
  <2>4. /\ epc[t] = "ok" => Earned' = Earned \cup {t} /\ t \notin Earned
        /\ epc[t] # "ok" => Earned' = Earned
    BY <2>1, <2>2 DEF Earned
  <2>5. Cardinality(Earned \cup {t}) = Cardinality(Earned) + 1 \/ t \in Earned
    BY <1>1, FS_AddElement
  <2>6. good' <= Cardinality(Earned')
    <3>1. CASE epc[t] = "ok"
      <4>1. Cardinality(Earned') = Cardinality(Earned) + 1
        BY <2>4, <2>5, <3>1
      <4> QED BY <1>0, <1>1, <2>2, <4>1 DEF PoolAgrees
    <3>2. CASE epc[t] # "ok"
      BY <1>0, <2>2, <2>4, <3>2 DEF PoolAgrees
    <3> QED BY <3>1, <3>2
  <2>7. good' + bad' = Cardinality(settled')
    BY <1>0, <1>1, <2>2, <2>3 DEF PoolAgrees
  <2> QED BY <2>6, <2>7 DEF PoolAgrees
<1> USE DEF poolVars, queueRest, workerRest
<1>5. ASSUME NEW t \in Task, PushTimer(t) \/ PushPriority(t) \/ PushNormal(t)
      PROVE  good' = good /\ bad' = bad /\ settled' = settled
  BY <1>5 DEF PushTimer, PushPriority, PushNormal, PushRest
<1>6. ASSUME TimerPoll \/ TimerExit \/ TimerSubmit \/ TimerSubmitFull \/ TimerSubmitClosed
      PROVE  good' = good /\ bad' = bad /\ settled' = settled
  BY <1>6 DEF TimerPoll, TimerExit, TimerSubmit, TimerSubmitFull, TimerSubmitClosed,
              Pool!Admit
<1>7. ASSUME NEW w \in Worker, WorkerTake(w) \/ WorkerExit(w)
      PROVE  good' = good /\ bad' = bad /\ settled' = settled
  BY <1>7 DEF WorkerTake, WorkerExit, Pool!Take
<1>8. ASSUME NEW t \in Task,
             \/ ExecuteBegin(t) \/ \E result \in Results : ExecuteConclude(t, result)
             \/ ExecuteWait(t) \/ ExecuteRetry(t) \/ ExecuteCanceled(t) \/ ExecuteReturn(t)
      PROVE  good' = good /\ bad' = bad /\ settled' = settled
  BY <1>8 DEF ExecuteBegin, ExecuteConclude, ExecuteWait, ExecuteRetry, ExecuteCanceled,
              ExecuteReturn
<1>9. ASSUME (\E id \in Canceled : CancelLoad(id)) \/ CancelApply \/ QueueStart \/ QueueStop
                \/ Tick \/ UNCHANGED vars
      PROVE  good' = good /\ bad' = bad /\ settled' = settled
  BY <1>9 DEF CancelLoad, CancelApply, QueueStart, QueueStop, Tick, vars
<1> QED BY Actions, <1>3, <1>4, <1>5, <1>6, <1>7, <1>8, <1>9

\* The queue's counters, the pool's counters and the final statuses tell one story, at
\* every moment between the goroutines that write them.
THEOREM OutcomesAgreeThm == Spec => []OutcomesAgree
<1>1. Init => CountersAgree /\ PoolAgrees
  <2> SUFFICES ASSUME Init PROVE CountersAgree /\ PoolAgrees
    OBVIOUS
  <2>1. ASSUME NEW stages, "none" \notin stages PROVE CountIn(epc, stages) = 0
    <3>1. {t \in Task : epc[t] \in stages} = {}
      BY <2>1 DEF Init
    <3> QED BY <3>1, FS_EmptySet DEF CountIn
  <2>2. /\ CountIn(epc, {"succeeding", "ok"}) = 0
        /\ CountIn(epc, {"failing", "err", "refused"}) = 0
        /\ CountIn(epc, {"refused"}) = 0 /\ CountIn(epc, {"attempt", "waiting"}) = 0
    <3>1. /\ "none" \notin {"succeeding", "ok"} /\ "none" \notin {"failing", "err", "refused"}
          /\ "none" \notin {"refused"} /\ "none" \notin {"attempt", "waiting"}
      OBVIOUS
    <3> QED BY <2>1, <3>1, Zenon
  <2>3. /\ qm.success = 0 /\ qm.failure = 0 /\ qm.process = 0
        /\ \A t \in Task : status[t] \notin {"completed", "failed"}
    BY DEF Init, Timer!TInit
  <2>4. CountersAgree
    BY <2>2, <2>3 DEF CountersAgree
  <2>5. settled = {} /\ Earned = {} /\ good = 0 /\ bad = 0
    BY DEF Init, Pool!EInit, Earned
  <2>6. Cardinality(settled) = 0 /\ Cardinality(Earned) = 0
    BY <2>5, FS_EmptySet
  <2> QED BY <2>4, <2>5, <2>6 DEF PoolAgrees
<1>2. PlaceInv /\ CountersAgree /\ PoolAgrees => OutcomesAgree
  <2> SUFFICES ASSUME PlaceInv, CountersAgree, PoolAgrees PROVE OutcomesAgree
    OBVIOUS
  <2>0. /\ settled \subseteq Task /\ good \in Nat /\ qm.process \in Nat
        /\ qm.success \in Nat /\ qm.failure \in Nat
    BY DEF PlaceInv, TypeOK, PoolTypeOK, ExecTypeOK
  <2>1. good <= qm.success
    <3> DEFINE S == {t \in Task : epc[t] \in {"succeeding", "ok"}}
    <3>1. IsFiniteSet(S) /\ Cardinality(S) \in Nat
      BY Counts
    <3>2. Earned \subseteq S
      BY <2>0 DEF Earned
    <3>3. qm.success = Cardinality(S)
      BY DEF CountersAgree, CountIn
    <3> HIDE DEF S
    <3>4. Cardinality(Earned) <= Cardinality(S) /\ Cardinality(Earned) \in Nat
      BY <3>1, <3>2, FS_Subset, FS_CardinalityType
    <3> QED BY <2>0, <3>1, <3>3, <3>4 DEF PoolAgrees
  <2>2. CountIn(epc, {"refused"}) = Cardinality(Refused) /\ Cardinality(Refused) \in Nat
    <3>1. Refused = {t \in Task : epc[t] \in {"refused"}}
      BY DEF Refused
    <3> QED BY <3>1, Counts DEF CountIn
  <2>3. CountIn(epc, {"attempt", "waiting"}) \in Nat
    BY Counts DEF CountIn
  <2>4. qm.process = qm.success + qm.failure + CountIn(epc, {"attempt", "waiting"})
                       - Cardinality(Refused)
    <3> DEFINE c == CountIn(epc, {"attempt", "waiting"})
               r == Cardinality(Refused)
    <3>1. qm.process + r = qm.success + qm.failure + c
      BY <2>2 DEF CountersAgree
    <3> HIDE DEF c, r
    <3>2. c \in Nat /\ r \in Nat
      BY <2>2, <2>3 DEF c, r
    <3>3. qm.process = qm.success + qm.failure + c - r
      BY <2>0, <3>1, <3>2
    <3> QED BY <3>3 DEF c, r
  <2> QED BY <2>1, <2>4 DEF OutcomesAgree, CountersAgree, PoolAgrees, CountIn
<1> QED BY InitPlaceInv, NextPlaceInv, NextCounters, NextPool, <1>1, <1>2, PTL DEF Spec

=============================================================================
