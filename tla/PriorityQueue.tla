---------------------------- MODULE PriorityQueue ----------------------------
(***************************************************************************)
(* The priority queue of messaging/queue/priority.go.  Every method runs   *)
(* under pq.mu, so a call is one step.  Tasks are pointers: the queue      *)
(* writes the normalised priority back into the caller's task, and two     *)
(* tasks may carry the same ID.                                            *)
(***************************************************************************)
EXTENDS Integers, Sequences

CONSTANTS
  Task,       \* *QueuedTask pointers
  NoTask,     \* the nil pointer
  IdOf,       \* task.ID
  Capacity,   \* pq.capacity
  MaxPrio,    \* pq.maxPrio
  Asked,      \* priorities that callers ask for, in and out of range
  BatchSizes, \* arguments of PopBatch and PeekBatch
  MaxEnqueued \* bound on enqueueCount

ASSUME TaskAssumption == NoTask \notin Task
ASSUME CapacityAssumption == Capacity \in Nat /\ MaxPrio \in Nat \ {0}
ASSUME AskedAssumption == Asked \subseteq Int /\ BatchSizes \subseteq Int

VARIABLES
  levels,       \* pq.levels: the tasks of each level, oldest first
  lookup,       \* pq.lookup: the task of each queued ID
  size,         \* pq.size
  prio,         \* task.Priority
  enqueueCount,
  dequeueCount,
  answer        \* the tasks that the last call returned

counts == <<enqueueCount, dequeueCount>>
vars == <<levels, lookup, size, prio, enqueueCount, dequeueCount, answer>>

ID == {IdOf[t] : t \in Task}
Levels == 0..MaxPrio

TypeOK ==
  /\ levels \in [Levels -> Seq(Task)]
  /\ lookup \in [ID -> Task \cup {NoTask}]
  /\ size \in Nat
  /\ prio \in [Task -> Int]
  /\ enqueueCount \in Nat
  /\ dequeueCount \in Nat
  /\ answer \in Seq(Task)

Init ==
  /\ levels = [p \in Levels |-> <<>>]
  /\ lookup = [id \in ID |-> NoTask]
  /\ size = 0
  /\ prio \in [Task -> Asked]
  /\ enqueueCount = 0
  /\ dequeueCount = 0
  /\ answer = <<>>

\* The normalisation that Push and UpdatePriority do.
Normalize(p) == IF p < 0 THEN 0 ELSE IF p > MaxPrio THEN MaxPrio ELSE p

\* append(tasks[:i], tasks[i+1:]...)
RemoveIndex(s, i) == SubSeq(s, 1, i - 1) \o SubSeq(s, i + 1, Len(s))

\* The loop of PopBatch and PeekBatch: b[p] is what the levels from the top down
\* to p contribute, the level p at most the room that those above it leave.
Collected(n) ==
  LET b[p \in 0..(MaxPrio + 1)] ==
        IF p = MaxPrio + 1 THEN <<>>
        ELSE LET room == n - Len(b[p + 1])
                 take == IF Len(levels[p]) > room THEN room ELSE Len(levels[p])
             IN  b[p + 1] \o SubSeq(levels[p], 1, take)
  IN  b

-----------------------------------------------------------------------------

PushRejected(t) ==
  /\ size >= Capacity \/ lookup[IdOf[t]] # NoTask
  /\ answer' = <<>>
  /\ UNCHANGED <<levels, lookup, size, prio, counts>>

PushAccepted(t) ==
  LET p == Normalize(prio[t]) IN
  /\ size < Capacity /\ lookup[IdOf[t]] = NoTask
  /\ enqueueCount < MaxEnqueued
  /\ prio' = [prio EXCEPT ![t] = p]
  /\ levels' = [levels EXCEPT ![p] = Append(@, t)]
  /\ lookup' = [lookup EXCEPT ![IdOf[t]] = t]
  /\ size' = size + 1
  /\ enqueueCount' = enqueueCount + 1
  /\ answer' = <<>>
  /\ UNCHANGED dequeueCount

Push(t) == PushRejected(t) \/ PushAccepted(t)

\* Mutant of Pop: the levels are scanned from the bottom.
PopLowest ==
  /\ size # 0
  /\ \E p \in Levels :
       /\ levels[p] # <<>>
       /\ \A q \in Levels : q < p => levels[q] = <<>>
       /\ answer' = <<Head(levels[p])>>
       /\ levels' = [levels EXCEPT ![p] = Tail(@)]
       /\ lookup' = [lookup EXCEPT ![IdOf[Head(levels[p])]] = NoTask]
  /\ size' = size - 1
  /\ dequeueCount' = dequeueCount + 1
  /\ UNCHANGED <<prio, enqueueCount>>

\* The highest level that has tasks gives up its oldest one.
Pop ==
  /\ size # 0
  /\ \E p \in Levels :
       /\ levels[p] # <<>>
       /\ \A q \in Levels : q > p => levels[q] = <<>>
       /\ answer' = <<Head(levels[p])>>
       /\ levels' = [levels EXCEPT ![p] = Tail(@)]
       /\ lookup' = [lookup EXCEPT ![IdOf[Head(levels[p])]] = NoTask]
  /\ size' = size - 1
  /\ dequeueCount' = dequeueCount + 1
  /\ UNCHANGED <<prio, enqueueCount>>

PopBatch(n) ==
  LET b == Collected(n)
      taken(p) == Len(b[p]) - Len(b[p + 1])
      ids == {IdOf[b[0][i]] : i \in 1..Len(b[0])}
  IN
  /\ n > 0 /\ size # 0
  /\ answer' = b[0]
  /\ levels' = [p \in Levels |-> SubSeq(levels[p], taken(p) + 1, Len(levels[p]))]
  /\ lookup' = [id \in ID |-> IF id \in ids THEN NoTask ELSE lookup[id]]
  /\ size' = size - Len(b[0])
  /\ dequeueCount' = dequeueCount + Len(b[0])
  /\ UNCHANGED <<prio, enqueueCount>>

\* Pop and PopBatch with nothing to return.
PopEmpty ==
  /\ size = 0 \/ \E n \in BatchSizes : n <= 0
  /\ answer' = <<>>
  /\ UNCHANGED <<levels, lookup, size, prio, counts>>

\* Where the level of the looked-up task holds the ID; Cancel and UpdatePriority
\* search that level only.
Places(id) ==
  LET s == levels[prio[lookup[id]]] IN {i \in 1..Len(s) : IdOf[s[i]] = id}

Cancel(id) ==
  /\ answer' = <<>>
  /\ \/ /\ lookup[id] # NoTask
        /\ \E i \in Places(id) :
             /\ \A j \in Places(id) : i <= j
             /\ levels' = [levels EXCEPT ![prio[lookup[id]]] = RemoveIndex(@, i)]
        /\ lookup' = [lookup EXCEPT ![id] = NoTask]
        /\ size' = size - 1
     \/ /\ IF lookup[id] = NoTask THEN TRUE ELSE Places(id) = {}
        /\ UNCHANGED <<levels, lookup, size>>
  /\ UNCHANGED <<prio, counts>>

\* Mutant of UpdatePriority: task.Priority keeps its old value.
UpdatePriorityForgets(id, asked) ==
  LET p == Normalize(asked)
      t == lookup[id]
  IN
  /\ answer' = <<>>
  /\ t # NoTask /\ prio[t] # p
  /\ \E i \in Places(id) :
       levels' = [levels EXCEPT ![prio[t]] = RemoveIndex(@, i), ![p] = Append(@, t)]
  /\ UNCHANGED <<lookup, size, prio, counts>>

UpdatePriority(id, asked) ==
  LET p == Normalize(asked)
      t == lookup[id]
  IN
  /\ answer' = <<>>
  /\ \/ /\ t # NoTask
        /\ prio[t] # p
        /\ \E i \in Places(id) :
             /\ \A j \in Places(id) : i <= j
             /\ levels' = [levels EXCEPT ![prio[t]] = RemoveIndex(@, i),
                                         ![p] = Append(@, t)]
        /\ prio' = [prio EXCEPT ![t] = p]
     \/ /\ IF t = NoTask THEN TRUE ELSE prio[t] = p \/ Places(id) = {}
        /\ UNCHANGED <<levels, prio>>
  /\ UNCHANGED <<lookup, size, counts>>

\* Peek (n = 1) and PeekBatch.
Peek(n) ==
  /\ answer' = IF n <= 0 THEN <<>> ELSE Collected(n)[0]
  /\ UNCHANGED <<levels, lookup, size, prio, counts>>

Clear ==
  /\ levels' = [p \in Levels |-> <<>>]
  /\ lookup' = [id \in ID |-> NoTask]
  /\ size' = 0
  /\ answer' = <<>>
  /\ UNCHANGED <<prio, counts>>

Next ==
  \/ \E t \in Task : Push(t)
  \/ Pop \/ PopEmpty
  \/ \E n \in BatchSizes : PopBatch(n)
  \/ \E id \in ID : Cancel(id)
  \/ \E id \in ID, asked \in Asked : UpdatePriority(id, asked)
  \/ \E n \in BatchSizes \cup {1} : Peek(n)
  \/ Clear

Spec == Init /\ [][Next]_vars

-----------------------------------------------------------------------------
(***************************************************************************)
(* Properties                                                              *)
(***************************************************************************)

\* Where a task stands: pairs of a level and a position.
Spots(t) == {s \in Levels \X (1..Capacity) :
               s[2] <= Len(levels[s[1]]) /\ levels[s[1]][s[2]] = t}

\* The three views of the queue agree, however pushes, pops, cancellations and
\* moves between levels follow each other: a queued task is found under its ID
\* and stands once, on the level its Priority field names; a task that is not
\* found stands nowhere.  Cancel and UpdatePriority, which search one level
\* only, rely on this.
IndexMatches ==
  \A t \in Task :
    IF lookup[IdOf[t]] = t
    THEN \E i \in 1..Capacity : Spots(t) = {<<prio[t], i>>}
    ELSE Spots(t) = {}

\* The tasks of the levels lv from the top down to p, in the order of service.
Served(lv) ==
  LET w[p \in 0..(MaxPrio + 1)] ==
        IF p = MaxPrio + 1 THEN <<>> ELSE w[p + 1] \o lv[p]
  IN  w

\* All levels as one line.
Line == Served(levels)[0]

\* pq.size is the number of tasks in the levels, within the capacity, and no
\* task leaves that did not enter.
SizeMatches ==
  /\ size = Len(Line)
  /\ size <= Capacity
  /\ size + dequeueCount <= enqueueCount

\* The lists, the index and the size counter of the queue describe one set of tasks after
\* any sequence of pushes, pops, batches, cancellations and moves (Push, PopBatch, Cancel,
\* UpdatePriority).
QueueConsistent == TypeOK /\ IndexMatches /\ SizeMatches

PL == INSTANCE PriorityLine WITH line <- Line

\* The queue implements the priority line: highest level first, oldest first
\* within a level, a moved task last on its new level, a batch in the order of
\* single pops, and a rejected Push without a trace.
ImplementsPriorityLine == PL!LSpec
===============================================================================
