----------------------------- MODULE PriorityLine -----------------------------
(***************************************************************************)
(* What a bounded priority queue promises: one line of tasks, served from  *)
(* its front, in which a newcomer stands behind everyone of its priority   *)
(* or a higher one.  PriorityQueue implements this with one list per       *)
(* level, an index by ID and a size counter.                               *)
(***************************************************************************)
EXTENDS Integers, Sequences, FiniteSets

CONSTANTS Task, IdOf, Capacity, MaxPrio, Asked, BatchSizes

VARIABLES
  line,    \* the queued tasks in the order in which they will be served
  prio,    \* the Priority field of each task
  answer   \* the tasks that the last call returned

lvars == <<line, prio, answer>>

ID == {IdOf[t] : t \in Task}
Level(p) == IF p < 0 THEN 0 ELSE IF p > MaxPrio THEN MaxPrio ELSE p
\* Where a task with this ID stands.
Spot(id) == {k \in 1..Len(line) : IdOf[line[k]] = id}

\* The line with t behind all the tasks of level p or more.
Join(s, t, p) ==
  LET k == Cardinality({i \in 1..Len(s) : prio[s[i]] >= p})
  IN  SubSeq(s, 1, k) \o <<t>> \o SubSeq(s, k + 1, Len(s))
Without(s, k) == SubSeq(s, 1, k - 1) \o SubSeq(s, k + 1, Len(s))
Front(n) == SubSeq(line, 1, IF n < Len(line) THEN n ELSE Len(line))

LInit == line = <<>> /\ prio \in [Task -> Asked] /\ answer = <<>>

Push(t) ==
  /\ answer' = <<>>
  /\ IF Len(line) < Capacity /\ Spot(IdOf[t]) = {}
     THEN /\ line' = Join(line, t, Level(prio[t]))
          /\ prio' = [prio EXCEPT ![t] = Level(@)]
     ELSE UNCHANGED <<line, prio>>

Serve(n) ==
  /\ answer' = Front(n)
  /\ line' = SubSeq(line, Len(Front(n)) + 1, Len(line))
  /\ UNCHANGED prio

Look(n) == answer' = Front(n) /\ UNCHANGED <<line, prio>>

Leave(id) ==
  /\ answer' = <<>>
  /\ \/ \E k \in Spot(id) : line' = Without(line, k)
     \/ Spot(id) = {} /\ UNCHANGED line
  /\ UNCHANGED prio

Move(id, p) ==
  /\ answer' = <<>>
  /\ \/ \E k \in Spot(id) :
          /\ prio[line[k]] # Level(p)
          /\ line' = Join(Without(line, k), line[k], Level(p))
          /\ prio' = [prio EXCEPT ![line[k]] = Level(p)]
     \/ /\ \A k \in Spot(id) : prio[line[k]] = Level(p)
        /\ UNCHANGED <<line, prio>>

Empty == line' = <<>> /\ answer' = <<>> /\ UNCHANGED prio

LNext ==
  \/ \E t \in Task : Push(t)
  \/ \E n \in BatchSizes \cup {1} : Serve(n) \/ Look(n)
  \/ \E id \in ID : Leave(id) \/ \E p \in Asked : Move(id, p)
  \/ Empty

LSpec == LInit /\ [][LNext]_lvars
===============================================================================
