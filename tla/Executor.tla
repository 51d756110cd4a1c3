------------------------------- MODULE Executor -------------------------------
(***************************************************************************)
(* What a bounded executor promises, independently of goroutines, channels *)
(* and counters: it admits a task while its backlog has room, hands the    *)
(* backlog out in the order of admission, one task per free slot, and      *)
(* gives every task it handed out exactly one verdict.                     *)
(* WorkerPool implements this specification.                               *)
(***************************************************************************)
EXTENDS Naturals, Sequences

CONSTANTS Task, Slot, Capacity, NoTask

VARIABLES
  backlog,   \* admitted tasks, oldest first
  hand,      \* the task each slot works on
  settled,   \* tasks with a verdict
  good,      \* number of favourable verdicts
  bad        \* number of unfavourable ones

evars == <<backlog, hand, settled, good, bad>>

Known == {backlog[i] : i \in 1..Len(backlog)}
           \cup {hand[s] : s \in Slot} \cup settled

EInit ==
  /\ backlog = <<>>
  /\ hand = [s \in Slot |-> NoTask]
  /\ settled = {}
  /\ good = 0
  /\ bad = 0

Admit(t) ==
  /\ t \notin Known
  /\ Len(backlog) < Capacity
  /\ backlog' = Append(backlog, t)
  /\ UNCHANGED <<hand, settled, good, bad>>

Take(s) ==
  /\ hand[s] = NoTask
  /\ backlog # <<>>
  /\ hand' = [hand EXCEPT ![s] = Head(backlog)]
  /\ backlog' = Tail(backlog)
  /\ UNCHANGED <<settled, good, bad>>

Settle(s) ==
  /\ hand[s] # NoTask
  /\ settled' = settled \cup {hand[s]}
  /\ hand' = [hand EXCEPT ![s] = NoTask]
  /\ \/ good' = good + 1 /\ bad' = bad
     \/ good' = good /\ bad' = bad + 1
  /\ UNCHANGED backlog

ENext ==
  \/ \E t \in Task : Admit(t)
  \/ \E s \in Slot : Take(s) \/ Settle(s)

ESpec == EInit /\ [][ENext]_evars
===============================================================================
