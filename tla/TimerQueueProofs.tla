-------------------------- MODULE TimerQueueProofs --------------------------
(***************************************************************************)
(* Theorems about TimerQueue, for every finite set of tasks, every         *)
(* assignment of IDs and triggers, and every capacity.                     *)
(***************************************************************************)
EXTENDS TimerQueue, FiniteSetTheorems, WellFoundedInduction, TLAPS

-----------------------------------------------------------------------------
(***************************************************************************)
(* Least elements: why a heap that is not empty has a root.                *)
(***************************************************************************)

\* A set of numbers that is not empty has a least element.
LEMMA Least ==
  ASSUME NEW T, T \subseteq Nat, T # {}
  PROVE  \E x \in T : \A y \in T : x <= y
<1> DEFINE R == {p \in Nat \X Nat : p[1] < p[2]}
<1>1. IsWellFoundedOn(R, Nat)
  BY NatLessThanWellFounded DEF OpToRel
<1>2. PICK x \in T : \A y \in T : ~(<<y, x>> \in R)
  <2> HIDE DEF R
  <2> QED BY <1>1, WFMin
<1>3. \A a, b \in Nat : a < b => <<a, b>> \in R
  OBVIOUS
<1>4. ASSUME NEW y \in T PROVE x <= y
  <2>1. x \in Nat /\ y \in Nat
    OBVIOUS
  <2>2. ~(y < x)
    <3> HIDE DEF R
    <3> QED BY <1>2, <1>3, <2>1
  <2> QED BY <2>1, <2>2
<1> QED BY <1>2, <1>4

\* Some task of a set that is not empty has a least trigger.
LEMMA Earliest ==
  ASSUME NEW S, S \subseteq Task, S # {}
  PROVE  \E t \in S : \A u \in S : TriggerAt[t] <= TriggerAt[u]
<1> DEFINE T == {TriggerAt[u] : u \in S}
<1>1. T \subseteq Nat /\ T # {}
  BY TimeAssumption
<1>2. PICK x \in T : \A y \in T : x <= y
  <2> HIDE DEF T
  <2> QED BY <1>1, Least
<1>3. PICK t \in S : x = TriggerAt[t]
  BY <1>2
<1> QED BY <1>2, <1>3

-----------------------------------------------------------------------------
(***************************************************************************)
(* Type correctness, and the agreement of the heap and the index.          *)
(***************************************************************************)

\* The tasks of the heap are finitely many, so they can be counted.
LEMMA Counts ==
  ASSUME NEW S, S \subseteq Task
  PROVE  IsFiniteSet(S) /\ Cardinality(S) \in Nat
BY TaskAssumption, FS_Subset, FS_CardinalityType

\* What repeated heap.Pop returns is a sequence of the tasks of the heap.
LEMMA HeapOrdersType ==
  ASSUME NEW S, S \subseteq Task, NEW s \in HeapOrders(S)
  PROVE  /\ s \in Seq(Task) /\ Len(s) = Cardinality(S)
         /\ \A i \in 1..Len(s) : s[i] \in S
         /\ \A i, j \in 1..Len(s) : i < j => TriggerAt[s[i]] <= TriggerAt[s[j]]
<1>1. Cardinality(S) \in Nat
  BY Counts
<1>2. s \in [1..Cardinality(S) -> S]
  BY DEF HeapOrders
<1>3. s \in Seq(Task) /\ Len(s) = Cardinality(S)
  BY <1>1, <1>2
<1> QED BY <1>2, <1>3 DEF HeapOrders

\* Removing some of the heap's tasks removes as many as they are.
LEMMA CountRest ==
  ASSUME NEW S, S \subseteq Task, NEW T, T \subseteq S
  PROVE  Cardinality(S \ T) = Cardinality(S) - Cardinality(T)
<1>1. IsFiniteSet(S) /\ S \cap T = T
  BY Counts
<1> QED BY <1>1, FS_Difference

\* Every method of the queue keeps TTypeOK.
LEMMA NextTypeOK == TTypeOK /\ [TNext]_tvars => TTypeOK'
<1> SUFFICES ASSUME TTypeOK, [TNext]_tvars PROVE TTypeOK'
  OBVIOUS
<1>0. \A t \in Task : IdOf[t] \in ID
  BY DEF ID
<1>1. ASSUME NEW t \in Task, TPush(t) PROVE TTypeOK'
  <2>1. IsFiniteSet(items) /\ Cardinality(items) \in Nat
    BY Counts DEF TTypeOK
  <2>2. Cardinality(items') <= Capacity
    <3>1. /\ Cardinality(items \cup {t}) <= Cardinality(items) + 1
          /\ Cardinality(items \cup {t}) \in Nat
      BY <2>1, FS_AddElement, FS_CardinalityType
    <3>2. items' = items \cup {t} /\ ~(Cardinality(items) >= Capacity)
      BY <1>1 DEF TPush, TPushRejects
    <3> QED BY <2>1, <3>1, <3>2, TimeAssumption
  <2>3. tlookup' \in [ID -> Task \cup {NoTask}]
    BY <1>0, <1>1 DEF TPush, TTypeOK
  <2>4. status' \in [Task -> Statuses]
    BY <1>1 DEF TPush, TTypeOK, Statuses
  <2>5. tmetrics' \in [enqueue : Nat, dequeue : Nat, cancel : Nat, overdue : Nat]
    <3> DEFINE late == IF Due(t) THEN tmetrics.overdue + 1 ELSE tmetrics.overdue
    <3> DEFINE counted == [tmetrics EXCEPT !.enqueue = @ + 1]
    <3>1. late \in Nat
      BY DEF TTypeOK
    <3>2. counted \in [enqueue : Nat, dequeue : Nat, cancel : Nat, overdue : Nat]
      BY DEF TTypeOK
    <3>3. tmetrics' = [counted EXCEPT !.overdue = late]
      BY <1>1 DEF TPush, TTypeOK
    <3> HIDE DEF late, counted
    <3> QED BY <3>1, <3>2, <3>3
  <2> QED BY <1>1, <2>2, <2>3, <2>4, <2>5 DEF TPush, TTypeOK
<1>2. ASSUME NEW t \in Task, TPop(t) PROVE TTypeOK'
  <2>1. items \subseteq Task /\ Cardinality(items) \in Nat /\ Cardinality({t}) \in Nat
    BY Counts DEF TTypeOK
  <2>2. Cardinality(items') <= Capacity
    <3>1. {t} \subseteq items /\ items' = items \ {t}
      BY <1>2 DEF TPop
    <3>2. Cardinality(items \ {t}) = Cardinality(items) - Cardinality({t})
      BY <2>1, <3>1, CountRest
    <3> QED BY <2>1, <3>1, <3>2, TimeAssumption DEF TTypeOK
  <2>3. tlookup' \in [ID -> Task \cup {NoTask}]
    BY <1>2 DEF TPop, TTypeOK, Forget
  <2>4. tmetrics' \in [enqueue : Nat, dequeue : Nat, cancel : Nat, overdue : Nat]
    BY <1>2 DEF TPop, TTypeOK
  <2>5. returned' \in Seq(Task)
    BY <1>2 DEF TPop
  <2> QED BY <1>2, <2>2, <2>3, <2>4, <2>5 DEF TPop, TTypeOK
<1>3. CASE TDueTasks
  <2> DEFINE due == {t \in items : Due(t)}
  <2>1. due \subseteq items /\ due \subseteq Task /\ items \subseteq Task
    BY DEF TTypeOK
  <2>2. /\ returned' \in HeapOrders(due) /\ items' = items \ due
        /\ tlookup' = Forget(due)
        /\ tmetrics' = [tmetrics EXCEPT !.dequeue = @ + Cardinality(due)]
        /\ UNCHANGED <<now, status>>
    BY <1>3 DEF TDueTasks
  <2> HIDE DEF due
  <2>3. Cardinality(items) \in Nat /\ Cardinality(due) \in Nat
    BY <2>1, Counts
  <2>4. Cardinality(items') <= Capacity
    <3>1. Cardinality(items \ due) = Cardinality(items) - Cardinality(due)
      BY <2>1, CountRest
    <3> QED BY <2>2, <2>3, <3>1, TimeAssumption DEF TTypeOK
  <2>5. tlookup' \in [ID -> Task \cup {NoTask}]
    BY <2>2 DEF TTypeOK, Forget
  <2>6. tmetrics' \in [enqueue : Nat, dequeue : Nat, cancel : Nat, overdue : Nat]
    BY <2>2, <2>3 DEF TTypeOK
  <2>7. returned' \in Seq(Task)
    BY <2>1, <2>2, HeapOrdersType
  <2> QED BY <2>1, <2>2, <2>4, <2>5, <2>6, <2>7 DEF TTypeOK
<1>4. ASSUME NEW id \in ID, TCancel(id) PROVE TTypeOK'
  <2>1. PICK t \in items : IdOf[t] = id /\ items' = items \ {t}
    BY <1>4 DEF TCancel
  <2>2. items \subseteq Task /\ Cardinality(items) \in Nat /\ Cardinality({t}) \in Nat
    BY Counts DEF TTypeOK
  <2>3. Cardinality(items') <= Capacity
    <3>1. Cardinality(items \ {t}) = Cardinality(items) - Cardinality({t})
      BY <2>2, CountRest
    <3> QED BY <2>1, <2>2, <3>1, TimeAssumption DEF TTypeOK
  <2>4. tlookup' \in [ID -> Task \cup {NoTask}]
    BY <1>4 DEF TCancel, TTypeOK
  <2>5. status' \in [Task -> Statuses]
    BY <1>4 DEF TCancel, TTypeOK, Statuses
  <2>6. tmetrics' \in [enqueue : Nat, dequeue : Nat, cancel : Nat, overdue : Nat]
    BY <1>4 DEF TCancel, TTypeOK
  <2> QED BY <1>4, <2>1, <2>2, <2>3, <2>4, <2>5, <2>6 DEF TCancel, TTypeOK
<1>5. CASE TClear
  <2>1. Cardinality({}) = 0
    BY FS_EmptySet
  <2> QED BY <1>5, <2>1, TimeAssumption DEF TClear, TTypeOK
<1>6. CASE TTick
  BY <1>6, TimeAssumption DEF TTick, TTypeOK
<1>7. CASE UNCHANGED tvars
  BY <1>7 DEF tvars, TTypeOK
<1> QED BY <1>1, <1>2, <1>3, <1>4, <1>5, <1>6, <1>7 DEF TNext

\* Every method keeps heap and index in agreement.
LEMMA NextIndexMatches ==
  TTypeOK /\ TIndexMatches /\ [TNext]_tvars => TIndexMatches'
<1> SUFFICES ASSUME TTypeOK, TIndexMatches, [TNext]_tvars PROVE TIndexMatches'
  OBVIOUS
<1>0. /\ items \subseteq Task /\ IsFiniteSet(items) /\ Cardinality(items) \in Nat
      /\ \A t \in Task : IdOf[t] \in ID
  BY Counts DEF TTypeOK, ID
<1>1. ASSUME NEW t \in Task, TPush(t) PROVE TIndexMatches'
  <2>1. t \notin items /\ t # NoTask
    BY <1>1, TaskAssumption DEF TPush, TPushRejects, TIndexMatches
  <2>2. Cardinality(items') = Cardinality(items) + 1
    BY <1>0, <1>1, <2>1, FS_AddElement DEF TPush
  <2>3. /\ tmetrics'.enqueue = tmetrics.enqueue + 1
        /\ tmetrics'.dequeue = tmetrics.dequeue /\ tmetrics'.cancel = tmetrics.cancel
    BY <1>1 DEF TPush, TTypeOK
  <2>4. Cardinality(items') + tmetrics'.dequeue + tmetrics'.cancel <= tmetrics'.enqueue
    BY <1>0, <2>2, <2>3 DEF TIndexMatches, TTypeOK
  <2>5. \A u \in Task : u \in items' <=> tlookup'[IdOf[u]] = u
    BY <1>0, <1>1, <2>1, TaskAssumption
    DEF TPush, TPushRejects, TIndexMatches, TTypeOK
  <2>6. \A u \in items' : status'[u] = "pending"
    BY <1>0, <1>1 DEF TPush, TIndexMatches, TTypeOK
  <2> QED BY <2>4, <2>5, <2>6 DEF TIndexMatches
<1>2. ASSUME NEW S, S \subseteq items, items' = items \ S, tlookup' = Forget(S),
             tmetrics' = [tmetrics EXCEPT !.dequeue = @ + Cardinality(S)],
             status' = status
      PROVE  TIndexMatches'
  <2>1. Cardinality(S) \in Nat /\ Cardinality(items') = Cardinality(items) - Cardinality(S)
    BY <1>0, <1>2, Counts, CountRest
  <2>2. /\ tmetrics'.dequeue = tmetrics.dequeue + Cardinality(S)
        /\ tmetrics'.enqueue = tmetrics.enqueue /\ tmetrics'.cancel = tmetrics.cancel
    BY <1>2 DEF TTypeOK
  <2>3. Cardinality(items') + tmetrics'.dequeue + tmetrics'.cancel <= tmetrics'.enqueue
    BY <1>0, <2>1, <2>2 DEF TIndexMatches, TTypeOK
  <2>4. \A u \in Task : u \in items' <=> tlookup'[IdOf[u]] = u
    BY <1>0, <1>2, TaskAssumption DEF Forget, TIndexMatches, TTypeOK
  <2>5. \A u \in items' : status'[u] = "pending"
    BY <1>2 DEF TIndexMatches
  <2> QED BY <2>3, <2>4, <2>5 DEF TIndexMatches
<1>3. ASSUME NEW t \in Task, TPop(t) PROVE TIndexMatches'
  <2>1. Cardinality({t}) = 1
    BY FS_Singleton
  <2> QED BY <1>2, <1>3, <2>1 DEF TPop
<1>4. CASE TDueTasks
  <2> DEFINE due == {t \in items : Due(t)}
  <2>1. /\ due \subseteq items /\ items' = items \ due
        /\ tlookup' = Forget(due) /\ status' = status
        /\ tmetrics' = [tmetrics EXCEPT !.dequeue = @ + Cardinality(due)]
    BY <1>4 DEF TDueTasks
  <2> HIDE DEF due
  <2> QED BY <1>2, <2>1
<1>5. ASSUME NEW id \in ID, TCancel(id) PROVE TIndexMatches'
  <2>1. PICK t \in items : IdOf[t] = id /\ items' = items \ {t}
    BY <1>5 DEF TCancel
  <2>2. tlookup[id] = t /\ t \in Task
    BY <1>0, <2>1 DEF TIndexMatches
  <2>3. Cardinality({t}) = 1
    BY FS_Singleton
  <2>4. Cardinality(items') = Cardinality(items) - 1
    BY <1>0, <2>1, <2>3, CountRest
  <2>5. /\ tmetrics'.cancel = tmetrics.cancel + 1
        /\ tmetrics'.enqueue = tmetrics.enqueue /\ tmetrics'.dequeue = tmetrics.dequeue
    BY <1>5 DEF TCancel, TTypeOK
  <2>6. Cardinality(items') + tmetrics'.dequeue + tmetrics'.cancel <= tmetrics'.enqueue
    BY <1>0, <2>4, <2>5 DEF TIndexMatches, TTypeOK
  <2>7. \A u \in Task : u \in items' <=> tlookup'[IdOf[u]] = u
    BY <1>0, <1>5, <2>1, <2>2, TaskAssumption DEF TCancel, TIndexMatches, TTypeOK
  <2>8. \A u \in items' : status'[u] = "pending"
    BY <1>0, <1>5, <2>1, <2>2 DEF TCancel, TIndexMatches, TTypeOK
  <2> QED BY <2>6, <2>7, <2>8 DEF TIndexMatches
<1>6. CASE TClear
  <2>1. Cardinality({}) = 0
    BY FS_EmptySet
  <2>2. Cardinality(items') + tmetrics'.dequeue + tmetrics'.cancel <= tmetrics'.enqueue
    BY <1>0, <1>6, <2>1 DEF TClear, TIndexMatches, TTypeOK
  <2>3. \A u \in Task : u \in items' <=> tlookup'[IdOf[u]] = u
    BY <1>0, <1>6, TaskAssumption DEF TClear
  <2> QED BY <1>6, <2>2, <2>3 DEF TClear, TIndexMatches
<1>7. CASE TTick \/ UNCHANGED tvars
  BY <1>7 DEF TTick, tvars, TIndexMatches
<1> QED BY <1>1, <1>3, <1>4, <1>5, <1>6, <1>7 DEF TNext

\* The root of the heap is what NextDue looks at.
LEMMA NextDueSafe == TTypeOK => NextDueIsSafe
<1> SUFFICES ASSUME TTypeOK, items # {} PROVE NextDueIsSafe
  BY DEF NextDueIsSafe
<1> DEFINE root == CHOOSE t \in items : \A u \in items : TriggerAt[t] <= TriggerAt[u]
<1>1. items \subseteq Task /\ now \in Nat
  BY TimeAssumption DEF TTypeOK
<1>2. \E t \in items : \A u \in items : TriggerAt[t] <= TriggerAt[u]
  BY <1>1, Earliest
<1>3. root \in items /\ \A u \in items : TriggerAt[root] <= TriggerAt[u]
  BY <1>2
<1>4. NextDue = IF Due(root) THEN 0 ELSE TriggerAt[root] - now
  BY DEF NextDue
<1> HIDE DEF root
<1>5. \A u \in items : TriggerAt[u] \in Nat
  BY <1>1, TimeAssumption
<1>6. (\E t \in items : Due(t)) => NextDue = 0
  BY <1>1, <1>3, <1>4, <1>5 DEF Due
<1>7. TriggerAt[root] < now + NextDue + 1
  BY <1>1, <1>3, <1>4, <1>5 DEF Due
<1> QED BY <1>3, <1>6, <1>7 DEF NextDueIsSafe

\* Heap and index agree, what they hold is pending, the queue respects its
\* capacity, and NextDue is safe to sleep on, after every sequence of Push, Pop,
\* DueTasks, Cancel and Clear.
THEOREM TimerConsistentThm == TSpec => []TimerConsistent
<1>1. TInit => TTypeOK /\ TIndexMatches
  <2> SUFFICES ASSUME TInit PROVE TTypeOK /\ TIndexMatches
    OBVIOUS
  <2>1. Cardinality({}) = 0
    BY FS_EmptySet
  <2>2. TTypeOK
    BY <2>1, TimeAssumption DEF TInit, TTypeOK, Statuses
  <2>3. TIndexMatches
    BY <2>1, TaskAssumption DEF TInit, TIndexMatches, ID
  <2> QED BY <2>2, <2>3
<1>2. TTypeOK /\ TIndexMatches /\ [TNext]_tvars => (TTypeOK /\ TIndexMatches)'
  BY NextTypeOK, NextIndexMatches
<1>3. TTypeOK /\ TIndexMatches => TimerConsistent
  BY NextDueSafe DEF TimerConsistent
<1> QED BY <1>1, <1>2, <1>3, PTL DEF TSpec

=============================================================================
