--------------------------- MODULE ServicesProofs ---------------------------
(***************************************************************************)
(* What the event bus and the metrics collector promise, proved for any    *)
(* events, handlers, recorders, configurations and bounds on faults.       *)
(***************************************************************************)
EXTENDS MCServices, FiniteSetTheorems, WellFoundedInduction, TLAPS

-----------------------------------------------------------------------------
(* Sums.  SumFunction folds over the subsets of a domain; on a finite one  *)
(* it counts units, which is what the steps of the bus change.             *)

\* What SumFunction computes: step by step it takes an element of the domain away.
Adds(f, iter) ==
  iter = [s \in SUBSET DOMAIN f |->
            IF s = {} THEN 0 ELSE f[CHOOSE x \in s : TRUE] + iter[s \ {CHOOSE x \in s : TRUE}]]

\* The library's sum of a function is a choice of one that adds up.
LEMMA SumUnfolds == ASSUME NEW f PROVE SumFunction(f) = (CHOOSE iter : Adds(f, iter))[DOMAIN f]
BY DEF SumFunction, SumFunctionOnSet, FoldFunctionOnSet, MapThenFoldSet, Adds

\* The units that a function to numbers counts over a set of arguments.
Units(f, s) == {u \in s \X Nat : u[2] < f[u[1]]}

\* Every set of numbers that has one has a least.
LEMMA LeastNumber ==
  ASSUME NEW T \in SUBSET Nat, T # {} PROVE \E x \in T : \A y \in T : x <= y
<1>1. PICK x \in T : \A y \in T : ~ (<<y, x>> \in OpToRel(<, Nat)) BY WFMin, NatLessThanWellFounded
<1>2. \A y \in T : ~(y < x) BY <1>1 DEF OpToRel
<1> QED BY <1>2

\* A number as the size of a set of units.
LEMMA UnitsOfOne ==
  ASSUME NEW x, NEW n \in Nat
  PROVE  IsFiniteSet({x} \X (0..(n - 1))) /\ Cardinality({x} \X (0..(n - 1))) = n
<1>1. IsFiniteSet(0..(n - 1)) /\ Cardinality(0..(n - 1)) = n BY FS_Interval
<1>2. IsFiniteSet({x}) /\ Cardinality({x}) = 1 BY FS_Singleton
<1> DEFINE A == {x}
           B == 0..(n - 1)
<1> HIDE DEF A, B
<1>3. IsFiniteSet(A \X B) /\ Cardinality(A \X B) = Cardinality(A) * Cardinality(B)
  BY <1>1, <1>2, FS_Product DEF A, B
<1>4. Cardinality(A \X B) = n BY <1>1, <1>2, <1>3 DEF A, B
<1> QED BY <1>3, <1>4 DEF A, B

\* The units of a set are those of one element and those of the rest.
LEMMA UnitsSplit ==
  ASSUME NEW S, NEW f \in [S -> Nat], NEW s \in SUBSET S, NEW x \in s, IsFiniteSet(Units(f, s \ {x}))
  PROVE  IsFiniteSet(Units(f, s)) /\ Cardinality(Units(f, s)) = f[x] + Cardinality(Units(f, s \ {x}))
<1> DEFINE A == {x} \X (0..(f[x] - 1))
           B == Units(f, s \ {x})
<1>1. Units(f, s) = A \cup B
  <2>1. ASSUME NEW u \in Units(f, s) PROVE u \in A \cup B
    <3>1. u \in s \X Nat /\ u[2] < f[u[1]] BY DEF Units
    <3>2. CASE u[1] = x
      <4>1. u = <<x, u[2]>> /\ u[2] \in 0..(f[x] - 1) BY <3>1, <3>2
      <4> QED BY <4>1
    <3>3. CASE u[1] # x BY <3>1, <3>3 DEF Units
    <3> QED BY <3>2, <3>3
  <2>2. ASSUME NEW u \in A PROVE u \in Units(f, s)
    <3>1. u[1] = x /\ u[2] \in 0..(f[x] - 1) /\ u = <<u[1], u[2]>> OBVIOUS
    <3>2. u[2] \in Nat /\ u[2] < f[u[1]] BY <3>1
    <3> QED BY <3>1, <3>2 DEF Units
  <2>3. ASSUME NEW u \in B PROVE u \in Units(f, s)
    <3>1. u \in (s \ {x}) \X Nat /\ u[2] < f[u[1]] BY DEF Units
    <3>2. u \in s \X Nat BY <3>1
    <3> QED BY <3>1, <3>2 DEF Units
  <2> QED BY <2>1, <2>2, <2>3
<1>2. A \cap B = {} BY DEF Units
<1>3. IsFiniteSet(A) /\ Cardinality(A) = f[x] BY UnitsOfOne
<1>4. IsFiniteSet(B) /\ Cardinality(B) \in Nat BY FS_CardinalityType
<1>5. IsFiniteSet(A \cup B) /\ Cardinality(A \cup B) = Cardinality(A) + Cardinality(B) - Cardinality(A \cap B)
  BY ONLY <1>3, <1>4, FS_Union
<1>6. Cardinality(A \cap B) = 0 BY <1>2, FS_EmptySet
<1> HIDE DEF A, B
<1>7. Cardinality(A \cup B) = f[x] + Cardinality(B) BY <1>3, <1>4, <1>5, <1>6
<1> QED BY <1>1, <1>5, <1>7 DEF B

\* Whatever satisfies that recursion on the subsets of a finite domain counts the units.
LEMMA AddsCounts ==
  ASSUME NEW S, IsFiniteSet(S), NEW f \in [S -> Nat], NEW iter, Adds(f, iter)
  PROVE  \A s \in SUBSET S : IsFiniteSet(Units(f, s)) /\ iter[s] = Cardinality(Units(f, s))
<1> DEFINE Good(s) == IsFiniteSet(Units(f, s)) /\ iter[s] = Cardinality(Units(f, s))
           bad == {Cardinality(s) : s \in {t \in SUBSET S : ~Good(t)}}
<1> SUFFICES ASSUME NEW s0 \in SUBSET S, ~Good(s0) PROVE FALSE OBVIOUS
<1>1. \A s \in SUBSET S : IsFiniteSet(s) /\ Cardinality(s) \in Nat BY FS_Subset, FS_CardinalityType
<1>2. bad \in SUBSET Nat /\ bad # {} BY <1>1
<1>3. PICK n \in bad : \A m \in bad : n <= m BY <1>2, LeastNumber
<1>4. PICK s \in SUBSET S : ~Good(s) /\ n = Cardinality(s) BY <1>3
<1>5. iter[s] = IF s = {} THEN 0 ELSE f[CHOOSE x \in s : TRUE] + iter[s \ {CHOOSE x \in s : TRUE}]
  <2>1. DOMAIN f = S OBVIOUS
  <2> QED BY <2>1 DEF Adds
<1>6. CASE s = {}
  <2>1. Units(f, s) = {} BY <1>6 DEF Units
  <2> QED BY <1>4, <1>5, <1>6, <2>1, FS_EmptySet
<1>7. CASE s # {}
  <2> DEFINE x == CHOOSE x \in s : TRUE
  <2>1. x \in s BY <1>7
  <2>2. Cardinality(s \ {x}) = Cardinality(s) - 1 /\ s \ {x} \in SUBSET S BY <1>1, <2>1, FS_RemoveElement
  <2>3. Good(s \ {x})
    <3>1. SUFFICES ASSUME ~Good(s \ {x}) PROVE FALSE OBVIOUS
    <3>2. Cardinality(s \ {x}) \in bad BY <2>2, <3>1
    <3>3. Cardinality(s) \in Nat /\ Cardinality(s) <= Cardinality(s \ {x}) BY <1>1, <1>3, <1>4, <3>2
    <3> QED BY <2>2, <3>3
  <2> HIDE DEF x
  <2>4. Cardinality(Units(f, s)) = f[x] + Cardinality(Units(f, s \ {x})) /\ IsFiniteSet(Units(f, s))
    BY <2>1, <2>3, UnitsSplit
  <2>5. iter[s] = f[x] + iter[s \ {x}] BY <1>5, <1>7 DEF x
  <2> QED BY <1>4, <2>3, <2>4, <2>5
<1> QED BY <1>6, <1>7

\* Counting units adds up as the library's sum does.
LEMMA UnitsAdd ==
  ASSUME NEW S, IsFiniteSet(S), NEW f \in [S -> Nat]
  PROVE  Adds(f, [s \in SUBSET S |-> Cardinality(Units(f, s))])
         /\ \A s \in SUBSET S : IsFiniteSet(Units(f, s))
<1> DEFINE Good(s) == IsFiniteSet(Units(f, s))
           bad == {Cardinality(s) : s \in {t \in SUBSET S : ~Good(t)}}
<1>1. \A s \in SUBSET S : IsFiniteSet(s) /\ Cardinality(s) \in Nat BY FS_Subset, FS_CardinalityType
<1>2. ASSUME NEW s0 \in SUBSET S, ~Good(s0) PROVE FALSE
  <2>2. bad \in SUBSET Nat /\ bad # {} BY <1>1, <1>2
  <2>3. PICK n \in bad : \A m \in bad : n <= m BY <2>2, LeastNumber
  <2>4. PICK s \in SUBSET S : ~Good(s) /\ n = Cardinality(s) BY <2>3
  <2>5. CASE s = {}
    <3>1. Units(f, s) = {} BY <2>5 DEF Units
    <3> QED BY <2>4, <3>1, FS_EmptySet
  <2>6. CASE s # {}
    <3>1. PICK x \in s : TRUE BY <2>6
    <3>2. Cardinality(s \ {x}) = Cardinality(s) - 1 /\ s \ {x} \in SUBSET S BY <1>1, <3>1, FS_RemoveElement
    <3>3. Good(s \ {x})
      <4>1. SUFFICES ASSUME ~Good(s \ {x}) PROVE FALSE OBVIOUS
      <4>2. Cardinality(s \ {x}) \in bad BY <3>2, <4>1
      <4>3. Cardinality(s) \in Nat /\ Cardinality(s) <= Cardinality(s \ {x}) BY <1>1, <2>3, <2>4, <4>2
      <4> QED BY <3>2, <4>3
    <3> QED BY <2>4, <3>1, <3>3, UnitsSplit
  <2> QED BY <2>5, <2>6
<1>3. \A s \in SUBSET S : Good(s) BY <1>2
<1> DEFINE iter == [s \in SUBSET S |-> Cardinality(Units(f, s))]
<1>4. ASSUME NEW s \in SUBSET S
      PROVE  iter[s] = IF s = {} THEN 0 ELSE f[CHOOSE x \in s : TRUE] + iter[s \ {CHOOSE x \in s : TRUE}]
  <2>1. CASE s = {}
    <3>1. Units(f, s) = {} BY <2>1 DEF Units
    <3> QED BY <2>1, <3>1, FS_EmptySet
  <2>2. CASE s # {}
    <3> DEFINE x == CHOOSE x \in s : TRUE
    <3>1. x \in s BY <2>2
    <3> HIDE DEF x
    <3>2. Cardinality(Units(f, s)) = f[x] + Cardinality(Units(f, s \ {x})) BY <1>3, <3>1, UnitsSplit
    <3>3. iter[s] = f[x] + iter[s \ {x}] BY <3>1, <3>2
    <3> QED BY <2>2, <3>3 DEF x
  <2> QED BY <2>1, <2>2
<1>5. DOMAIN f = S OBVIOUS
<1> HIDE DEF iter
<1>6. iter = [s \in SUBSET S |-> IF s = {} THEN 0 ELSE f[CHOOSE x \in s : TRUE] + iter[s \ {CHOOSE x \in s : TRUE}]]
  BY <1>4 DEF iter
<1> QED BY <1>3, <1>5, <1>6 DEF iter, Adds

\* SumFunction of a function to numbers with a finite domain is the number of units.
LEMMA SumIsUnits ==
  ASSUME NEW S, IsFiniteSet(S), NEW f \in [S -> Nat]
  PROVE  SumFunction(f) = Cardinality(Units(f, S)) /\ IsFiniteSet(Units(f, S)) /\ SumFunction(f) \in Nat
<1>1. \E iter : Adds(f, iter) BY UnitsAdd
<1>2. Adds(f, CHOOSE iter : Adds(f, iter)) BY <1>1
<1>3. IsFiniteSet(Units(f, S)) /\ (CHOOSE iter : Adds(f, iter))[S] = Cardinality(Units(f, S)) BY <1>2, AddsCounts
<1>4. DOMAIN f = S OBVIOUS
<1> QED BY <1>3, <1>4, SumUnfolds, FS_CardinalityType

\* What one argument contributes.
LEMMA SumSplit ==
  ASSUME NEW S, IsFiniteSet(S), NEW f \in [S -> Nat], NEW x \in S, NEW n \in Nat
  PROVE  /\ SumFunction([f EXCEPT ![x] = n]) = SumFunction(f) - f[x] + n
         /\ f[x] <= SumFunction(f) /\ SumFunction(f) \in Nat
<1> DEFINE g == [f EXCEPT ![x] = n]
           rest == S \ {x}
<1>1. g \in [S -> Nat] /\ g[x] = n /\ \A y \in rest : g[y] = f[y] OBVIOUS
<1>2. Units(g, rest) = Units(f, rest) BY <1>1 DEF Units
<1>3. IsFiniteSet(Units(f, rest)) /\ Cardinality(Units(f, rest)) \in Nat BY UnitsAdd, FS_CardinalityType
<1> HIDE DEF g
<1>4. Cardinality(Units(f, S)) = f[x] + Cardinality(Units(f, rest)) BY <1>3, UnitsSplit
<1>5. Cardinality(Units(g, S)) = g[x] + Cardinality(Units(g, rest)) BY <1>1, <1>2, <1>3, UnitsSplit
<1>6. SumFunction(f) = Cardinality(Units(f, S)) BY SumIsUnits
<1>7. SumFunction(g) = Cardinality(Units(g, S)) BY <1>1, SumIsUnits
<1> HIDE DEF rest
<1>8. f[x] \in Nat OBVIOUS
<1>9. SumFunction(g) = SumFunction(f) - f[x] + n /\ f[x] <= SumFunction(f) /\ SumFunction(f) \in Nat
  BY ONLY <1>1, <1>2, <1>3, <1>4, <1>5, <1>6, <1>7, <1>8, n \in Nat
<1> QED BY <1>9 DEF g

\* Nothing counted sums up to zero.
LEMMA SumNothing ==
  ASSUME NEW S, IsFiniteSet(S), NEW f \in [S -> Nat], \A x \in S : f[x] = 0
  PROVE  SumFunction(f) = 0
<1>1. Units(f, S) = {} BY DEF Units
<1> QED BY <1>1, SumIsUnits, FS_EmptySet

-----------------------------------------------------------------------------
(* The event bus: the dispatcher in memory                                 *)

DispatcherType ==
  [subs : [Handlers -> 0..2], inflight : Counts, published : Nat, delivered : Nat, failed : Nat, unheard : Nat]
JoinType == {"new", "check", "consume", "ready"}
PubType ==
  [pc : {"idle", "memory", "check", "rabbit", "kafka", "done", "failed"}, target : SUBSET {"memory", "queue"},
   tries : Nat, writes : 0..RetryAttempts, accepted : BOOLEAN, doubt : BOOLEAN]

\* How often SubscribeEvent may have subscribed a handler in memory.
Joins(j) == IF j = "new" THEN 0 ELSE IF j = "ready" THEN 2 ELSE 1

\* The handlers still running for each event.
Running(m) == [e \in Events |-> SumFunction(m.inflight[e])]

\* A handler is subscribed in memory at most twice, nothing runs for an event that the
\* dispatcher was not given yet, and the counters account for what runs.
DispatcherInv ==
  /\ joining \in [Handlers -> JoinType] /\ mem \in DispatcherType
  /\ pub \in [Events -> PubType]
  /\ \A h \in Handlers : mem.subs[h] <= Joins(joining[h])
  /\ \A e \in Events : pub[e].pc \in {"idle", "memory"} => mem.inflight[e] = None
  /\ DeliveriesAccounted

\* Nobody subscribed, nothing under way: the sum is zero.
LEMMA NoneSums == None \in [Handlers -> Nat] /\ SumFunction(None) = 0
<1>1. None \in [Handlers -> Nat] /\ \A h \in Handlers : None[h] = 0 BY DEF None
<1> QED BY <1>1, BusAssumption, SumNothing

\* The handler goroutines under way, per event.
LEMMA RunningType ==
  ASSUME NEW m \in DispatcherType
  PROVE  Running(m) \in [Events -> Nat] /\ SumFunction(Running(m)) \in Nat
<1>1. \A e \in Events : m.inflight[e] \in [Handlers -> Nat] BY DEF DispatcherType, Counts
<1>2. \A e \in Events : SumFunction(m.inflight[e]) \in Nat BY <1>1, BusAssumption, SumIsUnits
<1>3. Running(m) \in [Events -> Nat] BY <1>2 DEF Running
<1> QED BY <1>3, BusAssumption, SumIsUnits

\* The run's property, in terms of Running.
LEMMA AccountedMeans ==
  DeliveriesAccounted <=> mem.published + mem.unheard = mem.delivered + mem.failed + SumFunction(Running(mem))
BY DEF DeliveriesAccounted, Running

\* One event's running handlers change from f to g.
LEMMA RunningChanges ==
  ASSUME NEW m \in DispatcherType, NEW n \in DispatcherType, NEW e \in Events, NEW g \in [Handlers -> Nat],
         n.inflight = [m.inflight EXCEPT ![e] = g]
  PROVE  SumFunction(Running(n)) = SumFunction(Running(m)) - SumFunction(m.inflight[e]) + SumFunction(g)
<1>1. Running(m) \in [Events -> Nat] BY RunningType
<1>2. SumFunction(g) \in Nat BY BusAssumption, SumIsUnits
<1>3. m.inflight \in [Events -> [Handlers -> Nat]] BY DEF DispatcherType, Counts
<1>4. Running(n) = [Running(m) EXCEPT ![e] = SumFunction(g)] BY <1>3 DEF Running
<1>5. Running(m)[e] = SumFunction(m.inflight[e]) BY DEF Running
<1>6. IsFiniteSet(Events) BY BusAssumption
<1> DEFINE F == Running(m)
           k == SumFunction(g)
<1> HIDE DEF F, k
<1>7. F \in [Events -> Nat] /\ k \in Nat BY <1>1, <1>2 DEF F, k
<1>8. SumFunction([F EXCEPT ![e] = k]) = SumFunction(F) - F[e] + k BY ONLY e \in Events, <1>6, <1>7, SumSplit, Zenon
<1> QED BY <1>4, <1>5, <1>8 DEF F, k

\* The dispatcher starts with every counter at zero.
LEMMA DispatcherStarts == BusInit => DispatcherInv
<1> SUFFICES ASSUME BusInit PROVE DispatcherInv OBVIOUS
<1>1. None \in [Handlers -> 0..2] /\ \A h \in Handlers : None[h] = 0 BY DEF None
<1>2. mem = NewDispatcher /\ NewDispatcher \in DispatcherType
  BY <1>1, NoneSums DEF BusInit, NewDispatcher, DispatcherType, Counts
<1>3. joining \in [Handlers -> JoinType] /\ \A h \in Handlers : joining[h] = "new" BY DEF BusInit, JoinType
<1>4. pub \in [Events -> PubType] BY BusAssumption DEF BusInit, PubType
<1>5. \A e \in Events : Running(mem)[e] = 0 BY <1>2, NoneSums DEF Running, NewDispatcher
<1>6. SumFunction(Running(mem)) = 0 BY <1>2, <1>5, RunningType, BusAssumption, SumNothing
<1>7. DeliveriesAccounted BY <1>2, <1>6, AccountedMeans DEF NewDispatcher
<1>8. \A h \in Handlers : mem.subs[h] <= Joins(joining[h]) BY <1>1, <1>2, <1>3 DEF NewDispatcher, Joins
<1>9. \A e \in Events : mem.inflight[e] = None BY <1>2 DEF NewDispatcher
<1> QED BY <1>2, <1>3, <1>4, <1>7, <1>8, <1>9 DEF DispatcherInv

\* A step of SubscribeEvent that moves on one handler.
LEMMA JoinKeeps ==
  ASSUME DispatcherInv, NEW h \in Handlers, NEW j \in JoinType, joining' = [joining EXCEPT ![h] = j], pub' = pub,
         \/ mem' = mem /\ Joins(joining[h]) <= Joins(j)
         \/ Subscribe(h) /\ Joins(joining[h]) + 1 <= Joins(j)
  PROVE  DispatcherInv'
<1>1. joining \in [Handlers -> JoinType] /\ mem \in DispatcherType /\ pub \in [Events -> PubType] BY DEF DispatcherInv
<1>2. joining' \in [Handlers -> JoinType] BY <1>1
<1>3. \A i \in Handlers : Joins(joining[i]) \in 0..2 /\ Joins(j) \in 0..2 BY DEF Joins
<1>4. CASE mem' = mem /\ Joins(joining[h]) <= Joins(j)
  <2>1. mem.subs \in [Handlers -> 0..2] BY <1>1 DEF DispatcherType
  <2>2. ASSUME NEW i \in Handlers PROVE mem.subs[i] <= Joins(joining'[i])
    <3>1. mem.subs[i] <= Joins(joining[i]) /\ mem.subs[i] \in 0..2 BY <2>1 DEF DispatcherInv
    <3>2. CASE i = h BY <1>1, <1>3, <1>4, <3>1, <3>2
    <3>3. CASE i # h BY <1>1, <3>1, <3>3
    <3> QED BY <3>2, <3>3
  <2>3. DeliveriesAccounted' BY <1>4 DEF DispatcherInv, DeliveriesAccounted
  <2> QED BY <1>1, <1>2, <1>4, <2>2, <2>3 DEF DispatcherInv
<1>5. CASE Subscribe(h) /\ Joins(joining[h]) + 1 <= Joins(j)
  <2>1. mem.subs \in [Handlers -> 0..2] BY <1>1 DEF DispatcherType
  <2>2. mem' = [mem EXCEPT !.subs[h] = @ + 1] BY <1>5 DEF Subscribe
  <2>3. mem.subs[h] <= Joins(joining[h]) /\ mem.subs[h] \in 0..2 BY <2>1 DEF DispatcherInv
  <2>4. mem.subs[h] + 1 \in 0..2 /\ mem.subs[h] + 1 <= Joins(j) BY <1>3, <1>5, <2>3
  <2>5. mem'.subs = [mem.subs EXCEPT ![h] = mem.subs[h] + 1] /\ mem'.inflight = mem.inflight
         /\ mem'.published = mem.published /\ mem'.unheard = mem.unheard
         /\ mem'.delivered = mem.delivered /\ mem'.failed = mem.failed
    BY <1>1, <2>2 DEF DispatcherType
  <2>6. mem' \in DispatcherType
    <3>1. [mem.subs EXCEPT ![h] = mem.subs[h] + 1] \in [Handlers -> 0..2] BY <2>1, <2>4
    <3>2. mem' = [mem EXCEPT !.subs = [mem.subs EXCEPT ![h] = mem.subs[h] + 1]] BY <1>1, <2>2 DEF DispatcherType
    <3> QED BY <1>1, <3>1, <3>2 DEF DispatcherType
  <2>7. ASSUME NEW i \in Handlers PROVE mem'.subs[i] <= Joins(joining'[i])
    <3>1. mem.subs[i] <= Joins(joining[i]) /\ mem.subs[i] \in 0..2 BY <2>1 DEF DispatcherInv
    <3>2. CASE i = h BY <1>1, <2>1, <2>4, <2>5, <3>2
    <3>3. CASE i # h BY <1>1, <2>1, <2>5, <3>1, <3>3
    <3> QED BY <3>2, <3>3
  <2>8. DeliveriesAccounted' BY <2>5 DEF DispatcherInv, DeliveriesAccounted
  <2> QED BY <1>1, <1>2, <2>5, <2>6, <2>7, <2>8 DEF DispatcherInv
<1> QED BY <1>4, <1>5

\* A subscription adds a handler and leaves the counters alone.
LEMMA SubscribeKeepsDispatcher ==
  ASSUME DispatcherInv, NEW h \in Handlers, SubscribeEvent(h) \/ SubscribeCheck(h) \/ subscribeToQueue(h)
  PROVE  DispatcherInv'
<1>1. joining \in [Handlers -> JoinType] BY DEF DispatcherInv
<1>2. CASE SubscribeEvent(h)
  <2>1. pub' = pub /\ joining[h] = "new" /\ (mem' = mem \/ Subscribe(h)) BY <1>2 DEF SubscribeEvent
  <2>2. PICK j \in {"check", "ready"} : joining' = [joining EXCEPT ![h] = j]
    <3>1. joining' = [joining EXCEPT ![h] = IF "queue" \in determineEventTarget(setup.source) THEN "check" ELSE "ready"]
      BY <1>2 DEF SubscribeEvent
    <3> QED BY <3>1
  <2>3. j \in JoinType /\ Joins(joining[h]) = 0 /\ Joins(j) \in {1, 2} BY <2>1 DEF JoinType, Joins
  <2>4. Joins(joining[h]) <= Joins(j) /\ Joins(joining[h]) + 1 <= Joins(j) BY <2>3
  <2> QED BY <2>1, <2>2, <2>3, <2>4, JoinKeeps
<1>3. CASE SubscribeCheck(h)
  <2>1. pub' = pub /\ joining[h] = "check" /\ mem' = mem BY <1>3 DEF SubscribeCheck
  <2>2. PICK j \in {"consume", "ready"} : joining' = [joining EXCEPT ![h] = j]
    <3>1. joining' = [joining EXCEPT ![h] = IF IsQueueAvailable THEN "consume" ELSE "ready"]
      BY <1>3 DEF SubscribeCheck
    <3> QED BY <3>1
  <2>3. j \in JoinType /\ Joins(joining[h]) = 1 /\ Joins(j) \in {1, 2} BY <2>1 DEF JoinType, Joins
  <2>4. Joins(joining[h]) <= Joins(j) BY <2>3
  <2> QED BY <2>1, <2>2, <2>3, <2>4, JoinKeeps
<1>4. CASE subscribeToQueue(h)
  <2>1. pub' = pub /\ joining[h] = "consume" /\ (mem' = mem \/ Subscribe(h)) BY <1>4 DEF subscribeToQueue
  <2>2. joining' = [joining EXCEPT ![h] = "ready"] BY <1>4 DEF subscribeToQueue
  <2>3. "ready" \in JoinType /\ Joins(joining[h]) = 1 /\ Joins("ready") = 2 BY <2>1 DEF JoinType, Joins
  <2>4. Joins(joining[h]) <= Joins("ready") /\ Joins(joining[h]) + 1 <= Joins("ready") BY <2>3
  <2> QED BY <2>1, <2>2, <2>3, <2>4, JoinKeeps
<1> QED BY <1>2, <1>3, <1>4

\* A publisher that has handed its event to the dispatcher goes on.
LEMMA PublisherKeepsDispatcher ==
  ASSUME DispatcherInv, NEW e \in Events, NEW p \in PubType, pub' = [pub EXCEPT ![e] = p],
         p.pc \in {"idle", "memory"} => pub[e].pc \in {"idle", "memory"}, joining' = joining, mem' = mem
  PROVE  DispatcherInv'
<1>1. pub \in [Events -> PubType] BY DEF DispatcherInv
<1>2. pub' \in [Events -> PubType] BY <1>1
<1>3. \A d \in Events : pub'[d].pc \in {"idle", "memory"} => pub[d].pc \in {"idle", "memory"} BY <1>1
<1>4. DeliveriesAccounted' BY DEF DispatcherInv, DeliveriesAccounted
<1> QED BY <1>2, <1>3, <1>4 DEF DispatcherInv

\* Publish starts as many goroutines as it counts.
LEMMA DispatcherPublishKeeps == ASSUME DispatcherInv, NEW e \in Events, DispatcherPublish(e) PROVE DispatcherInv'
<1> DEFINE n == SumFunction(mem.subs)
           missed == IF n = 0 /\ setup.retries > 0 THEN 1 ELSE 0
<1>1. joining \in [Handlers -> JoinType] /\ mem \in DispatcherType /\ pub \in [Events -> PubType] BY DEF DispatcherInv
<1>2. pub[e].pc = "memory" /\ joining' = joining BY DEF DispatcherPublish
<1>3. PICK k \in {"check", "done"} : pub' = [pub EXCEPT ![e].pc = k] BY DEF DispatcherPublish
<1>4. pub' \in [Events -> PubType] /\ pub'[e].pc = k /\ \A d \in Events \ {e} : pub'[d] = pub[d]
  <2>1. pub[e] \in PubType BY <1>1
  <2>2. [pub[e] EXCEPT !.pc = k] \in PubType /\ [pub[e] EXCEPT !.pc = k].pc = k BY <2>1 DEF PubType
  <2>3. pub' = [pub EXCEPT ![e] = [pub[e] EXCEPT !.pc = k]] BY <1>3
  <2> QED BY <1>1, <2>2, <2>3
<1>5. mem.subs \in [Handlers -> 0..2] /\ mem.inflight \in [Events -> [Handlers -> Nat]] BY <1>1 DEF DispatcherType, Counts
<1>6. mem.subs \in [Handlers -> Nat] BY <1>5
<1>7. n \in Nat /\ missed \in Nat BY <1>6, BusAssumption, SumIsUnits
<1>8. mem' = [mem EXCEPT !.published = @ + n, !.inflight[e] = mem.subs, !.failed = @ + missed, !.unheard = @ + missed]
  BY DEF DispatcherPublish
<1> HIDE DEF n, missed
<1>9. /\ mem'.inflight = [mem.inflight EXCEPT ![e] = mem.subs] /\ mem'.subs = mem.subs
      /\ mem'.published = mem.published + n /\ mem'.failed = mem.failed + missed
      /\ mem'.unheard = mem.unheard + missed /\ mem'.delivered = mem.delivered
  BY <1>1, <1>8 DEF DispatcherType
<1>10. mem' \in DispatcherType
  <2>1. [mem.inflight EXCEPT ![e] = mem.subs] \in [Events -> [Handlers -> Nat]] BY <1>5, <1>6
  <2>2. mem.published \in Nat /\ mem.failed \in Nat /\ mem.unheard \in Nat BY <1>1 DEF DispatcherType
  <2>3. mem.published + n \in Nat /\ mem.failed + missed \in Nat /\ mem.unheard + missed \in Nat BY <1>7, <2>2
  <2>4. mem' = [mem EXCEPT !.published = mem.published + n, !.inflight = [mem.inflight EXCEPT ![e] = mem.subs],
                           !.failed = mem.failed + missed, !.unheard = mem.unheard + missed]
    BY <1>1, <1>8 DEF DispatcherType
  <2> QED BY <1>1, <2>1, <2>3, <2>4 DEF DispatcherType, Counts
<1>11. SumFunction(mem.inflight[e]) = 0 BY <1>2, NoneSums DEF DispatcherInv
<1>12. SumFunction(Running(mem')) = SumFunction(Running(mem)) - 0 + n
  BY <1>1, <1>6, <1>9, <1>10, <1>11, RunningChanges DEF n
<1>13. mem.published + mem.unheard = mem.delivered + mem.failed + SumFunction(Running(mem)) BY AccountedMeans DEF DispatcherInv
<1>14. mem'.published + mem'.unheard = mem'.delivered + mem'.failed + SumFunction(Running(mem'))
  <2>1. mem.published \in Nat /\ mem.failed \in Nat /\ mem.unheard \in Nat /\ mem.delivered \in Nat BY <1>1 DEF DispatcherType
  <2>2. SumFunction(Running(mem)) \in Nat BY <1>1, RunningType
  <2> QED BY <1>7, <1>9, <1>12, <1>13, <2>1, <2>2
<1>15. DeliveriesAccounted' BY <1>14 DEF DeliveriesAccounted, Running
<1>16. \A d \in Events : pub'[d].pc \in {"idle", "memory"} => mem'.inflight[d] = None
  <2> SUFFICES ASSUME NEW d \in Events, pub'[d].pc \in {"idle", "memory"} PROVE mem'.inflight[d] = None OBVIOUS
  <2>1. d # e BY <1>4
  <2> QED BY <1>4, <1>5, <1>9, <2>1 DEF DispatcherInv
<1> QED BY <1>1, <1>2, <1>4, <1>9, <1>10, <1>15, <1>16 DEF DispatcherInv

\* A goroutine that ends is counted once, delivered or failed.
LEMMA DispatcherHandleKeeps == ASSUME DispatcherInv, NEW e \in Events, NEW h \in Handlers, DispatcherHandle(e, h) PROVE DispatcherInv'
<1> DEFINE f == mem.inflight[e]
           g == [f EXCEPT ![h] = f[h] - 1]
<1>1. joining \in [Handlers -> JoinType] /\ mem \in DispatcherType /\ pub \in [Events -> PubType] BY DEF DispatcherInv
<1>2. f[h] > 0 /\ joining' = joining /\ pub' = pub BY DEF DispatcherHandle
<1>3. mem.inflight \in [Events -> [Handlers -> Nat]] /\ f \in [Handlers -> Nat] BY <1>1 DEF DispatcherType, Counts
<1>4. f[h] \in Nat /\ f[h] - 1 \in Nat BY <1>2, <1>3
<1>5. g \in [Handlers -> Nat] BY <1>3, <1>4
<1>6. SumFunction(g) = SumFunction(f) - f[h] + (f[h] - 1) /\ SumFunction(f) \in Nat BY <1>3, <1>4, BusAssumption, SumSplit
<1>7. /\ mem'.inflight = [mem.inflight EXCEPT ![e] = g] /\ mem'.subs = mem.subs /\ mem'.published = mem.published
      /\ mem'.unheard = mem.unheard /\ mem' \in DispatcherType
      /\ \/ mem'.delivered = mem.delivered + 1 /\ mem'.failed = mem.failed
         \/ mem'.failed = mem.failed + 1 /\ mem'.delivered = mem.delivered
  <2>1. [mem.inflight EXCEPT ![e] = g] \in [Events -> [Handlers -> Nat]] BY <1>3, <1>5
  <2>2. mem.delivered + 1 \in Nat /\ mem.failed + 1 \in Nat BY <1>1 DEF DispatcherType
  <2>3. \/ mem' = [mem EXCEPT !.inflight = [mem.inflight EXCEPT ![e] = g], !.delivered = mem.delivered + 1]
        \/ mem' = [mem EXCEPT !.inflight = [mem.inflight EXCEPT ![e] = g], !.failed = mem.failed + 1]
    <3>1. \/ mem' = [mem EXCEPT !.inflight[e][h] = @ - 1, !.delivered = @ + 1]
          \/ mem' = [mem EXCEPT !.inflight[e][h] = @ - 1, !.failed = @ + 1]
      BY DEF DispatcherHandle
    <3> QED BY <1>1, <1>3, <3>1 DEF DispatcherType
  <2> HIDE DEF g
  <2> QED BY <1>1, <2>1, <2>2, <2>3 DEF DispatcherType, Counts
<1>8. SumFunction(Running(mem')) = SumFunction(Running(mem)) - SumFunction(f) + SumFunction(g)
  BY <1>1, <1>5, <1>7, RunningChanges
<1>9. mem.published + mem.unheard = mem.delivered + mem.failed + SumFunction(Running(mem)) BY AccountedMeans DEF DispatcherInv
<1> HIDE DEF f, g
<1>10. mem'.published + mem'.unheard = mem'.delivered + mem'.failed + SumFunction(Running(mem'))
  <2>1. mem.published \in Nat /\ mem.failed \in Nat /\ mem.unheard \in Nat /\ mem.delivered \in Nat BY <1>1 DEF DispatcherType
  <2>2. SumFunction(Running(mem)) \in Nat BY <1>1, RunningType
  <2> QED BY <1>4, <1>6, <1>7, <1>8, <1>9, <2>1, <2>2
<1>11. DeliveriesAccounted' BY <1>10 DEF DeliveriesAccounted, Running
<1>12. \A d \in Events : pub'[d].pc \in {"idle", "memory"} => mem'.inflight[d] = None
  <2> SUFFICES ASSUME NEW d \in Events, pub[d].pc \in {"idle", "memory"} PROVE mem'.inflight[d] = None BY <1>2
  <2>1. mem.inflight[d] = None BY DEF DispatcherInv
  <2>2. d # e BY <1>2, <2>1 DEF f, None
  <2> QED BY <1>3, <1>7, <2>1, <2>2
<1> QED BY <1>1, <1>2, <1>7, <1>11, <1>12 DEF DispatcherInv

-----------------------------------------------------------------------------
(* The event bus: copies of a message                                      *)

Places(log, e) == {i \in DOMAIN log : log[i] = e}
Copies(stored, log, e) == stored[e] + Cardinality(Places(log, e))

\* A publisher told of success is done and a copy exists; a copy it was not told of, or a
\* second one, puts the event in doubt; and none exists before the brokers are tried.
CopySound(p, copies) ==
  /\ p.accepted => p.pc = "done" /\ copies > 0
  /\ ~p.accepted /\ copies > 0 => p.doubt
  /\ copies > 1 => p.doubt
  /\ p.pc \in {"idle", "memory", "check"} => copies = 0

CopiesSound(ps, stored, log) ==
  /\ ps \in [Events -> PubType] /\ stored \in [Events -> Nat] /\ log \in Seq(Events)
  /\ \A e \in Events : CopySound(ps[e], Copies(stored, log, e))

\* An event is in a finite number of places of a log.
LEMMA PlacesFinite ==
  ASSUME NEW log \in Seq(Events), NEW e PROVE IsFiniteSet(Places(log, e)) /\ Cardinality(Places(log, e)) \in Nat
<1>1. DOMAIN log = 1..Len(log) /\ Len(log) \in Nat OBVIOUS
<1>2. IsFiniteSet(1..Len(log)) BY <1>1, FS_Interval
<1>3. Places(log, e) \in SUBSET (1..Len(log)) BY <1>1 DEF Places
<1> QED BY <1>2, <1>3, FS_Subset, FS_CardinalityType

\* The copies of an event are a number.
LEMMA CopiesNat ==
  ASSUME NEW stored \in [Events -> Nat], NEW log \in Seq(Events), NEW e \in Events
  PROVE  Copies(stored, log, e) \in Nat
BY PlacesFinite DEF Copies

\* Appending e adds a copy of e, and of no other event.
LEMMA LogGrows ==
  ASSUME NEW log \in Seq(Events), NEW e \in Events, NEW stored \in [Events -> Nat]
  PROVE  /\ Copies(stored, Append(log, e), e) = Copies(stored, log, e) + 1
         /\ \A d \in Events \ {e} : Copies(stored, Append(log, e), d) = Copies(stored, log, d)
<1> DEFINE new == Append(log, e)
           n == Len(log) + 1
<1>1. /\ n \in Nat \ {0} /\ n \notin DOMAIN log /\ DOMAIN log = 1..(n - 1) /\ DOMAIN new = 1..n
      /\ new[n] = e /\ \A i \in 1..(n - 1) : new[i] = log[i]
  OBVIOUS
<1> HIDE DEF new, n
<1>2. Places(new, e) = Places(log, e) \cup {n} /\ n \notin Places(log, e)
  <2>1. \A i \in 1..n : i = n \/ i \in 1..(n - 1) BY <1>1
  <2>2. n \in 1..n /\ \A i \in 1..(n - 1) : i \in 1..n BY <1>1
  <2>3. \A i \in Places(new, e) : i \in Places(log, e) \cup {n} BY <1>1, <2>1 DEF Places
  <2>4. \A i \in Places(log, e) \cup {n} : i \in Places(new, e) BY <1>1, <2>2 DEF Places
  <2>5. n \notin Places(log, e) BY <1>1 DEF Places
  <2> QED BY <2>3, <2>4, <2>5
<1>3. ASSUME NEW d \in Events \ {e} PROVE Places(new, d) = Places(log, d)
  <2>1. \A i \in 1..n : i = n \/ i \in 1..(n - 1) BY <1>1
  <2>2. \A i \in 1..(n - 1) : i \in 1..n BY <1>1
  <2>3. new[n] # d BY <1>1
  <2>4. \A i \in Places(new, d) : i \in Places(log, d) BY <1>1, <2>1, <2>3 DEF Places
  <2>5. \A i \in Places(log, d) : i \in Places(new, d) BY <1>1, <2>2 DEF Places
  <2> QED BY <2>4, <2>5
<1>4. Cardinality(Places(new, e)) = Cardinality(Places(log, e)) + 1 /\ Cardinality(Places(log, e)) \in Nat
  BY <1>2, PlacesFinite, FS_AddElement
<1>5. Copies(stored, new, e) = Copies(stored, log, e) + 1 BY <1>4 DEF Copies
<1>6. \A d \in Events \ {e} : Copies(stored, new, d) = Copies(stored, log, d) BY <1>3 DEF Copies
<1> QED BY <1>5, <1>6 DEF new

\* Only event e, its publisher and its copies change.
LEMMA CopyChanges ==
  ASSUME NEW ps, NEW stored, NEW log, CopiesSound(ps, stored, log),
         NEW stored2 \in [Events -> Nat], NEW log2 \in Seq(Events), NEW e \in Events, NEW p \in PubType,
         \A d \in Events \ {e} : Copies(stored2, log2, d) = Copies(stored, log, d),
         CopySound(p, Copies(stored2, log2, e))
  PROVE  CopiesSound([ps EXCEPT ![e] = p], stored2, log2)
<1> DEFINE qs == [ps EXCEPT ![e] = p]
<1>1. ps \in [Events -> PubType] BY DEF CopiesSound
<1>2. qs \in [Events -> PubType] /\ qs[e] = p /\ \A d \in Events \ {e} : qs[d] = ps[d] BY <1>1
<1> HIDE DEF qs
<1>3. ASSUME NEW d \in Events PROVE CopySound(qs[d], Copies(stored2, log2, d))
  <2>1. CASE d = e BY <1>2, <2>1
  <2>2. CASE d # e
    <3>1. qs[d] = ps[d] /\ Copies(stored2, log2, d) = Copies(stored, log, d) BY <1>2, <2>2
    <3> QED BY <3>1 DEF CopiesSound
  <2> QED BY <2>1, <2>2
<1>4. CopiesSound(qs, stored2, log2) BY <1>2, <1>3 DEF CopiesSound
<1> QED BY <1>4 DEF qs

CopiesInv == CopiesSound(pub, rmq.stored, kfk.log)

\* No event is accepted before it is published.
LEMMA CopiesStart == BusInit => CopiesInv
<1> SUFFICES ASSUME BusInit PROVE CopiesInv OBVIOUS
<1>1. pub \in [Events -> PubType] /\ \A e \in Events : pub[e].pc = "idle" /\ pub[e].accepted = FALSE /\ pub[e].doubt = FALSE
  BY BusAssumption DEF BusInit, PubType
<1>2. rmq.stored \in [Events -> Nat] /\ (\A e \in Events : rmq.stored[e] = 0) /\ kfk.log = <<>> BY DEF BusInit
<1>3. kfk.log \in Seq(Events) BY <1>2
<1>4. ASSUME NEW e \in Events PROVE CopySound(pub[e], Copies(rmq.stored, kfk.log, e))
  <2>1. Places(<<>>, e) = {} BY DEF Places
  <2>2. Places(kfk.log, e) = {} BY <1>2, <2>1
  <2>3. Cardinality(Places(kfk.log, e)) = 0 BY <2>2, FS_EmptySet
  <2>4. Copies(rmq.stored, kfk.log, e) = 0 BY <1>2, <2>3 DEF Copies
  <2> QED BY <1>1, <2>4 DEF CopySound
<1> QED BY <1>1, <1>2, <1>3, <1>4 DEF CopiesInv, CopiesSound

\* An accepted event is in a broker, and twice only if a write was in doubt.
LEMMA CopiesPromise == ASSUME CopiesInv PROVE PublishedOnceOrInDoubt
<1> SUFFICES ASSUME NEW e \in Events
             PROVE  /\ pub[e].accepted => rmq.stored[e] + InKafka(e) > 0
                    /\ rmq.stored[e] + InKafka(e) > 1 => pub[e].doubt
  BY DEF PublishedOnceOrInDoubt
<1>1. rmq.stored[e] + InKafka(e) = Copies(rmq.stored, kfk.log, e) BY DEF InKafka, Copies, Places
<1>2. CopySound(pub[e], Copies(rmq.stored, kfk.log, e)) BY DEF CopiesInv, CopiesSound
<1> QED BY <1>1, <1>2 DEF CopySound

\* What a publisher writes nowhere may change is its own progress.
LEMMA CopiesUntouched ==
  ASSUME CopiesInv, NEW e \in Events, NEW p \in PubType, pub' = [pub EXCEPT ![e] = p],
         p.accepted = pub[e].accepted, p.doubt = pub[e].doubt,
         pub[e].pc # "done", p.pc \in {"idle", "memory", "check"} => pub[e].pc \in {"idle", "memory", "check"},
         rmq'.stored = rmq.stored, kfk'.log = kfk.log
  PROVE  CopiesInv'
<1>1. rmq.stored \in [Events -> Nat] /\ kfk.log \in Seq(Events) BY DEF CopiesInv, CopiesSound
<1>2. CopySound(pub[e], Copies(rmq.stored, kfk.log, e)) BY DEF CopiesInv, CopiesSound
<1>3. CopySound(p, Copies(rmq.stored, kfk.log, e)) BY <1>2 DEF CopySound
<1>4. CopiesSound([pub EXCEPT ![e] = p], rmq.stored, kfk.log) BY <1>1, <1>3, CopyChanges DEF CopiesInv
<1> QED BY <1>4 DEF CopiesInv

RabbitType ==
  [up : BOOLEAN, queue : Seq(Events), subs : SUBSET Handlers, hand : [Handlers -> Events \cup {NoEvent}],
   done : [Handlers -> BOOLEAN], stored : [Events -> Nat]]
KafkaType(n) ==
  [log : Seq(Events), pos : 0..n, commit : 0..n, subs : SUBSET Handlers, hand : [Handlers -> 0..n],
   done : [Handlers -> BOOLEAN], from : 0..n]

\* A publisher's step that writes to no broker.
LEMMA PublisherMoves ==
  ASSUME DispatcherInv, CopiesInv, NEW e \in Events, NEW p \in PubType, pub' = [pub EXCEPT ![e] = p],
         p.accepted = pub[e].accepted, p.doubt = pub[e].doubt, pub[e].pc # "done",
         p.pc \in {"idle", "memory"} => pub[e].pc \in {"idle", "memory"},
         p.pc = "check" => pub[e].pc \in {"idle", "memory", "check"},
         joining' = joining, mem' = mem, rmq'.stored = rmq.stored, kfk'.log = kfk.log
  PROVE  DispatcherInv' /\ CopiesInv'
<1>1. DispatcherInv' BY PublisherKeepsDispatcher
<1>2. p.pc \in {"idle", "memory", "check"} => pub[e].pc \in {"idle", "memory", "check"} OBVIOUS
<1>3. CopiesInv' BY <1>2, CopiesUntouched
<1> QED BY <1>1, <1>3

\* Events go to memory, to the queue or to both.
LEMMA TargetsType ==
  ASSUME setup \in Setups PROVE determineEventTarget(setup.target) \subseteq {"memory", "queue"}
<1>1. setup.target \in (SUBSET {"memory", "queue"}) \cup {{"default"}} BY BusAssumption DEF SetupType
<1> QED BY <1>1 DEF determineEventTarget

\* PublishEvent decides where the event goes and stores nothing yet.
LEMMA PublishEventKeeps ==
  ASSUME setup \in Setups, DispatcherInv, CopiesInv, NEW e \in Events, PublishEvent(e)
  PROVE  DispatcherInv' /\ CopiesInv'
<1> DEFINE to == IF IsMessagingEnabled THEN determineEventTarget(setup.target) ELSE {}
           k == IF "memory" \in to THEN "memory" ELSE IF "queue" \in to THEN "check" ELSE "done"
           p == [pub[e] EXCEPT !.target = to, !.pc = k]
<1>1. pub \in [Events -> PubType] /\ pub[e] \in PubType BY DEF DispatcherInv
<1>2. to \subseteq {"memory", "queue"} /\ k \in {"memory", "check", "done"} BY TargetsType
<1>3. pub' = [pub EXCEPT ![e].target = to, ![e].pc = k] /\ pub[e].pc = "idle" BY DEF PublishEvent
<1> HIDE DEF to, k
<1>4. pub' = [pub EXCEPT ![e] = p] BY <1>1, <1>3 DEF PubType
<1>5. p \in PubType /\ p.pc = k /\ p.accepted = pub[e].accepted /\ p.doubt = pub[e].doubt BY <1>1, <1>2 DEF PubType
<1>6. joining' = joining /\ mem' = mem /\ rmq' = rmq /\ kfk' = kfk BY DEF PublishEvent
<1> HIDE DEF p
<1> QED BY <1>2, <1>3, <1>4, <1>5, <1>6, PublisherMoves

\* publishToQueue chooses the broker.
LEMMA publishToQueueKeeps ==
  ASSUME DispatcherInv, CopiesInv, NEW e \in Events, publishToQueue(e)
  PROVE  DispatcherInv' /\ CopiesInv'
<1> DEFINE k == IF IsQueueAvailable THEN "rabbit" ELSE "failed"
           p == [pub[e] EXCEPT !.pc = k]
<1>1. pub \in [Events -> PubType] /\ pub[e] \in PubType BY DEF DispatcherInv
<1>2. pub' = [pub EXCEPT ![e].pc = k] /\ pub[e].pc = "check" /\ k \in {"rabbit", "failed"} BY DEF publishToQueue
<1> HIDE DEF k
<1>3. pub' = [pub EXCEPT ![e] = p] BY <1>1, <1>2 DEF PubType
<1>4. p \in PubType /\ p.pc = k /\ p.accepted = pub[e].accepted /\ p.doubt = pub[e].doubt BY <1>1, <1>2 DEF PubType
<1>5. joining' = joining /\ mem' = mem /\ rmq' = rmq /\ kfk' = kfk BY DEF publishToQueue
<1> HIDE DEF p
<1> QED BY <1>2, <1>3, <1>4, <1>5, PublisherMoves

\* What goes to the dispatcher is no copy in a broker.
LEMMA DispatcherPublishKeepsCopies ==
  ASSUME DispatcherInv, CopiesInv, NEW e \in Events, DispatcherPublish(e) PROVE CopiesInv'
<1>1. pub \in [Events -> PubType] /\ pub[e] \in PubType BY DEF DispatcherInv
<1>2. PICK k \in {"check", "done"} : pub' = [pub EXCEPT ![e].pc = k] BY DEF DispatcherPublish
<1> DEFINE p == [pub[e] EXCEPT !.pc = k]
<1>3. pub' = [pub EXCEPT ![e] = p] /\ pub[e].pc = "memory" BY <1>1, <1>2 DEF PubType, DispatcherPublish
<1>4. p \in PubType /\ p.pc = k /\ p.accepted = pub[e].accepted /\ p.doubt = pub[e].doubt BY <1>1, <1>2 DEF PubType
<1>5. rmq' = rmq /\ kfk' = kfk BY DEF DispatcherPublish
<1> HIDE DEF p
<1> QED BY <1>2, <1>3, <1>4, <1>5, CopiesUntouched

\* One more copy of e is stored; its publisher is told so, or is in doubt.
LEMMA StoredOnceMore ==
  ASSUME CopiesInv, NEW e \in Events, NEW p \in PubType, pub' = [pub EXCEPT ![e] = p],
         pub[e].pc \in {"rabbit", "kafka"}, p.doubt = pub[e].doubt \/ p.doubt = TRUE,
         \/ p.pc = "done" /\ p.accepted = TRUE
         \/ p.pc \in {"rabbit", "kafka", "failed"} /\ p.accepted = pub[e].accepted /\ p.doubt = TRUE,
         rmq'.stored \in [Events -> Nat], kfk'.log \in Seq(Events),
         Copies(rmq'.stored, kfk'.log, e) = Copies(rmq.stored, kfk.log, e) + 1,
         \A d \in Events \ {e} : Copies(rmq'.stored, kfk'.log, d) = Copies(rmq.stored, kfk.log, d)
  PROVE  CopiesInv'
<1> DEFINE c == Copies(rmq.stored, kfk.log, e)
<1>1. c \in Nat BY CopiesNat DEF CopiesInv, CopiesSound
<1>2. CopySound(pub[e], c) BY DEF CopiesInv, CopiesSound
<1> HIDE DEF c
<1>3. ~pub[e].accepted /\ (c > 0 => pub[e].doubt) BY <1>2 DEF CopySound
<1>4. c + 1 > 0 /\ (c + 1 > 1 => c > 0) BY <1>1
<1>5. CopySound(p, c + 1) BY <1>3, <1>4 DEF CopySound
<1>6. CopySound(p, Copies(rmq'.stored, kfk'.log, e)) BY <1>5 DEF c
<1> DEFINE s2 == rmq'.stored
           l2 == kfk'.log
<1>7. s2 \in [Events -> Nat] /\ l2 \in Seq(Events) /\ CopiesSound(pub, rmq.stored, kfk.log) /\ CopySound(p, Copies(s2, l2, e))
      /\ \A d \in Events \ {e} : Copies(s2, l2, d) = Copies(rmq.stored, kfk.log, d)
  BY <1>6 DEF CopiesInv
<1> HIDE DEF s2, l2
<1>8. CopiesSound([pub EXCEPT ![e] = p], s2, l2) BY <1>7, CopyChanges
<1> QED BY <1>8 DEF CopiesInv, s2, l2

\* A publication on RabbitMQ: stored, refused, or in doubt.
LEMMA RabbitPublishKeeps ==
  ASSUME DispatcherInv, CopiesInv, rmq \in RabbitType, NEW e \in Events, RabbitPublish(e)
  PROVE  DispatcherInv' /\ CopiesInv'
<1>1. pub \in [Events -> PubType] /\ pub[e] \in PubType /\ pub[e].pc = "rabbit" BY DEF DispatcherInv, RabbitPublish
<1>2. joining' = joining /\ mem' = mem /\ kfk' = kfk BY DEF RabbitPublish
<1>3. CASE /\ rmq' = [rmq EXCEPT !.queue = Append(@, e), !.stored[e] = @ + 1]
           /\ \/ pub' = [pub EXCEPT ![e].pc = "done", ![e].accepted = TRUE]
              \/ pub' = [pub EXCEPT ![e].pc = "kafka", ![e].doubt = TRUE]
  <2>1. \E p \in PubType : /\ pub' = [pub EXCEPT ![e] = p]
                           /\ \/ p.pc = "done" /\ p.accepted = TRUE /\ p.doubt = pub[e].doubt
                              \/ p.pc = "kafka" /\ p.accepted = pub[e].accepted /\ p.doubt = TRUE
    <3>1. CASE pub' = [pub EXCEPT ![e].pc = "done", ![e].accepted = TRUE]
      <4> DEFINE p == [pub[e] EXCEPT !.pc = "done", !.accepted = TRUE]
      <4>1. pub' = [pub EXCEPT ![e] = p] BY <1>1, <3>1 DEF PubType
      <4>2. p \in PubType /\ p.pc = "done" /\ p.accepted = TRUE /\ p.doubt = pub[e].doubt BY <1>1 DEF PubType
      <4> QED BY <4>1, <4>2
    <3>2. CASE pub' = [pub EXCEPT ![e].pc = "kafka", ![e].doubt = TRUE]
      <4> DEFINE p == [pub[e] EXCEPT !.pc = "kafka", !.doubt = TRUE]
      <4>1. pub' = [pub EXCEPT ![e] = p] BY <1>1, <3>2 DEF PubType
      <4>2. p \in PubType /\ p.pc = "kafka" /\ p.accepted = pub[e].accepted /\ p.doubt = TRUE BY <1>1 DEF PubType
      <4> QED BY <4>1, <4>2
    <3> QED BY <1>3, <3>1, <3>2
  <2>2. PICK p \in PubType : /\ pub' = [pub EXCEPT ![e] = p]
                             /\ \/ p.pc = "done" /\ p.accepted = TRUE /\ p.doubt = pub[e].doubt
                                \/ p.pc = "kafka" /\ p.accepted = pub[e].accepted /\ p.doubt = TRUE
    BY <2>1
  <2>3. rmq.stored \in [Events -> Nat] /\ kfk.log \in Seq(Events) BY DEF CopiesInv, CopiesSound
  <2>4. rmq'.stored = [rmq.stored EXCEPT ![e] = rmq.stored[e] + 1] BY <1>3 DEF RabbitType
  <2>5. rmq'.stored \in [Events -> Nat] /\ rmq'.stored[e] = rmq.stored[e] + 1 /\ \A d \in Events \ {e} : rmq'.stored[d] = rmq.stored[d]
    BY <2>3, <2>4
  <2>6. Cardinality(Places(kfk.log, e)) \in Nat /\ rmq.stored[e] \in Nat BY <2>3, PlacesFinite
  <2>7. Copies(rmq'.stored, kfk'.log, e) = Copies(rmq.stored, kfk.log, e) + 1 BY <1>2, <2>5, <2>6 DEF Copies
  <2>8. \A d \in Events \ {e} : Copies(rmq'.stored, kfk'.log, d) = Copies(rmq.stored, kfk.log, d) BY <1>2, <2>5 DEF Copies
  <2>9. CopiesInv' BY <1>1, <1>2, <2>2, <2>3, <2>5, <2>7, <2>8, StoredOnceMore
  <2>10. DispatcherInv' BY <1>2, <2>2, PublisherKeepsDispatcher
  <2> QED BY <2>9, <2>10
<1>4. CASE rmq' = rmq /\ pub' = [pub EXCEPT ![e].pc = "kafka"]
  <2> DEFINE p == [pub[e] EXCEPT !.pc = "kafka"]
  <2>1. pub' = [pub EXCEPT ![e] = p] BY <1>1, <1>4 DEF PubType
  <2>2. p \in PubType /\ p.pc = "kafka" /\ p.accepted = pub[e].accepted /\ p.doubt = pub[e].doubt BY <1>1 DEF PubType
  <2> HIDE DEF p
  <2> QED BY <1>1, <1>2, <1>4, <2>1, <2>2, PublisherMoves
<1> QED BY <1>3, <1>4 DEF RabbitPublish

\* After Kafka failed, RabbitMQ is next or the publication has failed.
LEMMA AfterFailureType ==
  ASSUME NEW p \in PubType
  PROVE  /\ AfterFailure(p) \in PubType /\ AfterFailure(p).pc \in {"rabbit", "failed"}
         /\ AfterFailure(p).accepted = p.accepted /\ AfterFailure(p).doubt = p.doubt
<1>1. p.tries + 1 \in Nat /\ 0 \in 0..RetryAttempts BY BusAssumption DEF PubType
<1>2. CASE p.tries < setup.retries BY <1>1, <1>2 DEF AfterFailure, PubType
<1>3. CASE ~(p.tries < setup.retries) BY <1>1, <1>3 DEF AfterFailure, PubType
<1> QED BY <1>2, <1>3

\* A write to Kafka: stored, refused, in doubt, and tried again.
LEMMA KafkaPublishKeeps ==
  ASSUME DispatcherInv, CopiesInv, NEW n, kfk \in KafkaType(n), NEW e \in Events, KafkaPublish(e)
  PROVE  DispatcherInv' /\ CopiesInv'
<1>1. pub \in [Events -> PubType] /\ pub[e] \in PubType /\ pub[e].pc = "kafka" BY DEF DispatcherInv, KafkaPublish
<1>2. joining' = joining /\ mem' = mem /\ rmq' = rmq BY DEF KafkaPublish
<1>3. rmq.stored \in [Events -> Nat] /\ kfk.log \in Seq(Events) BY DEF CopiesInv, CopiesSound
<1>4. ASSUME kfk' = [kfk EXCEPT !.log = Append(@, e)], NEW p \in PubType, pub' = [pub EXCEPT ![e] = p],
             \/ p.pc = "done" /\ p.accepted = TRUE /\ p.doubt = pub[e].doubt
             \/ p.pc \in {"rabbit", "kafka", "failed"} /\ p.accepted = pub[e].accepted /\ p.doubt = TRUE
      PROVE  DispatcherInv' /\ CopiesInv'
  <2>1. kfk'.log = Append(kfk.log, e) /\ Append(kfk.log, e) \in Seq(Events) BY <1>3, <1>4 DEF KafkaType
  <2>2. /\ Copies(rmq'.stored, kfk'.log, e) = Copies(rmq.stored, kfk.log, e) + 1
        /\ \A d \in Events \ {e} : Copies(rmq'.stored, kfk'.log, d) = Copies(rmq.stored, kfk.log, d)
    BY <1>2, <1>3, <2>1, LogGrows
  <2>3. CopiesInv' BY <1>1, <1>2, <1>3, <1>4, <2>1, <2>2, StoredOnceMore
  <2>4. DispatcherInv' BY <1>2, <1>4, PublisherKeepsDispatcher
  <2> QED BY <2>3, <2>4
<1>5. ASSUME kfk' = kfk, NEW p \in PubType, pub' = [pub EXCEPT ![e] = p], p.pc \in {"rabbit", "kafka", "failed"},
             p.accepted = pub[e].accepted, p.doubt = pub[e].doubt
      PROVE  DispatcherInv' /\ CopiesInv'
  BY <1>1, <1>2, <1>5, PublisherMoves
<1>6. CASE kfk' = [kfk EXCEPT !.log = Append(@, e)] /\ pub' = [pub EXCEPT ![e].pc = "done", ![e].accepted = TRUE]
  <2> DEFINE p == [pub[e] EXCEPT !.pc = "done", !.accepted = TRUE]
  <2>1. pub' = [pub EXCEPT ![e] = p] BY <1>1, <1>6 DEF PubType
  <2>2. p \in PubType /\ p.pc = "done" /\ p.accepted = TRUE /\ p.doubt = pub[e].doubt BY <1>1 DEF PubType
  <2> HIDE DEF p
  <2> QED BY <1>4, <1>6, <2>1, <2>2
<1>7. CASE \E stored \in BOOLEAN :
             LET p == [pub[e] EXCEPT !.doubt = @ \/ stored] IN
             /\ kfk' = IF stored THEN [kfk EXCEPT !.log = Append(@, e)] ELSE kfk
             /\ pub' = [pub EXCEPT ![e] = IF p.writes < RetryAttempts
                                          THEN [p EXCEPT !.writes = @ + 1]
                                          ELSE AfterFailure(p)]
  <2>1. PICK stored \in BOOLEAN :
             /\ kfk' = IF stored THEN [kfk EXCEPT !.log = Append(@, e)] ELSE kfk
             /\ pub' = [pub EXCEPT ![e] = IF [pub[e] EXCEPT !.doubt = @ \/ stored].writes < RetryAttempts
                                          THEN [[pub[e] EXCEPT !.doubt = @ \/ stored] EXCEPT !.writes = @ + 1]
                                          ELSE AfterFailure([pub[e] EXCEPT !.doubt = @ \/ stored])]
    BY <1>7
  <2> DEFINE q == [pub[e] EXCEPT !.doubt = @ \/ stored]
             p == IF q.writes < RetryAttempts THEN [q EXCEPT !.writes = @ + 1] ELSE AfterFailure(q)
  <2>2. q \in PubType /\ q.pc = "kafka" /\ q.accepted = pub[e].accepted
        /\ (stored => q.doubt = TRUE) /\ (~stored => q.doubt = pub[e].doubt)
    <3>1. pub[e].doubt \in BOOLEAN BY <1>1 DEF PubType
    <3>2. CASE stored = TRUE
      <4>1. (pub[e].doubt \/ stored) = TRUE BY <3>1, <3>2
      <4>2. q = [pub[e] EXCEPT !.doubt = TRUE] BY <4>1
      <4> HIDE DEF q
      <4> QED BY <1>1, <3>2, <4>2 DEF PubType
    <3>3. CASE stored = FALSE
      <4>1. (pub[e].doubt \/ stored) = pub[e].doubt BY <3>1, <3>3
      <4>2. q = [pub[e] EXCEPT !.doubt = pub[e].doubt] BY <4>1
      <4> HIDE DEF q
      <4> QED BY <1>1, <3>3, <4>2 DEF PubType
    <3> QED BY <3>2, <3>3
  <2>3. pub' = [pub EXCEPT ![e] = p] BY <2>1
  <2> HIDE DEF q
  <2>4. p \in PubType /\ p.pc \in {"rabbit", "kafka", "failed"} /\ p.accepted = q.accepted /\ p.doubt = q.doubt
    <3>1. CASE q.writes < RetryAttempts
      <4>1. q.writes + 1 \in 0..RetryAttempts BY <2>2, <3>1, BusAssumption DEF PubType
      <4>2. p = [q EXCEPT !.writes = q.writes + 1] BY <3>1
      <4> QED BY <2>2, <4>1, <4>2 DEF PubType
    <3>2. CASE ~(q.writes < RetryAttempts) BY <2>2, <3>2, AfterFailureType
    <3> QED BY <3>1, <3>2
  <2> HIDE DEF p
  <2>5. CASE stored BY <1>4, <2>1, <2>2, <2>3, <2>4, <2>5
  <2>6. CASE ~stored BY <1>5, <2>1, <2>2, <2>3, <2>4, <2>6
  <2> QED BY <2>5, <2>6
<1>8. CASE kfk' = kfk /\ pub' = [pub EXCEPT ![e] = AfterFailure(@)]
  <2>1. pub' = [pub EXCEPT ![e] = AfterFailure(pub[e])] BY <1>8
  <2> QED BY <1>1, <1>5, <1>8, <2>1, AfterFailureType
<1> QED BY <1>6, <1>7, <1>8 DEF KafkaPublish

-----------------------------------------------------------------------------
(* The event bus: what RabbitMQ keeps                                      *)

OutcomeType == [heard : Counts, broken : Counts]

\* Some handler was run for e.
Tried(o, e) == SumFunction(o.heard[e]) + SumFunction(o.broken[e]) > 0

\* The broker still has e, in its queue or in a consumer's hand.
Held(r, e) == e \in Range(r.queue) \/ \E h \in Handlers : r.hand[h] = e

\* What a consumer is about to acknowledge was handled, and what was stored is held or was
\* handled.
RabbitSound(r, o) ==
  /\ r \in RabbitType /\ o \in OutcomeType
  /\ \A h \in Handlers : r.done[h] => r.hand[h] # NoEvent /\ Tried(o, r.hand[h])
  /\ \A e \in Events : r.stored[e] > 0 => Held(r, e) \/ Tried(o, e)

\* An event was given to a handler when somebody's count is above zero.
LEMMA TriedMeans ==
  ASSUME NEW o \in OutcomeType, NEW e \in Events
  PROVE  /\ o.heard[e] \in [Handlers -> Nat] /\ o.broken[e] \in [Handlers -> Nat]
         /\ SumFunction(o.heard[e]) \in Nat /\ SumFunction(o.broken[e]) \in Nat
<1>1. o.heard[e] \in [Handlers -> Nat] /\ o.broken[e] \in [Handlers -> Nat] BY DEF OutcomeType, Counts
<1> QED BY <1>1, BusAssumption, SumIsUnits

\* Counting one more keeps every count that was above zero above zero.
LEMMA OneMore ==
  ASSUME NEW f \in [Handlers -> Nat], NEW h \in Handlers
  PROVE  /\ [f EXCEPT ![h] = f[h] + 1] \in [Handlers -> Nat]
         /\ SumFunction([f EXCEPT ![h] = f[h] + 1]) = SumFunction(f) + 1 /\ SumFunction(f) \in Nat
<1>1. f[h] \in Nat /\ f[h] + 1 \in Nat OBVIOUS
<1>2. IsFiniteSet(Handlers) BY BusAssumption
<1> DEFINE k == f[h] + 1
<1> HIDE DEF k
<1>3. k \in Nat BY <1>1 DEF k
<1>4. SumFunction([f EXCEPT ![h] = k]) = SumFunction(f) - f[h] + k /\ SumFunction(f) \in Nat
  BY ONLY f \in [Handlers -> Nat], h \in Handlers, <1>2, <1>3, SumSplit, Zenon
<1>5. SumFunction([f EXCEPT ![h] = k]) = SumFunction(f) + 1 BY <1>1, <1>4 DEF k
<1> QED BY <1>1, <1>4, <1>5 DEF k

\* A handler ran for e: it has been tried, and nothing becomes untried.
LEMMA TriedGrows ==
  ASSUME outcome \in OutcomeType, NEW e \in Events, NEW h \in Handlers, Succeeds(e, h) \/ Fails(e, h)
  PROVE  /\ outcome' \in OutcomeType /\ Tried(outcome', e)
         /\ \A d \in Events : Tried(outcome, d) => Tried(outcome', d)
<1> DEFINE f == outcome.heard[e]
           g == outcome.broken[e]
           f2 == [f EXCEPT ![h] = f[h] + 1]
           g2 == [g EXCEPT ![h] = g[h] + 1]
<1>1. outcome.heard \in [Events -> [Handlers -> Nat]] /\ outcome.broken \in [Events -> [Handlers -> Nat]] BY DEF OutcomeType, Counts
<1>2. f \in [Handlers -> Nat] /\ g \in [Handlers -> Nat] /\ SumFunction(f) \in Nat /\ SumFunction(g) \in Nat BY TriedMeans
<1>3. f2 \in [Handlers -> Nat] /\ SumFunction(f2) = SumFunction(f) + 1 BY <1>2, OneMore
<1>4. g2 \in [Handlers -> Nat] /\ SumFunction(g2) = SumFunction(g) + 1 BY <1>2, OneMore
<1>5. CASE outcome' = [outcome EXCEPT !.heard[e][h] = @ + 1]
  <2>1. outcome' = [outcome EXCEPT !.heard = [outcome.heard EXCEPT ![e] = f2]] BY <1>1, <1>5 DEF OutcomeType
  <2> HIDE DEF f2
  <2>2. [outcome.heard EXCEPT ![e] = f2] \in [Events -> [Handlers -> Nat]] BY <1>1, <1>3
  <2>3. outcome' \in OutcomeType /\ outcome'.heard = [outcome.heard EXCEPT ![e] = f2] /\ outcome'.broken = outcome.broken
    BY <2>1, <2>2 DEF OutcomeType, Counts
  <2>4. outcome'.heard[e] = f2 /\ \A d \in Events \ {e} : outcome'.heard[d] = outcome.heard[d] BY <1>1, <2>3
  <2>5. SumFunction(f2) + SumFunction(g) > 0 BY <1>2, <1>3
  <2>6. Tried(outcome', e) BY <2>3, <2>4, <2>5 DEF Tried
  <2>7. \A d \in Events \ {e} : Tried(outcome, d) => Tried(outcome', d) BY <2>3, <2>4 DEF Tried
  <2> QED BY <2>3, <2>6, <2>7
<1>6. CASE outcome' = [outcome EXCEPT !.broken[e][h] = @ + 1]
  <2>1. outcome' = [outcome EXCEPT !.broken = [outcome.broken EXCEPT ![e] = g2]] BY <1>1, <1>6 DEF OutcomeType
  <2> HIDE DEF g2
  <2>2. [outcome.broken EXCEPT ![e] = g2] \in [Events -> [Handlers -> Nat]] BY <1>1, <1>4
  <2>3. outcome' \in OutcomeType /\ outcome'.broken = [outcome.broken EXCEPT ![e] = g2] /\ outcome'.heard = outcome.heard
    BY <2>1, <2>2 DEF OutcomeType, Counts
  <2>4. outcome'.broken[e] = g2 /\ \A d \in Events \ {e} : outcome'.broken[d] = outcome.broken[d] BY <1>1, <2>3
  <2>5. SumFunction(f) + SumFunction(g2) > 0 BY <1>2, <1>4
  <2>6. Tried(outcome', e) BY <2>3, <2>4, <2>5 DEF Tried
  <2>7. \A d \in Events \ {e} : Tried(outcome, d) => Tried(outcome', d) BY <2>3, <2>4 DEF Tried
  <2> QED BY <2>3, <2>6, <2>7
<1> QED BY <1>5, <1>6 DEF Succeeds, Fails

\* The broker goes from r to s and the outcomes from o to p.
LEMMA RabbitMoves ==
  ASSUME NEW r, NEW o, RabbitSound(r, o), NEW s \in RabbitType, NEW p \in OutcomeType,
         \A e \in Events : Tried(o, e) => Tried(p, e),
         \A h \in Handlers : s.done[h] => s.hand[h] # NoEvent /\ Tried(p, s.hand[h]),
         \A e \in Events : s.stored[e] > 0 => r.stored[e] > 0 \/ Held(s, e),
         \A e \in Events : Held(r, e) => Held(s, e) \/ Tried(p, e)
  PROVE  RabbitSound(s, p)
BY DEF RabbitSound

\* Outcomes only grow, which RabbitMQ's part of the invariant survives.
LEMMA OutcomeMoves ==
  ASSUME NEW r, NEW o, RabbitSound(r, o), NEW p \in OutcomeType, \A e \in Events : Tried(o, e) => Tried(p, e)
  PROVE  RabbitSound(r, p)
<1>1. \A h \in Handlers : r.done[h] => r.hand[h] # NoEvent /\ Tried(p, r.hand[h])
  <2> SUFFICES ASSUME NEW h \in Handlers, r.done[h] PROVE r.hand[h] # NoEvent /\ Tried(p, r.hand[h]) OBVIOUS
  <2>1. r.hand[h] # NoEvent /\ Tried(o, r.hand[h]) BY DEF RabbitSound
  <2>2. r.hand[h] \in Events BY <2>1 DEF RabbitSound, RabbitType
  <2> QED BY <2>1, <2>2
<1> QED BY <1>1 DEF RabbitSound

RabbitInv == RabbitSound(rmq, outcome)

\* RabbitMQ starts empty.
LEMMA RabbitStarts == BusInit => RabbitInv
<1> SUFFICES ASSUME BusInit PROVE RabbitInv OBVIOUS
<1>1. setup.rabbit \in BOOLEAN BY BusAssumption DEF BusInit, SetupType
<1>2. rmq \in RabbitType /\ (\A h \in Handlers : rmq.done[h] = FALSE) /\ \A e \in Events : rmq.stored[e] = 0
  BY <1>1 DEF BusInit, RabbitType
<1>3. outcome \in OutcomeType BY NoneSums DEF BusInit, OutcomeType, Counts
<1> QED BY <1>2, <1>3 DEF RabbitInv, RabbitSound

\* RabbitMQ's part of the invariant is what the run checks.
LEMMA RabbitPromise == ASSUME RabbitInv PROVE RabbitNeverForgets
BY DEF RabbitInv, RabbitSound, Held, Tried, Attempts, RabbitNeverForgets

\* Membership in a queue.
LEMMA RangeIs == ASSUME NEW q \in Seq(Events), NEW e PROVE e \in Range(q) <=> \E i \in 1..Len(q) : q[i] = e
BY DEF Range

\* A stored message is queued.
LEMMA RabbitPublishStores ==
  ASSUME RabbitInv, NEW e \in Events, rmq' = [rmq EXCEPT !.queue = Append(@, e), !.stored[e] = @ + 1], outcome' = outcome
  PROVE  RabbitInv'
<1> DEFINE q == rmq.queue
           q2 == Append(q, e)
<1>1. rmq \in RabbitType /\ outcome \in OutcomeType BY DEF RabbitInv, RabbitSound
<1>2. q \in Seq(Events) /\ rmq.stored \in [Events -> Nat] BY <1>1 DEF RabbitType
<1>3. q2 \in Seq(Events) /\ Len(q2) = Len(q) + 1 /\ q2[Len(q) + 1] = e /\ \A i \in 1..Len(q) : q2[i] = q[i] /\ i \in 1..Len(q2)
  BY <1>2
<1>4. [rmq.stored EXCEPT ![e] = rmq.stored[e] + 1] \in [Events -> Nat] BY <1>2
<1>5. rmq' = [rmq EXCEPT !.queue = q2, !.stored = [rmq.stored EXCEPT ![e] = rmq.stored[e] + 1]] BY <1>1 DEF RabbitType
<1>6. Len(q) \in Nat /\ Len(q) + 1 \in 1..Len(q2) BY <1>2, <1>3
<1> HIDE DEF q2
<1>7. /\ rmq' \in RabbitType /\ rmq'.queue = q2 /\ rmq'.hand = rmq.hand /\ rmq'.done = rmq.done
      /\ rmq'.stored = [rmq.stored EXCEPT ![e] = rmq.stored[e] + 1]
  BY <1>1, <1>3, <1>4, <1>5 DEF RabbitType
<1>8. \A d \in Events : Held(rmq, d) => Held(rmq', d)
  <2>1. ASSUME NEW d, d \in Range(q) PROVE d \in Range(q2)
    <3>1. PICK i \in 1..Len(q) : q[i] = d BY <1>2, <2>1, RangeIs
    <3>2. i \in 1..Len(q2) /\ q2[i] = d BY <1>3, <3>1
    <3> QED BY <1>3, <3>2, RangeIs
  <2> QED BY <1>7, <2>1 DEF Held
<1>9. Held(rmq', e)
  <2>1. e \in Range(q2) BY <1>3, <1>6, RangeIs
  <2> QED BY <1>7, <2>1 DEF Held
<1>10. \A d \in Events : rmq'.stored[d] > 0 => rmq.stored[d] > 0 \/ Held(rmq', d) BY <1>2, <1>7, <1>9
<1> DEFINE s == rmq'
<1>11. /\ s \in RabbitType
       /\ \A h \in Handlers : s.done[h] => s.hand[h] # NoEvent /\ Tried(outcome, s.hand[h])
       /\ \A d \in Events : s.stored[d] > 0 => rmq.stored[d] > 0 \/ Held(s, d)
       /\ \A d \in Events : Held(rmq, d) => Held(s, d)
  BY <1>7, <1>8, <1>10 DEF RabbitInv, RabbitSound
<1> HIDE DEF s
<1>12. RabbitSound(s, outcome) BY <1>1, <1>11, RabbitMoves DEF RabbitInv
<1> QED BY <1>12 DEF RabbitInv, s

\* A delivery moves the head of the queue into a handler's hand.
LEMMA RabbitDeliverKeeps == ASSUME RabbitInv, NEW h \in Handlers, RabbitDeliver(h) PROVE RabbitInv'
<1> DEFINE q == rmq.queue
           q2 == Tail(q)
           e == Head(q)
<1>1. rmq \in RabbitType /\ outcome \in OutcomeType /\ outcome' = outcome BY DEF RabbitInv, RabbitSound, RabbitDeliver
<1>2. q \in Seq(Events) /\ q # <<>> /\ rmq.hand \in [Handlers -> Events \cup {NoEvent}] /\ rmq.hand[h] = NoEvent
  BY <1>1 DEF RabbitType, RabbitDeliver
<1>3. /\ e \in Events /\ q2 \in Seq(Events) /\ Len(q) \in Nat \ {0} /\ Len(q2) = Len(q) - 1 /\ e = q[1]
      /\ \A i \in 1..Len(q2) : q2[i] = q[i + 1]
  BY <1>2
<1>4. rmq' = [rmq EXCEPT !.hand[h] = e, !.queue = q2] BY DEF RabbitDeliver
<1> HIDE DEF q2, e
<1>5. /\ rmq' \in RabbitType /\ rmq'.queue = q2 /\ rmq'.hand = [rmq.hand EXCEPT ![h] = e] /\ rmq'.done = rmq.done
      /\ rmq'.stored = rmq.stored
  <2>1. [rmq.hand EXCEPT ![h] = e] \in [Handlers -> Events \cup {NoEvent}] BY <1>2, <1>3
  <2>2. rmq' = [rmq EXCEPT !.hand = [rmq.hand EXCEPT ![h] = e], !.queue = q2] BY <1>1, <1>4 DEF RabbitType
  <2> QED BY <1>1, <1>3, <2>1, <2>2 DEF RabbitType
<1>6. rmq'.hand[h] = e /\ \A i \in Handlers \ {h} : rmq'.hand[i] = rmq.hand[i] BY <1>2, <1>5
<1>7. ASSUME NEW d \in Events, Held(rmq, d) PROVE Held(rmq', d)
  <2>1. CASE d \in Range(q)
    <3>1. PICK i \in 1..Len(q) : q[i] = d BY <1>2, <2>1, RangeIs
    <3>2. CASE i = 1 BY <1>3, <1>6, <3>1, <3>2 DEF Held
    <3>3. CASE i # 1
      <4>1. i - 1 \in 1..Len(q2) /\ q2[i - 1] = d
        <5>1. i - 1 \in 1..Len(q2) BY <1>3, <3>1, <3>3
        <5>2. q2[i - 1] = q[(i - 1) + 1] /\ (i - 1) + 1 = i BY <1>3, <3>1, <5>1
        <5> QED BY <3>1, <5>1, <5>2
      <4>2. d \in Range(q2) BY <1>3, <4>1, RangeIs
      <4> QED BY <1>5, <4>2 DEF Held
    <3> QED BY <3>2, <3>3
  <2>2. CASE \E i \in Handlers : rmq.hand[i] = d
    <3>1. PICK i \in Handlers : rmq.hand[i] = d BY <2>2
    <3>2. i # h BY <1>2, <3>1, BusAssumption
    <3> QED BY <1>6, <3>1, <3>2 DEF Held
  <2> QED BY <1>7, <2>1, <2>2 DEF Held
<1>8. ASSUME NEW i \in Handlers, rmq'.done[i] PROVE rmq'.hand[i] # NoEvent /\ Tried(outcome, rmq'.hand[i])
  <2>1. rmq.hand[i] # NoEvent /\ Tried(outcome, rmq.hand[i]) BY <1>5, <1>8 DEF RabbitInv, RabbitSound
  <2> QED BY <1>2, <1>6, <2>1
<1> DEFINE s == rmq'
<1>9. /\ s \in RabbitType
      /\ \A i \in Handlers : s.done[i] => s.hand[i] # NoEvent /\ Tried(outcome, s.hand[i])
      /\ \A d \in Events : s.stored[d] > 0 => rmq.stored[d] > 0
      /\ \A d \in Events : Held(rmq, d) => Held(s, d)
  BY <1>5, <1>7, <1>8
<1> HIDE DEF s
<1>10. RabbitSound(s, outcome) BY <1>1, <1>9, RabbitMoves DEF RabbitInv
<1> QED BY <1>1, <1>10 DEF RabbitInv, s

\* A handler has run, whatever came of it.
LEMMA RabbitHandleKeeps == ASSUME RabbitInv, NEW h \in Handlers, RabbitHandle(h) PROVE RabbitInv'
<1> DEFINE e == rmq.hand[h]
<1>1. rmq \in RabbitType /\ outcome \in OutcomeType BY DEF RabbitInv, RabbitSound
<1>2. e \in Events /\ (Succeeds(e, h) \/ Fails(e, h)) BY <1>1 DEF RabbitHandle, RabbitType
<1>3. outcome' \in OutcomeType /\ Tried(outcome', e) /\ \A d \in Events : Tried(outcome, d) => Tried(outcome', d)
  BY <1>1, <1>2, TriedGrows
<1>4. rmq' = [rmq EXCEPT !.done[h] = TRUE] BY DEF RabbitHandle
<1>5. /\ rmq' \in RabbitType /\ rmq'.queue = rmq.queue /\ rmq'.hand = rmq.hand /\ rmq'.stored = rmq.stored
      /\ \A i \in Handlers \ {h} : rmq'.done[i] = rmq.done[i]
  BY <1>1, <1>4 DEF RabbitType
<1> DEFINE s == rmq'
           p == outcome'
<1>6. RabbitSound(rmq, p) BY <1>3, OutcomeMoves DEF RabbitInv
<1>7. ASSUME NEW i \in Handlers, s.done[i] PROVE s.hand[i] # NoEvent /\ Tried(p, s.hand[i])
  <2>1. CASE i = h BY <1>2, <1>3, <1>5, <2>1, BusAssumption
  <2>2. CASE i # h BY <1>5, <1>6, <1>7, <2>2 DEF RabbitSound
  <2> QED BY <2>1, <2>2
<1>8. \A d \in Events : Held(rmq, d) => Held(s, d) BY <1>5 DEF Held
<1>9. \A d \in Events : s.stored[d] > 0 => rmq.stored[d] > 0 BY <1>5
<1>10. s \in RabbitType /\ p \in OutcomeType BY <1>3, <1>5
<1> HIDE DEF s, p
<1>11. RabbitSound(s, p) BY <1>6, <1>7, <1>8, <1>9, <1>10, RabbitMoves
<1> QED BY <1>11 DEF RabbitInv, s, p

\* Only what was given to a handler is acknowledged.
LEMMA RabbitAckKeeps == ASSUME RabbitInv, NEW h \in Handlers, RabbitAck(h) PROVE RabbitInv'
<1>1. rmq \in RabbitType /\ outcome \in OutcomeType /\ outcome' = outcome BY DEF RabbitInv, RabbitSound, RabbitAck
<1>2. rmq.hand[h] # NoEvent /\ Tried(outcome, rmq.hand[h]) BY DEF RabbitInv, RabbitSound, RabbitAck
<1>3. rmq' = [rmq EXCEPT !.hand[h] = NoEvent, !.done[h] = FALSE] BY DEF RabbitAck
<1>4. /\ rmq' \in RabbitType /\ rmq'.queue = rmq.queue /\ rmq'.stored = rmq.stored /\ rmq'.done[h] = FALSE
      /\ \A i \in Handlers \ {h} : rmq'.done[i] = rmq.done[i] /\ rmq'.hand[i] = rmq.hand[i]
  BY <1>1, <1>3 DEF RabbitType
<1> DEFINE s == rmq'
<1>5. ASSUME NEW i \in Handlers, s.done[i] PROVE s.hand[i] # NoEvent /\ Tried(outcome, s.hand[i])
  <2>1. i # h BY <1>4, <1>5
  <2> QED BY <1>4, <1>5, <2>1 DEF RabbitInv, RabbitSound
<1>6. \A d \in Events : Held(rmq, d) => Held(s, d) \/ Tried(outcome, d) BY <1>2, <1>4 DEF Held
<1>7. \A d \in Events : s.stored[d] > 0 => rmq.stored[d] > 0 BY <1>4
<1>8. s \in RabbitType BY <1>4
<1> HIDE DEF s
<1>9. RabbitSound(s, outcome) BY <1>1, <1>5, <1>6, <1>7, <1>8, RabbitMoves DEF RabbitInv
<1> QED BY <1>1, <1>9 DEF RabbitInv, s

\* SetToSeq lists every element of a finite set.
LEMMA Listing ==
  ASSUME NEW S, IsFiniteSet(S)
  PROVE  /\ SetToSeq(S) \in [1..Cardinality(S) -> S] /\ Cardinality(S) \in Nat
         /\ \A x \in S : \E i \in 1..Cardinality(S) : SetToSeq(S)[i] = x
<1> DEFINE n == Cardinality(S)
           f == SetToSeq(S)
<1>1. n \in Nat /\ ExistsBijection(1..n, S) BY FS_CardinalityType
<1>2. \E g \in [1..n -> S] : IsInjective(g)
  <2>1. PICK g \in Bijection(1..n, S) : TRUE BY <1>1 DEF ExistsBijection
  <2> QED BY <2>1 DEF Bijection, Injection
<1>3. f \in [1..n -> S] /\ IsInjective(f) BY <1>2 DEF SetToSeq
<1>4. f \in Injection(1..n, S) BY <1>3 DEF Injection
<1>5. IsFiniteSet(1..n) /\ Cardinality(1..n) = n BY <1>1, FS_Interval
<1> HIDE DEF f, n
<1>6. f \in Surjection(1..n, S) BY <1>4, <1>5, FS_Injection DEF n
<1>7. \A x \in S : \E i \in 1..n : f[i] = x BY <1>6 DEF Surjection
<1> QED BY <1>1, <1>3, <1>7 DEF f, n

\* The connection is gone, for good or until the process is back.
LEMMA DisconnectedKeeps ==
  ASSUME RabbitInv, NEW b \in BOOLEAN, rmq' = [Disconnected EXCEPT !.up = b], outcome' = outcome PROVE RabbitInv'
<1> DEFINE S == {h \in Handlers : rmq.hand[h] # NoEvent}
           un == SetToSeq(S)
           back == [i \in DOMAIN un |-> rmq.hand[un[i]]]
           q2 == back \o rmq.queue
           n == Cardinality(S)
<1>1. rmq \in RabbitType /\ outcome \in OutcomeType BY DEF RabbitInv, RabbitSound
<1>2. IsFiniteSet(S)
  <2>1. S \in SUBSET Handlers OBVIOUS
  <2> QED BY <2>1, BusAssumption, FS_Subset
<1>3. un \in [1..n -> S] /\ n \in Nat /\ \A x \in S : \E i \in 1..n : un[i] = x BY <1>2, Listing
<1>4. \A h \in S : rmq.hand[h] \in Events BY <1>1 DEF RabbitType
<1>5. rmq' = [rmq EXCEPT !.queue = q2, !.subs = {}, !.hand = [h \in Handlers |-> NoEvent], !.done = [h \in Handlers |-> FALSE], !.up = b]
  BY <1>1 DEF Disconnected, RabbitType
<1> HIDE DEF un, n
<1>6. back \in [1..n -> Events]
  <2>1. \A i \in 1..n : un[i] \in S BY <1>3
  <2>2. DOMAIN un = 1..n BY <1>3
  <2> HIDE DEF S
  <2> QED BY <1>4, <2>1, <2>2
<1>7. back \in Seq(Events) /\ Len(back) = n BY <1>3, <1>6
<1>8. \A h \in S : \E i \in 1..n : back[i] = rmq.hand[h]
  <2> SUFFICES ASSUME NEW h \in S PROVE \E i \in 1..n : back[i] = rmq.hand[h] OBVIOUS
  <2>1. PICK i \in 1..n : un[i] = h BY <1>3
  <2>2. DOMAIN un = 1..n BY <1>3
  <2> QED BY <2>1, <2>2
<1> HIDE DEF back
<1>9. rmq.queue \in Seq(Events) BY <1>1 DEF RabbitType
<1>10. /\ q2 \in Seq(Events) /\ Len(q2) = n + Len(rmq.queue) /\ Len(rmq.queue) \in Nat
       /\ \A i \in 1..n : i \in 1..Len(q2) /\ q2[i] = back[i]
       /\ \A i \in 1..Len(rmq.queue) : i + n \in 1..Len(q2) /\ q2[i + n] = rmq.queue[i]
  <2>1. q2 \in Seq(Events) /\ Len(q2) = n + Len(rmq.queue) /\ Len(rmq.queue) \in Nat BY <1>3, <1>7, <1>9
  <2>2. \A i \in 1..Len(q2) : q2[i] = IF i <= n THEN back[i] ELSE rmq.queue[i - n] BY <1>3, <1>7, <1>9
  <2> HIDE DEF q2
  <2>3. ASSUME NEW i \in 1..n PROVE i \in 1..Len(q2) /\ q2[i] = back[i] BY <1>3, <2>1, <2>2
  <2>4. ASSUME NEW i \in 1..Len(rmq.queue) PROVE i + n \in 1..Len(q2) /\ q2[i + n] = rmq.queue[i]
    <3>1. i + n \in 1..Len(q2) /\ ~(i + n <= n) /\ (i + n) - n = i BY <1>3, <2>1
    <3> QED BY <2>2, <3>1
  <2> QED BY <2>1, <2>3, <2>4
<1> HIDE DEF q2
<1>11. rmq' \in RabbitType /\ rmq'.queue = q2 /\ rmq'.stored = rmq.stored /\ \A h \in Handlers : rmq'.done[h] = FALSE
  <2> DEFINE hands == [h \in Handlers |-> NoEvent]
             dones == [h \in Handlers |-> FALSE]
  <2>1. hands \in [Handlers -> Events \cup {NoEvent}] /\ dones \in [Handlers -> BOOLEAN] /\ \A h \in Handlers : dones[h] = FALSE
    OBVIOUS
  <2>2. rmq' = [rmq EXCEPT !.queue = q2, !.subs = {}, !.hand = hands, !.done = dones, !.up = b] BY <1>5
  <2>3. q2 \in Seq(Events) BY <1>10
  <2> HIDE DEF hands, dones
  <2>4. rmq' \in RabbitType BY <1>1, <2>1, <2>2, <2>3 DEF RabbitType
  <2>5. rmq'.queue = q2 /\ rmq'.stored = rmq.stored /\ rmq'.done = dones BY <1>1, <2>2 DEF RabbitType
  <2> QED BY <2>1, <2>4, <2>5
<1>12. ASSUME NEW d \in Events, Held(rmq, d) PROVE Held(rmq', d)
  <2>1. CASE d \in Range(rmq.queue)
    <3>1. PICK i \in 1..Len(rmq.queue) : rmq.queue[i] = d BY <1>9, <2>1, RangeIs
    <3>2. i + n \in 1..Len(q2) /\ q2[i + n] = d BY <1>10, <3>1
    <3>3. d \in Range(q2) BY <1>10, <3>2, RangeIs
    <3> QED BY <1>11, <3>3 DEF Held
  <2>2. CASE \E i \in Handlers : rmq.hand[i] = d
    <3>1. PICK h \in Handlers : rmq.hand[h] = d BY <2>2
    <3>2. h \in S BY <3>1, BusAssumption
    <3>3. PICK i \in 1..n : back[i] = d BY <1>8, <3>1, <3>2
    <3>4. d \in Range(q2) BY <1>10, <3>3, RangeIs
    <3> QED BY <1>11, <3>4 DEF Held
  <2> QED BY <1>12, <2>1, <2>2 DEF Held
<1> DEFINE s == rmq'
<1>13. /\ s \in RabbitType
       /\ \A i \in Handlers : s.done[i] => s.hand[i] # NoEvent /\ Tried(outcome, s.hand[i])
       /\ \A d \in Events : s.stored[d] > 0 => rmq.stored[d] > 0
       /\ \A d \in Events : Held(rmq, d) => Held(s, d)
  BY <1>11, <1>12
<1> HIDE DEF s
<1>14. RabbitSound(s, outcome) BY <1>1, <1>13, RabbitMoves DEF RabbitInv
<1> QED BY <1>14 DEF RabbitInv, s

-----------------------------------------------------------------------------
(* The event bus: what Kafka's offsets pass                                *)

\* The reader stands behind what is committed and in hand, only connected consumers have a
\* message in hand, what a consumer is about to commit was handled, and, as long as the process
\* lives, so was everything the reader passed, unless a consumer has it in hand.
KafkaSound(k, o, c) ==
  /\ k \in KafkaType(Len(k.log)) /\ o \in OutcomeType
  /\ k.commit <= k.pos
  /\ \A h \in Handlers : k.hand[h] # 0 => h \in k.subs /\ k.hand[h] <= k.pos
  /\ \A h \in Handlers : k.done[h] => k.hand[h] # 0 /\ Tried(o, k.log[k.hand[h]])
  /\ c = 0 => \A i \in (k.from + 1)..k.pos : Tried(o, k.log[i]) \/ \E h \in Handlers : k.hand[h] = i

KafkaInv == KafkaSound(kfk, outcome, crashes)

\* The parts of the Kafka record.
LEMMA KafkaTyped ==
  ASSUME NEW k, k \in KafkaType(Len(k.log))
  PROVE  /\ k.log \in Seq(Events) /\ Len(k.log) \in Nat /\ k.pos \in 0..Len(k.log) /\ k.commit \in 0..Len(k.log)
         /\ k.from \in 0..Len(k.log) /\ k.subs \subseteq Handlers /\ k.hand \in [Handlers -> 0..Len(k.log)]
         /\ k.done \in [Handlers -> BOOLEAN]
BY DEF KafkaType

\* The larger of two numbers.
LEMMA LargerOfTwo == ASSUME NEW a \in Nat, NEW b \in Nat PROVE Max({a, b}) \in {a, b} /\ Max({a, b}) >= a /\ Max({a, b}) >= b
<1>1. \E x \in {a, b} : \A y \in {a, b} : x >= y
  <2>1. CASE a >= b BY <2>1
  <2>2. CASE ~(a >= b) BY <2>2
  <2> QED BY <2>1, <2>2
<1> QED BY <1>1 DEF Max

\* Kafka starts with an empty log.
LEMMA KafkaStarts == BusInit => KafkaInv
<1> SUFFICES ASSUME BusInit PROVE KafkaInv OBVIOUS
<1>1. /\ kfk.log = <<>> /\ kfk.pos = 0 /\ kfk.commit = 0 /\ kfk.from = 0 /\ Len(kfk.log) = 0
      /\ \A h \in Handlers : kfk.hand[h] = 0 /\ kfk.done[h] = FALSE
  BY DEF BusInit, None
<1>2. <<>> \in Seq(Events) /\ None \in [Handlers -> 0..0] /\ 0 \in 0..0 BY DEF None
<1>3. kfk \in KafkaType(0) BY <1>2 DEF BusInit, KafkaType
<1>4. outcome \in OutcomeType BY NoneSums DEF BusInit, OutcomeType, Counts
<1> QED BY <1>1, <1>3, <1>4 DEF KafkaInv, KafkaSound

\* Kafka's part of the invariant is what the run checks.
LEMMA KafkaPromise == ASSUME KafkaInv, crashes \in Nat PROVE KafkaPassesOnlyTried
<1> SUFFICES ASSUME NEW i \in kfk.from + 1..kfk.commit
             PROVE  Attempts(kfk.log[i]) > 0 \/ crashes > 0 \/ \E h \in Handlers : kfk.hand[h] = i
  BY DEF KafkaPassesOnlyTried
<1>1. kfk \in KafkaType(Len(kfk.log)) /\ kfk.commit <= kfk.pos BY DEF KafkaInv, KafkaSound
<1>2. kfk.from \in Nat /\ kfk.commit \in Nat /\ kfk.pos \in Nat BY <1>1, KafkaTyped
<1>3. i \in (kfk.from + 1)..kfk.pos BY <1>1, <1>2
<1>4. crashes = 0 => Tried(outcome, kfk.log[i]) \/ \E h \in Handlers : kfk.hand[h] = i BY <1>3 DEF KafkaInv, KafkaSound
<1>5. crashes = 0 \/ crashes > 0 OBVIOUS
<1> QED BY <1>4, <1>5 DEF Tried, Attempts

\* Outcomes only grow, which Kafka's part of the invariant survives.
LEMMA KafkaOutcome ==
  ASSUME NEW k, NEW o, NEW c, KafkaSound(k, o, c), NEW p \in OutcomeType, \A e \in Events : Tried(o, e) => Tried(p, e)
  PROVE  KafkaSound(k, p, c)
<1>1. k \in KafkaType(Len(k.log)) BY DEF KafkaSound
<1>2. k.log \in Seq(Events) /\ Len(k.log) \in Nat /\ k.pos \in 0..Len(k.log) /\ k.hand \in [Handlers -> 0..Len(k.log)] /\ k.from \in Nat
  BY <1>1, KafkaTyped
<1>3. \A i \in 1..Len(k.log) : k.log[i] \in Events BY <1>2
<1>4. ASSUME NEW h \in Handlers, k.done[h] PROVE k.hand[h] # 0 /\ Tried(p, k.log[k.hand[h]])
  <2>1. k.hand[h] # 0 /\ Tried(o, k.log[k.hand[h]]) BY <1>4 DEF KafkaSound
  <2>2. k.hand[h] \in 1..Len(k.log) BY <1>2, <2>1
  <2> QED BY <1>3, <2>1, <2>2
<1>5. ASSUME c = 0, NEW i \in (k.from + 1)..k.pos PROVE Tried(p, k.log[i]) \/ \E h \in Handlers : k.hand[h] = i
  <2>1. i \in 1..Len(k.log) BY <1>2
  <2>2. Tried(o, k.log[i]) \/ \E h \in Handlers : k.hand[h] = i BY <1>5 DEF KafkaSound
  <2> QED BY <1>3, <2>1, <2>2
<1> QED BY <1>1, <1>4, <1>5 DEF KafkaSound

\* A new reader starts from what is committed.
LEMMA ConsumeFromKafkaKeeps ==
  ASSUME KafkaInv, NEW h \in Handlers, ConsumeFromKafka(h), outcome' = outcome, crashes' = crashes PROVE KafkaInv'
<1> DEFINE new == getReader
           start == IF kfk.subs = {} /\ kfk.commit = 0 THEN new ELSE kfk.from
<1>1. kfk \in KafkaType(Len(kfk.log)) /\ kfk.commit <= kfk.pos BY DEF KafkaInv, KafkaSound
<1>2. /\ kfk.log \in Seq(Events) /\ Len(kfk.log) \in Nat /\ kfk.pos \in 0..Len(kfk.log) /\ kfk.commit \in 0..Len(kfk.log)
      /\ kfk.from \in 0..Len(kfk.log) /\ kfk.hand \in [Handlers -> 0..Len(kfk.log)]
  BY <1>1, KafkaTyped
<1>3. new \in 0..Len(kfk.log) /\ start \in 0..Len(kfk.log) /\ kfk.commit <= new BY <1>1, <1>2 DEF getReader
<1>4. kfk' = [kfk EXCEPT !.subs = @ \cup {h}, !.pos = new, !.from = start] BY DEF ConsumeFromKafka
<1>5. kfk.subs # {} => new = kfk.pos /\ start = kfk.from BY DEF getReader
<1>6. kfk.subs = {} => \A i \in Handlers : kfk.hand[i] = 0 BY DEF KafkaInv, KafkaSound
<1>7. kfk.subs = {} /\ kfk.commit # 0 => new = kfk.commit /\ start = kfk.from BY DEF getReader
<1>8. kfk.subs = {} /\ kfk.commit = 0 => start = new OBVIOUS
<1> HIDE DEF new, start
<1>9. /\ kfk' \in KafkaType(Len(kfk.log)) /\ kfk'.log = kfk.log /\ kfk'.pos = new /\ kfk'.commit = kfk.commit
      /\ kfk'.subs = kfk.subs \cup {h} /\ kfk'.hand = kfk.hand /\ kfk'.done = kfk.done /\ kfk'.from = start
  BY <1>1, <1>3, <1>4 DEF KafkaType
<1>10. \A i \in Handlers : kfk.hand[i] # 0 => i \in kfk.subs \cup {h} /\ kfk.hand[i] <= new
  BY <1>5, <1>6 DEF KafkaInv, KafkaSound
<1>11. ASSUME crashes = 0, NEW i \in (start + 1)..new PROVE Tried(outcome, kfk.log[i]) \/ \E g \in Handlers : kfk.hand[g] = i
  <2>1. start = kfk.from /\ new <= kfk.pos
    <3>1. CASE kfk.subs # {} BY <1>2, <1>5, <3>1
    <3>2. CASE kfk.subs = {} /\ kfk.commit # 0 BY <1>1, <1>7, <3>2
    <3>3. CASE kfk.subs = {} /\ kfk.commit = 0 BY <1>3, <1>8, <1>11, <3>3
    <3> QED BY <3>1, <3>2, <3>3
  <2>2. i \in (kfk.from + 1)..kfk.pos BY <1>2, <1>3, <2>1
  <2> QED BY <1>11, <2>2 DEF KafkaInv, KafkaSound
<1> DEFINE s == kfk'
<1>12. KafkaSound(s, outcome, crashes)
  <2>1. /\ s.log = kfk.log /\ s.pos = new /\ s.commit = kfk.commit /\ s.subs = kfk.subs \cup {h} /\ s.hand = kfk.hand
        /\ s.done = kfk.done /\ s.from = start /\ s \in KafkaType(Len(s.log))
    BY <1>9
  <2> HIDE DEF s
  <2> QED BY <1>3, <1>10, <1>11, <2>1 DEF KafkaInv, KafkaSound
<1> QED BY <1>12 DEF KafkaInv, s

\* A write appends to the log.
LEMMA LogAppends ==
  ASSUME KafkaInv, NEW e \in Events, kfk' = [kfk EXCEPT !.log = Append(@, e)], outcome' = outcome, crashes' = crashes
  PROVE  KafkaInv'
<1> DEFINE l == kfk.log
           l2 == Append(l, e)
<1>1. kfk \in KafkaType(Len(l)) /\ kfk.commit <= kfk.pos BY DEF KafkaInv, KafkaSound
<1>2. /\ l \in Seq(Events) /\ Len(l) \in Nat /\ kfk.pos \in 0..Len(l) /\ kfk.commit \in 0..Len(l)
      /\ kfk.from \in 0..Len(l) /\ kfk.hand \in [Handlers -> 0..Len(l)]
  BY <1>1, KafkaTyped
<1>3. l2 \in Seq(Events) /\ Len(l2) = Len(l) + 1 /\ \A i \in 1..Len(l) : l2[i] = l[i] BY <1>2
<1>4. kfk' = [kfk EXCEPT !.log = l2] OBVIOUS
<1> HIDE DEF l2
<1>5. /\ kfk'.log = l2 /\ kfk'.pos = kfk.pos /\ kfk'.commit = kfk.commit /\ kfk'.subs = kfk.subs
      /\ kfk'.hand = kfk.hand /\ kfk'.done = kfk.done /\ kfk'.from = kfk.from
  BY <1>1, <1>4 DEF KafkaType
<1>6. kfk' \in KafkaType(Len(l2))
  <2>1. kfk.pos \in 0..Len(l2) /\ kfk.commit \in 0..Len(l2) /\ kfk.from \in 0..Len(l2) /\ kfk.hand \in [Handlers -> 0..Len(l2)]
    BY <1>2, <1>3
  <2> QED BY <1>1, <1>3, <1>4, <2>1 DEF KafkaType
<1> DEFINE s == kfk'
<1>7. ASSUME NEW h \in Handlers, s.done[h] PROVE s.hand[h] # 0 /\ Tried(outcome, s.log[s.hand[h]])
  <2>1. kfk.hand[h] # 0 /\ Tried(outcome, l[kfk.hand[h]]) BY <1>5, <1>7 DEF KafkaInv, KafkaSound
  <2>2. kfk.hand[h] \in 1..Len(l) BY <1>2, <2>1
  <2> QED BY <1>3, <1>5, <2>1, <2>2
<1>8. ASSUME crashes = 0, NEW i \in (s.from + 1)..s.pos PROVE Tried(outcome, s.log[i]) \/ \E h \in Handlers : s.hand[h] = i
  <2>1. i \in (kfk.from + 1)..kfk.pos /\ i \in 1..Len(l) BY <1>2, <1>5
  <2>2. Tried(outcome, l[i]) \/ \E h \in Handlers : kfk.hand[h] = i BY <1>8, <2>1 DEF KafkaInv, KafkaSound
  <2> QED BY <1>3, <1>5, <2>1, <2>2
<1>9. s \in KafkaType(Len(s.log)) /\ s.commit <= s.pos
      /\ \A h \in Handlers : s.hand[h] # 0 => h \in s.subs /\ s.hand[h] <= s.pos
  BY <1>1, <1>5, <1>6 DEF KafkaInv, KafkaSound
<1> HIDE DEF s
<1>10. KafkaSound(s, outcome, crashes) BY <1>7, <1>8, <1>9 DEF KafkaInv, KafkaSound
<1> QED BY <1>10 DEF KafkaInv, s

\* A fetch takes the next message, which no one else has.
LEMMA KafkaFetchKeeps == ASSUME KafkaInv, NEW h \in Handlers, KafkaFetch(h) PROVE KafkaInv'
<1> DEFINE n == kfk.pos + 1
<1>1. kfk \in KafkaType(Len(kfk.log)) /\ kfk.commit <= kfk.pos BY DEF KafkaInv, KafkaSound
<1>2. /\ kfk.log \in Seq(Events) /\ Len(kfk.log) \in Nat /\ kfk.pos \in 0..Len(kfk.log) /\ kfk.commit \in 0..Len(kfk.log)
      /\ kfk.from \in 0..Len(kfk.log) /\ kfk.hand \in [Handlers -> 0..Len(kfk.log)]
  BY <1>1, KafkaTyped
<1>3. h \in kfk.subs /\ kfk.hand[h] = 0 /\ kfk.pos < Len(kfk.log) /\ outcome' = outcome /\ crashes' = crashes BY DEF KafkaFetch
<1>4. kfk' = [kfk EXCEPT !.hand[h] = n, !.pos = n] BY DEF KafkaFetch
<1>5. n \in 1..Len(kfk.log) /\ kfk.commit <= n /\ kfk.pos <= n BY <1>1, <1>2, <1>3
<1>6. [kfk.hand EXCEPT ![h] = n] \in [Handlers -> 0..Len(kfk.log)] BY <1>2, <1>5
<1>7. kfk' = [kfk EXCEPT !.hand = [kfk.hand EXCEPT ![h] = n], !.pos = n] BY <1>1, <1>4 DEF KafkaType
<1>8. \A i \in (kfk.from + 1)..n : i = n \/ i \in (kfk.from + 1)..kfk.pos BY <1>2
<1> HIDE DEF n
<1>9. /\ kfk' \in KafkaType(Len(kfk.log)) /\ kfk'.log = kfk.log /\ kfk'.pos = n /\ kfk'.commit = kfk.commit
      /\ kfk'.subs = kfk.subs /\ kfk'.hand = [kfk.hand EXCEPT ![h] = n] /\ kfk'.done = kfk.done /\ kfk'.from = kfk.from
  BY <1>1, <1>5, <1>6, <1>7 DEF KafkaType
<1>10. kfk'.hand[h] = n /\ \A i \in Handlers \ {h} : kfk'.hand[i] = kfk.hand[i] BY <1>2, <1>9
<1> DEFINE s == kfk'
<1>11. ASSUME NEW i \in Handlers, s.hand[i] # 0 PROVE i \in s.subs /\ s.hand[i] <= s.pos
  <2>1. CASE i = h BY <1>3, <1>5, <1>9, <1>10, <2>1
  <2>2. CASE i # h
    <3>1. i \in kfk.subs /\ kfk.hand[i] <= kfk.pos /\ s.hand[i] = kfk.hand[i] BY <1>10, <1>11, <2>2 DEF KafkaInv, KafkaSound
    <3>2. kfk.hand[i] \in Nat /\ kfk.pos \in Nat /\ n \in Nat BY <1>2, <1>5
    <3>3. kfk.hand[i] <= n BY <1>5, <3>1, <3>2
    <3> QED BY <1>9, <3>1, <3>3
  <2> QED BY <2>1, <2>2
<1>12. ASSUME NEW i \in Handlers, s.done[i] PROVE s.hand[i] # 0 /\ Tried(outcome, s.log[s.hand[i]])
  <2>1. kfk.hand[i] # 0 /\ Tried(outcome, kfk.log[kfk.hand[i]]) BY <1>9, <1>12 DEF KafkaInv, KafkaSound
  <2>2. i # h BY <1>3, <2>1
  <2> QED BY <1>9, <1>10, <2>1, <2>2
<1>13. ASSUME crashes = 0, NEW i \in (s.from + 1)..s.pos PROVE Tried(outcome, s.log[i]) \/ \E g \in Handlers : s.hand[g] = i
  <2>1. CASE i = n BY <1>10, <2>1
  <2>2. CASE i # n
    <3>1. i \in (kfk.from + 1)..kfk.pos BY <1>8, <1>9, <1>13, <2>2
    <3>2. Tried(outcome, kfk.log[i]) \/ \E g \in Handlers : kfk.hand[g] = i BY <1>13, <3>1 DEF KafkaInv, KafkaSound
    <3>3. i # 0 BY <1>2, <3>1
    <3> QED BY <1>3, <1>9, <1>10, <3>2, <3>3
  <2> QED BY <2>1, <2>2
<1>14. s \in KafkaType(Len(s.log)) /\ s.commit <= s.pos BY <1>5, <1>9
<1> HIDE DEF s
<1>15. KafkaSound(s, outcome, crashes) BY <1>11, <1>12, <1>13, <1>14 DEF KafkaInv, KafkaSound
<1> QED BY <1>3, <1>15 DEF KafkaInv, s

\* A consumer lets go of a message for which a handler was run.
LEMMA LetGo ==
  ASSUME NEW k, NEW o, NEW c, KafkaSound(k, o, c), NEW h \in Handlers, k.hand[h] # 0, Tried(o, k.log[k.hand[h]]),
         NEW commit, commit = k.commit \/ commit = Max({k.commit, k.hand[h]}), NEW subs \in {k.subs, k.subs \ {h}}
  PROVE  KafkaSound([k EXCEPT !.commit = commit, !.hand[h] = 0, !.done[h] = FALSE, !.subs = subs], o, c)
<1> DEFINE s == [k EXCEPT !.commit = commit, !.hand[h] = 0, !.done[h] = FALSE, !.subs = subs]
<1>1. k \in KafkaType(Len(k.log)) /\ k.commit <= k.pos BY DEF KafkaSound
<1>2. /\ k.log \in Seq(Events) /\ Len(k.log) \in Nat /\ k.pos \in 0..Len(k.log) /\ k.commit \in 0..Len(k.log)
      /\ k.from \in 0..Len(k.log) /\ k.hand \in [Handlers -> 0..Len(k.log)] /\ k.done \in [Handlers -> BOOLEAN] /\ k.subs \subseteq Handlers
  BY <1>1, KafkaTyped
<1>3. k.hand[h] \in 0..Len(k.log) /\ k.hand[h] <= k.pos BY <1>2 DEF KafkaSound
<1>4. commit \in 0..Len(k.log) /\ commit <= k.pos
  <2>1. k.commit \in Nat /\ k.hand[h] \in Nat BY <1>2, <1>3
  <2>2. commit \in {k.commit, k.hand[h]} BY <2>1, LargerOfTwo
  <2> QED BY <1>1, <1>2, <1>3, <2>2
<1>5. s = [k EXCEPT !.commit = commit, !.hand = [k.hand EXCEPT ![h] = 0], !.done = [k.done EXCEPT ![h] = FALSE], !.subs = subs]
  BY <1>1 DEF KafkaType
<1>6. [k.hand EXCEPT ![h] = 0] \in [Handlers -> 0..Len(k.log)] /\ [k.done EXCEPT ![h] = FALSE] \in [Handlers -> BOOLEAN] /\ subs \subseteq Handlers
  BY <1>2
<1> HIDE DEF s
<1>7. /\ s \in KafkaType(Len(k.log)) /\ s.log = k.log /\ s.pos = k.pos /\ s.commit = commit /\ s.subs = subs /\ s.from = k.from
      /\ s.hand = [k.hand EXCEPT ![h] = 0] /\ s.done = [k.done EXCEPT ![h] = FALSE]
  BY <1>1, <1>4, <1>5, <1>6 DEF KafkaType
<1>8. /\ s.hand[h] = 0 /\ s.done[h] = FALSE
      /\ \A i \in Handlers \ {h} : s.hand[i] = k.hand[i] /\ s.done[i] = k.done[i]
  BY <1>2, <1>7
<1>9. ASSUME NEW i \in Handlers, s.hand[i] # 0 PROVE i \in s.subs /\ s.hand[i] <= s.pos
  <2>1. i # h BY <1>8, <1>9
  <2>2. i \in k.subs /\ k.hand[i] <= k.pos BY <1>8, <1>9, <2>1 DEF KafkaSound
  <2> QED BY <1>7, <1>8, <2>1, <2>2
<1>10. ASSUME NEW i \in Handlers, s.done[i] PROVE s.hand[i] # 0 /\ Tried(o, s.log[s.hand[i]])
  <2>1. i # h BY <1>8, <1>10
  <2> QED BY <1>7, <1>8, <1>10, <2>1 DEF KafkaSound
<1>11. ASSUME c = 0, NEW i \in (s.from + 1)..s.pos PROVE Tried(o, s.log[i]) \/ \E g \in Handlers : s.hand[g] = i
  <2>1. Tried(o, k.log[i]) \/ \E g \in Handlers : k.hand[g] = i BY <1>7, <1>11 DEF KafkaSound
  <2>2. CASE k.hand[h] = i BY <1>7, <2>2
  <2>3. CASE k.hand[h] # i BY <1>7, <1>8, <2>1, <2>3
  <2> QED BY <2>2, <2>3
<1>12. s \in KafkaType(Len(s.log)) /\ s.commit <= s.pos /\ o \in OutcomeType BY <1>4, <1>7 DEF KafkaSound
<1>13. KafkaSound(s, o, c) BY <1>9, <1>10, <1>11, <1>12 DEF KafkaSound
<1> QED BY <1>13 DEF s

\* A handler has run, whatever came of it.
LEMMA KafkaHandleKeeps == ASSUME KafkaInv, NEW h \in Handlers, KafkaHandle(h) PROVE KafkaInv'
<1> DEFINE e == kfk.log[kfk.hand[h]]
<1>1. kfk \in KafkaType(Len(kfk.log)) /\ outcome \in OutcomeType BY DEF KafkaInv, KafkaSound
<1>2. kfk.hand[h] # 0 /\ ~kfk.done[h] /\ crashes' = crashes /\ (Succeeds(e, h) \/ Fails(e, h)) BY DEF KafkaHandle
<1>3. /\ kfk.log \in Seq(Events) /\ Len(kfk.log) \in Nat /\ kfk.hand \in [Handlers -> 0..Len(kfk.log)]
      /\ kfk.done \in [Handlers -> BOOLEAN] /\ kfk.subs \subseteq Handlers
  BY <1>1, KafkaTyped
<1>4. e \in Events
  <2>1. kfk.hand[h] \in 1..Len(kfk.log) BY <1>2, <1>3
  <2> QED BY <1>3, <2>1
<1> DEFINE p == outcome'
<1>5. p \in OutcomeType /\ Tried(p, e) /\ \A d \in Events : Tried(outcome, d) => Tried(p, d)
  BY <1>1, <1>2, <1>4, TriedGrows
<1> HIDE DEF p
<1>6. KafkaSound(kfk, p, crashes) BY <1>5, KafkaOutcome DEF KafkaInv
<1>7. CASE kfk' = [kfk EXCEPT !.done[h] = TRUE]
  <2> DEFINE s == kfk'
  <2>1. kfk' = [kfk EXCEPT !.done = [kfk.done EXCEPT ![h] = TRUE]] BY <1>1, <1>7 DEF KafkaType
  <2>2. [kfk.done EXCEPT ![h] = TRUE] \in [Handlers -> BOOLEAN] BY <1>3
  <2>3. /\ s \in KafkaType(Len(s.log)) /\ s.log = kfk.log /\ s.pos = kfk.pos /\ s.commit = kfk.commit /\ s.subs = kfk.subs
        /\ s.from = kfk.from /\ s.hand = kfk.hand /\ s.done = [kfk.done EXCEPT ![h] = TRUE]
    BY <1>1, <2>1, <2>2 DEF KafkaType
  <2> HIDE DEF s
  <2>4. ASSUME NEW i \in Handlers, s.done[i] PROVE s.hand[i] # 0 /\ Tried(p, s.log[s.hand[i]])
    <3>1. CASE i = h BY <1>2, <1>5, <2>3, <3>1
    <3>2. CASE i # h
      <4>1. kfk.done[i] BY <1>3, <2>3, <2>4, <3>2
      <4> QED BY <1>6, <2>3, <4>1 DEF KafkaSound
    <3> QED BY <3>1, <3>2
  <2>5. KafkaSound(s, p, crashes) BY <1>6, <2>3, <2>4 DEF KafkaSound
  <2> QED BY <1>2, <2>5 DEF KafkaInv, s, p
<1>8. CASE \E panics \in BOOLEAN : kfk' = [kfk EXCEPT !.hand[h] = 0, !.subs = IF panics THEN @ \ {h} ELSE @]
  <2>1. PICK subs \in {kfk.subs, kfk.subs \ {h}} : kfk' = [kfk EXCEPT !.hand[h] = 0, !.subs = subs] BY <1>8
  <2>2. kfk.done[h] = FALSE BY <1>2, <1>3
  <2>3. [kfk.done EXCEPT ![h] = FALSE] = kfk.done BY <1>3, <2>2
  <2>4. kfk' = [kfk EXCEPT !.commit = kfk.commit, !.hand[h] = 0, !.done[h] = FALSE, !.subs = subs]
    <3>1. kfk' = [kfk EXCEPT !.hand = [kfk.hand EXCEPT ![h] = 0], !.subs = subs] BY <1>1, <2>1 DEF KafkaType
    <3>2. [kfk EXCEPT !.commit = kfk.commit, !.hand[h] = 0, !.done[h] = FALSE, !.subs = subs]
           = [kfk EXCEPT !.commit = kfk.commit, !.hand = [kfk.hand EXCEPT ![h] = 0], !.done = [kfk.done EXCEPT ![h] = FALSE], !.subs = subs]
      BY <1>1 DEF KafkaType
    <3>3. [kfk EXCEPT !.commit = kfk.commit, !.hand = [kfk.hand EXCEPT ![h] = 0], !.done = kfk.done, !.subs = subs]
           = [kfk EXCEPT !.hand = [kfk.hand EXCEPT ![h] = 0], !.subs = subs]
      BY <1>1 DEF KafkaType
    <3> QED BY <2>3, <3>1, <3>2, <3>3
  <2>5. KafkaSound([kfk EXCEPT !.commit = kfk.commit, !.hand[h] = 0, !.done[h] = FALSE, !.subs = subs], p, crashes)
    BY <1>2, <1>5, <1>6, LetGo
  <2>6. KafkaSound(kfk', p, crashes) BY <2>4, <2>5
  <2> QED BY <1>2, <2>6 DEF KafkaInv, p
<1> QED BY <1>7, <1>8 DEF KafkaHandle

\* A commit passes only messages in hand or given to a handler.
LEMMA KafkaCommitKeeps == ASSUME KafkaInv, NEW h \in Handlers, KafkaCommit(h) PROVE KafkaInv'
<1>1. kfk \in KafkaType(Len(kfk.log)) /\ crashes' = crashes /\ outcome' = outcome BY DEF KafkaInv, KafkaSound, KafkaCommit
<1>2. kfk.hand[h] # 0 /\ Tried(outcome, kfk.log[kfk.hand[h]]) BY DEF KafkaInv, KafkaSound, KafkaCommit
<1>3. PICK commit \in {kfk.commit, Max({kfk.commit, kfk.hand[h]})} : kfk' = [kfk EXCEPT !.commit = commit, !.hand[h] = 0, !.done[h] = FALSE]
  BY DEF KafkaCommit
<1>4. kfk' = [kfk EXCEPT !.commit = commit, !.hand[h] = 0, !.done[h] = FALSE, !.subs = kfk.subs]
  <2>1. kfk' = [kfk EXCEPT !.commit = commit, !.hand = [kfk.hand EXCEPT ![h] = 0], !.done = [kfk.done EXCEPT ![h] = FALSE]]
    BY <1>1, <1>3 DEF KafkaType
  <2>2. [kfk EXCEPT !.commit = commit, !.hand[h] = 0, !.done[h] = FALSE, !.subs = kfk.subs]
         = [kfk EXCEPT !.commit = commit, !.hand = [kfk.hand EXCEPT ![h] = 0], !.done = [kfk.done EXCEPT ![h] = FALSE], !.subs = kfk.subs]
    BY <1>1 DEF KafkaType
  <2> QED BY <1>1, <2>1, <2>2 DEF KafkaType
<1>5. KafkaSound([kfk EXCEPT !.commit = commit, !.hand[h] = 0, !.done[h] = FALSE, !.subs = kfk.subs], outcome, crashes)
  BY <1>2, <1>3, LetGo DEF KafkaInv
<1> QED BY <1>1, <1>4, <1>5 DEF KafkaInv

-----------------------------------------------------------------------------
(* The event bus: every step                                               *)

BusInv ==
  /\ setup \in Setups /\ closed \in BOOLEAN /\ faults \in Nat /\ crashes \in Nat
  /\ DispatcherInv /\ CopiesInv /\ RabbitInv /\ KafkaInv

\* The initial states satisfy the invariant.
LEMMA BusStarts == BusInit => BusInv
<1> SUFFICES ASSUME BusInit PROVE BusInv OBVIOUS
<1>1. setup \in Setups /\ closed \in BOOLEAN /\ faults \in Nat /\ crashes \in Nat BY DEF BusInit
<1>2. DispatcherInv BY DispatcherStarts
<1>3. CopiesInv BY CopiesStart
<1>4. RabbitInv BY RabbitStarts
<1>5. KafkaInv BY KafkaStarts
<1> QED BY <1>1, <1>2, <1>3, <1>4, <1>5 DEF BusInv

\* The invariant implies what the run checks of the bus.
LEMMA BusPromise == BusInv => BusSound
<1> SUFFICES ASSUME BusInv PROVE BusSound OBVIOUS
<1>1. BusTypeOK
  <2>1. joining \in [Handlers -> JoinType] /\ mem \in DispatcherType /\ pub \in [Events -> PubType] BY DEF BusInv, DispatcherInv
  <2>2. rmq \in RabbitType /\ outcome \in OutcomeType BY DEF BusInv, RabbitInv, RabbitSound
  <2>3. kfk \in KafkaType(Len(kfk.log)) BY DEF BusInv, KafkaInv, KafkaSound
  <2>4. setup \in Setups /\ closed \in BOOLEAN /\ faults \in Nat /\ crashes \in Nat BY DEF BusInv
  <2> QED BY <2>1, <2>2, <2>3, <2>4, Zenon DEF BusTypeOK, JoinType, DispatcherType, PubType, RabbitType, OutcomeType, KafkaType
<1>2. DeliveriesAccounted BY DEF BusInv, DispatcherInv
<1>3. PublishedOnceOrInDoubt /\ RabbitNeverForgets /\ KafkaPassesOnlyTried
  BY CopiesPromise, RabbitPromise, KafkaPromise DEF BusInv
<1> QED BY <1>1, <1>2, <1>3 DEF BusSound

\* The parts of the invariant when what they speak of does not change: the dispatcher.
LEMMA DispatcherStays == ASSUME DispatcherInv, joining' = joining, mem' = mem, pub' = pub PROVE DispatcherInv'
BY DEF DispatcherInv, DeliveriesAccounted

\* What the brokers hold does not change.
LEMMA CopiesStay == ASSUME CopiesInv, pub' = pub, rmq'.stored = rmq.stored, kfk'.log = kfk.log PROVE CopiesInv'
BY DEF CopiesInv

\* RabbitMQ does not change.
LEMMA RabbitStays == ASSUME RabbitInv, rmq' = rmq, outcome' = outcome PROVE RabbitInv'
BY DEF RabbitInv

\* Kafka does not change.
LEMMA KafkaStays == ASSUME KafkaInv, kfk' = kfk, outcome' = outcome, crashes' = crashes PROVE KafkaInv'
BY DEF KafkaInv

\* A handler that was run in one part is no loss for the others.
LEMMA RabbitLearns ==
  ASSUME RabbitInv, rmq' = rmq, NEW e \in Events, NEW h \in Handlers, Succeeds(e, h) \/ Fails(e, h) PROVE RabbitInv'
<1>1. outcome \in OutcomeType BY DEF RabbitInv, RabbitSound
<1> DEFINE p == outcome'
<1>2. p \in OutcomeType /\ \A d \in Events : Tried(outcome, d) => Tried(p, d) BY <1>1, TriedGrows
<1> HIDE DEF p
<1>3. RabbitSound(rmq, p) BY <1>2, OutcomeMoves DEF RabbitInv
<1> QED BY <1>3 DEF RabbitInv, p

\* An outcome that Kafka's part hears of.
LEMMA KafkaLearns ==
  ASSUME KafkaInv, kfk' = kfk, crashes' = crashes, NEW e \in Events, NEW h \in Handlers, Succeeds(e, h) \/ Fails(e, h)
  PROVE  KafkaInv'
<1>1. outcome \in OutcomeType BY DEF KafkaInv, KafkaSound
<1> DEFINE p == outcome'
<1>2. p \in OutcomeType /\ \A d \in Events : Tried(outcome, d) => Tried(p, d) BY <1>1, TriedGrows
<1> HIDE DEF p
<1>3. KafkaSound(kfk, p, crashes) BY <1>2, KafkaOutcome DEF KafkaInv
<1> QED BY <1>3 DEF KafkaInv, p

\* A fault is counted.
LEMMA FaultsCounted == ASSUME faults \in Nat, faults' = faults \/ Fault PROVE faults' \in Nat
BY DEF Fault

\* A consumer joins; nothing stored is touched.
LEMMA ConsumeFromRabbitMQKeeps ==
  ASSUME RabbitInv, NEW h \in Handlers, ConsumeFromRabbitMQ(h), outcome' = outcome
  PROVE  RabbitInv' /\ rmq'.stored = rmq.stored
<1>1. rmq \in RabbitType BY DEF RabbitInv, RabbitSound
<1>2. rmq' = [rmq EXCEPT !.subs = @ \cup {h}] BY DEF ConsumeFromRabbitMQ
<1>3. /\ rmq' \in RabbitType /\ rmq'.queue = rmq.queue /\ rmq'.hand = rmq.hand /\ rmq'.done = rmq.done
      /\ rmq'.stored = rmq.stored
  BY <1>1, <1>2 DEF RabbitType
<1> DEFINE s == rmq'
<1>4. s \in RabbitType /\ s.queue = rmq.queue /\ s.hand = rmq.hand /\ s.done = rmq.done /\ s.stored = rmq.stored BY <1>3
<1> HIDE DEF s
<1>5. RabbitSound(s, outcome) BY <1>4 DEF RabbitInv, RabbitSound, Held
<1> QED BY <1>3, <1>5 DEF RabbitInv, s

\* Every step of a subscription preserves the invariant.
LEMMA SubscriptionSteps ==
  ASSUME BusInv, NEW h \in Handlers, SubscribeEvent(h) \/ SubscribeCheck(h) \/ subscribeToQueue(h)
  PROVE  BusInv'
<1> USE DEF BusInv
<1>1. DispatcherInv' BY SubscribeKeepsDispatcher
<1>2. CASE SubscribeEvent(h) \/ SubscribeCheck(h)
  <2>1. UNCHANGED <<setup, closed, outcome, pub, rmq, kfk, faults, crashes>> BY <1>2 DEF SubscribeEvent, SubscribeCheck
  <2> QED BY <1>1, <2>1, CopiesStay, RabbitStays, KafkaStays
<1>3. CASE subscribeToQueue(h)
  <2>1. UNCHANGED <<setup, closed, outcome, pub, crashes>> BY <1>3 DEF subscribeToQueue
  <2>2. faults' \in Nat
    BY <1>3, FaultsCounted DEF subscribeToQueue, SubscribeToMessages, RabbitRefuses
  <2>3. \/ ConsumeFromRabbitMQ(h) /\ kfk' = kfk
        \/ ConsumeFromKafka(h) /\ rmq' = rmq
        \/ rmq' = rmq /\ kfk' = kfk
    BY <1>3 DEF subscribeToQueue, SubscribeToMessages
  <2>4. kfk'.log = kfk.log
    <3>1. kfk \in KafkaType(Len(kfk.log)) BY DEF KafkaInv, KafkaSound
    <3> QED BY <2>3, <3>1 DEF ConsumeFromKafka, KafkaType
  <2>5. RabbitInv' /\ rmq'.stored = rmq.stored BY <2>1, <2>3, ConsumeFromRabbitMQKeeps, RabbitStays
  <2>6. KafkaInv' BY <2>1, <2>3, ConsumeFromKafkaKeeps, KafkaStays
  <2>7. CopiesInv' BY <2>1, <2>4, <2>5, CopiesStay
  <2> QED BY <1>1, <2>1, <2>2, <2>5, <2>6, <2>7
<1> QED BY <1>2, <1>3

\* Every step of a RabbitMQ consumer preserves it.
LEMMA RabbitSteps ==
  ASSUME BusInv, NEW h \in Handlers, RabbitDeliver(h) \/ RabbitHandle(h) \/ RabbitAck(h) PROVE BusInv'
<1> USE DEF BusInv
<1>1. UNCHANGED <<setup, closed, joining, mem, pub, kfk, crashes>> BY DEF RabbitDeliver, RabbitHandle, RabbitAck
<1>2. rmq \in RabbitType BY DEF RabbitInv, RabbitSound
<1>3. faults' \in Nat BY FaultsCounted DEF RabbitDeliver, RabbitHandle, RabbitAck, Succeeds, Fails
<1>4. RabbitInv' BY RabbitDeliverKeeps, RabbitHandleKeeps, RabbitAckKeeps
<1>5. rmq'.stored = rmq.stored BY <1>2 DEF RabbitDeliver, RabbitHandle, RabbitAck, RabbitType
<1>6. CopiesInv' BY <1>1, <1>5, CopiesStay
<1>7. DispatcherInv' BY <1>1, DispatcherStays
<1>8. KafkaInv'
  <2>1. CASE RabbitDeliver(h) \/ RabbitAck(h) BY <1>1, <2>1, KafkaStays DEF RabbitDeliver, RabbitAck
  <2>2. CASE RabbitHandle(h)
    <3>1. rmq.hand[h] \in Events /\ (Succeeds(rmq.hand[h], h) \/ Fails(rmq.hand[h], h)) BY <1>2, <2>2 DEF RabbitHandle, RabbitType
    <3> QED BY <1>1, <3>1, KafkaLearns
  <2> QED BY <2>1, <2>2
<1> QED BY <1>1, <1>3, <1>4, <1>6, <1>7, <1>8

\* Every step of a Kafka consumer preserves it.
LEMMA KafkaSteps ==
  ASSUME BusInv, NEW h \in Handlers, KafkaFetch(h) \/ KafkaHandle(h) \/ KafkaCommit(h) PROVE BusInv'
<1> USE DEF BusInv
<1>1. UNCHANGED <<setup, closed, joining, mem, pub, rmq, crashes>> BY DEF KafkaFetch, KafkaHandle, KafkaCommit
<1>2. kfk \in KafkaType(Len(kfk.log)) BY DEF KafkaInv, KafkaSound
<1>3. faults' \in Nat
  <2>1. CASE KafkaFetch(h) BY <2>1 DEF KafkaFetch
  <2>2. CASE KafkaHandle(h) BY <2>2, FaultsCounted DEF KafkaHandle, Succeeds, Fails
  <2>3. CASE KafkaCommit(h)
    <3>1. PICK b \in BOOLEAN : IF b THEN UNCHANGED faults ELSE Fault BY <2>3 DEF KafkaCommit
    <3> QED BY <3>1, FaultsCounted
  <2> QED BY <2>1, <2>2, <2>3
<1>4. KafkaInv' BY KafkaFetchKeeps, KafkaHandleKeeps, KafkaCommitKeeps
<1>5. kfk'.log = kfk.log
  <2>1. CASE KafkaFetch(h) BY <1>2, <2>1 DEF KafkaFetch, KafkaType
  <2>2. CASE KafkaHandle(h) BY <1>2, <2>2 DEF KafkaHandle, KafkaType
  <2>3. CASE KafkaCommit(h) BY <1>2, <2>3 DEF KafkaCommit, KafkaType
  <2> QED BY <2>1, <2>2, <2>3
<1>6. CopiesInv' BY <1>1, <1>5, CopiesStay
<1>7. DispatcherInv' BY <1>1, DispatcherStays
<1>8. RabbitInv'
  <2>1. CASE KafkaFetch(h) \/ KafkaCommit(h) BY <1>1, <2>1, RabbitStays DEF KafkaFetch, KafkaCommit
  <2>2. CASE KafkaHandle(h)
    <3> DEFINE e == kfk.log[kfk.hand[h]]
    <3>1. e \in Events
      <4>1. kfk.log \in Seq(Events) /\ Len(kfk.log) \in Nat /\ kfk.hand \in [Handlers -> 0..Len(kfk.log)] BY <1>2, KafkaTyped
      <4>2. kfk.hand[h] # 0 BY <2>2 DEF KafkaHandle
      <4>3. kfk.hand[h] \in 1..Len(kfk.log) BY <4>1, <4>2
      <4> QED BY <4>1, <4>3
    <3>2. Succeeds(e, h) \/ Fails(e, h) BY <2>2 DEF KafkaHandle
    <3> HIDE DEF e
    <3> QED BY <1>1, <3>1, <3>2, RabbitLearns
  <2> QED BY <2>1, <2>2
<1> QED BY <1>1, <1>3, <1>4, <1>6, <1>7, <1>8

\* A handler goroutine preserves it.
LEMMA DispatcherHandleStep ==
  ASSUME BusInv, NEW e \in Events, NEW h \in Handlers, DispatcherHandle(e, h) PROVE BusInv'
<1> USE DEF BusInv
<1>1. UNCHANGED <<setup, closed, joining, pub, rmq, kfk, crashes>> /\ (Succeeds(e, h) \/ Fails(e, h)) BY DEF DispatcherHandle
<1>2. faults' \in Nat BY <1>1, FaultsCounted DEF Succeeds, Fails
<1> QED BY <1>1, <1>2, DispatcherHandleKeeps, CopiesStay, RabbitLearns, KafkaLearns

\* Every step of a publisher preserves it.
LEMMA PublisherSteps ==
  ASSUME BusInv, NEW e \in Events, PublishEvent(e) \/ PublisherStep(e) PROVE BusInv'
<1> USE DEF BusInv
<1>1. CASE PublishEvent(e)
  <2>1. UNCHANGED <<setup, closed, joining, mem, outcome, rmq, kfk, faults, crashes>> BY <1>1 DEF PublishEvent
  <2> QED BY <1>1, <2>1, PublishEventKeeps, RabbitStays, KafkaStays
<1>2. CASE DispatcherPublish(e)
  <2>1. UNCHANGED <<setup, closed, joining, outcome, rmq, kfk, faults, crashes>> BY <1>2 DEF DispatcherPublish
  <2> QED BY <1>2, <2>1, DispatcherPublishKeeps, DispatcherPublishKeepsCopies, RabbitStays, KafkaStays
<1>3. CASE publishToQueue(e)
  <2>1. UNCHANGED <<setup, closed, joining, mem, outcome, rmq, kfk, faults, crashes>> BY <1>3 DEF publishToQueue
  <2> QED BY <1>3, <2>1, publishToQueueKeeps, RabbitStays, KafkaStays
<1>4. CASE RabbitPublish(e)
  <2>1. UNCHANGED <<setup, closed, joining, mem, outcome, kfk, crashes>> BY <1>4 DEF RabbitPublish
  <2>2. faults' \in Nat BY <1>4, FaultsCounted DEF RabbitPublish, RabbitRefuses
  <2>3. rmq \in RabbitType BY DEF RabbitInv, RabbitSound
  <2>4. RabbitInv'
    <3>1. rmq' = rmq \/ rmq' = [rmq EXCEPT !.queue = Append(@, e), !.stored[e] = @ + 1] BY <1>4 DEF RabbitPublish
    <3> QED BY <2>1, <3>1, RabbitStays, RabbitPublishStores
  <2> QED BY <1>4, <2>1, <2>2, <2>3, <2>4, RabbitPublishKeeps, KafkaStays
<1>5. CASE KafkaPublish(e)
  <2>1. UNCHANGED <<setup, closed, joining, mem, outcome, rmq, crashes>> BY <1>5 DEF KafkaPublish
  <2>2. faults' \in Nat BY <1>5, FaultsCounted DEF KafkaPublish
  <2>3. kfk \in KafkaType(Len(kfk.log)) BY DEF KafkaInv, KafkaSound
  <2>4. KafkaInv'
    <3>1. kfk' = kfk \/ kfk' = [kfk EXCEPT !.log = Append(@, e)] BY <1>5 DEF KafkaPublish
    <3> QED BY <2>1, <3>1, KafkaStays, LogAppends
  <2>5. DispatcherInv' /\ CopiesInv' BY <1>5, <2>3, KafkaPublishKeeps
  <2> QED BY <2>1, <2>2, <2>4, <2>5, RabbitStays
<1> QED BY <1>1, <1>2, <1>3, <1>4, <1>5 DEF PublisherStep

\* A lost connection gives back to the queue what was in hand.
LEMMA ConnectionLostStep == ASSUME BusInv, ConnectionLost PROVE BusInv'
<1> USE DEF BusInv
<1>1. UNCHANGED <<setup, closed, joining, mem, outcome, pub, kfk, crashes>> /\ faults' \in Nat BY FaultsCounted DEF ConnectionLost
<1>2. rmq \in RabbitType BY DEF RabbitInv, RabbitSound
<1>3. rmq' = [Disconnected EXCEPT !.up = FALSE] BY DEF ConnectionLost
<1>4. RabbitInv' BY <1>1, <1>3, DisconnectedKeeps
<1>5. rmq'.stored = rmq.stored BY <1>2, <1>3 DEF Disconnected, RabbitType
<1> QED BY <1>1, <1>4, <1>5, CopiesStay, DispatcherStays, KafkaStays

\* A crash empties the process and leaves the brokers.
LEMMA CrashStep == ASSUME BusInv, Crash PROVE BusInv'
<1> USE DEF BusInv
<1>1. UNCHANGED <<setup, outcome, faults>> /\ crashes' = crashes + 1 /\ closed' = FALSE BY DEF Crash
<1>2. rmq \in RabbitType /\ outcome \in OutcomeType BY DEF RabbitInv, RabbitSound
<1>3. rmq' = [Disconnected EXCEPT !.up = setup.rabbit] /\ setup.rabbit \in BOOLEAN BY BusAssumption DEF Crash, SetupType
<1>4. RabbitInv' BY <1>1, <1>3, DisconnectedKeeps
<1>5. rmq'.stored = rmq.stored BY <1>2, <1>3 DEF Disconnected, RabbitType
<1>6. KafkaInv' /\ kfk'.log = kfk.log
  <2> DEFINE s == kfk'
             dones == [h \in Handlers |-> FALSE]
  <2>1. kfk \in KafkaType(Len(kfk.log)) /\ kfk.commit <= kfk.pos BY DEF KafkaInv, KafkaSound
  <2>2. Len(kfk.log) \in Nat BY <2>1, KafkaTyped
  <2>3. None \in [Handlers -> 0..Len(kfk.log)] /\ \A h \in Handlers : None[h] = 0 BY <2>2 DEF None
  <2>4. dones \in [Handlers -> BOOLEAN] /\ \A h \in Handlers : dones[h] = FALSE OBVIOUS
  <2>5. kfk' = [kfk EXCEPT !.subs = {}, !.hand = None, !.done = dones] BY DEF Crash
  <2> HIDE DEF dones
  <2>6. /\ s \in KafkaType(Len(kfk.log)) /\ s.log = kfk.log /\ s.pos = kfk.pos /\ s.commit = kfk.commit
        /\ s.hand = None /\ s.done = dones
    BY <2>1, <2>3, <2>4, <2>5 DEF KafkaType
  <2> HIDE DEF s
  <2>7. crashes + 1 # 0 OBVIOUS
  <2>8. KafkaSound(s, outcome, crashes + 1) BY <1>2, <2>1, <2>3, <2>4, <2>6, <2>7 DEF KafkaSound
  <2> QED BY <1>1, <2>6, <2>8 DEF KafkaInv, s
<1> DEFINE Ended(e) == IF pub[e].pc \in {"idle", "done"} THEN pub[e] ELSE [pub[e] EXCEPT !.pc = "failed", !.writes = 0]
<1>7. pub' = [e \in Events |-> Ended(e)] BY DEF Crash
<1>8. ASSUME NEW e \in Events
      PROVE  /\ Ended(e) \in PubType /\ Ended(e).accepted = pub[e].accepted /\ Ended(e).doubt = pub[e].doubt
             /\ Ended(e).pc \in {"idle", "done", "failed"} /\ (pub[e].pc \in {"idle", "done"} => Ended(e).pc = pub[e].pc)
             /\ (pub[e].pc \notin {"idle", "done"} => Ended(e).pc = "failed")
  <2>1. pub[e] \in PubType /\ 0 \in 0..RetryAttempts BY BusAssumption DEF DispatcherInv
  <2>2. CASE pub[e].pc \in {"idle", "done"} BY <2>1, <2>2
  <2>3. CASE pub[e].pc \notin {"idle", "done"} BY <2>1, <2>3 DEF PubType
  <2> QED BY <2>2, <2>3
<1> HIDE DEF Ended
<1>9. pub' \in [Events -> PubType] /\ \A e \in Events : pub'[e] = Ended(e) BY <1>7, <1>8
<1>10. CopiesInv'
  <2>1. ASSUME NEW e \in Events PROVE CopySound(pub'[e], Copies(rmq.stored, kfk.log, e))
    <3>1. CopySound(pub[e], Copies(rmq.stored, kfk.log, e)) BY DEF CopiesInv, CopiesSound
    <3>2. CopySound(Ended(e), Copies(rmq.stored, kfk.log, e)) BY <1>8, <3>1 DEF CopySound
    <3> QED BY <1>9, <3>2
  <2>2. \A e \in Events : CopySound(pub'[e], Copies(rmq'.stored, kfk'.log, e)) BY <1>5, <1>6, <2>1
  <2>3. rmq'.stored \in [Events -> Nat] /\ kfk'.log \in Seq(Events) BY <1>5, <1>6 DEF CopiesInv, CopiesSound
  <2> QED BY <1>9, <2>2, <2>3 DEF CopiesInv, CopiesSound
<1>11. DispatcherInv'
  <2>1. None \in [Handlers -> 0..2] /\ \A h \in Handlers : None[h] = 0 BY DEF None
  <2>2. mem' = NewDispatcher /\ NewDispatcher \in DispatcherType
    BY <2>1, NoneSums DEF Crash, NewDispatcher, DispatcherType, Counts
  <2>3. joining' \in [Handlers -> JoinType] /\ \A h \in Handlers : joining'[h] = "new" BY DEF Crash, JoinType
  <2>4. \A e \in Events : Running(NewDispatcher)[e] = 0 BY NoneSums DEF Running, NewDispatcher
  <2>5. SumFunction(Running(NewDispatcher)) = 0 BY <2>2, <2>4, RunningType, BusAssumption, SumNothing
  <2>6. DeliveriesAccounted' BY <2>2, <2>5 DEF NewDispatcher, DeliveriesAccounted, Running
  <2>7. \A h \in Handlers : mem'.subs[h] <= Joins(joining'[h]) BY <2>1, <2>2, <2>3 DEF NewDispatcher, Joins
  <2>8. \A e \in Events : mem'.inflight[e] = None BY <2>2 DEF NewDispatcher
  <2> QED BY <1>9, <2>2, <2>3, <2>6, <2>7, <2>8 DEF DispatcherInv
<1>12. crashes' \in Nat /\ faults' \in Nat
  <2>1. crashes \in Nat /\ faults \in Nat BY DEF BusInv
  <2> QED BY <1>1, <2>1
<1>13. setup' \in Setups /\ closed' \in BOOLEAN
  <2>1. setup \in Setups BY DEF BusInv
  <2> QED BY <1>1, <2>1
<1> QED BY <1>4, <1>6, <1>10, <1>11, <1>12, <1>13

\* Every step of the bus preserves it.
LEMMA BusSteps == ASSUME BusInv, BusNext PROVE BusInv'
<1>1. CASE \E h \in Handlers : SubscribeEvent(h) \/ HandlerStep(h)
  <2>1. PICK h \in Handlers : SubscribeEvent(h) \/ HandlerStep(h) BY <1>1
  <2>2. CASE \E e \in Events : DispatcherHandle(e, h) BY <2>2, DispatcherHandleStep
  <2> QED BY <2>1, <2>2, SubscriptionSteps, RabbitSteps, KafkaSteps DEF HandlerStep
<1>2. CASE \E e \in Events : PublishEvent(e) \/ PublisherStep(e) BY <1>2, PublisherSteps
<1>3. CASE DataClose
  <2>1. UNCHANGED <<setup, joining, mem, outcome, pub, rmq, kfk, faults, crashes>> /\ closed' \in BOOLEAN BY <1>3 DEF DataClose
  <2> QED BY <2>1, DispatcherStays, CopiesStay, RabbitStays, KafkaStays DEF BusInv
<1> QED BY <1>1, <1>2, <1>3, ConnectionLostStep, CrashStep DEF BusNext

\* So does a step that changes nothing.
LEMMA BusStutters == ASSUME BusInv, UNCHANGED busVars PROVE BusInv'
BY DispatcherStays, CopiesStay, RabbitStays, KafkaStays DEF BusInv, busVars

-----------------------------------------------------------------------------
(* The orders of the collector: places by the number of elements before.   *)

\* An order of the elements of S, each given by the elements before it.
Orders(S, F) ==
  /\ F \in [S -> SUBSET S]
  /\ \A x \in S : x \notin F[x] /\ \A y \in S : y \in F[x] => F[y] \subseteq F[x]
  /\ \A x, y \in S : x = y \/ x \in F[y] \/ y \in F[x]

\* Every place is taken by an element.
LEMMA PlacesTaken ==
  ASSUME NEW S, IsFiniteSet(S), NEW F, Orders(S, F)
  PROVE  /\ Cardinality(S) \in Nat
         /\ \A k \in 0..(Cardinality(S) - 1) : \E x \in S : Cardinality(F[x]) = k
<1> DEFINE n == Cardinality(S)
           r == [x \in S |-> Cardinality(F[x])]
<1>1. n \in Nat BY FS_CardinalityType
<1>2. ASSUME NEW x \in S PROVE IsFiniteSet(F[x]) /\ r[x] = Cardinality(F[x]) /\ r[x] \in 0..(n - 1)
  <2>1. F[x] \subseteq S /\ x \in S \ F[x] BY DEF Orders
  <2>2. IsFiniteSet(F[x]) /\ Cardinality(F[x]) <= n /\ (n = Cardinality(F[x]) => F[x] = S) BY <2>1, FS_Subset
  <2>3. Cardinality(F[x]) \in Nat BY <2>2, FS_CardinalityType
  <2>4. Cardinality(F[x]) # n BY <2>1, <2>2
  <2>5. r[x] = Cardinality(F[x]) OBVIOUS
  <2> HIDE DEF n, r
  <2> QED BY <1>1, <2>2, <2>3, <2>4, <2>5
<1>3. r \in [S -> 0..(n - 1)] BY <1>2
<1>4. ASSUME NEW x \in S, NEW y \in S, x \in F[y] PROVE Cardinality(F[x]) < Cardinality(F[y])
  <2>1. F[x] \subseteq F[y] /\ x \notin F[x] BY <1>4 DEF Orders
  <2>2. Cardinality(F[x]) <= Cardinality(F[y]) /\ (Cardinality(F[y]) = Cardinality(F[x]) => F[y] = F[x])
    BY <1>2, <2>1, FS_Subset
  <2>3. Cardinality(F[x]) # Cardinality(F[y]) BY <1>4, <2>1, <2>2
  <2>4. Cardinality(F[x]) \in Nat /\ Cardinality(F[y]) \in Nat BY <1>2, FS_CardinalityType
  <2> QED BY <2>2, <2>3, <2>4
<1>5. \A x, y \in S : r[x] = r[y] => x = y
  <2> SUFFICES ASSUME NEW x \in S, NEW y \in S, r[x] = r[y], x # y PROVE FALSE OBVIOUS
  <2>1. x \in F[y] \/ y \in F[x] BY DEF Orders
  <2>2. Cardinality(F[x]) < Cardinality(F[y]) \/ Cardinality(F[y]) < Cardinality(F[x]) BY <1>4, <2>1
  <2>3. Cardinality(F[x]) \in Nat /\ Cardinality(F[y]) \in Nat BY <1>2, FS_CardinalityType
  <2>4. Cardinality(F[x]) = Cardinality(F[y]) BY <1>2
  <2> QED BY <2>2, <2>3, <2>4
<1>6. r \in Injection(S, 0..(n - 1)) BY <1>3, <1>5 DEF Injection, IsInjective
<1>7. IsFiniteSet(0..(n - 1)) /\ Cardinality(0..(n - 1)) = n
  <2> HIDE DEF n
  <2> QED BY <1>1, FS_Interval
<1>8. r \in Surjection(S, 0..(n - 1)) BY <1>6, <1>7, FS_Injection
<1>9. \A k \in 0..(n - 1) : \E x \in S : r[x] = k BY <1>8 DEF Surjection
<1> QED BY <1>1, <1>2, <1>9

-----------------------------------------------------------------------------
(* What a filter keeps                                                     *)

Snap == [value : Nat, time : Nat]

\* The elements of s at the places of a set, in their order.
Kept(s, at) == [k \in 1..Cardinality(at) |-> s[CHOOSE i \in at : Cardinality({j \in at : j < i}) = k - 1]]

\* What a selection of positions keeps, and how much.
LEMMA KeptType ==
  ASSUME NEW s \in Seq(Snap), NEW at \in SUBSET DOMAIN s
  PROVE  Kept(s, at) \in Seq(Snap) /\ Len(Kept(s, at)) = Cardinality(at) /\ Cardinality(at) \in 0..Len(s)
<1> DEFINE F == [i \in at |-> {j \in at : j < i}]
<1>1. Len(s) \in Nat /\ DOMAIN s = 1..Len(s) /\ IsFiniteSet(1..Len(s)) /\ Cardinality(1..Len(s)) = Len(s)
  <2>1. Len(s) \in Nat /\ DOMAIN s = 1..Len(s) OBVIOUS
  <2> DEFINE m == Len(s)
  <2>2. m \in Nat BY <2>1
  <2> HIDE DEF m
  <2>3. IsFiniteSet(1..m) /\ Cardinality(1..m) = m BY <2>2, FS_Interval
  <2> QED BY <2>1, <2>3 DEF m
<1>2. IsFiniteSet(at) /\ Cardinality(at) <= Len(s) BY <1>1, FS_Subset
<1>3. at \in SUBSET Int BY <1>1
<1>4. Orders(at, F)
  <2>1. F \in [at -> SUBSET at] OBVIOUS
  <2>2. ASSUME NEW x \in at PROVE x \notin F[x] /\ \A y \in at : y \in F[x] => F[y] \subseteq F[x] BY <1>3
  <2>3. \A x, y \in at : x = y \/ x \in F[y] \/ y \in F[x] BY <1>3
  <2> HIDE DEF F
  <2> QED BY <2>1, <2>2, <2>3 DEF Orders
<1>5. \A i \in at : F[i] = {j \in at : j < i} OBVIOUS
<1> HIDE DEF F
<1> DEFINE n == Cardinality(at)
<1>6. n \in Nat /\ \A k \in 0..(n - 1) : \E i \in at : Cardinality(F[i]) = k BY <1>2, <1>4, PlacesTaken
<1>7. ASSUME NEW k \in 1..n PROVE s[CHOOSE i \in at : Cardinality({j \in at : j < i}) = k - 1] \in Snap
  <2>1. k - 1 \in 0..(n - 1) BY <1>6
  <2>2. \E i \in at : Cardinality({j \in at : j < i}) = k - 1 BY <1>5, <1>6, <2>1
  <2>3. (CHOOSE i \in at : Cardinality({j \in at : j < i}) = k - 1) \in at BY <2>2
  <2> QED BY <1>1, <2>3
<1>8. Kept(s, at) \in [1..n -> Snap] BY <1>7 DEF Kept
<1> HIDE DEF n
<1>9. Kept(s, at) \in Seq(Snap) /\ Len(Kept(s, at)) = n BY <1>6, <1>8
<1> QED BY <1>1, <1>2, <1>6, <1>9 DEF n

\* What a cleanup leaves is a sequence of snapshots.
LEMMA CleanupType ==
  ASSUME NEW s \in Seq(Snap), NEW before
  PROVE  /\ MemoryCleanup(s, before) \in Seq(Snap) /\ RedisCleanup(s, before) \in Seq(Snap)
<1> DEFINE up == {i \in DOMAIN s : s[i].time > before}
           re == {i \in DOMAIN s : ~(Unix(s[i].time) <= Unix(before))}
<1>1. MemoryCleanup(s, before) = Kept(s, up) BY DEF MemoryCleanup, Keeping, Kept
<1>2. RedisCleanup(s, before) = Kept(s, re) BY DEF RedisCleanup, Keeping, Kept
<1>3. up \in SUBSET DOMAIN s /\ re \in SUBSET DOMAIN s OBVIOUS
<1> HIDE DEF up, re
<1> QED BY <1>1, <1>2, <1>3, KeptType

-----------------------------------------------------------------------------
(* What a sort answers.  The k-th newest second of s is the one that fewer *)
(* than k snapshots are newer than, and k at least as new as; the place a  *)
(* sort gives to snapshots of one second does not matter to it.            *)

Above(s, x) == {j \in DOMAIN s : Unix(s[j].time) > x}
AtLeast(s, x) == {j \in DOMAIN s : Unix(s[j].time) >= x}
Kth(s, k, x) == Cardinality(Above(s, x)) < k /\ k <= Cardinality(AtLeast(s, x))

\* A later moment is in no earlier second.
LEMMA UnixRises ==
  ASSUME NEW a \in Nat, NEW b \in Nat
  PROVE  Unix(a) \in Nat /\ (a <= b => Unix(a) <= Unix(b))
<1> DEFINE m == Unix(a)
           n == Unix(b)
<1>1. m \in Nat /\ n \in Nat /\ PerSecond \in Nat \ {0} BY MetricsAssumption DEF Unix
<1>2. PerSecond * m <= a /\ b < PerSecond * n + PerSecond BY MetricsAssumption DEF Unix
<1> HIDE DEF m, n
<1>3. ASSUME a <= b, n < m PROVE FALSE
  <2>1. n + 1 <= m BY <1>1, <1>3
  <2>2. PerSecond * (n + 1) <= PerSecond * m BY <1>1, <2>1
  <2>3. PerSecond * (n + 1) = PerSecond * n + PerSecond BY <1>1
  <2> QED BY <1>1, <1>2, <1>3, <2>2, <2>3
<1> QED BY <1>1, <1>3 DEF m, n

\* A sequence of snapshots and its positions.
LEMMA SnapsCounted ==
  ASSUME NEW s \in Seq(Snap)
  PROVE  /\ Len(s) \in Nat /\ DOMAIN s = 1..Len(s) /\ IsFiniteSet(DOMAIN s) /\ Cardinality(DOMAIN s) = Len(s)
         /\ \A A \in SUBSET DOMAIN s : IsFiniteSet(A) /\ Cardinality(A) \in Nat /\ Cardinality(A) <= Len(s)
         /\ \A i \in DOMAIN s : i \in Nat /\ s[i] \in Snap /\ s[i].time \in Nat /\ s[i].value \in Nat
         /\ \A i \in DOMAIN s : Unix(s[i].time) \in Nat
         /\ \A i, j \in DOMAIN s : Unix(s[i].time) < Unix(s[j].time) => s[i].time < s[j].time
<1>1. Len(s) \in Nat /\ DOMAIN s = 1..Len(s) OBVIOUS
<1>2. IsFiniteSet(DOMAIN s) /\ Cardinality(DOMAIN s) = Len(s)
  <2> DEFINE m == Len(s)
  <2>1. m \in Nat BY <1>1
  <2> HIDE DEF m
  <2>2. IsFiniteSet(1..m) /\ Cardinality(1..m) = m BY <2>1, FS_Interval
  <2> QED BY <1>1, <2>2 DEF m
<1>3. \A A \in SUBSET DOMAIN s : IsFiniteSet(A) /\ Cardinality(A) \in Nat /\ Cardinality(A) <= Len(s)
  BY <1>2, FS_Subset, FS_CardinalityType
<1>4. ASSUME NEW i \in DOMAIN s PROVE i \in Nat /\ s[i] \in Snap /\ s[i].time \in Nat /\ s[i].value \in Nat
  <2>1. i \in Nat /\ s[i] \in Snap BY <1>1
  <2> QED BY <2>1 DEF Snap
<1>5. \A i \in DOMAIN s : Unix(s[i].time) \in Nat BY <1>4, UnixRises
<1>6. ASSUME NEW i \in DOMAIN s, NEW j \in DOMAIN s, Unix(s[i].time) < Unix(s[j].time) PROVE s[i].time < s[j].time
  <2>1. s[j].time <= s[i].time => Unix(s[j].time) <= Unix(s[i].time) BY <1>4, UnixRises
  <2> QED BY <1>4, <1>5, <1>6, <2>1
<1> QED BY <1>1, <1>2, <1>3, <1>4, <1>5, <1>6

\* Of two places the later holds no newer second; a place holds one second.
LEMMA KthFalls ==
  ASSUME NEW s \in Seq(Snap), NEW k \in Nat, NEW l \in Nat, NEW x \in Nat, NEW y \in Nat,
         Kth(s, k, x), Kth(s, l, y), k <= l
  PROVE  y <= x
<1> SUFFICES ASSUME y > x PROVE FALSE OBVIOUS
<1>1. AtLeast(s, y) \subseteq Above(s, x) /\ Above(s, x) \in SUBSET DOMAIN s
  BY SnapsCounted DEF AtLeast, Above
<1>2. IsFiniteSet(Above(s, x)) /\ Cardinality(Above(s, x)) \in Nat BY <1>1, SnapsCounted
<1>3. Cardinality(AtLeast(s, y)) <= Cardinality(Above(s, x)) /\ IsFiniteSet(AtLeast(s, y)) BY <1>1, <1>2, FS_Subset
<1>4. Cardinality(AtLeast(s, y)) \in Nat BY <1>3, FS_CardinalityType
<1> QED BY <1>2, <1>3, <1>4 DEF Kth

\* One position at most has a given rank.
LEMMA KthOnce ==
  ASSUME NEW s \in Seq(Snap), NEW k \in Nat, NEW x \in Nat, NEW y \in Nat, Kth(s, k, x), Kth(s, k, y)
  PROVE  x = y
<1>1. y <= x BY KthFalls
<1>2. x <= y BY KthFalls
<1> QED BY <1>1, <1>2

\* The k-th element of the newest-first order has the k-th newest second.
LEMMA NewestFirst ==
  ASSUME NEW s \in Seq(Snap)
  PROVE  /\ ByTime(s) \in Seq(Snap) /\ Len(ByTime(s)) = Len(s)
         /\ \A k \in 1..Len(s) : ByTime(s)[k] \in Snap /\ Kth(s, k, Unix(ByTime(s)[k].time))
<1> DEFINE D == DOMAIN s
           front(i) == {j \in D : s[j].time > s[i].time \/ (j < i /\ ~(s[i].time > s[j].time))}
           F == [i \in D |-> front(i)]
           pick(k) == CHOOSE i \in D : Cardinality(front(i)) = k - 1
<1>1. ByTime(s) = [k \in D |-> s[pick(k)]] BY DEF ByTime, Sorted
<1>2. Len(s) \in Nat /\ D = 1..Len(s) /\ IsFiniteSet(D) /\ Cardinality(D) = Len(s) BY SnapsCounted
<1>3. \A i \in D : i \in Nat /\ s[i] \in Snap /\ s[i].time \in Nat BY SnapsCounted
<1>4. Orders(D, F)
  <2>1. F \in [D -> SUBSET D] OBVIOUS
  <2>2. ASSUME NEW x \in D, NEW y \in D, y \in F[x] PROVE F[y] \subseteq F[x]
    <3> SUFFICES ASSUME NEW z \in F[y] PROVE z \in F[x] OBVIOUS
    <3>1. z \in D /\ (s[z].time > s[y].time \/ (z < y /\ ~(s[y].time > s[z].time))) OBVIOUS
    <3>2. s[y].time > s[x].time \/ (y < x /\ ~(s[x].time > s[y].time)) BY <2>2
    <3>3. s[z].time > s[x].time \/ (z < x /\ ~(s[x].time > s[z].time)) BY <1>3, <3>1, <3>2
    <3> QED BY <3>1, <3>3
  <2>3. \A x \in D : x \notin F[x] BY <1>3
  <2>4. \A x, y \in D : x = y \/ x \in F[y] \/ y \in F[x] BY <1>3
  <2> HIDE DEF F, D
  <2> QED BY <2>1, <2>2, <2>3, <2>4 DEF Orders
<1>5. \A i \in D : F[i] = front(i) OBVIOUS
<1>6. \A i \in D : front(i) \in SUBSET D /\ Above(s, Unix(s[i].time)) \subseteq front(i) /\ front(i) \subseteq AtLeast(s, Unix(s[i].time)) \ {i}
                   /\ i \in AtLeast(s, Unix(s[i].time)) /\ AtLeast(s, Unix(s[i].time)) \in SUBSET D
  BY <1>3, SnapsCounted DEF Above, AtLeast
<1>7. \A A \in SUBSET D : IsFiniteSet(A) /\ Cardinality(A) \in Nat BY SnapsCounted
<1> HIDE DEF F, D, front
<1>8. \A k \in 0..(Cardinality(D) - 1) : \E i \in D : Cardinality(F[i]) = k BY <1>2, <1>4, PlacesTaken
<1>9. ASSUME NEW k \in 1..Len(s) PROVE pick(k) \in D /\ Cardinality(front(pick(k))) = k - 1
  <2>1. k - 1 \in 0..(Cardinality(D) - 1) BY <1>2
  <2>2. \E i \in D : Cardinality(front(i)) = k - 1 BY <1>5, <1>8, <2>1
  <2> QED BY <2>2
<1>10. ASSUME NEW k \in 1..Len(s) PROVE s[pick(k)] \in Snap /\ Kth(s, k, Unix(s[pick(k)].time))
  <2> DEFINE i == pick(k)
             x == Unix(s[i].time)
  <2>1. i \in D /\ Cardinality(front(i)) = k - 1 BY <1>9
  <2> HIDE DEF i
  <2>2. /\ front(i) \in SUBSET D /\ Above(s, x) \subseteq front(i) /\ front(i) \subseteq AtLeast(s, x) \ {i}
        /\ i \in AtLeast(s, x) /\ AtLeast(s, x) \in SUBSET D
    BY <1>6, <2>1
  <2>3. s[i] \in Snap BY <1>3, <2>1
  <2> HIDE DEF x
  <2>4. Cardinality(Above(s, x)) <= Cardinality(front(i)) BY <1>7, <2>2, FS_Subset
  <2>5. Cardinality(front(i)) <= Cardinality(AtLeast(s, x) \ {i}) BY <1>7, <2>2, FS_Subset
  <2>6. Cardinality(AtLeast(s, x) \ {i}) = Cardinality(AtLeast(s, x)) - 1 BY <1>7, <2>2, FS_RemoveElement
  <2>7. Cardinality(AtLeast(s, x)) \in Nat /\ Cardinality(Above(s, x)) \in Nat BY <1>7, <2>2
  <2>8. Kth(s, k, x) BY <1>2, <2>1, <2>4, <2>5, <2>6, <2>7 DEF Kth
  <2> QED BY <2>3, <2>8 DEF i, x
<1> HIDE DEF pick
<1>11. ByTime(s) \in [1..Len(s) -> Snap] /\ \A k \in 1..Len(s) : ByTime(s)[k] = s[pick(k)] BY <1>1, <1>2, <1>10
<1>12. ByTime(s) \in Seq(Snap) /\ Len(ByTime(s)) = Len(s) BY <1>2, <1>11
<1> QED BY <1>10, <1>11, <1>12

\* The order of a sorted set of Redis, oldest first, read from its end.
Oldest(s) == Sorted(s, RedisBefore)

\* From the end, the k-th element of the sorted set has the k-th newest second.
LEMMA OldestFirst ==
  ASSUME NEW s \in Seq(Snap)
  PROVE  /\ Oldest(s) \in Seq(Snap) /\ Len(Oldest(s)) = Len(s)
         /\ \A k \in 1..Len(s) : Oldest(s)[k] \in Snap /\ Kth(s, Len(s) - k + 1, Unix(Oldest(s)[k].time))
<1> DEFINE D == DOMAIN s
           front(i) == {j \in D : RedisBefore(s[j], s[i]) \/ (j < i /\ ~RedisBefore(s[i], s[j]))}
           F == [i \in D |-> front(i)]
           pick(k) == CHOOSE i \in D : Cardinality(front(i)) = k - 1
<1>1. Oldest(s) = [k \in D |-> s[pick(k)]] BY DEF Oldest, Sorted
<1>2. Len(s) \in Nat /\ D = 1..Len(s) /\ IsFiniteSet(D) /\ Cardinality(D) = Len(s) BY SnapsCounted
<1>3. \A i \in D : i \in Nat /\ s[i] \in Snap /\ s[i].value \in Nat /\ Unix(s[i].time) \in Nat BY SnapsCounted
<1>4. Orders(D, F)
  <2>1. F \in [D -> SUBSET D] OBVIOUS
  <2>2. ASSUME NEW x \in D, NEW y \in D, y \in F[x] PROVE F[y] \subseteq F[x]
    <3> SUFFICES ASSUME NEW z \in F[y] PROVE z \in F[x] OBVIOUS
    <3>1. z \in D /\ (RedisBefore(s[z], s[y]) \/ (z < y /\ ~RedisBefore(s[y], s[z]))) OBVIOUS
    <3>2. RedisBefore(s[y], s[x]) \/ (y < x /\ ~RedisBefore(s[x], s[y])) BY <2>2
    <3>3. RedisBefore(s[z], s[x]) \/ (z < x /\ ~RedisBefore(s[x], s[z])) BY <1>3, <3>1, <3>2 DEF RedisBefore
    <3> QED BY <3>1, <3>3
  <2>3. \A x \in D : x \notin F[x] BY <1>3 DEF RedisBefore
  <2>4. \A x, y \in D : x = y \/ x \in F[y] \/ y \in F[x] BY <1>3 DEF RedisBefore
  <2> HIDE DEF F, D
  <2> QED BY <2>1, <2>2, <2>3, <2>4 DEF Orders
<1>5. \A i \in D : F[i] = front(i) OBVIOUS
<1>6. ASSUME NEW i \in D
      PROVE  /\ front(i) \in SUBSET D /\ D \ AtLeast(s, Unix(s[i].time)) \subseteq front(i)
             /\ Above(s, Unix(s[i].time)) \subseteq (D \ front(i)) \ {i} /\ i \in D \ front(i)
             /\ AtLeast(s, Unix(s[i].time)) \in SUBSET D
  BY <1>3 DEF Above, AtLeast, RedisBefore
<1>7. \A A \in SUBSET D : IsFiniteSet(A) /\ Cardinality(A) \in Nat BY SnapsCounted
<1> HIDE DEF F, D, front
<1>8. \A k \in 0..(Cardinality(D) - 1) : \E i \in D : Cardinality(F[i]) = k BY <1>2, <1>4, PlacesTaken
<1>9. ASSUME NEW k \in 1..Len(s) PROVE pick(k) \in D /\ Cardinality(front(pick(k))) = k - 1
  <2>1. k - 1 \in 0..(Cardinality(D) - 1) BY <1>2
  <2>2. \E i \in D : Cardinality(front(i)) = k - 1 BY <1>5, <1>8, <2>1
  <2> QED BY <2>2
<1>10. ASSUME NEW k \in 1..Len(s) PROVE s[pick(k)] \in Snap /\ Kth(s, Len(s) - k + 1, Unix(s[pick(k)].time))
  <2> DEFINE i == pick(k)
             x == Unix(s[i].time)
             R == D \ front(i)
             L == D \ AtLeast(s, x)
  <2>1. i \in D /\ Cardinality(front(i)) = k - 1 BY <1>9
  <2> HIDE DEF i
  <2>2. /\ front(i) \in SUBSET D /\ L \subseteq front(i) /\ AtLeast(s, x) \in SUBSET D
        /\ Above(s, x) \subseteq R \ {i} /\ i \in R
    BY <1>6, <2>1
  <2>3. s[i] \in Snap BY <1>3, <2>1
  <2> HIDE DEF x
  <2>4. Cardinality(L) <= Cardinality(front(i)) BY <1>7, <2>2, FS_Subset
  <2>5. Cardinality(L) = Len(s) - Cardinality(AtLeast(s, x)) 
    <3>1. D \cap AtLeast(s, x) = AtLeast(s, x) BY <2>2
    <3>2. Cardinality(D \ AtLeast(s, x)) = Cardinality(D) - Cardinality(D \cap AtLeast(s, x)) BY <1>2, FS_Difference, Zenon
    <3> QED BY <1>2, <3>1, <3>2
  <2>6. Cardinality(R) = Len(s) - Cardinality(front(i))
    <3>1. D \cap front(i) = front(i) BY <2>2
    <3>2. Cardinality(D \ front(i)) = Cardinality(D) - Cardinality(D \cap front(i)) BY <1>2, FS_Difference, Zenon
    <3> QED BY <1>2, <3>1, <3>2
  <2>7. R \in SUBSET D OBVIOUS
  <2> HIDE DEF R, L
  <2>8. IsFiniteSet(R) /\ Cardinality(R) \in Nat /\ IsFiniteSet(R \ {i}) /\ Cardinality(AtLeast(s, x)) \in Nat
    BY <1>7, <2>2, <2>7
  <2>9. Cardinality(R \ {i}) = Cardinality(R) - 1 BY <2>2, <2>8, FS_RemoveElement
  <2>10. Cardinality(Above(s, x)) <= Cardinality(R \ {i}) /\ Cardinality(Above(s, x)) \in Nat
    BY <2>2, <2>8, FS_Subset, FS_CardinalityType
  <2>11. Cardinality(Above(s, x)) < Len(s) - k + 1 BY <1>2, <2>1, <2>6, <2>9, <2>10
  <2>12. Len(s) - k + 1 <= Cardinality(AtLeast(s, x)) BY <1>2, <2>1, <2>4, <2>5, <2>8
  <2> QED BY <2>3, <2>11, <2>12 DEF Kth, i, x
<1> HIDE DEF pick
<1>11. Oldest(s) \in [1..Len(s) -> Snap] /\ \A k \in 1..Len(s) : Oldest(s)[k] = s[pick(k)] BY <1>1, <1>2, <1>10
<1>12. Oldest(s) \in Seq(Snap) /\ Len(Oldest(s)) = Len(s) BY <1>2, <1>11
<1> QED BY <1>10, <1>11, <1>12

-----------------------------------------------------------------------------
(* The answers of the two storages                                         *)

\* The first m elements of a sequence.
LEMMA FirstOf ==
  ASSUME NEW s \in Seq(Snap), NEW m \in 0..Len(s)
  PROVE  SubSeq(s, 1, m) \in Seq(Snap) /\ Len(SubSeq(s, 1, m)) = m /\ \A k \in 1..m : SubSeq(s, 1, m)[k] = s[k]
<1>1. Len(s) \in Nat /\ m \in Nat OBVIOUS
<1> QED BY <1>1

\* Reversing keeps the snapshots.
LEMMA Reversed ==
  ASSUME NEW s \in Seq(Snap)
  PROVE  /\ Reverse(s) \in Seq(Snap) /\ Len(Reverse(s)) = Len(s)
         /\ \A k \in 1..Len(s) : Reverse(s)[k] = s[Len(s) - k + 1]
<1>1. Len(s) \in Nat /\ \A k \in 1..Len(s) : Len(s) - k + 1 \in 1..Len(s) OBVIOUS
<1>2. \A k \in 1..Len(s) : s[Len(s) - k + 1] \in Snap BY <1>1
<1>3. Reverse(s) = [k \in 1..Len(s) |-> s[(Len(s) - k) + 1]] BY DEF Reverse
<1>4. Reverse(s) \in [1..Len(s) -> Snap] /\ \A k \in 1..Len(s) : Reverse(s)[k] = s[Len(s) - k + 1] BY <1>2, <1>3
<1> QED BY <1>1, <1>4

\* Sorting what is sorted already by second changes no second.
LEMMA SortedStays ==
  ASSUME NEW s \in Seq(Snap), \A k, l \in 1..Len(s) : k <= l => Unix(s[l].time) <= Unix(s[k].time),
         NEW k \in 1..Len(s)
  PROVE  Unix(ByTime(s)[k].time) = Unix(s[k].time)
<1> DEFINE x == Unix(s[k].time)
<1>1. Len(s) \in Nat /\ DOMAIN s = 1..Len(s) /\ IsFiniteSet(DOMAIN s) BY SnapsCounted
<1>2. \A i \in 1..Len(s) : s[i] \in Snap /\ Unix(s[i].time) \in Nat BY <1>1, SnapsCounted
<1>3. Above(s, x) \subseteq 1..(k - 1) BY <1>1, <1>2 DEF Above
<1>4. 1..k \subseteq AtLeast(s, x) BY <1>1, <1>2 DEF AtLeast
<1>5. AtLeast(s, x) \in SUBSET DOMAIN s /\ k \in Nat /\ k - 1 \in Nat BY <1>1 DEF AtLeast
<1>6. x \in Nat BY <1>2
<1>7. ByTime(s)[k] \in Snap /\ Kth(s, k, Unix(ByTime(s)[k].time)) BY NewestFirst
<1> HIDE DEF x
<1>8. IsFiniteSet(1..(k - 1)) /\ Cardinality(1..(k - 1)) = k - 1
  <2> DEFINE h == k - 1
  <2>1. h \in Nat BY <1>5
  <2> HIDE DEF h
  <2>2. IsFiniteSet(1..h) /\ Cardinality(1..h) = h BY <2>1, FS_Interval
  <2> QED BY <2>2 DEF h
<1>9. IsFiniteSet(1..k) /\ Cardinality(1..k) = k BY <1>5, FS_Interval
<1>10. Cardinality(Above(s, x)) <= k - 1 /\ Cardinality(Above(s, x)) \in Nat BY <1>3, <1>8, FS_Subset, FS_CardinalityType
<1>11. IsFiniteSet(AtLeast(s, x)) BY <1>5, SnapsCounted
<1>12. k <= Cardinality(AtLeast(s, x)) BY <1>4, <1>9, <1>11, FS_Subset
<1>13. Kth(s, k, x) BY <1>5, <1>10, <1>12 DEF Kth
<1>14. Unix(ByTime(s)[k].time) \in Nat
  <2>1. ByTime(s)[k].time \in Nat BY <1>7 DEF Snap
  <2> QED BY <2>1, UnixRises
<1>15. Unix(ByTime(s)[k].time) = x BY <1>5, <1>6, <1>7, <1>13, <1>14, KthOnce
<1> QED BY <1>15 DEF x

\* Both storages answer GetLatest with the same seconds.
LEMMA SameLatest ==
  ASSUME NEW s \in Seq(Snap), NEW n \in Nat
  PROVE  SecondsOf(RedisLatest(s, n)) = SecondsOf(MemoryLatest(s, n))
<1> DEFINE m == IF Len(s) > n THEN n ELSE Len(s)
           back == Reverse(Oldest(s))
           R == SubSeq(back, 1, m)
           M == SubSeq(ByTime(s), 1, m)
<1>1. RedisLatest(s, n) = ByTime(R) BY DEF RedisLatest, Oldest
<1>2. MemoryLatest(s, n) = M BY DEF MemoryLatest
<1>3. Len(s) \in Nat OBVIOUS
<1>4. m \in 0..Len(s) BY <1>3
<1> HIDE DEF m
<1>5. back \in Seq(Snap) /\ Len(back) = Len(s) /\ \A k \in 1..Len(s) : back[k] \in Snap /\ Kth(s, k, Unix(back[k].time))
  <2>1. Oldest(s) \in Seq(Snap) /\ Len(Oldest(s)) = Len(s) BY OldestFirst
  <2>2. \A k \in 1..Len(s) : Oldest(s)[k] \in Snap /\ Kth(s, Len(s) - k + 1, Unix(Oldest(s)[k].time)) BY OldestFirst
  <2>3. back \in Seq(Snap) /\ Len(back) = Len(s) /\ \A k \in 1..Len(s) : back[k] = Oldest(s)[Len(s) - k + 1]
    BY <2>1, Reversed
  <2> HIDE DEF back
  <2>4. ASSUME NEW k \in 1..Len(s) PROVE back[k] \in Snap /\ Kth(s, k, Unix(back[k].time))
    <3> DEFINE l == Len(s) - k + 1
    <3>1. l \in 1..Len(s) /\ Len(s) - l + 1 = k BY <1>3
    <3>2. back[k] = Oldest(s)[l] BY <2>3
    <3> HIDE DEF l
    <3>3. Oldest(s)[l] \in Snap /\ Kth(s, Len(s) - l + 1, Unix(Oldest(s)[l].time)) BY <2>2, <3>1
    <3> QED BY <3>1, <3>2, <3>3
  <2> QED BY <2>3, <2>4
<1> HIDE DEF back
<1>6. R \in Seq(Snap) /\ Len(R) = m /\ \A k \in 1..m : R[k] = back[k]
  <2>1. m \in 0..Len(back) BY <1>4, <1>5
  <2> QED BY <1>5, <2>1, FirstOf
<1>7. M \in Seq(Snap) /\ Len(M) = m /\ \A k \in 1..m : M[k] = ByTime(s)[k]
  <2>1. ByTime(s) \in Seq(Snap) /\ m \in 0..Len(ByTime(s)) BY <1>4, NewestFirst
  <2> QED BY <2>1, FirstOf
<1> HIDE DEF R, M
<1>8. m \in Nat /\ \A k \in 1..m : k \in Nat /\ k \in 1..Len(s) BY <1>3, <1>4
<1>9. \A k \in 1..m : Unix(R[k].time) \in Nat /\ Kth(s, k, Unix(R[k].time)) BY <1>5, <1>6, <1>8, UnixRises DEF Snap
<1>10. \A k \in 1..m : Unix(M[k].time) \in Nat /\ Kth(s, k, Unix(M[k].time)) BY <1>7, <1>8, NewestFirst, UnixRises DEF Snap
<1>11. \A k, l \in 1..m : k <= l => Unix(R[l].time) <= Unix(R[k].time) BY <1>8, <1>9, KthFalls
<1>12. ByTime(R) \in Seq(Snap) /\ Len(ByTime(R)) = m BY <1>6, NewestFirst
<1>13. \A k \in 1..m : Unix(ByTime(R)[k].time) = Unix(R[k].time) BY <1>6, <1>11, SortedStays
<1>14. \A k \in 1..m : Unix(R[k].time) = Unix(M[k].time) BY <1>8, <1>9, <1>10, KthOnce
<1>15. DOMAIN ByTime(R) = 1..m /\ DOMAIN M = 1..m BY <1>7, <1>12
<1> QED BY <1>1, <1>2, <1>13, <1>14, <1>15 DEF SecondsOf

\* The storages differ where their aggregations do.
LEMMA SameAggregates ==
  ASSUME NEW agg, \A b : RedisAggregate(b, agg) = MemoryAggregate(b, agg), NEW in, NEW w
  PROVE  aggregateByInterval(in, w, agg, "redis") = aggregateByInterval(in, w, agg, "memory")
<1> DEFINE bs == Buckets(in, w)
           r(k) == [second |-> bs[k] * w, values |-> RedisAggregate(InBucket(in, w, bs[k]), agg)]
           m(k) == [second |-> bs[k] * w, values |-> MemoryAggregate(InBucket(in, w, bs[k]), agg)]
<1>1. "redis" # "memory" OBVIOUS
<1>2. aggregateByInterval(in, w, agg, "redis") = [k \in DOMAIN bs |-> r(k)] BY Zenon DEF aggregateByInterval
<1>3. aggregateByInterval(in, w, agg, "memory") = [k \in DOMAIN bs |-> m(k)] BY <1>1, Zenon DEF aggregateByInterval
<1>4. \A k : r(k) = m(k) BY Zenon
<1> HIDE DEF r, m, bs
<1> QED BY <1>2, <1>3, <1>4

\* The bounds and windows of a query are numbers.
LEMMA BoundsType == (\A x \in {0} \cup {t + 1 : t \in Moments} : x \in Nat) /\ \A w \in 1..2 : w \in Nat
<1>1. \A t \in Moments : t + 1 \in Nat BY MetricsAssumption
<1> QED BY <1>1

\* A query by interval that names its aggregation, has no snapshot in the seconds of its
\* bounds and no limit has one answer.
LEMMA SameAnswer ==
  ASSUME NEW s \in Seq(Snap), NEW q, q.start \in Nat, q.end \in Nat, q.agg # "", q.limit = 0,
         \A i \in DOMAIN s : Unix(s[i].time) \notin {Unix(q.start), Unix(q.end)}
  PROVE  RedisQuery(s, q) = MemoryQuery(s, q)
<1> DEFINE me == {i \in DOMAIN s : q.start < s[i].time /\ s[i].time < q.end}
           re == {i \in DOMAIN s : Unix(q.start) <= Unix(s[i].time) /\ Unix(s[i].time) <= Unix(q.end)}
<1>1. ASSUME NEW i \in DOMAIN s PROVE i \in me <=> i \in re
  <2> DEFINE t == s[i].time
             a == q.start
             b == q.end
  <2>1. t \in Nat /\ a \in Nat /\ b \in Nat /\ Unix(t) # Unix(a) /\ Unix(t) # Unix(b) BY SnapsCounted
  <2> HIDE DEF t, a, b
  <2>2. Unix(t) \in Nat /\ Unix(a) \in Nat /\ Unix(b) \in Nat BY <2>1, UnixRises
  <2>3. (a <= t => Unix(a) <= Unix(t)) /\ (t <= a => Unix(t) <= Unix(a)) BY <2>1, UnixRises
  <2>4. (b <= t => Unix(b) <= Unix(t)) /\ (t <= b => Unix(t) <= Unix(b)) BY <2>1, UnixRises
  <2>5. (Unix(a) <= Unix(t) /\ Unix(t) <= Unix(b)) <=> (a < t /\ t < b) BY ONLY <2>1, <2>2, <2>3, <2>4
  <2> QED BY <2>5 DEF t, a, b
<1>2. me = re BY <1>1
<1> DEFINE out == aggregateByInterval(Kept(s, me), q.interval, q.agg, "memory")
<1>3. MemoryQuery(s, q) = IF q.limit > 0 /\ Len(out) > q.limit THEN SubSeq(out, 1, q.limit) ELSE out
  BY Zenon DEF MemoryQuery, Keeping, Kept
<1>4. MemoryQuery(s, q) = out
  <2> HIDE DEF out
  <2>1. q.limit = 0 OBVIOUS
  <2>2. ~(q.limit > 0) BY ONLY <2>1
  <2> QED BY <1>3, <2>2, Zenon
<1>5. RedisQuery(s, q) = aggregateByInterval(Kept(s, re), q.interval, q.agg, "redis")
  BY Zenon DEF RedisQuery, Keeping, Kept
<1>6. \A in, w : aggregateByInterval(in, w, q.agg, "redis") = aggregateByInterval(in, w, q.agg, "memory")
  <2>1. \A b : RedisAggregate(b, q.agg) = MemoryAggregate(b, q.agg) BY Zenon DEF RedisAggregate
  <2> QED BY <2>1, SameAggregates, Zenon
<1> HIDE DEF me, re
<1> QED BY <1>2, <1>4, <1>5, <1>6

\* Memory and Redis answer alike, whatever memory holds.
LEMMA Transparent == ASSUME stores.memory \in Seq(Snap) PROVE UpgradeTransparent
<1>1. ASSUME NEW w \in 1..2
      PROVE  SecondsOf(RedisLatest(stores.memory, w)) = SecondsOf(MemoryLatest(stores.memory, w))
  <2>1. w \in Nat BY BoundsType, Zenon
  <2> QED BY <2>1, SameLatest, Zenon
<1>2. ASSUME NEW agg \in Aggregations \ {""}, NEW from \in {0} \cup {t + 1 : t \in Moments},
             NEW to \in {0} \cup {t + 1 : t \in Moments}, NEW w \in 1..2,
             \A i \in DOMAIN stores.memory : Unix(stores.memory[i].time) \notin {Unix(from), Unix(to)}
      PROVE  LET q == [start |-> from, end |-> to, agg |-> agg, interval |-> w, limit |-> 0] IN
               RedisQuery(stores.memory, q) = MemoryQuery(stores.memory, q)
  <2> DEFINE q == [start |-> from, end |-> to, agg |-> agg, interval |-> w, limit |-> 0]
  <2>1. from \in Nat /\ to \in Nat BY BoundsType, Zenon
  <2>2. q.start \in Nat /\ q.end \in Nat /\ q.agg # "" /\ q.limit = 0 /\ q.start = from /\ q.end = to
    <3>1. agg # "" OBVIOUS
    <3> QED BY <2>1, <3>1
  <2> HIDE DEF q
  <2>3. RedisQuery(stores.memory, q) = MemoryQuery(stores.memory, q) BY <1>2, <2>2, SameAnswer
  <2> QED BY <2>3 DEF q
<1> QED BY <1>1, <1>2, Zenon DEF UpgradeTransparent

-----------------------------------------------------------------------------
(* Where the snapshots are                                                 *)

Storages == {"memory", "redis"}
StoresType == [memory : Seq(Snap), redis : Seq(Snap), lost : Seq(Snap), cleaned : Int]
ColType == [stopped : BOOLEAN, mu : {Free, "stop", "report"}, left : 0..3, ticker : BOOLEAN,
            chan : {"open", "closed", "nil"}, storage : {"memory", "redis"}]
UnitType == [gen : Nat, live : BOOLEAN, calls : Nat, orphans : Nat]
UsedType == [snapshots : Nat, ticks : Nat, faults : Nat, now : Moments]
RecorderType == [Recorders -> [pc : {"idle", "lookup", "count", "store"}, gen : Nat]]

\* The recorders that took a snapshot in and did not store it yet.
Busy(rec) == {r \in Recorders : rec[r].pc # "idle"}

Total(p, st, storage) == Len(p) + Len(st[storage]) + Len(st.lost) + st.cleaned

\* What is in hand is what was taken in; after Stop some of it is dropped.
Account(total, busy, taken, stopped) == total + busy <= taken /\ (~stopped => total + busy = taken)

\* Only the storage in use has snapshots before the upgrade, and only it can be under cleanup.
MemoryFirst(storage, st, cl) == storage = "memory" => st.redis = <<>> /\ cl.storage # "redis"

MInv ==
  /\ mset \in MSetups /\ col \in ColType /\ unit \in UnitType
  /\ flusher \in {"select", "wait", "deaf", "tick", "done", "panic"}
  /\ stopper \in {"no", "ticker", "chan", "wait", "done"}
  /\ pending \in Seq(Snap) /\ Len(pending) < Batch /\ stores \in StoresType
  /\ recorder \in RecorderType /\ used \in UsedType
  /\ cleaner = NoCleanup \/ cleaner.storage \in Storages
  /\ col.mu = "report" => ~col.stopped /\ col.left \in 1..3
  /\ MemoryFirst(col.storage, stores, cleaner)
  /\ Account(Total(pending, stores, col.storage), Cardinality(Busy(recorder)), used.snapshots, col.stopped)

\* The recorders between their count and their snapshot.
LEMMA BusyCounts ==
  ASSUME NEW rec \in RecorderType
  PROVE  IsFiniteSet(Busy(rec)) /\ Cardinality(Busy(rec)) \in Nat
<1>1. IsFiniteSet(Recorders) BY MetricsAssumption
<1>2. Busy(rec) \subseteq Recorders BY DEF Busy
<1>3. IsFiniteSet(Busy(rec)) BY <1>1, <1>2, FS_Subset
<1> QED BY <1>3, FS_CardinalityType

\* One recorder more, or less.
LEMMA BusyMoves ==
  ASSUME NEW rec \in RecorderType, NEW r \in Recorders, NEW x \in [pc : {"idle", "lookup", "count", "store"}, gen : Nat]
  PROVE  /\ [rec EXCEPT ![r] = x] \in RecorderType
         /\ (rec[r].pc = "idle" /\ x.pc # "idle")
              => Cardinality(Busy([rec EXCEPT ![r] = x])) = Cardinality(Busy(rec)) + 1
         /\ (rec[r].pc # "idle" /\ x.pc = "idle")
              => Cardinality(Busy([rec EXCEPT ![r] = x])) = Cardinality(Busy(rec)) - 1
         /\ (rec[r].pc # "idle" /\ x.pc # "idle") => Busy([rec EXCEPT ![r] = x]) = Busy(rec)
<1> DEFINE new == [rec EXCEPT ![r] = x]
<1>1. new \in RecorderType BY DEF RecorderType
<1>2. \A q \in Recorders : new[q] = IF q = r THEN x ELSE rec[q] BY DEF RecorderType
<1> HIDE DEF new
<1>3. IsFiniteSet(Busy(rec)) /\ Cardinality(Busy(rec)) \in Nat BY BusyCounts
<1>4. ASSUME rec[r].pc = "idle", x.pc # "idle" PROVE Cardinality(Busy(new)) = Cardinality(Busy(rec)) + 1
  <2>1. Busy(new) = Busy(rec) \cup {r} /\ r \notin Busy(rec) BY <1>2, <1>4 DEF Busy
  <2> QED BY <1>3, <2>1, FS_AddElement
<1>5. ASSUME rec[r].pc # "idle", x.pc = "idle" PROVE Cardinality(Busy(new)) = Cardinality(Busy(rec)) - 1
  <2>1. Busy(new) = Busy(rec) \ {r} /\ r \in Busy(rec) BY <1>2, <1>5 DEF Busy
  <2> QED BY <1>3, <2>1, FS_RemoveElement
<1>6. ASSUME rec[r].pc # "idle", x.pc # "idle" PROVE Busy(new) = Busy(rec) BY <1>2, <1>6 DEF Busy
<1> QED BY <1>1, <1>4, <1>5, <1>6 DEF new

\* The places of a snapshot, added up.
LEMMA TotalType ==
  ASSUME NEW p \in Seq(Snap), NEW st \in StoresType, NEW storage \in Storages
  PROVE  Total(p, st, storage) \in Int
<1>1. st.memory \in Seq(Snap) /\ st.redis \in Seq(Snap) /\ st.lost \in Seq(Snap) /\ st.cleaned \in Int BY DEF StoresType
<1>2. st[storage] \in Seq(Snap) BY <1>1 DEF Storages
<1>3. Len(p) \in Nat /\ Len(st[storage]) \in Nat /\ Len(st.lost) \in Nat /\ st.cleaned \in Int BY <1>1, <1>2
<1> DEFINE a == Len(p)
           b == Len(st[storage])
           c == Len(st.lost)
           d == st.cleaned
<1>4. Total(p, st, storage) = a + b + c + d BY Zenon DEF Total
<1>5. a \in Nat /\ b \in Nat /\ c \in Nat /\ d \in Int BY <1>3
<1> HIDE DEF a, b, c, d
<1> QED BY ONLY <1>4, <1>5

\* The parts of the stores.
LEMMA StoresParts ==
  ASSUME NEW st \in StoresType
  PROVE  /\ st.memory \in Seq(Snap) /\ st.redis \in Seq(Snap) /\ st.lost \in Seq(Snap) /\ st.cleaned \in Int
         /\ Len(st.memory) \in Int /\ Len(st.redis) \in Int /\ Len(st.lost) \in Int
         /\ \A g \in Storages : st[g] \in Seq(Snap) /\ Len(st[g]) \in Int
<1>1. st.memory \in Seq(Snap) /\ st.redis \in Seq(Snap) /\ st.lost \in Seq(Snap) /\ st.cleaned \in Int BY DEF StoresType
<1>2. \A g \in Storages : st[g] \in Seq(Snap) BY <1>1 DEF Storages
<1>3. \A s \in Seq(Snap) : Len(s) \in Int OBVIOUS
<1> QED BY <1>1, <1>2, <1>3, Zenon

\* Two sequences of snapshots, joined.
LEMMA Joined ==
  ASSUME NEW s \in Seq(Snap), NEW t \in Seq(Snap) PROVE s \o t \in Seq(Snap) /\ Len(s \o t) = Len(s) + Len(t)
OBVIOUS

\* A flush moves the buffer.
LEMMA FlushMoves ==
  ASSUME stores \in StoresType, col.storage \in Storages, NEW buffer \in Seq(Snap), NEW failed \in BOOLEAN,
         flushUnsafe(buffer, failed)
  PROVE  /\ pending' = <<>> /\ stores' \in StoresType
         /\ Total(<<>>, stores', col.storage) = Total(buffer, stores, col.storage)
         /\ col.storage = "memory" => stores'.redis = stores.redis
<1>0. pending' = <<>> BY DEF flushUnsafe
<1> DEFINE st == stores
           g == col.storage
<1>1. st.memory \in Seq(Snap) /\ st.redis \in Seq(Snap) /\ st.lost \in Seq(Snap) /\ st.cleaned \in Int BY DEF StoresType
<1>2. Len(<<>>) = 0 /\ Len(buffer) \in Int OBVIOUS
<1> DEFINE n == Len(buffer)
           b == Len(stores[g])
           c == Len(stores.lost)
           d == stores.cleaned
<1>6. n \in Int /\ b \in Int /\ c \in Int /\ d \in Int /\ Len(stores.memory) \in Int /\ Len(stores.redis) \in Int
  BY <1>2, StoresParts
<1>7. Total(buffer, stores, g) = n + b + c + d BY Zenon DEF Total
<1>3. CASE failed
  <2> DEFINE new == st.lost \o buffer
  <2>1. new \in Seq(Snap) /\ Len(new) = Len(st.lost) + Len(buffer) BY <1>1, Joined
  <2> HIDE DEF new
  <2>2. stores' = [stores EXCEPT !.lost = new] BY <1>3 DEF flushUnsafe, new
  <2>3. stores' \in StoresType /\ stores'.memory = st.memory /\ stores'.redis = st.redis /\ stores'.lost = new /\ stores'.cleaned = st.cleaned
    BY <2>1, <2>2 DEF StoresType
  <2> DEFINE su == stores'
  <2>4. Len(su[g]) = b /\ Len(su.lost) = c + n /\ su.cleaned = d
    <3>1. su[g] = stores[g] BY <2>3 DEF Storages
    <3> QED BY <2>1, <2>3, <3>1
  <2>5. Total(<<>>, su, g) = 0 + b + (c + n) + d BY <1>2, <2>4, Zenon DEF Total
  <2> HIDE DEF su, n, b, c, d
  <2>6. Total(<<>>, su, g) = Total(buffer, stores, g) BY ONLY <1>6, <1>7, <2>5
  <2> QED BY <1>0, <2>3, <2>6 DEF su
<1>4. CASE ~failed /\ g = "memory"
  <2> DEFINE new == st.memory \o buffer
  <2>1. new \in Seq(Snap) /\ Len(new) = Len(st.memory) + Len(buffer) BY <1>1, Joined
  <2> HIDE DEF new
  <2>2. stores' = [stores EXCEPT !.memory = new] BY <1>4 DEF flushUnsafe, StoreBatch, MemoryStoreBatch, new
  <2>3. stores' \in StoresType /\ stores'.memory = new /\ stores'.redis = st.redis /\ stores'.lost = st.lost /\ stores'.cleaned = st.cleaned
    BY <2>1, <2>2 DEF StoresType
  <2> DEFINE su == stores'
  <2>4. Len(su[g]) = b + n /\ Len(su.lost) = c /\ su.cleaned = d
    <3>1. su[g] = new /\ stores[g] = stores.memory BY <1>4, <2>3
    <3> QED BY <2>1, <2>3, <3>1
  <2>5. Total(<<>>, su, g) = 0 + (b + n) + c + d BY <1>2, <2>4, Zenon DEF Total
  <2> HIDE DEF su, n, b, c, d
  <2>6. Total(<<>>, su, g) = Total(buffer, stores, g) BY ONLY <1>6, <1>7, <2>5
  <2> QED BY <1>0, <2>3, <2>6 DEF su
<1>5. CASE ~failed /\ g = "redis"
  <2> DEFINE new == st.redis \o buffer
  <2>1. new \in Seq(Snap) /\ Len(new) = Len(st.redis) + Len(buffer) BY <1>1, Joined
  <2> HIDE DEF new
  <2>2. stores' = [stores EXCEPT !.redis = new] BY <1>5 DEF flushUnsafe, StoreBatch, RedisStoreBatch, new
  <2>3. stores' \in StoresType /\ stores'.memory = st.memory /\ stores'.redis = new /\ stores'.lost = st.lost /\ stores'.cleaned = st.cleaned
    BY <2>1, <2>2 DEF StoresType
  <2> DEFINE su == stores'
  <2>4. Len(su[g]) = b + n /\ Len(su.lost) = c /\ su.cleaned = d
    <3>1. su[g] = new /\ stores[g] = stores.redis BY <1>5, <2>3
    <3> QED BY <2>1, <2>3, <3>1
  <2>5. Total(<<>>, su, g) = 0 + (b + n) + c + d BY <1>2, <2>4, Zenon DEF Total
  <2> HIDE DEF su, n, b, c, d
  <2>6. Total(<<>>, su, g) = Total(buffer, stores, g) BY ONLY <1>6, <1>7, <2>5
  <2> QED BY <1>0, <1>5, <2>3, <2>6 DEF su
<1> QED BY <1>3, <1>4, <1>5 DEF Storages

\* A batch that was lost or stored changes no count of snapshots.
LEMMA OutcomeCounts ==
  ASSUME NEW u \in UsedType, NEW failed \in BOOLEAN, BatchOutcome(failed, u)
  PROVE  used' \in UsedType /\ used'.snapshots = u.snapshots
<1>1. used' = u \/ used' = [u EXCEPT !.faults = @ + 1] BY DEF BatchOutcome
<1> QED BY <1>1 DEF UsedType

\* A snapshot is stored, unless the collector was stopped.
LEMMA StoreKeeps ==
  ASSUME MInv, NEW s \in Snap, NEW u \in UsedType, storeSnapshotUnsafe(s, u)
  PROVE  /\ pending' \in Seq(Snap) /\ Len(pending') < Batch /\ stores' \in StoresType
         /\ used' \in UsedType /\ used'.snapshots = u.snapshots
         /\ col.stopped => Total(pending', stores', col.storage) = Total(pending, stores, col.storage)
         /\ ~col.stopped => Total(pending', stores', col.storage) = Total(pending, stores, col.storage) + 1
         /\ col.storage = "memory" => stores'.redis = stores.redis
<1>1. pending \in Seq(Snap) /\ Len(pending) < Batch /\ stores \in StoresType /\ col.storage \in Storages
  BY DEF MInv, ColType, Storages
<1>2. CASE col.stopped
  <2>1. used' = u /\ pending' = pending /\ stores' = stores BY <1>2 DEF storeSnapshotUnsafe
  <2> QED BY <1>1, <1>2, <2>1
<1>3. CASE ~col.stopped
  <2> DEFINE buffer == Append(pending, s)
  <2>1. buffer \in Seq(Snap) /\ Len(buffer) = Len(pending) + 1 BY <1>1
  <2>2. Total(buffer, stores, col.storage) = Total(pending, stores, col.storage) + 1
    <3>1. Len(pending) \in Nat /\ Len(stores[col.storage]) \in Nat /\ Len(stores.lost) \in Nat /\ stores.cleaned \in Int
      <4>1. stores.memory \in Seq(Snap) /\ stores.redis \in Seq(Snap) /\ stores.lost \in Seq(Snap) /\ stores.cleaned \in Int
        BY <1>1 DEF StoresType
      <4>2. stores[col.storage] \in Seq(Snap) BY <1>1, <4>1 DEF Storages
      <4> QED BY <1>1, <4>1, <4>2
    <3> HIDE DEF buffer
    <3> DEFINE m == Len(pending)
               b == Len(stores[col.storage])
               c == Len(stores.lost)
               d == stores.cleaned
    <3>2. Total(buffer, stores, col.storage) = (m + 1) + b + c + d BY <2>1, Zenon DEF Total
    <3>3. Total(pending, stores, col.storage) = m + b + c + d BY Zenon DEF Total
    <3> HIDE DEF m, b, c, d
    <3>4. m \in Int /\ b \in Int /\ c \in Int /\ d \in Int BY <3>1 DEF m, b, c, d
    <3> QED BY ONLY <3>2, <3>3, <3>4
  <2>3. CASE Len(buffer) >= Batch
    <3>1. PICK failed \in BOOLEAN : BatchOutcome(failed, u) /\ flushUnsafe(buffer, failed)
      BY <1>3, <2>3 DEF storeSnapshotUnsafe
    <3> HIDE DEF buffer
    <3>2. used' \in UsedType /\ used'.snapshots = u.snapshots BY <3>1, OutcomeCounts
    <3>3. /\ pending' = <<>> /\ stores' \in StoresType
          /\ Total(<<>>, stores', col.storage) = Total(buffer, stores, col.storage)
          /\ col.storage = "memory" => stores'.redis = stores.redis
      BY <1>1, <2>1, <3>1, FlushMoves
    <3>4. <<>> \in Seq(Snap) /\ Len(<<>>) < Batch BY MetricsAssumption
    <3> QED BY <1>3, <2>2, <3>2, <3>3, <3>4
  <2>4. CASE ~(Len(buffer) >= Batch)
    <3>1. pending' = buffer /\ used' = u /\ stores' = stores BY <1>3, <2>4 DEF storeSnapshotUnsafe
    <3>2. Len(buffer) < Batch
      <4>1. Len(buffer) \in Nat /\ Batch \in Nat BY <2>1, MetricsAssumption
      <4> HIDE DEF buffer
      <4> QED BY <2>4, <4>1
    <3> HIDE DEF buffer
    <3> QED BY <1>1, <1>3, <2>1, <2>2, <3>1, <3>2
  <2> QED BY <2>3, <2>4
<1> QED BY <1>2, <1>3

\* A new collector satisfies the invariant.
LEMMA CollectorStarts == MInit => MInv
<1> SUFFICES ASSUME MInit PROVE MInv OBVIOUS
<1>1. mset \in MSetups /\ NewCollector /\ stopper = "no" /\ cleaner = NoCleanup BY DEF MInit
<1>2. /\ col = [stopped |-> FALSE, mu |-> Free, left |-> 0, ticker |-> TRUE, chan |-> "open", storage |-> "memory"]
      /\ pending = <<>> /\ stores = [memory |-> <<>>, redis |-> <<>>, lost |-> <<>>, cleaned |-> 0]
      /\ unit = [gen |-> 0, live |-> FALSE, calls |-> 0, orphans |-> 0] /\ flusher = "select"
  BY <1>1 DEF NewCollector
<1>3. col \in ColType /\ col.mu # "report" /\ col.storage = "memory" /\ ~col.stopped BY <1>2 DEF ColType, Free
<1>4. unit \in UnitType BY <1>2 DEF UnitType
<1>5. <<>> \in Seq(Snap) /\ Len(<<>>) = 0 /\ Len(<<>>) < Batch BY MetricsAssumption
<1>6. stores \in StoresType /\ stores.memory = <<>> /\ stores.redis = <<>> /\ stores.lost = <<>> /\ stores.cleaned = 0
  BY <1>2, <1>5 DEF StoresType
<1>7. Min(Moments) \in Moments
  <2>1. \E x \in Moments : \A y \in Moments : x <= y BY MetricsAssumption, LeastNumber
  <2> QED BY <2>1 DEF Min
<1>8. used \in UsedType /\ used.snapshots = 0 BY <1>7 DEF MInit, UsedType
<1>9. recorder \in RecorderType /\ Busy(recorder) = {} BY DEF MInit, RecorderType, Busy
<1>10. Cardinality(Busy(recorder)) = 0 BY <1>9, FS_EmptySet
<1>11. Total(pending, stores, col.storage) = 0
  <2>1. Total(pending, stores, col.storage) = 0 + 0 + 0 + 0 BY <1>2, <1>3, <1>5, <1>6 DEF Total
  <2> QED BY <2>1
<1>12. Account(Total(pending, stores, col.storage), Cardinality(Busy(recorder)), used.snapshots, col.stopped)
  BY <1>8, <1>10, <1>11 DEF Account
<1>13. MemoryFirst(col.storage, stores, cleaner) BY <1>1, <1>6 DEF MemoryFirst, NoCleanup
<1> QED BY <1>1, <1>2, <1>3, <1>4, <1>5, <1>6, <1>8, <1>9, <1>12, <1>13 DEF MInv

\* The invariant implies what the run checks of the collector.
LEMMA CollectorPromise == ASSUME MInv PROVE CollectorSound
<1>1. MTypeOK BY DEF MInv, MTypeOK, ColType, UnitType
<1>2. UpgradeTransparent BY Transparent DEF MInv, StoresType
<1>3. SnapshotsConserved
  <2> DEFINE t == Total(pending, stores, col.storage)
             b == Cardinality(Busy(recorder))
             n == used.snapshots
  <2>1. t + b <= n /\ (~col.stopped => t + b = n) BY DEF MInv, Account
  <2>2. t \in Int BY TotalType DEF MInv, ColType, Storages
  <2>3. b \in Nat BY BusyCounts DEF MInv
  <2>4. n \in Nat BY DEF MInv, UsedType
  <2>5. (\A r \in Recorders : recorder[r].pc = "idle") => b = 0
    <3> SUFFICES ASSUME \A r \in Recorders : recorder[r].pc = "idle" PROVE b = 0 OBVIOUS
    <3>1. Busy(recorder) = {} BY DEF Busy
    <3> QED BY <3>1, FS_EmptySet
  <2>6. t = Len(pending) + Len(stores[col.storage]) + Len(stores.lost) + stores.cleaned BY Zenon DEF Total
  <2>7. Len(pending) < Batch BY DEF MInv
  <2> HIDE DEF t, b, n
  <2>8. t <= n /\ ((~col.stopped /\ \A r \in Recorders : recorder[r].pc = "idle") => t = n) BY <2>1, <2>2, <2>3, <2>4, <2>5
  <2> QED BY <2>6, <2>7, <2>8 DEF SnapshotsConserved, n
<1> QED BY <1>1, <1>2, <1>3 DEF CollectorSound

\* Nothing that counts is touched: the clock, the ticker, the unit.
LEMMA Unrelated ==
  ASSUME MInv, UNCHANGED <<mset, pending, stores, cleaner>>, col' \in ColType, col'.storage = col.storage,
         col'.stopped = col.stopped \/ col'.stopped = TRUE, unit' \in UnitType,
         flusher' \in {"select", "wait", "deaf", "tick", "done", "panic"},
         stopper' \in {"no", "ticker", "chan", "wait", "done"},
         recorder' \in RecorderType, Cardinality(Busy(recorder')) = Cardinality(Busy(recorder)),
         used' \in UsedType, used'.snapshots = used.snapshots,
         col'.mu = "report" => ~col'.stopped /\ col'.left \in 1..3
  PROVE  MInv'
<1>1. Account(Total(pending, stores, col.storage), Cardinality(Busy(recorder)), used.snapshots, col.stopped)
      /\ MemoryFirst(col.storage, stores, cleaner)
  BY DEF MInv
<1>2. Account(Total(pending, stores, col.storage), Cardinality(Busy(recorder)), used.snapshots, col'.stopped)
  BY <1>1 DEF Account
<1> DEFINE rec == recorder'
           c == col'
           u == used'
<1>3. Account(Total(pending, stores, c.storage), Cardinality(Busy(rec)), u.snapshots, c.stopped) BY <1>2
<1>4. MemoryFirst(c.storage, stores, cleaner) BY <1>1
<1> HIDE DEF rec, c, u
<1> QED BY <1>3, <1>4 DEF MInv, rec, c, u

\* The clock, and the flusher between batches.
LEMMA IdleSteps ==
  ASSUME MInv, Tick \/ FlushSelect \/ FlushTick \/ FlushEnd PROVE MInv'
<1>1. UNCHANGED <<mset, pending, stores, cleaner, col, unit, stopper, recorder>>
  BY DEF Tick, FlushSelect, FlushTick, FlushEnd
<1>2. flusher' \in {"select", "wait", "deaf", "tick", "done", "panic"}
  BY DEF MInv, Tick, FlushSelect, FlushTick, FlushEnd
<1>3. used' \in UsedType /\ used'.snapshots = used.snapshots
  <2>1. used \in UsedType BY DEF MInv
  <2>2. \/ used' = used \/ (used' = [used EXCEPT !.now = @ + 1] /\ used.now + 1 \in Moments)
        \/ used' = [used EXCEPT !.ticks = @ + 1]
    BY DEF Tick, FlushSelect, FlushTick, FlushEnd
  <2> QED BY <2>1, <2>2 DEF UsedType
<1>4. col \in ColType /\ (col.mu = "report" => ~col.stopped /\ col.left \in 1..3) /\ unit \in UnitType
      /\ stopper \in {"no", "ticker", "chan", "wait", "done"} /\ recorder \in RecorderType
  BY DEF MInv
<1> QED BY <1>1, <1>2, <1>3, <1>4, Unrelated

\* Stop, step by step, and the service discovery's numbers.
LEMMA LockSteps ==
  ASSUME MInv, Stop \/ StopTicker \/ StopChan \/ StopWait \/ UpdateServiceDiscoveryMetrics PROVE MInv'
<1>1. UNCHANGED <<mset, pending, stores, cleaner, unit, flusher, recorder, used>>
  BY DEF Stop, StopTicker, StopChan, StopWait, UpdateServiceDiscoveryMetrics
<1>2. stopper' \in {"no", "ticker", "chan", "wait", "done"}
  BY DEF MInv, Stop, StopTicker, StopChan, StopWait, UpdateServiceDiscoveryMetrics
<1>3. col \in ColType /\ (col.mu = "report" => ~col.stopped /\ col.left \in 1..3) /\ unit \in UnitType
      /\ recorder \in RecorderType /\ used \in UsedType /\ flusher \in {"select", "wait", "deaf", "tick", "done", "panic"}
  BY DEF MInv
<1>4. /\ col' \in ColType /\ col'.storage = col.storage /\ (col'.stopped = col.stopped \/ col'.stopped = TRUE)
      /\ (col'.mu = "report" => ~col'.stopped /\ col'.left \in 1..3)
  <2>1. CASE Stop BY <1>3, <2>1 DEF Stop, ColType, Free
  <2>2. CASE StopTicker BY <1>3, <2>2 DEF StopTicker, ColType, Free
  <2>3. CASE StopChan BY <1>3, <2>3 DEF StopChan, ColType, Free
  <2>4. CASE StopWait BY <1>3, <2>4 DEF StopWait, ColType, Free
  <2>5. CASE UpdateServiceDiscoveryMetrics
    <3>1. ~col.stopped /\ col' = [col EXCEPT !.mu = "report", !.left = 3] BY <2>5 DEF UpdateServiceDiscoveryMetrics
    <3>2. 3 \in 0..3 /\ 3 \in 1..3 OBVIOUS
    <3>3. col' \in ColType /\ col'.storage = col.storage /\ col'.left = 3 BY <1>3, <3>1, <3>2 DEF ColType
    <3>4. col'.stopped = col.stopped BY <1>3, <3>1 DEF ColType
    <3> QED BY <3>1, <3>2, <3>3, <3>4
  <2> QED BY <2>1, <2>2, <2>3, <2>4, <2>5
<1> QED BY <1>1, <1>2, <1>3, <1>4, Unrelated

\* A new generation of an extension's metrics.
LEMMA UnitMade ==
  ASSUME NEW w \in UnitType
  PROVE  /\ [w EXCEPT !.gen = @ + 1, !.live = TRUE, !.calls = 0] \in UnitType
         /\ [w EXCEPT !.live = FALSE, !.orphans = @ + w.calls, !.calls = 0] \in UnitType
<1> DEFINE g == w.gen + 1
           o == w.orphans + w.calls
<1>1. g \in Nat /\ o \in Nat /\ TRUE \in BOOLEAN /\ FALSE \in BOOLEAN /\ 0 \in Nat BY DEF UnitType
<1> HIDE DEF g, o
<1>2. [w EXCEPT !.gen = g, !.live = TRUE, !.calls = 0] \in UnitType BY <1>1, Zenon DEF UnitType
<1>3. [w EXCEPT !.live = FALSE, !.orphans = o, !.calls = 0] \in UnitType BY <1>1, Zenon DEF UnitType
<1> QED BY <1>2, <1>3 DEF g, o

\* A recorder finds its counters and counts.
LEMMA CountingSteps ==
  ASSUME MInv, NEW r \in Recorders, getOrCreateExtensionMetrics(r) \/ CountCall(r) PROVE MInv'
<1>1. UNCHANGED <<mset, pending, stores, cleaner, col, flusher, stopper, used>> BY DEF getOrCreateExtensionMetrics, CountCall
<1>2. col \in ColType /\ (col.mu = "report" => ~col.stopped /\ col.left \in 1..3) /\ unit \in UnitType
      /\ stopper \in {"no", "ticker", "chan", "wait", "done"} /\ flusher \in {"select", "wait", "deaf", "tick", "done", "panic"}
      /\ recorder \in RecorderType /\ used \in UsedType
  BY DEF MInv
<1>3. unit' \in UnitType
  <2>1. CASE getOrCreateExtensionMetrics(r)
    <3>1. unit' = unit \/ unit' = [unit EXCEPT !.gen = @ + 1, !.live = TRUE, !.calls = 0]
      BY <2>1 DEF getOrCreateExtensionMetrics
    <3>2. CASE unit' = unit BY <1>2, <3>2
    <3>3. CASE unit' = [unit EXCEPT !.gen = @ + 1, !.live = TRUE, !.calls = 0] BY <1>2, <3>3, UnitMade
    <3> QED BY <3>1, <3>2, <3>3
  <2>2. CASE CountCall(r)
    <3>1. unit' = [unit EXCEPT !.calls = @ + 1] \/ unit' = [unit EXCEPT !.orphans = @ + 1] BY <2>2 DEF CountCall
    <3> QED BY <1>2, <3>1 DEF UnitType
  <2> QED BY <2>1, <2>2
<1>4. recorder[r].pc \in {"lookup", "count"} BY DEF getOrCreateExtensionMetrics, CountCall
<1>5. \E x \in [pc : {"idle", "lookup", "count", "store"}, gen : Nat] : recorder' = [recorder EXCEPT ![r] = x] /\ x.pc # "idle"
  <2>1. CASE getOrCreateExtensionMetrics(r)
    <3> DEFINE x == [pc |-> "count", gen |-> unit'.gen]
    <3>1. recorder' = [recorder EXCEPT ![r] = x] BY <2>1 DEF getOrCreateExtensionMetrics
    <3>2. x \in [pc : {"idle", "lookup", "count", "store"}, gen : Nat] /\ x.pc # "idle" BY <1>3 DEF UnitType
    <3> HIDE DEF x
    <3> QED BY <3>1, <3>2
  <2>2. CASE CountCall(r)
    <3> DEFINE x == [recorder[r] EXCEPT !.pc = "store"]
    <3>1. recorder' = [recorder EXCEPT ![r] = x] BY <2>2 DEF CountCall
    <3>2. x \in [pc : {"idle", "lookup", "count", "store"}, gen : Nat] /\ x.pc # "idle" BY <1>2 DEF RecorderType
    <3> HIDE DEF x
    <3> QED BY <3>1, <3>2
  <2> QED BY <2>1, <2>2
<1>6. recorder' \in RecorderType /\ Cardinality(Busy(recorder')) = Cardinality(Busy(recorder))
  <2>1. PICK x \in [pc : {"idle", "lookup", "count", "store"}, gen : Nat] :
          recorder' = [recorder EXCEPT ![r] = x] /\ x.pc # "idle"
    BY <1>5
  <2>2. recorder[r].pc # "idle" BY <1>4
  <2>3. /\ [recorder EXCEPT ![r] = x] \in RecorderType /\ Busy([recorder EXCEPT ![r] = x]) = Busy(recorder)
    BY <1>2, <2>1, <2>2, BusyMoves
  <2> QED BY <2>1, <2>3
<1> QED BY <1>1, <1>2, <1>3, <1>6, Unrelated

\* A recorder is on its way to a snapshot.
LEMMA CountedStep == ASSUME MInv, NEW r \in Recorders, Counted(r) PROVE MInv'
<1> DEFINE x == [recorder[r] EXCEPT !.pc = "lookup"]
           t == Total(pending, stores, col.storage)
           b == Cardinality(Busy(recorder))
           n == used.snapshots
<1>1. UNCHANGED <<mset, cleaner, col, pending, stores, unit, flusher, stopper>> BY DEF Counted
<1>2. recorder' = [recorder EXCEPT ![r] = x] /\ recorder[r].pc = "idle" BY DEF Counted
<1>3. recorder \in RecorderType /\ used \in UsedType BY DEF MInv
<1>4. x \in [pc : {"idle", "lookup", "count", "store"}, gen : Nat] /\ x.pc # "idle" BY <1>3 DEF RecorderType
<1>5. used' \in UsedType /\ used'.snapshots = n + 1 BY <1>3 DEF Counted, UsedType
<1> HIDE DEF x
<1>6. recorder' \in RecorderType /\ Cardinality(Busy(recorder')) = b + 1 BY <1>2, <1>3, <1>4, BusyMoves
<1>7. t \in Int BY TotalType DEF MInv, ColType, Storages
<1>8. b \in Nat /\ n \in Nat BY <1>3, BusyCounts DEF UsedType
<1>9. Account(t, b, n, col.stopped) BY DEF MInv
<1> HIDE DEF t, b, n
<1>10. Account(t, b + 1, n + 1, col.stopped) BY <1>7, <1>8, <1>9 DEF Account
<1> DEFINE rec == recorder'
           u == used'
<1>11. Account(t, Cardinality(Busy(rec)), u.snapshots, col.stopped) BY <1>5, <1>6, <1>10
<1> HIDE DEF rec, u
<1> QED BY <1>1, <1>5, <1>6, <1>11 DEF MInv, t, rec, u

\* A snapshot is stored; d is by how much what was taken in, less what is on its way, grows.
LEMMA StoredAccounts ==
  ASSUME MInv, NEW s \in Snap, NEW u \in UsedType, storeSnapshotUnsafe(s, u),
         NEW rec \in RecorderType, recorder' = rec,
         \/ u.snapshots = used.snapshots + 1 /\ Cardinality(Busy(rec)) = Cardinality(Busy(recorder)) /\ ~col.stopped
         \/ u.snapshots = used.snapshots /\ Cardinality(Busy(rec)) = Cardinality(Busy(recorder)) - 1,
         mset' = mset, cleaner' = cleaner, stopper' = stopper, flusher' = flusher, unit' \in UnitType,
         col' \in ColType, col'.stopped = col.stopped, col'.storage = col.storage,
         col'.mu = "report" => ~col'.stopped /\ col'.left \in 1..3
  PROVE  MInv'
<1> DEFINE t == Total(pending, stores, col.storage)
           b == Cardinality(Busy(recorder))
           n == used.snapshots
           t2 == Total(pending', stores', col.storage)
           b2 == Cardinality(Busy(rec))
<1>1. /\ pending' \in Seq(Snap) /\ Len(pending') < Batch /\ stores' \in StoresType
      /\ used' \in UsedType /\ used'.snapshots = u.snapshots
      /\ col.storage = "memory" => stores'.redis = stores.redis
  BY StoreKeeps
<1>2. (col.stopped => t2 = t) /\ (~col.stopped => t2 = t + 1) BY StoreKeeps
<1>3. t \in Int BY TotalType DEF MInv, ColType, Storages
<1>4. b \in Nat /\ n \in Nat BY BusyCounts DEF MInv, UsedType
<1>5. b2 \in Nat BY BusyCounts
<1>6. Account(t, b, n, col.stopped) BY DEF MInv
<1>7. \/ u.snapshots = n + 1 /\ b2 = b /\ ~col.stopped
      \/ u.snapshots = n /\ b2 = b - 1
  OBVIOUS
<1> HIDE DEF t, b, n, t2, b2
<1>8. Account(t2, b2, u.snapshots, col.stopped) BY <1>2, <1>3, <1>4, <1>5, <1>6, <1>7 DEF Account
<1>9. MemoryFirst(col.storage, stores', cleaner)
  <2>1. MemoryFirst(col.storage, stores, cleaner) BY DEF MInv
  <2> QED BY <1>1, <2>1 DEF MemoryFirst
<1> DEFINE c == col'
           st == stores'
           v == used'
           p == pending'
<1>10. Account(Total(p, st, c.storage), Cardinality(Busy(rec)), v.snapshots, c.stopped) BY <1>1, <1>8 DEF t2, b2
<1>11. MemoryFirst(c.storage, st, cleaner) BY <1>9
<1> HIDE DEF c, st, v, p
<1> QED BY <1>1, <1>10, <1>11 DEF MInv, c, st, v, p

\* The snapshot of a value now.
LEMMA SnapIs == ASSUME used \in UsedType, NEW n \in Nat PROVE [value |-> n, time |-> used.now] \in Snap
<1>1. used.now \in Nat BY MetricsAssumption DEF UsedType
<1> QED BY <1>1 DEF Snap

\* The snapshot enters the buffer, and a full buffer is stored.
LEMMA storeSnapshotStep == ASSUME MInv, NEW r \in Recorders, storeSnapshot(r) PROVE MInv'
<1> DEFINE x == [pc |-> "idle", gen |-> 0]
           rec == [recorder EXCEPT ![r] = x]
<1>1. PICK v \in Vals : storeSnapshotUnsafe([value |-> v, time |-> used.now], used) BY DEF storeSnapshot
<1>2. used \in UsedType /\ recorder \in RecorderType /\ v \in Nat BY MetricsAssumption DEF MInv
<1>3. [value |-> v, time |-> used.now] \in Snap BY <1>2, SnapIs
<1>4. x \in [pc : {"idle", "lookup", "count", "store"}, gen : Nat] /\ x.pc = "idle" OBVIOUS
<1>5. recorder' = rec /\ recorder[r].pc # "idle" BY DEF storeSnapshot
<1>6. rec \in RecorderType /\ Cardinality(Busy(rec)) = Cardinality(Busy(recorder)) - 1 BY <1>2, <1>4, <1>5, BusyMoves
<1>7. UNCHANGED <<mset, cleaner, col, unit, flusher, stopper>> BY DEF storeSnapshot
<1>8. unit \in UnitType /\ col \in ColType /\ (col.mu = "report" => ~col.stopped /\ col.left \in 1..3) BY DEF MInv
<1> HIDE DEF rec
<1> QED BY <1>1, <1>2, <1>3, <1>5, <1>6, <1>7, <1>8, StoredAccounts

\* The bounds of a step that takes one in.
LEMMA OneTaken ==
  ASSUME used \in UsedType
  PROVE  [used EXCEPT !.snapshots = @ + 1] \in UsedType /\ [used EXCEPT !.snapshots = @ + 1].snapshots = used.snapshots + 1
BY DEF UsedType

\* Loading and unloading an extension take a snapshot.
LEMMA LifecycleSteps == ASSUME MInv, ExtensionLoaded \/ ExtensionUnloaded PROVE MInv'
<1> DEFINE u == [used EXCEPT !.snapshots = @ + 1]
<1>1. used \in UsedType /\ recorder \in RecorderType /\ unit \in UnitType /\ col \in ColType
      /\ (col.mu = "report" => ~col.stopped /\ col.left \in 1..3)
  BY DEF MInv
<1>2. ~col.stopped /\ UNCHANGED <<mset, cleaner, col, recorder, flusher, stopper>>
  BY DEF ExtensionLoaded, ExtensionUnloaded
<1>0. PICK n \in Nat : storeSnapshotUnsafe([value |-> n, time |-> used.now], u)
  <2>1. 1 \in Nat /\ \A v \in Vals : v \in Nat BY MetricsAssumption
  <2> QED BY <2>1, Zenon DEF ExtensionLoaded, ExtensionUnloaded
<1> DEFINE s == [value |-> n, time |-> used.now]
<1>6. storeSnapshotUnsafe(s, u) BY <1>0
<1>3. u \in UsedType /\ u.snapshots = used.snapshots + 1 BY <1>1, OneTaken
<1>4. s \in Snap BY <1>1, SnapIs
<1>5. unit' \in UnitType
  <2>1. \/ unit' = unit \/ unit' = [unit EXCEPT !.gen = @ + 1, !.live = TRUE, !.calls = 0]
        \/ unit' = [unit EXCEPT !.live = FALSE, !.orphans = @ + unit.calls, !.calls = 0]
    BY DEF ExtensionLoaded, ExtensionUnloaded
  <2> QED BY <1>1, <2>1, UnitMade
<1> HIDE DEF u, s
<1> QED BY <1>1, <1>2, <1>3, <1>4, <1>5, <1>6, StoredAccounts

\* So does a report.
LEMMA ReportSnapshotStep == ASSUME MInv, ReportSnapshot PROVE MInv'
<1> DEFINE u == [used EXCEPT !.snapshots = @ + 1]
           s == [value |-> 1, time |-> used.now]
<1>1. used \in UsedType /\ recorder \in RecorderType /\ unit \in UnitType /\ col \in ColType
      /\ (col.mu = "report" => ~col.stopped /\ col.left \in 1..3)
  BY DEF MInv
<1>2. storeSnapshotUnsafe(s, u) /\ col.mu = "report" /\ UNCHANGED <<mset, cleaner, unit, recorder, flusher, stopper>>
  BY DEF ReportSnapshot
<1>3. u \in UsedType /\ u.snapshots = used.snapshots + 1 BY <1>1, OneTaken
<1>4. s \in Snap BY <1>1, SnapIs
<1>5. /\ col' \in ColType /\ col'.stopped = col.stopped /\ col'.storage = col.storage
      /\ (col'.mu = "report" => ~col'.stopped /\ col'.left \in 1..3)
  <2> DEFINE l == col.left - 1
             m == IF col.left = 1 THEN Free ELSE col.mu
  <2>1. col' = [col EXCEPT !.left = l, !.mu = m] BY DEF ReportSnapshot
  <2>2. l \in 0..3 /\ m \in {Free, "stop", "report"} /\ (m = "report" => l \in 1..3) BY <1>1, <1>2 DEF Free
  <2> HIDE DEF l, m
  <2>3. col' \in ColType /\ col'.stopped = col.stopped /\ col'.storage = col.storage /\ col'.left = l /\ col'.mu = m
    BY <1>1, <2>1, <2>2 DEF ColType
  <2> QED BY <1>1, <1>2, <2>2, <2>3
<1> HIDE DEF u, s
<1> QED BY <1>1, <1>2, <1>3, <1>4, <1>5, StoredAccounts

\* The flusher stores what the buffer holds.
LEMMA FlushLockedStep == ASSUME MInv, FlushLocked PROVE MInv'
<1>1. UNCHANGED <<mset, cleaner, col, unit, recorder, stopper>> /\ flusher' = "select" BY DEF FlushLocked
<1>2. used \in UsedType /\ pending \in Seq(Snap) /\ stores \in StoresType /\ col.storage \in Storages
      /\ MemoryFirst(col.storage, stores, cleaner)
      /\ Account(Total(pending, stores, col.storage), Cardinality(Busy(recorder)), used.snapshots, col.stopped)
  BY DEF MInv, ColType, Storages
<1>3. CASE col.stopped
  <2>1. UNCHANGED <<pending, stores, used>> BY <1>3 DEF FlushLocked
  <2> QED BY <1>1, <2>1 DEF MInv
<1>4. CASE ~col.stopped
  <2>1. PICK failed \in BOOLEAN : BatchOutcome(failed, used) /\ flushUnsafe(pending, failed) BY <1>4 DEF FlushLocked
  <2>2. used' \in UsedType /\ used'.snapshots = used.snapshots BY <1>2, <2>1, OutcomeCounts
  <2>3. /\ pending' = <<>> /\ stores' \in StoresType
        /\ Total(<<>>, stores', col.storage) = Total(pending, stores, col.storage)
        /\ col.storage = "memory" => stores'.redis = stores.redis
    BY <1>2, <2>1, FlushMoves
  <2>4. <<>> \in Seq(Snap) /\ Len(<<>>) < Batch BY MetricsAssumption
  <2> DEFINE st == stores'
             u == used'
  <2>5. Account(Total(<<>>, st, col.storage), Cardinality(Busy(recorder)), u.snapshots, col.stopped) BY <1>2, <2>2, <2>3
  <2>6. MemoryFirst(col.storage, st, cleaner) BY <1>2, <2>3 DEF MemoryFirst
  <2> HIDE DEF st, u
  <2> QED BY <1>1, <2>2, <2>3, <2>4, <2>5, <2>6 DEF MInv, st, u
<1> QED BY <1>3, <1>4

\* A cleanup begins with the storage in use.
LEMMA CleanupOldMetricsStep == ASSUME MInv, NEW before \in Moments, CleanupOldMetrics(before) PROVE MInv'
<1>1. UNCHANGED <<mset, col, pending, stores, unit, recorder, flusher, stopper, used>>
      /\ cleaner' = [storage |-> col.storage, before |-> before]
  BY DEF CleanupOldMetrics
<1>2. col.storage \in Storages /\ MemoryFirst(col.storage, stores, cleaner) BY DEF MInv, ColType, Storages
<1> DEFINE cl == cleaner'
<1>3. cl.storage = col.storage BY <1>1
<1>4. MemoryFirst(col.storage, stores, cl) BY <1>2, <1>3 DEF MemoryFirst
<1> HIDE DEF cl
<1> QED BY <1>1, <1>2, <1>3, <1>4 DEF MInv, cl

\* A cleanup moves what it removes to the count of what was cleaned, unless the storage it
\* has in hand is no longer in use.
LEMMA CleanupStep == ASSUME MInv, Cleanup PROVE MInv'
<1> DEFINE h == cleaner.storage
           g == col.storage
           old == stores[h]
           new == IF h = "memory" THEN MemoryCleanup(old, cleaner.before) ELSE RedisCleanup(old, cleaner.before)
           gone == IF h = g THEN stores.cleaned + (Len(old) - Len(new)) ELSE stores.cleaned
<1>1. UNCHANGED <<mset, col, pending, unit, recorder, flusher, stopper, used>> /\ cleaner' = NoCleanup BY DEF Cleanup
<1>2. stores \in StoresType /\ g \in Storages /\ pending \in Seq(Snap) /\ MemoryFirst(g, stores, cleaner)
      /\ Account(Total(pending, stores, g), Cardinality(Busy(recorder)), used.snapshots, col.stopped)
  BY DEF MInv, ColType, Storages
<1>3. h \in Storages BY DEF MInv, Cleanup
<1>4. old \in Seq(Snap) BY <1>2, <1>3, StoresParts
<1>5. new \in Seq(Snap)
  <2> HIDE DEF old, h
  <2> QED BY <1>4, CleanupType
<1>6. stores' = [stores EXCEPT ![h] = new, !.cleaned = gone] BY DEF Cleanup
<1> DEFINE st == stores'
           o == Len(old)
           n == Len(new)
           p == Len(pending)
           l == Len(stores.lost)
           c == stores.cleaned
<1>7. o \in Int /\ n \in Int /\ p \in Int /\ l \in Int /\ c \in Int
  <2>1. o \in Int BY <1>4
  <2>2. n \in Int
    <3> HIDE DEF new
    <3> QED BY <1>5
  <2> HIDE DEF o, n
  <2> QED BY <1>2, <2>1, <2>2, StoresParts
<1>8. gone \in Int /\ (h = g => gone = c + (o - n)) /\ (h # g => gone = c)
  <2>1. CASE h = g
    <3>1. gone = c + (o - n) BY <2>1
    <3> HIDE DEF gone, o, n, c
    <3> QED BY <1>7, <2>1, <3>1
  <2>2. CASE h # g
    <3>1. gone = c BY <2>2
    <3> HIDE DEF gone, o, n, c, h, g
    <3> QED BY <1>7, <2>2, <3>1
  <2> QED BY <2>1, <2>2
<1>9. /\ st \in StoresType /\ st[h] = new /\ st.lost = stores.lost /\ st.cleaned = gone
      /\ (h = "memory" => st.redis = stores.redis) /\ (h # g => st[g] = stores[g])
  <2> HIDE DEF new, gone, old
  <2>1. CASE h = "memory"
    <3>1. st = [stores EXCEPT !.memory = new, !.cleaned = gone] BY <1>6, <2>1
    <3>2. st \in StoresType /\ st.memory = new /\ st.redis = stores.redis /\ st.lost = stores.lost /\ st.cleaned = gone
      BY <1>2, <1>5, <1>8, <3>1 DEF StoresType
    <3> QED BY <1>2, <2>1, <3>2 DEF Storages
  <2>2. CASE h = "redis"
    <3>1. st = [stores EXCEPT !.redis = new, !.cleaned = gone] BY <1>6, <2>2
    <3>2. st \in StoresType /\ st.memory = stores.memory /\ st.redis = new /\ st.lost = stores.lost /\ st.cleaned = gone
      BY <1>2, <1>5, <1>8, <3>1 DEF StoresType
    <3> QED BY <1>2, <2>2, <3>2 DEF Storages
  <2> QED BY <1>3, <2>1, <2>2 DEF Storages
<1>10. Total(pending, st, g) = Total(pending, stores, g)
  <2>1. CASE h = g
    <3>1. Total(pending, st, g) = p + n + l + gone BY <1>9, <2>1, Zenon DEF Total
    <3>2. Total(pending, stores, g) = p + o + l + c BY <2>1, Zenon DEF Total
    <3>3. gone = c + (o - n) BY <1>8, <2>1
    <3> HIDE DEF p, n, l, gone, o, c
    <3> QED BY ONLY <1>7, <3>1, <3>2, <3>3
  <2>2. CASE h # g BY <1>8, <1>9, <2>2, Zenon DEF Total
  <2> QED BY <2>1, <2>2
<1>11. MemoryFirst(g, st, NoCleanup) BY <1>2, <1>3, <1>9 DEF MemoryFirst, NoCleanup, Storages
<1> HIDE DEF st, h, old, new, gone
<1>12. Account(Total(pending, st, g), Cardinality(Busy(recorder)), used.snapshots, col.stopped) BY <1>2, <1>10
<1> QED BY <1>1, <1>9, <1>11, <1>12 DEF MInv, st

\* The upgrade puts into Redis, which has none before, what memory holds.
LEMMA UpgradeStep == ASSUME MInv, UpgradeToRedisStorage PROVE MInv'
<1> DEFINE st == stores'
           c == col'
<1>1. UNCHANGED <<mset, cleaner, pending, unit, recorder, flusher, stopper, used>> BY DEF UpgradeToRedisStorage
<1>2. stores \in StoresType /\ col \in ColType /\ pending \in Seq(Snap) /\ MemoryFirst(col.storage, stores, cleaner)
      /\ Account(Total(pending, stores, col.storage), Cardinality(Busy(recorder)), used.snapshots, col.stopped)
      /\ (col.mu = "report" => ~col.stopped /\ col.left \in 1..3)
  BY DEF MInv
<1>3. col.storage = "memory" /\ stores.redis = <<>> BY <1>2 DEF UpgradeToRedisStorage, MemoryFirst
<1>4. stores.memory \in Seq(Snap) BY <1>2, StoresParts
<1>5. <<>> \o stores.memory = stores.memory BY <1>4
<1>6. st = [stores EXCEPT !.redis = stores.memory]
  <2>1. st = [stores EXCEPT !.redis = stores.redis \o stores.memory]
    BY DEF UpgradeToRedisStorage, StoreBatch, RedisStoreBatch
  <2> QED BY <1>3, <1>5, <2>1
<1>7. st \in StoresType /\ st.redis = stores.memory /\ st.lost = stores.lost /\ st.cleaned = stores.cleaned
  BY <1>2, <1>4, <1>6 DEF StoresType
<1>8. c \in ColType /\ c.storage = "redis" /\ c.stopped = col.stopped /\ c.mu = col.mu /\ c.left = col.left
  BY <1>2 DEF UpgradeToRedisStorage, ColType
<1> HIDE DEF st, c
<1>9. Total(pending, st, c.storage) = Total(pending, stores, col.storage)
  <2>1. st["redis"] = stores["memory"] BY <1>7
  <2> QED BY <1>3, <1>7, <1>8, <2>1, Zenon DEF Total
<1>10. Account(Total(pending, st, c.storage), Cardinality(Busy(recorder)), used.snapshots, c.stopped) BY <1>2, <1>8, <1>9
<1>11. MemoryFirst(c.storage, st, cleaner) BY <1>8 DEF MemoryFirst
<1>12. c.mu = "report" => ~c.stopped /\ c.left \in 1..3 BY <1>2, <1>8
<1> QED BY <1>1, <1>7, <1>8, <1>10, <1>11, <1>12 DEF MInv, st, c

\* Every step of the collector preserves the invariant.
LEMMA CollectorSteps == ASSUME MInv, MNext PROVE MInv'
<1>1. CASE \E r \in Recorders : Counted(r) \/ getOrCreateExtensionMetrics(r) \/ CountCall(r) \/ storeSnapshot(r)
  BY <1>1, CountedStep, CountingSteps, storeSnapshotStep
<1>2. CASE ExtensionLoaded \/ ExtensionUnloaded BY <1>2, LifecycleSteps
<1>3. CASE ReportSnapshot BY <1>3, ReportSnapshotStep
<1>4. CASE Cleanup BY <1>4, CleanupStep
<1>5. CASE \E t \in Moments : CleanupOldMetrics(t) BY <1>5, CleanupOldMetricsStep
<1>6. CASE Tick \/ FlushSelect \/ FlushTick \/ FlushEnd BY <1>6, IdleSteps
<1>7. CASE Stop \/ StopTicker \/ StopChan \/ StopWait \/ UpdateServiceDiscoveryMetrics BY <1>7, LockSteps
<1>8. CASE FlushLocked BY <1>8, FlushLockedStep
<1>9. CASE UpgradeToRedisStorage BY <1>9, UpgradeStep
<1> QED
  BY <1>1, <1>2, <1>3, <1>4, <1>5, <1>6, <1>7, <1>8, <1>9
  DEF MNext, ServiceCall, EventPublished, EventReceived, CircuitBreakerTripped, ExtensionInitialized,
      UpdateSystemMetrics, FlushStep, StopStep

\* So does a step that changes nothing.
LEMMA CollectorStutters == ASSUME MInv, UNCHANGED mvars PROVE MInv'
BY DEF MInv, mvars

-----------------------------------------------------------------------------
(* The services                                                            *)

\* The event bus of the extension manager, whichever targets, brokers and retries are
\* configured and however often something fails or the process ends: the dispatcher's
\* counters account for every handler goroutine; an accepted event is in a broker, and
\* twice only if a write of it was in doubt; a message RabbitMQ stored is queued, in hand
\* or was given to a handler; and while the process lives the committed Kafka offset
\* passes only messages that are in hand or were given to a handler (BusSound).
THEOREM BusSoundThm == ServicesSpec => []BusSound
<1>1. ServicesInit => BusInv BY BusStarts DEF ServicesInit
<1>2. BusInv /\ [ServicesNext]_servicesVars => BusInv'
  <2> SUFFICES ASSUME BusInv, [ServicesNext]_servicesVars PROVE BusInv' OBVIOUS
  <2>1. CASE BusNext BY <2>1, BusSteps
  <2>2. CASE UNCHANGED busVars BY <2>2, BusStutters
  <2> QED BY <2>1, <2>2, Zenon DEF ServicesNext, servicesVars
<1>3. BusInv => BusSound BY BusPromise
<1> QED BY <1>1, <1>2, <1>3, PTL DEF ServicesSpec

\* The metrics collector, with any number of recording goroutines, any batch size and any
\* clock: until Stop a snapshot that was taken in is in the buffer, in the storage in use,
\* in a lost batch or counted as cleaned, once, whatever flushes, fails, is cleaned or
\* upgraded in between; and for any snapshots the two storages answer the queries alike that
\* name their aggregation and have no snapshot in the second of a bound, and their latest
\* snapshots are of the same seconds (CollectorSound).
THEOREM CollectorSoundThm == ServicesSpec => []CollectorSound
<1>1. ServicesInit => MInv BY CollectorStarts DEF ServicesInit
<1>2. MInv /\ [ServicesNext]_servicesVars => MInv'
  <2> SUFFICES ASSUME MInv, [ServicesNext]_servicesVars PROVE MInv' OBVIOUS
  <2>1. CASE MNext BY <2>1, CollectorSteps
  <2>2. CASE UNCHANGED mvars BY <2>2, CollectorStutters
  <2> QED BY <2>1, <2>2, Zenon DEF ServicesNext, servicesVars
<1>3. MInv => CollectorSound BY CollectorPromise
<1> QED BY <1>1, <1>2, <1>3, PTL DEF ServicesSpec
=============================================================================
