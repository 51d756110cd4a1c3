-------------------------- MODULE WorkerPoolProofs --------------------------
(***************************************************************************)
(* Theorems about WorkerPool, for every finite set of tasks and of workers *)
(* and every channel capacity.                                             *)
(***************************************************************************)
EXTENDS WorkerPool, FiniteSetTheorems, TLAPS

-----------------------------------------------------------------------------
(***************************************************************************)
(* Finite sets that gain or lose one element.                              *)
(***************************************************************************)

\* A new element counts for one.
LEMMA Grow ==
  ASSUME NEW S, IsFiniteSet(S), NEW x, x \notin S
  PROVE  Cardinality(S \cup {x}) = Cardinality(S) + 1
BY FS_AddElement

\* A removed element counts for one.
LEMMA Shrink ==
  ASSUME NEW S, IsFiniteSet(S), NEW x, x \in S
  PROVE  Cardinality(S \ {x}) = Cardinality(S) - 1
BY FS_RemoveElement

\* The sets that the invariants count are finite, so their sizes are numbers.
LEMMA Counts ==
  /\ IsFiniteSet(Uncounted) /\ Cardinality(Uncounted) \in Nat
  /\ IsFiniteSet(Processing) /\ Cardinality(Processing) \in Nat
  /\ IsFiniteSet(Sending) /\ Cardinality(Sending) \in Nat
  /\ IsFiniteSet(Settled) /\ Cardinality(Settled) \in Nat
  /\ IsFiniteSet(Succeeded) /\ Cardinality(Succeeded) \in Nat
<1>1. IsFiniteSet(Uncounted) /\ IsFiniteSet(Processing)
  BY WorkerAssumption, FS_Subset DEF Uncounted, Processing
<1>2. IsFiniteSet(Sending) /\ IsFiniteSet(Settled)
  BY TaskAssumption, FS_Subset DEF Sending, Settled
<1>3. IsFiniteSet(Succeeded)
  BY <1>2, FS_Subset DEF Succeeded
<1> QED BY <1>1, <1>2, <1>3, FS_CardinalityType

-----------------------------------------------------------------------------
(***************************************************************************)
(* Type correctness.                                                       *)
(***************************************************************************)

\* A new pool has its type.
LEMMA InitTypeOK == Init => TypeOK
<1> SUFFICES ASSUME Init PROVE TypeOK
  OBVIOUS
<1>1. tasks \in Seq(Task) /\ Len(tasks) <= QueueSize
  BY QueueSizeAssumption DEF Init
<1>2. /\ spc \in [Task -> SubmitStates]
      /\ wpc \in [Worker -> WorkerStates]
      /\ cur \in [Worker -> Task \cup {NoTask}]
      /\ proc \in [Task -> ProcStates]
      /\ owner \in OwnerStates
  BY DEF Init, SubmitStates, WorkerStates, ProcStates, OwnerStates
<1>3. active \in Int /\ pending \in Int /\ completed \in Nat /\ failed \in Nat
  BY DEF Init
<1>4. closed \in BOOLEAN /\ cancelled \in BOOLEAN /\ crashed \in BOOLEAN
  BY DEF Init
<1> QED BY <1>1, <1>2, <1>3, <1>4 DEF TypeOK

\* Every step of a submitter, worker, processor or owner keeps the type.
LEMMA NextTypeOK == TypeOK /\ [Next]_vars => TypeOK'
<1> SUFFICES ASSUME TypeOK, [Next]_vars PROVE TypeOK'
  OBVIOUS
<1> USE QueueSizeAssumption DEF TypeOK, SubmitStates, WorkerStates, ProcStates,
        OwnerStates, chanVars, metrics
<1>1. ASSUME NEW t \in Task, Submit(t) \/ SubmitCount(t) PROVE TypeOK'
  <2>1. CASE SubmitSend(t)  BY <2>1 DEF SubmitSend
  <2>2. CASE SubmitFull(t)  BY <2>2 DEF SubmitFull
  <2>3. CASE SubmitClosed(t)  BY <2>3 DEF SubmitClosed
  <2>4. CASE SubmitCount(t)  BY <2>4 DEF SubmitCount
  <2> QED BY <1>1, <2>1, <2>2, <2>3, <2>4 DEF Submit
<1>2. ASSUME NEW w \in Worker, WorkerStep(w) PROVE TypeOK'
  <2>1. CASE WorkerReceive(w)
    <3>1. Head(tasks) \in Task /\ Tail(tasks) \in Seq(Task)
      BY <2>1 DEF WorkerReceive
    <3>2. Len(Tail(tasks)) = Len(tasks) - 1
      BY <2>1 DEF WorkerReceive
    <3> QED BY <2>1, <3>1, <3>2 DEF WorkerReceive
  <2>2. CASE WorkerExit(w)  BY <2>2 DEF WorkerExit
  <2>3. CASE ProcessBegin(w)  BY <2>3 DEF ProcessBegin
  <2>4. CASE ProcessDispatch(w)
    <3>1. proc' \in [Task -> ProcStates]
      BY <2>4 DEF ProcessDispatch
    <3>2. wpc' \in [Worker -> WorkerStates] /\ pending' \in Int
      BY <2>4 DEF ProcessDispatch
    <3> QED BY <2>4, <3>1, <3>2 DEF ProcessDispatch
  <2>5. CASE ProcessCollect(w)  BY <2>5 DEF ProcessCollect
  <2>6. CASE ProcessTimeout(w)  BY <2>6 DEF ProcessTimeout
  <2>7. CASE ProcessEnd(w)  BY <2>7 DEF ProcessEnd
  <2> QED BY <1>2, <2>1, <2>2, <2>3, <2>4, <2>5, <2>6, <2>7 DEF WorkerStep
<1>3. ASSUME NEW t \in Task, NEW outcome \in TaskOutcomes,
             ProcessorReturn(t, outcome)
      PROVE  TypeOK'
  BY <1>3, EnvironmentAssumption DEF ProcessorReturn
<1>4. CASE Start  BY <1>4 DEF Start
<1>5. CASE Stop  BY <1>5 DEF Stop, StopCancel, StopClose, StopDone, StopTimeout
<1>6. CASE UNCHANGED vars  BY <1>6 DEF vars
<1> QED BY <1>1, <1>2, <1>3, <1>4, <1>5, <1>6 DEF Next, Step

\* The channel after a send and after a receive.
LEMMA AppendFacts ==
  ASSUME NEW s \in Seq(Task), NEW t \in Task
  PROVE  /\ Len(Append(s, t)) = Len(s) + 1
         /\ \A i \in 1..Len(s) : Append(s, t)[i] = s[i]
         /\ Append(s, t)[Len(s) + 1] = t
OBVIOUS

\* What is left of the channel after a receive.
LEMMA TailFacts ==
  ASSUME NEW s \in Seq(Task), s # <<>>
  PROVE  /\ Len(s) \in Nat /\ Len(s) > 0
         /\ Head(s) = s[1] /\ Head(s) \in Task
         /\ Len(Tail(s)) = Len(s) - 1
         /\ \A i \in 1..Len(s) - 1 : Tail(s)[i] = s[i + 1]
OBVIOUS

-----------------------------------------------------------------------------
(***************************************************************************)
(* A task is in one place.                                                 *)
(***************************************************************************)

\* No step copies a task or leaves one in two hands.
LEMMA NextHanded ==
  TypeOK /\ HandedOnce /\ HandsMatch /\ OwnerMatch /\ [Next]_vars
    => HandedOnce' /\ HandsMatch'
<1> SUFFICES ASSUME TypeOK, HandedOnce, HandsMatch, OwnerMatch, [Next]_vars
             PROVE  HandedOnce' /\ HandsMatch'
  OBVIOUS
<1> USE DEF chanVars, metrics
<1>1. ASSUME NEW t \in Task, SubmitSend(t) PROVE HandedOnce' /\ HandsMatch'
  <2>1. /\ Len(tasks') = Len(tasks) + 1 /\ Len(tasks) \in Nat
        /\ \A i \in 1..Len(tasks) : tasks'[i] = tasks[i]
        /\ tasks'[Len(tasks) + 1] = t
    BY <1>1, AppendFacts DEF SubmitSend, TypeOK
  <2>2. /\ spc[t] = "idle"
        /\ \A u \in Task : spc'[u] = IF u = t THEN "sent" ELSE spc[u]
        /\ cur' = cur /\ wpc' = wpc
    BY <1>1 DEF SubmitSend, TypeOK
  <2>3. (\A i \in 1..Len(tasks) : tasks[i] # t) /\ (\A w \in Worker : cur[w] # t)
    BY <2>2, TaskAssumption DEF HandsMatch
  <2>4. \A i \in 1..Len(tasks') : i = Len(tasks) + 1 \/ i \in 1..Len(tasks)
    BY <2>1
  <2>5. HandedOnce'
    BY <2>1, <2>2, <2>3, <2>4 DEF HandedOnce
  <2>6. \A i \in 1..Len(tasks) : tasks[i] \in Task
    BY DEF TypeOK
  <2>7. HandsMatch'
    BY <2>1, <2>2, <2>3, <2>4, <2>6 DEF HandsMatch, TypeOK
  <2> QED BY <2>5, <2>7
<1>2. ASSUME NEW w \in Worker, WorkerReceive(w)
      PROVE  HandedOnce' /\ HandsMatch'
  <2>1. /\ Len(tasks) \in Nat /\ Len(tasks) > 0
        /\ Len(tasks') = Len(tasks) - 1
        /\ \A i \in 1..Len(tasks') : i + 1 \in 1..Len(tasks) /\ tasks'[i] = tasks[i + 1]
        /\ 1 \in 1..Len(tasks) /\ tasks[1] \in Task
    BY <1>2, TailFacts DEF WorkerReceive, TypeOK
  <2>2. /\ \A v \in Worker : cur'[v] = IF v = w THEN tasks[1] ELSE cur[v]
        /\ \A v \in Worker : wpc'[v] = IF v = w THEN "got" ELSE wpc[v]
        /\ spc' = spc /\ wpc[w] = "select"
    BY <1>2, TailFacts DEF WorkerReceive, TypeOK
  <2>3. \A i \in 1..Len(tasks') : i + 1 # 1
    BY <2>1
  <2>4. \A i, j \in 1..Len(tasks') : tasks'[i] = tasks'[j] => i = j
    BY <2>1 DEF HandedOnce
  <2>5. \A u, v \in Worker : cur'[u] = cur'[v] /\ cur'[u] # NoTask => u = v
    BY <2>1, <2>2 DEF HandedOnce
  <2>6. \A v \in Worker, i \in 1..Len(tasks') : cur'[v] # tasks'[i]
    BY <2>1, <2>2, <2>3 DEF HandedOnce
  <2>7. HandsMatch'
    BY <2>1, <2>2, TaskAssumption DEF HandsMatch
  <2> QED BY <2>4, <2>5, <2>6, <2>7 DEF HandedOnce
<1>3. ASSUME NEW w \in Worker, ProcessCollect(w) \/ ProcessTimeout(w)
      PROVE  HandedOnce' /\ HandsMatch'
  <2>1. /\ \A v \in Worker : cur'[v] = IF v = w THEN NoTask ELSE cur[v]
        /\ \A v \in Worker : wpc'[v] = IF v = w THEN "leaving" ELSE wpc[v]
        /\ tasks' = tasks /\ spc' = spc
    BY <1>3 DEF ProcessCollect, ProcessTimeout, TypeOK
  <2>2. \A i \in 1..Len(tasks) : tasks[i] # NoTask
    BY TaskAssumption DEF TypeOK
  <2> QED BY <2>1, <2>2 DEF HandedOnce, HandsMatch
<1>4. ASSUME NEW w \in Worker,
             WorkerExit(w) \/ ProcessBegin(w) \/ ProcessDispatch(w) \/ ProcessEnd(w)
      PROVE  HandedOnce' /\ HandsMatch'
  <2>1. /\ tasks' = tasks /\ spc' = spc /\ cur' = cur
        /\ \A v \in Worker : v # w => wpc'[v] = wpc[v]
        /\ wpc[w] \in {"got", "counted", "waiting"}
             <=> wpc'[w] \in {"got", "counted", "waiting"}
    BY <1>4 DEF WorkerExit, ProcessBegin, ProcessDispatch, ProcessEnd, TypeOK
  <2>2. \A v \in Worker : wpc[v] \in {"got", "counted", "waiting"}
             <=> wpc'[v] \in {"got", "counted", "waiting"}
    BY <2>1
  <2> QED BY <2>1, <2>2 DEF HandedOnce, HandsMatch
<1>5. ASSUME NEW t \in Task, SubmitCount(t) \/ SubmitFull(t) \/ SubmitClosed(t)
      PROVE  HandedOnce' /\ HandsMatch'
  <2>1. /\ tasks' = tasks /\ cur' = cur /\ wpc' = wpc
        /\ \A u \in Task : spc[u] \in {"sent", "accepted"}
                             => spc'[u] \in {"sent", "accepted"}
    BY <1>5 DEF SubmitCount, SubmitFull, SubmitClosed, TypeOK
  <2>2. /\ \A i \in 1..Len(tasks) : tasks[i] \in Task
        /\ \A w \in Worker : cur[w] # NoTask => cur[w] \in Task
    BY DEF TypeOK
  <2> QED BY <2>1, <2>2 DEF HandedOnce, HandsMatch
<1>6. CASE Start
  <2>1. \A w \in Worker : cur[w] = NoTask
    BY <1>6 DEF Start, OwnerMatch, HandsMatch
  <2> QED BY <1>6, <2>1 DEF Start, HandedOnce, HandsMatch
<1>7. ASSUME \/ Stop
             \/ \E t \in Task, outcome \in TaskOutcomes : ProcessorReturn(t, outcome)
             \/ UNCHANGED vars
      PROVE  HandedOnce' /\ HandsMatch'
  BY <1>7 DEF Stop, StopCancel, StopClose, StopDone, StopTimeout,
              ProcessorReturn, vars, HandedOnce, HandsMatch
<1> QED
  BY <1>1, <1>2, <1>3, <1>4, <1>5, <1>6, <1>7
  DEF Next, Step, Submit, WorkerStep

-----------------------------------------------------------------------------
(***************************************************************************)
(* The owner's progress.                                                   *)
(***************************************************************************)

\* Start and Stop go through their stages in order, and the workers follow.
LEMMA NextOwner == TypeOK /\ OwnerMatch /\ [Next]_vars => OwnerMatch'
<1> SUFFICES ASSUME TypeOK, OwnerMatch, [Next]_vars PROVE OwnerMatch'
  OBVIOUS
<1> USE DEF chanVars, metrics
<1>1. ASSUME NEW w \in Worker, WorkerStep(w) PROVE OwnerMatch'
  <2>1. /\ wpc[w] \notin {"new", "exited"} /\ wpc'[w] # "new"
        /\ \A v \in Worker : v # w => wpc'[v] = wpc[v]
        /\ owner' = owner /\ closed' = closed
    BY <1>1 DEF WorkerStep, WorkerReceive, WorkerExit, ProcessBegin,
       ProcessDispatch, ProcessCollect, ProcessTimeout, ProcessEnd, TypeOK
  <2>2. owner \notin {"new", "done"}
    BY <2>1 DEF OwnerMatch
  <2> QED BY <2>1, <2>2 DEF OwnerMatch
<1>2. CASE Start
  BY <1>2, WorkerAssumption DEF Start, OwnerMatch
<1>3. CASE Stop
  BY <1>3 DEF Stop, StopCancel, StopClose, StopDone, StopTimeout, OwnerMatch
<1>4. ASSUME \/ \E t \in Task : Submit(t) \/ SubmitCount(t)
             \/ \E t \in Task, outcome \in TaskOutcomes : ProcessorReturn(t, outcome)
             \/ UNCHANGED vars
      PROVE  OwnerMatch'
  BY <1>4 DEF Submit, SubmitSend, SubmitFull, SubmitClosed, SubmitCount,
     ProcessorReturn, vars, OwnerMatch
<1> QED BY <1>1, <1>2, <1>3, <1>4 DEF Next, Step

-----------------------------------------------------------------------------
(***************************************************************************)
(* The gauges.                                                             *)
(***************************************************************************)

\* Each atomic change of a gauge goes with the change of what it counts.
LEMMA NextGauges ==
  TypeOK /\ OwnerMatch /\ GaugesExact /\ [Next]_vars => GaugesExact'
<1> SUFFICES ASSUME TypeOK, OwnerMatch, GaugesExact, [Next]_vars
             PROVE  GaugesExact'
  OBVIOUS
<1> USE Counts DEF chanVars, metrics
<1>0. Len(tasks) \in Nat /\ pending \in Int /\ active \in Int
  BY DEF TypeOK
<1>1. ASSUME NEW t \in Task, SubmitSend(t) PROVE GaugesExact'
  <2>1. Sending' = Sending \cup {t} /\ t \notin Sending
    BY <1>1 DEF SubmitSend, Sending, TypeOK
  <2>2. Uncounted' = Uncounted /\ Processing' = Processing
    BY <1>1 DEF SubmitSend, Uncounted, Processing
  <2>3. Len(tasks') = Len(tasks) + 1 /\ pending' = pending /\ active' = active
    BY <1>1, AppendFacts DEF SubmitSend, TypeOK
  <2> QED BY <1>0, <2>1, <2>2, <2>3, Grow DEF GaugesExact
<1>2. ASSUME NEW t \in Task, SubmitCount(t) PROVE GaugesExact'
  <2>1. Sending' = Sending \ {t} /\ t \in Sending
    BY <1>2 DEF SubmitCount, Sending, TypeOK
  <2>2. Uncounted' = Uncounted /\ Processing' = Processing
    BY <1>2 DEF SubmitCount, Uncounted, Processing
  <2> QED BY <1>0, <1>2, <2>1, <2>2, Shrink DEF GaugesExact, SubmitCount
<1>3. ASSUME NEW t \in Task, SubmitFull(t) \/ SubmitClosed(t) PROVE GaugesExact'
  <2>1. Sending' = Sending /\ Uncounted' = Uncounted /\ Processing' = Processing
    BY <1>3 DEF SubmitFull, SubmitClosed, Sending, Uncounted, Processing, TypeOK
  <2> QED BY <1>3, <2>1 DEF GaugesExact, SubmitFull, SubmitClosed
<1>4. ASSUME NEW w \in Worker, WorkerReceive(w) PROVE GaugesExact'
  <2>1. Uncounted' = Uncounted \cup {w} /\ w \notin Uncounted
    BY <1>4 DEF WorkerReceive, Uncounted, TypeOK
  <2>2. Processing' = Processing /\ Sending' = Sending
    BY <1>4 DEF WorkerReceive, Processing, Sending, TypeOK
  <2>3. Len(tasks') = Len(tasks) - 1 /\ pending' = pending /\ active' = active
    BY <1>4, TailFacts DEF WorkerReceive, TypeOK
  <2> QED BY <1>0, <2>1, <2>2, <2>3, Grow DEF GaugesExact
<1>5. ASSUME NEW w \in Worker, ProcessBegin(w) PROVE GaugesExact'
  <2>1. Processing' = Processing \cup {w} /\ w \notin Processing
    BY <1>5 DEF ProcessBegin, Processing, TypeOK
  <2>2. Uncounted' = Uncounted /\ Sending' = Sending
    BY <1>5 DEF ProcessBegin, Uncounted, Sending, TypeOK
  <2> QED BY <1>0, <1>5, <2>1, <2>2, Grow DEF GaugesExact, ProcessBegin
<1>6. ASSUME NEW w \in Worker, ProcessDispatch(w) PROVE GaugesExact'
  <2>1. Uncounted' = Uncounted \ {w} /\ w \in Uncounted
    BY <1>6 DEF ProcessDispatch, Uncounted, TypeOK
  <2>2. Processing' = Processing /\ Sending' = Sending
    BY <1>6 DEF ProcessDispatch, Processing, Sending, TypeOK
  <2> QED BY <1>0, <1>6, <2>1, <2>2, Shrink DEF GaugesExact, ProcessDispatch
<1>7. ASSUME NEW w \in Worker, ProcessEnd(w) PROVE GaugesExact'
  <2>1. Processing' = Processing \ {w} /\ w \in Processing
    BY <1>7 DEF ProcessEnd, Processing, TypeOK
  <2>2. Uncounted' = Uncounted /\ Sending' = Sending
    BY <1>7 DEF ProcessEnd, Uncounted, Sending, TypeOK
  <2> QED BY <1>0, <1>7, <2>1, <2>2, Shrink DEF GaugesExact, ProcessEnd
<1>8. ASSUME NEW w \in Worker,
             WorkerExit(w) \/ ProcessCollect(w) \/ ProcessTimeout(w)
      PROVE  GaugesExact'
  <2>1. Processing' = Processing /\ Uncounted' = Uncounted /\ Sending' = Sending
    BY <1>8 DEF WorkerExit, ProcessCollect, ProcessTimeout,
                Processing, Uncounted, Sending, TypeOK
  <2> QED BY <1>8, <2>1 DEF GaugesExact, WorkerExit, ProcessCollect, ProcessTimeout
<1>9. CASE Start
  <2>1. Processing' = Processing /\ Uncounted' = Uncounted /\ Sending' = Sending
    BY <1>9 DEF Start, OwnerMatch, Processing, Uncounted, Sending
  <2> QED BY <1>9, <2>1 DEF GaugesExact, Start
<1>10. ASSUME \/ Stop
              \/ \E t \in Task, outcome \in TaskOutcomes : ProcessorReturn(t, outcome)
              \/ UNCHANGED vars
       PROVE  GaugesExact'
  <2>1. UNCHANGED <<tasks, wpc, spc, pending, active>>
    BY <1>10 DEF Stop, StopCancel, StopClose, StopDone, StopTimeout,
                 ProcessorReturn, vars
  <2> QED BY <2>1 DEF GaugesExact, Processing, Uncounted, Sending
<1> QED
  BY <1>1, <1>2, <1>3, <1>4, <1>5, <1>6, <1>7, <1>8, <1>9, <1>10
  DEF Next, Step, Submit, WorkerStep

-----------------------------------------------------------------------------
(***************************************************************************)
(* The verdicts.                                                           *)
(***************************************************************************)

\* A verdict takes exactly the task in hand out of the pool.
LEMMA VerdictSettles ==
  ASSUME TypeOK, HandedOnce, HandsMatch,
         NEW w \in Worker, ProcessCollect(w) \/ ProcessTimeout(w)
  PROVE  /\ cur[w] \in Task /\ cur[w] \notin Settled
         /\ Settled' = Settled \cup {cur[w]}
<1> USE DEF chanVars, metrics
<1>1. /\ wpc[w] = "waiting" /\ cur[w] \in Task
      /\ tasks' = tasks /\ spc' = spc
      /\ \A v \in Worker : cur'[v] = IF v = w THEN NoTask ELSE cur[v]
  BY DEF ProcessCollect, ProcessTimeout, HandsMatch, TypeOK
<1>2. /\ spc[cur[w]] \in {"sent", "accepted"}
      /\ \A i \in 1..Len(tasks) : tasks[i] # cur[w]
      /\ \A v \in Worker : v # w => cur[v] # cur[w]
  BY <1>1, TaskAssumption DEF HandsMatch, HandedOnce
<1>3. \A t \in Task : t # NoTask
  BY TaskAssumption
<1>4. cur[w] \notin Settled
  BY DEF Settled
<1>5. \A t \in Task : t \in Settled' <=> t \in Settled \/ t = cur[w]
  BY <1>1, <1>2, <1>3 DEF Settled
<1> QED BY <1>1, <1>4, <1>5 DEF Settled

\* No other step changes the set of settled tasks.
LEMMA OthersKeepSettled ==
  ASSUME TypeOK, HandedOnce, HandsMatch, [Next]_vars,
         \A w \in Worker : ~ProcessCollect(w) /\ ~ProcessTimeout(w)
  PROVE  Settled' = Settled
<1> USE DEF chanVars, metrics
<1>1. ASSUME NEW t \in Task, SubmitSend(t) PROVE Settled' = Settled
  <2>1. /\ Len(tasks') = Len(tasks) + 1 /\ Len(tasks) \in Nat
        /\ \A i \in 1..Len(tasks) : tasks'[i] = tasks[i]
        /\ tasks'[Len(tasks) + 1] = t
    BY <1>1, AppendFacts DEF SubmitSend, TypeOK
  <2>2. /\ spc[t] = "idle" /\ cur' = cur
        /\ \A u \in Task : spc'[u] = IF u = t THEN "sent" ELSE spc[u]
    BY <1>1 DEF SubmitSend, TypeOK
  <2>3. \A i : i \in 1..Len(tasks') <=> i \in 1..Len(tasks) \/ i = Len(tasks) + 1
    BY <2>1
  <2>4. \A u \in Task : u \in Settled' <=> u \in Settled
    <3> TAKE u \in Task
    <3>1. CASE u = t
      BY <2>1, <2>2, <2>3, <3>1 DEF Settled
    <3>2. CASE u # t
      BY <2>1, <2>2, <2>3, <3>2 DEF Settled
    <3> QED BY <3>1, <3>2
  <2> QED BY <2>4 DEF Settled
<1>2. ASSUME NEW t \in Task, SubmitCount(t) \/ SubmitFull(t) \/ SubmitClosed(t)
      PROVE  Settled' = Settled
  <2>1. /\ tasks' = tasks /\ cur' = cur
        /\ \A u \in Task : spc[u] \in {"sent", "accepted"}
                             <=> spc'[u] \in {"sent", "accepted"}
    BY <1>2 DEF SubmitCount, SubmitFull, SubmitClosed, TypeOK
  <2> QED BY <2>1 DEF Settled
<1>3. ASSUME NEW w \in Worker, WorkerReceive(w) PROVE Settled' = Settled
  <2>1. /\ Len(tasks) \in Nat /\ Len(tasks) > 0
        /\ Len(tasks') = Len(tasks) - 1
        /\ \A i \in 1..Len(tasks') : i + 1 \in 1..Len(tasks) /\ tasks'[i] = tasks[i + 1]
        /\ \A i \in 1..Len(tasks) : i = 1 \/ i - 1 \in 1..Len(tasks')
        /\ 1 \in 1..Len(tasks)
    BY <1>3, TailFacts DEF WorkerReceive, TypeOK
  <2>2. /\ \A v \in Worker : cur'[v] = IF v = w THEN tasks[1] ELSE cur[v]
        /\ spc' = spc /\ cur[w] = NoTask
    BY <1>3, TailFacts DEF WorkerReceive, TypeOK, HandsMatch
  <2>3. ASSUME NEW u \in Task
        PROVE  (\A i \in 1..Len(tasks) : tasks[i] # u)
                 <=> u # tasks[1] /\ (\A i \in 1..Len(tasks') : tasks'[i] # u)
    <3>1. ASSUME u # tasks[1], \A i \in 1..Len(tasks') : tasks'[i] # u,
                 NEW i \in 1..Len(tasks)
          PROVE  tasks[i] # u
      <4>1. CASE i = 1  BY <3>1, <4>1
      <4>2. CASE i # 1
        <5>1. i - 1 \in 1..Len(tasks') /\ (i - 1) + 1 = i
          BY <2>1, <4>2
        <5> QED BY <5>1, <3>1, <2>1
      <4> QED BY <4>1, <4>2
    <3> QED BY <2>1, <3>1
  <2>4. ASSUME NEW u \in Task
        PROVE  (\A v \in Worker : cur'[v] # u)
                 <=> u # tasks[1] /\ (\A v \in Worker : cur[v] # u)
    BY <2>2, TaskAssumption
  <2> QED BY <2>2, <2>3, <2>4 DEF Settled
<1>4. ASSUME NEW w \in Worker,
             WorkerExit(w) \/ ProcessBegin(w) \/ ProcessDispatch(w) \/ ProcessEnd(w)
      PROVE  Settled' = Settled
  BY <1>4 DEF WorkerExit, ProcessBegin, ProcessDispatch, ProcessEnd, Settled
<1>5. ASSUME \/ Start \/ Stop
             \/ \E t \in Task, outcome \in TaskOutcomes : ProcessorReturn(t, outcome)
             \/ UNCHANGED vars
      PROVE  Settled' = Settled
  BY <1>5 DEF Start, Stop, StopCancel, StopClose, StopDone, StopTimeout,
     ProcessorReturn, vars, Settled
<1> QED
  BY <1>1, <1>2, <1>3, <1>4, <1>5 DEF Next, Step, Submit, WorkerStep

\* A success is never taken back.
LEMMA SuccessStays ==
  ASSUME TypeOK, HandsMatch, [Next]_vars, Settled \subseteq Settled'
  PROVE  Succeeded \subseteq Succeeded'
<1> USE DEF chanVars, metrics
<1>1. ASSUME NEW w \in Worker, ProcessDispatch(w)
      PROVE  \A t \in Settled : proc[t] = "ok" => proc'[t] = "ok"
  BY <1>1 DEF ProcessDispatch, Settled, TypeOK
<1>2. ASSUME NEW u \in Task, NEW outcome \in TaskOutcomes, ProcessorReturn(u, outcome)
      PROVE  \A t \in Settled : proc[t] = "ok" => proc'[t] = "ok"
  BY <1>2 DEF ProcessorReturn, Settled, TypeOK
<1>3. ASSUME ~ \E w \in Worker : ProcessDispatch(w),
             ~ \E t \in Task, outcome \in TaskOutcomes : ProcessorReturn(t, outcome)
      PROVE  proc' = proc
  BY <1>3 DEF Next, Step, Submit, SubmitSend, SubmitFull, SubmitClosed,
     SubmitCount, WorkerStep, WorkerReceive, WorkerExit, ProcessBegin,
     ProcessCollect, ProcessTimeout, ProcessEnd, Start, Stop, StopCancel,
     StopClose, StopDone, StopTimeout, vars
<1>4. \A t \in Settled : proc[t] = "ok" => proc'[t] = "ok"
  BY <1>1, <1>2, <1>3
<1> QED BY <1>4 DEF Succeeded

\* Each task is counted as completed or failed once.
LEMMA NextVerdicts ==
  TypeOK /\ HandedOnce /\ HandsMatch /\ VerdictsExact /\ [Next]_vars
    => VerdictsExact'
<1> SUFFICES ASSUME TypeOK, HandedOnce, HandsMatch, VerdictsExact, [Next]_vars
             PROVE  VerdictsExact'
  OBVIOUS
<1> USE DEF chanVars, metrics
<1>0. completed \in Nat /\ failed \in Nat
  BY DEF TypeOK
<1>1. IsFiniteSet(Settled') /\ IsFiniteSet(Succeeded')
  <2>1. IsFiniteSet(Settled')
    BY TaskAssumption, FS_Subset DEF Settled
  <2> QED BY <2>1, FS_Subset DEF Succeeded
<1>2. Cardinality(Succeeded') \in Nat
  BY <1>1, FS_CardinalityType
<1>3. ASSUME NEW w \in Worker, ProcessCollect(w) \/ ProcessTimeout(w)
      PROVE  VerdictsExact'
  <2>1. /\ cur[w] \in Task /\ cur[w] \notin Settled
        /\ Settled' = Settled \cup {cur[w]}
    BY <1>3, VerdictSettles
  <2>2. Cardinality(Settled') = Cardinality(Settled) + 1
    BY <2>1, Counts, Grow
  <2>3. completed' + failed' = completed + failed + 1
    BY <1>0, <1>3 DEF ProcessCollect, ProcessTimeout
  <2>4. Succeeded \subseteq Succeeded'
    BY <2>1, SuccessStays
  <2>5. Cardinality(Succeeded) <= Cardinality(Succeeded')
    BY <2>4, <1>1, FS_Subset
  <2>6. CASE ProcessCollect(w) /\ proc[cur[w]] = "ok"
    <3>1. cur[w] \in Succeeded' /\ cur[w] \notin Succeeded
      BY <2>1, <2>6 DEF Succeeded, ProcessCollect
    <3>2. Succeeded \cup {cur[w]} \in SUBSET Succeeded'
      BY <2>4, <3>1
    <3>3. Cardinality(Succeeded \cup {cur[w]}) <= Cardinality(Succeeded')
      BY <3>2, <1>1, FS_Subset
    <3>4. Cardinality(Succeeded) + 1 <= Cardinality(Succeeded')
      BY <3>1, <3>3, Counts, Grow
    <3>5. completed' = completed + 1
      BY <2>6 DEF ProcessCollect
    <3> QED BY <1>0, <1>2, <2>2, <2>3, <3>4, <3>5, Counts DEF VerdictsExact
  <2>7. CASE ~(ProcessCollect(w) /\ proc[cur[w]] = "ok")
    <3>1. completed' = completed
      BY <1>3, <2>7 DEF ProcessCollect, ProcessTimeout
    <3> QED BY <1>0, <1>2, <2>2, <2>3, <2>5, <3>1, Counts DEF VerdictsExact
  <2> QED BY <2>6, <2>7
<1>4. ASSUME \A w \in Worker : ~ProcessCollect(w) /\ ~ProcessTimeout(w)
      PROVE  VerdictsExact'
  <2>1. Settled' = Settled
    BY <1>4, OthersKeepSettled
  <2>2. Succeeded \subseteq Succeeded'
    BY <2>1, SuccessStays
  <2>3. Cardinality(Succeeded) <= Cardinality(Succeeded')
    BY <2>2, <1>1, FS_Subset
  <2>4. completed' = completed /\ failed' = failed
    BY <1>4 DEF Next, Step, Submit, SubmitSend, SubmitFull, SubmitClosed,
       SubmitCount, WorkerStep, WorkerReceive, WorkerExit, ProcessBegin,
       ProcessDispatch, ProcessEnd, ProcessorReturn, Start, Stop, StopCancel,
       StopClose, StopDone, StopTimeout, vars
  <2> QED BY <1>0, <1>2, <2>1, <2>3, <2>4, Counts DEF VerdictsExact
<1> QED BY <1>3, <1>4

-----------------------------------------------------------------------------
(***************************************************************************)
(* The theorems.                                                           *)
(***************************************************************************)

\* Type correctness of the pool.
THEOREM TypeCorrect == Safety => []TypeOK
<1>1. Init => TypeOK  BY InitTypeOK
<1>2. TypeOK /\ [Next]_vars => TypeOK'  BY NextTypeOK
<1> QED BY <1>1, <1>2, PTL DEF Safety

\* A new pool satisfies the inductive invariant.
LEMMA InitIInv == Init => IInv
<1> SUFFICES ASSUME Init PROVE IInv
  OBVIOUS
<1>1. TypeOK  BY InitTypeOK
<1>2. HandedOnce /\ HandsMatch
  BY DEF Init, HandedOnce, HandsMatch
<1>3. OwnerMatch
  BY WorkerAssumption DEF Init, OwnerMatch
<1>4. Uncounted = {} /\ Processing = {} /\ Sending = {}
  BY DEF Init, Uncounted, Processing, Sending
<1>5. Settled = {} /\ Succeeded = {}
  BY DEF Init, Settled, Succeeded
<1>6. GaugesExact
  BY <1>4, FS_EmptySet DEF Init, GaugesExact
<1>7. VerdictsExact
  BY <1>5, FS_EmptySet DEF Init, VerdictsExact
<1> QED BY <1>1, <1>2, <1>3, <1>6, <1>7 DEF IInv

\* The inductive invariant: a task is in one place, the gauges count the
\* goroutines they describe, and every task that left has one verdict.
THEOREM PoolInvariant == Safety => []IInv
<1>1. IInv /\ [Next]_vars => IInv'
  BY NextTypeOK, NextHanded, NextOwner, NextGauges, NextVerdicts DEF IInv
<1> QED BY InitIInv, <1>1, PTL DEF Safety

\* PendingTasks and ActiveWorkers are exact up to the goroutines caught between
\* a channel operation and the counter update that goes with it.
THEOREM GaugesCorrect == Safety => []GaugesExact
<1>1. IInv => GaugesExact  BY DEF IInv
<1> QED BY <1>1, PoolInvariant, PTL

\* CompletedTasks and FailedTasks together count every task that left the pool,
\* once, and CompletedTasks counts only tasks whose processor returned nil.
THEOREM VerdictsCorrect == Safety => []VerdictsExact
<1>1. IInv => VerdictsExact  BY DEF IInv
<1> QED BY <1>1, PoolInvariant, PTL

\* IsIdle and IsEmpty together detect that the pool is drained, once no Submit
\* is between its send and its count.
THEOREM DrainDetection == Safety => []IdleAndEmptyMeansDrained
<1>1. IInv => IdleAndEmptyMeansDrained
  <2> SUFFICES ASSUME IInv, IsIdle, IsEmpty, Sending = {},
                      NEW t \in Task, spc[t] = "accepted"
               PROVE  t \in Settled
    BY DEF IdleAndEmptyMeansDrained
  <2>1. Cardinality(Sending) = 0
    BY FS_EmptySet
  <2>2. Len(tasks) \in Nat
    BY DEF IInv, TypeOK
  <2>3. Len(tasks) = 0 /\ Cardinality(Uncounted) = 0 /\ Cardinality(Processing) = 0
    BY <2>1, <2>2, Counts DEF IInv, GaugesExact, IsIdle, IsEmpty
  <2>4. Uncounted = {} /\ Processing = {}
    BY <2>3, Counts, FS_EmptySet
  <2>5. \A w \in Worker : cur[w] = NoTask
    BY <2>4 DEF IInv, HandsMatch, Uncounted, Processing
  <2> QED BY <2>3, <2>5, TaskAssumption DEF Settled
<1> QED BY <1>1, PoolInvariant, PTL

\* After a Stop that joined its workers the channel and the verdicts are final.
THEOREM StopIsFinal == Safety => QuietAfterStop
<1>1. IInv /\ [Next]_vars
        => [owner = "done" => UNCHANGED <<active, completed, failed, tasks>>]_vars
  <2> SUFFICES ASSUME IInv, Next, owner = "done"
               PROVE  UNCHANGED <<active, completed, failed, tasks>>
    OBVIOUS
  <2> USE DEF chanVars, metrics
  <2>1. closed /\ \A w \in Worker : wpc[w] = "exited"
    BY DEF IInv, OwnerMatch
  <2>2. \A w \in Worker : ~WorkerStep(w)
    BY <2>1 DEF WorkerStep, WorkerReceive, WorkerExit, ProcessBegin,
       ProcessDispatch, ProcessCollect, ProcessTimeout, ProcessEnd
  <2>3. \A t \in Task : ~SubmitSend(t)
    BY <2>1 DEF SubmitSend
  <2> QED
    BY <2>2, <2>3 DEF Next, Step, Submit, SubmitFull, SubmitClosed, SubmitCount,
       ProcessorReturn, Start, Stop, StopCancel, StopClose, StopDone, StopTimeout
<1> QED BY <1>1, PoolInvariant, PTL DEF Safety, QuietAfterStop

\* The pool implements the abstract executor.
THEOREM PoolImplementsExecutor == Safety => ImplementsExecutor
<1>1. Init => Pool!EInit
  BY DEF Init, Pool!EInit, Settled
<1>2. IInv /\ [Next]_vars => [Pool!ENext]_Pool!evars
  <2> SUFFICES ASSUME IInv, [Next]_vars PROVE [Pool!ENext]_Pool!evars
    OBVIOUS
  <2> USE DEF chanVars, metrics
  <2>0. TypeOK /\ HandedOnce /\ HandsMatch
    BY DEF IInv
  <2>1. ASSUME NEW t \in Task, SubmitSend(t) PROVE Pool!Admit(t)
    <3>1. t \notin Settled
      BY <2>1 DEF SubmitSend, Settled
    <3>2. \A i \in 1..Len(tasks) : tasks[i] # t
      BY <2>0, <2>1 DEF SubmitSend, HandsMatch
    <3>3. \A w \in Worker : cur[w] # t
      BY <2>0, <2>1, TaskAssumption DEF SubmitSend, HandsMatch
    <3>4. t \notin Pool!Known
      BY <3>1, <3>2, <3>3 DEF Pool!Known
    <3>5. Settled' = Settled
      <4>1. \A w \in Worker : ~ProcessCollect(w) /\ ~ProcessTimeout(w)
        BY <2>1, <2>0 DEF SubmitSend, ProcessCollect, ProcessTimeout, TypeOK
      <4> QED BY <2>0, <4>1, OthersKeepSettled
    <3> QED BY <2>1, <3>4, <3>5 DEF SubmitSend, Pool!Admit
  <2>2. ASSUME NEW w \in Worker, WorkerReceive(w) PROVE Pool!Take(w)
    <3>1. cur[w] = NoTask
      BY <2>0, <2>2 DEF WorkerReceive, HandsMatch
    <3>2. Settled' = Settled
      <4>1. \A v \in Worker : ~ProcessCollect(v) /\ ~ProcessTimeout(v)
        BY <2>2, <2>0 DEF WorkerReceive, ProcessCollect, ProcessTimeout, TypeOK
      <4> QED BY <2>0, <4>1, OthersKeepSettled
    <3> QED BY <2>2, <3>1, <3>2 DEF WorkerReceive, Pool!Take
  <2>3. ASSUME NEW w \in Worker, ProcessCollect(w) \/ ProcessTimeout(w)
        PROVE  Pool!Settle(w)
    <3>1. cur[w] # NoTask
      BY <2>0, <2>3 DEF ProcessCollect, ProcessTimeout, HandsMatch
    <3>2. Settled' = Settled \cup {cur[w]}
      BY <2>0, <2>3, VerdictSettles
    <3> QED BY <2>3, <3>1, <3>2 DEF ProcessCollect, ProcessTimeout, Pool!Settle
  <2>4. ASSUME \A t \in Task : ~SubmitSend(t),
               \A w \in Worker : /\ ~WorkerReceive(w)
                                 /\ ~ProcessCollect(w) /\ ~ProcessTimeout(w)
        PROVE  UNCHANGED Pool!evars
    <3>1. Settled' = Settled
      BY <2>0, <2>4, OthersKeepSettled
    <3>2. UNCHANGED <<tasks, cur, completed, failed>>
      BY <2>4 DEF Next, Step, Submit, SubmitFull, SubmitClosed, SubmitCount,
         WorkerStep, WorkerExit, ProcessBegin, ProcessDispatch, ProcessEnd,
         ProcessorReturn, Start, Stop, StopCancel, StopClose, StopDone,
         StopTimeout, vars
    <3> QED BY <3>1, <3>2 DEF Pool!evars
  <2> QED BY <2>1, <2>2, <2>3, <2>4 DEF Pool!ENext
<1> QED
  BY <1>1, <1>2, PoolInvariant, PTL DEF Safety, ImplementsExecutor, Pool!ESpec
=============================================================================
