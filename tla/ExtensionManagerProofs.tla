------------------------ MODULE ExtensionManagerProofs ------------------------
(***************************************************************************)
(* Theorems about ExtensionManager, for every set of extension names,      *)
(* every number of InitExtensions callers, every dependency graph and any  *)
(* mixture of registration, plugins, cleanup and failing hooks.            *)
(***************************************************************************)
EXTENDS ExtensionManager, FiniteSetTheorems, WellFoundedInduction, TLAPS

-----------------------------------------------------------------------------
(***************************************************************************)
(* The inductive invariant.                                                *)
(***************************************************************************)

\* The calls that have their order.
Planned(c) == ipc[c] \in {"hooks", "finish", "ok", "failed"}

\* The order of a call has every registered extension and, unless dependencies
\* were dropped to break a cycle, each one after what it depends on.
OrderSound(c) ==
  Planned(c) =>
    /\ \A n \in dep.reg : \E i \in 1..Len(order[c]) : order[c][i] = n
    /\ ~HasCycle(Graph) =>
         \A i \in 1..Len(order[c]) : order[c][i] \in dep.reg =>
           \A d \in Graph[order[c][i]] : \E j \in 1..(i - 1) : order[c][j] = d

\* The hooks that a call has passed have run, phase after phase.
HooksRun(c) ==
  \A i \in 1..Len(order[c]) :
    /\ i <= pos[c] => Ran(order[c][i], "PreInit")
    /\ Len(order[c]) + i <= pos[c] => Ran(order[c][i], "Init")
    /\ 2 * Len(order[c]) + i <= pos[c] => Ran(order[c][i], "PostInit")

\* A call that is past its hooks has run all of them, and only such a call starts
\* the optional services.
CallSound(c) ==
  /\ ~Planned(c) => order[c] = <<>> /\ pos[c] = 0
  /\ ipc[c] \in {"finish", "ok"} => pos[c] = 3 * Len(order[c])
  /\ apc[c] # "none" => ipc[c] \in {"finish", "ok"}

\* The entries that a call is about to use are in the map, unless they were taken away.
Removed == kpc = "done" \/ \E n \in Name : upc[n] = "blocked"
EntriesThere(c) ==
  ipc[c] = "hooks" => Removed \/ \A i \in 1..Len(order[c]) : order[c][i] \in extensions

Calls ==
  \A c \in Caller : OrderSound(c) /\ HooksRun(c) /\ CallSound(c) /\ EntriesThere(c)

\* What is still to be cleaned up is known to the manager.
Tracked ==
  kpc = "idle" =>
    \A n \in Name \ dep.plugins : Ran(n, "PreInit") => n \in extensions \cup cleaned

IInv ==
  /\ TypeOK /\ Calls /\ Tracked
  /\ DependenciesFirst /\ AnnouncedIsReady /\ PanicNeedsRemoval

-----------------------------------------------------------------------------
(***************************************************************************)
(* Orders, positions and hooks.                                            *)
(***************************************************************************)

\* The position of a call gives the phase and the place in the order.
LEMMA Position ==
  ASSUME NEW p \in Nat, NEW L \in Nat, p < 3 * L
  PROVE  /\ \/ p < L /\ p \div L = 0 /\ p % L = p
            \/ L <= p /\ p < 2 * L /\ p \div L = 1 /\ p % L = p - L
            \/ 2 * L <= p /\ p \div L = 2 /\ p % L = p - 2 * L
         /\ (p % L) + 1 \in 1..L
<1>0. L > 0
  OBVIOUS
<1>1. p < L => p \div L = 0 /\ p % L = p
  BY <1>0
<1>2. L <= p /\ p < 2 * L => p \div L = 1 /\ p % L = p - L
  BY <1>0
<1>3. 2 * L <= p => p \div L = 2 /\ p % L = p - 2 * L
  BY <1>0
<1>4. (p % L) + 1 \in 1..L
  BY <1>0, <1>1, <1>2, <1>3
<1> QED BY <1>1, <1>2, <1>3, <1>4

\* A list of exactly these extensions in which each one of the graph comes after its
\* dependencies.
Lists(s, exts, g) ==
  /\ s \in Seq(Name) /\ \A i \in 1..Len(s) : s[i] \in exts
  /\ \A n \in exts : \E i \in 1..Len(s) : s[i] = n
  /\ \A i \in 1..Len(s) : s[i] \in DOMAIN g =>
       \A d \in g[s[i]] : \E j \in 1..(i - 1) : s[j] = d

\* getInitOrder lists every extension.
LEMMA OrderCovers ==
  ASSUME NEW exts, exts \subseteq Name, NEW g, NEW s \in InitOrders(exts, g)
  PROVE  Lists(s, exts, g)
<1> DEFINE N == Cardinality(exts)
<1>1. IsFiniteSet(exts) /\ N \in Nat
  BY NameAssumption, FS_Subset, FS_CardinalityType
<1>2. /\ s \in [1..N -> exts] /\ \A i, j \in 1..N : i # j => s[i] # s[j]
      /\ \A i \in 1..N : s[i] \in DOMAIN g => \A d \in g[s[i]] : \E j \in 1..(i - 1) : s[j] = d
  BY DEF InitOrders
<1> HIDE DEF N
<1>3. s \in Seq(Name) /\ Len(s) = N
  BY <1>1, <1>2
<1>4. s \in Injection(1..N, exts)
  BY <1>2 DEF Injection, IsInjective
<1>5. Cardinality(1..N) = Cardinality(exts)
  BY <1>1, FS_Interval DEF N
<1>6. s \in Surjection(1..N, exts)
  BY <1>1, <1>4, <1>5, FS_Injection
<1>7. \A n \in exts : \E i \in 1..N : s[i] = n
  BY <1>6 DEF Surjection
<1> QED BY <1>2, <1>3, <1>7 DEF Lists

\* The actions of Next, one by one.
LEMMA Actions ==
  ASSUME [Next]_vars
  PROVE  \/ \E n \in Name : \/ RegisterExtension(n) \/ LoadPlugin(n)
                            \/ UnloadLock(n) \/ UnloadFails(n) \/ UnloadRemove(n)
         \/ \E c \in Caller : \/ InitCheck(c) \/ InitPrepare(c) \/ InitHook(c)
                              \/ InitHookFails(c) \/ InitHookPanics(c)
                              \/ InitReady(c) \/ InitFinish(c)
                              \/ AsyncDiscover(c) \/ AsyncClear(c) \/ AsyncFind(c)
                              \/ AsyncRegister(c)
         \/ CleanupSnapshot \/ CleanupEach \/ CleanupClear \/ MapRace
         \/ UNCHANGED vars
BY DEF Next, Step, UnloadPlugin, InitExtensions, Async, Cleanup

HookNames == {"PreInit", "Init", "PostInit"}

\* How many hooks a call with L extensions runs in the phases before the one of h.
Before(h, L) == IF h = "PreInit" THEN 0 ELSE IF h = "Init" THEN L ELSE 2 * L

\* Call c runs hook h of the i-th extension of its order.
Runs(c, i, h) ==
  /\ pos[c] + 1 = Before(h, Len(order[c])) + i
  /\ order[c][i] \in extensions
  /\ hooks' \in [Name -> [HookNames -> Nat]]
  /\ \A m \in Name, x \in HookNames :
       Ran(m, x)' <=> Ran(m, x) \/ (m = order[c][i] /\ x = h)
  /\ h = "PostInit" => events' = events \cup {order[c][i]}
  /\ h # "PostInit" => events' = events

\* A hook of a call: the one at its position, of the extension at that place of the
\* order.  PostInit, and only PostInit, is followed by the ready event.
LEMMA HookStep ==
  ASSUME TypeOK, NEW c \in Caller, InitHook(c)
  PROVE  \E i \in 1..Len(order[c]), h \in HookNames : Runs(c, i, h)
<1> DEFINE L == Len(order[c])
           p == pos[c]
           i == (p % L) + 1
           h == HookOf(c)
<1>1. L \in Nat /\ p \in Nat /\ p < 3 * L
  BY DEF TypeOK, InitHook
<1>2. /\ h = Hooks[(p \div L) + 1] /\ ExtOf(c) = order[c][i]
      /\ order[c][i] \in extensions /\ hooks' = [hooks EXCEPT ![order[c][i]][h] = @ + 1]
      /\ events' = IF h = "PostInit" THEN events \cup {order[c][i]} ELSE events
  BY DEF InitHook, HookOf, ExtOf
<1>3. /\ i \in 1..L /\ h \in HookNames
      /\ p + 1 = Before(h, L) + i
  <2>1. CASE p < L /\ p \div L = 0 /\ p % L = p
    <3>1. h = "PreInit" /\ i = p + 1 /\ Before(h, L) = 0
      BY <1>2, <2>1 DEF Hooks, Before
    <3> HIDE DEF h, i, p, L
    <3>2. i \in 1..L /\ p + 1 = Before(h, L) + i
      BY <1>1, <2>1, <3>1
    <3> QED BY <3>1, <3>2 DEF HookNames
  <2>2. CASE L <= p /\ p < 2 * L /\ p \div L = 1 /\ p % L = p - L
    <3>1. h = "Init" /\ i = p - L + 1 /\ Before(h, L) = L
      BY <1>2, <2>2 DEF Hooks, Before
    <3> HIDE DEF h, i
    <3> QED BY <1>1, <2>2, <3>1 DEF HookNames
  <2>3. CASE 2 * L <= p /\ p \div L = 2 /\ p % L = p - 2 * L
    <3>1. h = "PostInit" /\ i = p - 2 * L + 1 /\ Before(h, L) = 2 * L
      BY <1>2, <2>3 DEF Hooks, Before
    <3> HIDE DEF h, i
    <3> QED BY <1>1, <2>3, <3>1 DEF HookNames
  <2> QED BY <1>1, <2>1, <2>2, <2>3, Position
<1>4. hooks \in [Name -> [HookNames -> Nat]] /\ extensions \subseteq Name
  BY DEF TypeOK, HookNames
<1> HIDE DEF h, i
<1> SUFFICES ASSUME NEW j \in 1..L, NEW k \in HookNames, j = i, k = h
             PROVE  Runs(c, j, k)
  BY <1>3
<1>5. PICK n \in Name : n = order[c][j]
  BY <1>2, <1>4
<1>6. hooks' = [hooks EXCEPT ![n][k] = @ + 1]
  BY <1>2, <1>5
<1>7. /\ hooks' \in [Name -> [HookNames -> Nat]]
      /\ \A m \in Name, x \in HookNames :
           hooks'[m][x] = IF m = n /\ x = k THEN hooks[m][x] + 1 ELSE hooks[m][x]
  BY <1>4, <1>6
<1>8. \A m \in Name, x \in HookNames : Ran(m, x)' <=> Ran(m, x) \/ (m = n /\ x = k)
  BY <1>4, <1>7 DEF Ran
<1> QED BY <1>2, <1>3, <1>5, <1>7, <1>8 DEF Runs

\* LoadPlugin runs hooks of its plugin only.
LEMMA LoadStep ==
  ASSUME TypeOK, NEW n \in Name, LoadPlugin(n)
  PROVE  /\ n \in dep.plugins /\ hooks' \in [Name -> [HookNames -> Nat]]
         /\ \A m \in Name, x \in HookNames :
              /\ Ran(m, x) => Ran(m, x)'
              /\ m # n => (Ran(m, x)' <=> Ran(m, x))
<1>1. hooks \in [Name -> [HookNames -> Nat]]
  BY DEF TypeOK, HookNames
<1>2. PICK ran \in 0..Len(Hooks) :
        hooks' = [hooks EXCEPT ![n] = [h \in HookNames |->
                   IF \E i \in 1..ran : Hooks[i] = h THEN hooks[n][h] + 1 ELSE hooks[n][h]]]
  BY <1>1 DEF LoadPlugin
<1> DEFINE f == [h \in HookNames |->
                   IF \E i \in 1..ran : Hooks[i] = h THEN hooks[n][h] + 1 ELSE hooks[n][h]]
<1>3. f \in [HookNames -> Nat] /\ \A x \in HookNames : f[x] >= hooks[n][x]
  BY <1>1
<1>4. hooks' = [hooks EXCEPT ![n] = f]
  BY <1>2
<1> HIDE DEF f
<1>5. /\ hooks' \in [Name -> [HookNames -> Nat]] /\ hooks'[n] = f
      /\ \A m \in Name : m # n => hooks'[m] = hooks[m]
  BY <1>1, <1>3, <1>4
<1>6. \A m \in Name, x \in HookNames :
        /\ Ran(m, x) => Ran(m, x)'
        /\ m # n => (Ran(m, x)' <=> Ran(m, x))
  <2> TAKE m \in Name, x \in HookNames
  <2>1. hooks[m][x] \in Nat /\ hooks'[m][x] \in Nat /\ hooks'[m][x] >= hooks[m][x]
    <3>1. hooks[m] \in [HookNames -> Nat] /\ hooks'[m] \in [HookNames -> Nat]
      BY <1>1, <1>5
    <3>2. m = n => hooks'[m][x] >= hooks[m][x]
      BY <1>3, <1>5
    <3>3. m # n => hooks'[m] = hooks[m]
      BY <1>5
    <3> QED BY <3>1, <3>2, <3>3
  <2>2. m # n => hooks'[m][x] = hooks[m][x]
    BY <1>5
  <2> QED BY <2>1, <2>2 DEF Ran
<1> QED BY <1>5, <1>6 DEF LoadPlugin, CanLoad

\* The other steps run no hook.
LEMMA OtherSteps ==
  ASSUME [Next]_vars
  PROVE  \/ hooks' = hooks
         \/ \E n \in Name : LoadPlugin(n)
         \/ \E c \in Caller : InitHook(c)
BY Actions
DEF RegisterExtension, UnloadLock, UnloadFails, UnloadRemove, InitCheck, InitPrepare,
    InitHookFails, InitHookPanics, InitReady, InitFinish, AsyncDiscover, AsyncClear,
    AsyncFind, AsyncRegister, CleanupSnapshot, CleanupEach, CleanupClear, MapRace, vars

\* No step forgets a hook that has run.
LEMMA HooksGrow ==
  ASSUME TypeOK, [Next]_vars
  PROVE  /\ hooks' \in [Name -> [HookNames -> Nat]]
         /\ \A n \in Name, h \in HookNames : Ran(n, h) => Ran(n, h)'
<1>1. hooks \in [Name -> [HookNames -> Nat]]
  BY DEF TypeOK, HookNames
<1>2. CASE hooks' = hooks
  BY <1>1, <1>2 DEF Ran
<1>3. ASSUME NEW n \in Name, LoadPlugin(n)
      PROVE  /\ hooks' \in [Name -> [HookNames -> Nat]]
             /\ \A m \in Name, h \in HookNames : Ran(m, h) => Ran(m, h)'
  BY <1>3, LoadStep
<1>4. ASSUME NEW c \in Caller, InitHook(c)
      PROVE  /\ hooks' \in [Name -> [HookNames -> Nat]]
             /\ \A m \in Name, h \in HookNames : Ran(m, h) => Ran(m, h)'
  BY <1>4, HookStep DEF Runs
<1> QED BY OtherSteps, <1>2, <1>3, <1>4

\* The program does not change.
LEMMA SameProgram ==
  ASSUME [Next]_vars PROVE dep' = dep /\ Graph' = Graph
<1>1. dep' = dep
  BY Actions
  DEF RegisterExtension, LoadPlugin, UnloadLock, UnloadFails, UnloadRemove, InitCheck,
      InitPrepare, InitHook, InitHookFails, InitHookPanics, InitReady, InitFinish,
      AsyncDiscover, AsyncClear, AsyncFind, AsyncRegister, CleanupSnapshot, CleanupEach,
      CleanupClear, MapRace, vars
<1> QED BY <1>1 DEF Graph

-----------------------------------------------------------------------------
(***************************************************************************)
(* Type correctness.                                                       *)
(***************************************************************************)

\* A new manager has its type.
LEMMA InitTypeOK == Init => TypeOK
<1> SUFFICES ASSUME Init PROVE TypeOK
  OBVIOUS
<1>1. order \in [Caller -> Seq(Name)] /\ pos \in [Caller -> Nat]
  BY DEF Init
<1>2. \A c \in Caller : pos[c] <= 3 * Len(order[c])
  BY DEF Init
<1>3. hooks \in [Name -> [HookNames -> Nat]]
  BY DEF Init, HookNames
<1>4. fails \in 0..MaxFails
  BY BoundAssumption DEF Init
<1> QED BY <1>1, <1>2, <1>3, <1>4 DEF Init, TypeOK, HookNames

\* Every step of every caller keeps the type.
LEMMA NextTypeOK == TypeOK /\ Calls /\ [Next]_vars => TypeOK'
<1> SUFFICES ASSUME TypeOK, Calls, [Next]_vars PROVE TypeOK'
  OBVIOUS
<1>0. /\ hooks' \in [Name -> [{"PreInit", "Init", "PostInit"} -> Nat]] /\ dep' \in Deployments
      /\ MaxFails \in Nat /\ dep.reg \subseteq Name /\ extensions \subseteq Name
  <2>1. hooks' \in [Name -> [HookNames -> Nat]] /\ dep' = dep
    BY HooksGrow, SameProgram
  <2>2. dep \in DeploymentType /\ dep \in Deployments
    BY DeploymentAssumption DEF TypeOK
  <2> QED BY <2>1, <2>2, BoundAssumption DEF HookNames, DeploymentType, TypeOK
<1>1. ASSUME NEW S, S \subseteq Name, MayVisit(S) PROVE todo' \in [Caller -> SUBSET Name]
  BY <1>1 DEF MayVisit, TypeOK
<1> USE DEF initVars, asyncVars, cleanVars
<1>2. ASSUME NEW n \in Name, RegisterExtension(n) PROVE TypeOK'
  BY <1>0, <1>1, <1>2 DEF RegisterExtension, TypeOK
<1>3. ASSUME NEW n \in Name, LoadPlugin(n) PROVE TypeOK'
  <2>1. /\ todo' = todo \/ MayVisit({n})
        /\ extensions' = extensions \/ extensions' = extensions \cup {n}
        /\ fails' = fails \/ (fails < MaxFails /\ fails' = fails + 1)
    BY <1>3 DEF LoadPlugin
  <2>2. todo' \in [Caller -> SUBSET Name]
    <3>1. {n} \subseteq Name /\ todo \in [Caller -> SUBSET Name]
      BY DEF TypeOK
    <3> QED BY <1>1, <2>1, <3>1
  <2>3. fails' \in 0..MaxFails
    BY <1>0, <2>1 DEF TypeOK
  <2> QED BY <1>0, <1>3, <2>1, <2>2, <2>3 DEF LoadPlugin, TypeOK
<1>4. ASSUME NEW n \in Name, UnloadLock(n) PROVE TypeOK'
  BY <1>0, <1>4 DEF UnloadLock, TypeOK
<1>5. ASSUME NEW n \in Name, UnloadFails(n) PROVE TypeOK'
  BY <1>0, <1>5 DEF UnloadFails, TypeOK
<1>6. ASSUME NEW n \in Name, UnloadRemove(n) PROVE TypeOK'
  BY <1>0, <1>6 DEF UnloadRemove, TypeOK
<1>7. ASSUME NEW c \in Caller, InitCheck(c) PROVE TypeOK'
  BY <1>0, <1>7 DEF InitCheck, TypeOK, Returned
<1>8. ASSUME NEW c \in Caller, InitHookFails(c) PROVE TypeOK'
  <2>1. fails' \in 0..MaxFails
    BY <1>0, <1>8 DEF InitHookFails, TypeOK
  <2>2. ipc' \in [Caller -> {"idle", "prepare", "hooks", "finish"} \cup Returned]
    BY <1>8 DEF InitHookFails, TypeOK, Returned
  <2> QED BY <1>0, <1>8, <2>1, <2>2 DEF InitHookFails, TypeOK
<1>9. ASSUME NEW c \in Caller, InitHookPanics(c) PROVE TypeOK'
  BY <1>0, <1>9 DEF InitHookPanics, TypeOK
<1>10. ASSUME NEW c \in Caller, InitPrepare(c) PROVE TypeOK'
  <2> DEFINE exts == extensions \cup dep.reg
  <2>1. exts \subseteq Name
    BY <1>0
  <2>2. order' = order \/ \E s \in Seq(Name) : order' = [order EXCEPT ![c] = s]
    <3>1. ASSUME NEW g, NEW s \in InitOrders(exts, g), order' = [order EXCEPT ![c] = s]
          PROVE  \E x \in Seq(Name) : order' = [order EXCEPT ![c] = x]
      <4>1. Lists(s, exts, g)
        BY <2>1, OrderCovers
      <4> QED BY <3>1, <4>1 DEF Lists
    <3> QED BY <1>10, <3>1 DEF InitPrepare
  <2>3. pos[c] = 0 /\ pos' = pos
    BY <1>10 DEF InitPrepare, Calls, CallSound, Planned
  <2>4. /\ order' \in [Caller -> Seq(Name)]
        /\ \A x \in Caller : pos'[x] <= 3 * Len(order'[x])
    <3>1. order \in [Caller -> Seq(Name)] /\ \A x \in Caller : pos[x] <= 3 * Len(order[x])
      BY DEF TypeOK
    <3>2. order' \in [Caller -> Seq(Name)] /\ \A x \in Caller : x # c => order'[x] = order[x]
      BY <2>2, <3>1
    <3>3. Len(order'[c]) \in Nat
      BY <3>2
    <3>4. ASSUME NEW x \in Caller PROVE pos'[x] <= 3 * Len(order'[x])
      <4>1. CASE x = c
        BY <2>3, <3>3, <4>1
      <4>2. CASE x # c
        BY <2>3, <3>1, <3>2, <4>2
      <4> QED BY <4>1, <4>2
    <3> QED BY <3>2, <3>4
  <2>5. ipc' \in [Caller -> {"idle", "prepare", "hooks", "finish"} \cup Returned]
    <3>1. ipc' = [ipc EXCEPT ![c] = "missing"] \/ ipc' = [ipc EXCEPT ![c] = "hooks"]
            \/ ipc' = [ipc EXCEPT ![c] = "cycle"]
      BY <1>10 DEF InitPrepare
    <3> QED BY <3>1 DEF TypeOK, Returned
  <2>6. todo' \in [Caller -> SUBSET Name] /\ extensions' \subseteq Name
    BY <1>0, <1>1, <1>10 DEF InitPrepare
  <2>7. /\ mu' = mu /\ initialized' = initialized /\ pos' = pos /\ fails' = fails
        /\ events' = events /\ apc' = apc /\ found' = found /\ consul' = consul
        /\ cross' = cross /\ kpc' = kpc /\ ktodo' = ktodo /\ cleaned' = cleaned
        /\ upc' = upc /\ crashed' = crashed
    BY <1>10 DEF InitPrepare
  <2> QED BY <1>0, <2>4, <2>5, <2>6, <2>7 DEF TypeOK
<1>11. ASSUME NEW c \in Caller, InitHook(c) PROVE TypeOK'
  <2>1. /\ pos' \in [Caller -> Nat] /\ \A x \in Caller : pos'[x] <= 3 * Len(order[x])
    <3>1. pos \in [Caller -> Nat] /\ \A x \in Caller : pos[x] <= 3 * Len(order[x])
      BY DEF TypeOK
    <3>2. pos[c] < 3 * Len(order[c]) /\ pos' = [pos EXCEPT ![c] = pos[c] + 1]
      BY <1>11 DEF InitHook, Advance
    <3>3. \A x \in Caller : Len(order[x]) \in Nat
      BY DEF TypeOK
    <3>4. pos' \in [Caller -> Nat]
      BY <3>1, <3>2
    <3>5. \A x \in Caller : pos'[x] = IF x = c THEN pos[c] + 1 ELSE pos[x]
      BY <3>1, <3>2
    <3> HIDE DEF TypeOK
    <3> QED BY ONLY <3>1, <3>2, <3>3, <3>4, <3>5
  <2>2. events' \subseteq Name
    BY <1>11 DEF InitHook, TypeOK
  <2> QED BY <1>0, <1>11, <2>1, <2>2 DEF InitHook, TypeOK
<1>12. ASSUME NEW c \in Caller, InitReady(c) PROVE TypeOK'
  BY <1>0, <1>12 DEF InitReady, TypeOK
<1>13. ASSUME NEW c \in Caller, InitFinish(c) PROVE TypeOK'
  BY <1>0, <1>13 DEF InitFinish, TypeOK, Returned
<1>14. ASSUME NEW c \in Caller, AsyncDiscover(c) PROVE TypeOK'
  BY <1>0, <1>14 DEF AsyncDiscover, TypeOK
<1>15. ASSUME NEW c \in Caller, AsyncClear(c) PROVE TypeOK'
  BY <1>0, <1>15 DEF AsyncClear, TypeOK
<1>16. ASSUME NEW c \in Caller, AsyncFind(c) PROVE TypeOK'
  <2>1. /\ found' \in [Caller -> Name \cup {NoName}]
        /\ todo' \in [Caller -> SUBSET Name]
    <3>1. CASE found' = found /\ todo' = todo
      BY <3>1 DEF TypeOK
    <3>2. ASSUME NEW n \in todo[c], NEW x \in Name \cup {NoName},
                 found' = [found EXCEPT ![c] = x], todo' = [todo EXCEPT ![c] = todo[c] \ {n}]
          PROVE  /\ found' \in [Caller -> Name \cup {NoName}]
                 /\ todo' \in [Caller -> SUBSET Name]
      <4>1. found \in [Caller -> Name \cup {NoName}] /\ todo \in [Caller -> SUBSET Name]
        BY DEF TypeOK
      <4>2. todo[c] \ {n} \in SUBSET Name
        BY <4>1
      <4> QED BY <3>2, <4>1, <4>2
    <3>3. ASSUME NEW n \in todo[c]
          PROVE  (IF n \in extensions THEN n ELSE NoName) \in Name \cup {NoName}
      BY <1>0
    <3> QED BY <1>16, <3>1, <3>2, <3>3 DEF AsyncFind
  <2>2. apc' \in [Caller -> {"none", "discover", "clear", "cross", "done"}]
    BY <1>16 DEF AsyncFind, TypeOK
  <2> QED BY <1>0, <1>16, <2>1, <2>2 DEF AsyncFind, TypeOK
<1>17. ASSUME NEW c \in Caller, AsyncRegister(c) PROVE TypeOK'
  BY <1>0, <1>17 DEF AsyncRegister, TypeOK
<1>18. CASE CleanupSnapshot
  BY <1>0, <1>18 DEF CleanupSnapshot, TypeOK
<1>19. CASE CleanupEach
  BY <1>0, <1>19 DEF CleanupEach, TypeOK
<1>20. CASE CleanupClear
  BY <1>0, <1>20 DEF CleanupClear, TypeOK
<1>21. CASE MapRace \/ UNCHANGED vars
  BY <1>0, <1>21 DEF MapRace, vars, TypeOK
<1> QED BY Actions, <1>2, <1>3, <1>4, <1>5, <1>6, <1>7, <1>8, <1>9, <1>10, <1>11, <1>12,
           <1>13, <1>14, <1>15, <1>16, <1>17, <1>18, <1>19, <1>20, <1>21

-----------------------------------------------------------------------------
(***************************************************************************)
(* The calls of InitExtensions.                                            *)
(***************************************************************************)

\* Their orders and their hooks.
LEMMA NextOrders ==
  ASSUME TypeOK, Calls, [Next]_vars, NEW c \in Caller
  PROVE  OrderSound(c)' /\ HooksRun(c)' /\ CallSound(c)'
<1> DEFINE Goal == OrderSound(c)' /\ HooksRun(c)' /\ CallSound(c)'
<1> USE DEF initVars, asyncVars, cleanVars
<1>0. /\ dep' = dep /\ Graph' = Graph /\ OrderSound(c) /\ HooksRun(c) /\ CallSound(c)
      /\ \A n \in Name, h \in HookNames : Ran(n, h) => Ran(n, h)'
      /\ ipc \in [Caller -> {"idle", "prepare", "hooks", "finish"} \cup Returned]
      /\ order \in [Caller -> Seq(Name)] /\ pos \in [Caller -> Nat]
      /\ \A x \in Caller : pos[x] <= 3 * Len(order[x])
      /\ apc \in [Caller -> {"none", "discover", "clear", "cross", "done"}]
      /\ dep.reg \subseteq Name /\ extensions \subseteq Name /\ Graph \in [dep.reg -> SUBSET Name]
  <2>1. dep \in DeploymentType
    BY DeploymentAssumption DEF TypeOK
  <2>2. dep.reg \subseteq Name /\ Graph \in [dep.reg -> SUBSET Name]
    BY <2>1 DEF DeploymentType, Graph, DeclaredGraph
  <2> QED BY <2>2, SameProgram, HooksGrow DEF TypeOK, Calls
<1>1. \A i \in 1..Len(order[c]), h \in HookNames :
        hooks[order[c][i]][h] > 0 => hooks'[order[c][i]][h] > 0
  <2>1. \A i \in 1..Len(order[c]) : order[c][i] \in Name
    BY <1>0
  <2> QED BY <1>0, <2>1 DEF Ran
<1>22. ASSUME order'[c] = order[c], Planned(c)' => Planned(c) PROVE OrderSound(c)'
  <2>1. dep'.reg = dep.reg /\ Graph' = Graph /\ OrderSound(c)
    BY <1>0
  <2>2. HasCycle(Graph)' <=> HasCycle(Graph)
    BY <2>1
  <2> HIDE DEF Goal
  <2> SUFFICES ASSUME Planned(c)'
               PROVE  /\ \A n \in dep'.reg : \E i \in 1..Len(order'[c]) : order'[c][i] = n
                      /\ ~HasCycle(Graph)' =>
                           \A i \in 1..Len(order'[c]) : order'[c][i] \in dep'.reg =>
                             \A d \in (Graph')[order'[c][i]] :
                               \E j \in 1..(i - 1) : order'[c][j] = d
    BY DEF OrderSound
  <2>3. /\ \A n \in dep.reg : \E i \in 1..Len(order[c]) : order[c][i] = n
        /\ ~HasCycle(Graph) =>
             \A i \in 1..Len(order[c]) : order[c][i] \in dep.reg =>
               \A d \in Graph[order[c][i]] : \E j \in 1..(i - 1) : order[c][j] = d
    BY ONLY <1>22, <2>1, Planned(c)' DEF OrderSound
  <2>4. \A n \in dep'.reg : \E i \in 1..Len(order'[c]) : order'[c][i] = n
    BY ONLY <1>22, <2>1, <2>3, Zenon
  <2>5. ASSUME ~HasCycle(Graph)', NEW i \in 1..Len(order'[c]), order'[c][i] \in dep'.reg,
               NEW d \in (Graph')[order'[c][i]]
        PROVE  \E j \in 1..(i - 1) : order'[c][j] = d
    <3>1. i \in 1..Len(order[c]) /\ order[c][i] \in dep.reg /\ d \in Graph[order[c][i]]
      BY ONLY <1>22, <2>1, <2>5
    <3>2. \E j \in 1..(i - 1) : order[c][j] = d
      BY ONLY <2>2, <2>3, <2>5, <3>1
    <3> QED BY ONLY <1>22, <3>2
  <2> QED BY ONLY <2>4, <2>5, Zenon
<1>2. ASSUME ipc'[c] = ipc[c], order'[c] = order[c], pos'[c] = pos[c], apc'[c] = apc[c]
      PROVE  Goal
  <2>1. OrderSound(c)'
    <3>1. Planned(c)' => Planned(c)
      BY <1>2 DEF Planned
    <3> QED BY <1>2, <1>22, <3>1
  <2>2. HooksRun(c)'
    BY <1>0, <1>1, <1>2 DEF HooksRun, HookNames, Ran
  <2>3. CallSound(c)'
    BY <1>0, <1>2 DEF CallSound, Planned
  <2> QED BY <2>1, <2>2, <2>3
<1>3. ASSUME ipc'[c] = "prepare" \/ ipc'[c] = "already" \/ ipc'[c] = "missing"
                \/ ipc'[c] = "cycle",
             ~Planned(c), order'[c] = order[c], pos'[c] = pos[c], apc'[c] = apc[c],
             ipc[c] \notin {"finish", "ok"}
      PROVE  Goal
  BY <1>0, <1>3 DEF OrderSound, HooksRun, CallSound, Planned
<1>4. ASSUME NEW x \in Caller, InitCheck(x) PROVE Goal
  <2>1. CASE x = c
    <3>1. /\ ipc'[c] = "prepare" \/ ipc'[c] = "already"
          /\ order' = order /\ pos' = pos /\ apc' = apc /\ ipc[c] = "idle"
      BY <1>0, <1>4, <2>1 DEF InitCheck
    <3> QED BY <1>3, <3>1 DEF Planned
  <2>2. CASE x # c
    BY <1>0, <1>2, <1>4, <2>2 DEF InitCheck
  <2> QED BY <2>1, <2>2
<1>5. ASSUME NEW x \in Caller, InitPrepare(x) PROVE Goal
  <2> DEFINE exts == extensions \cup dep.reg
  <2>0. pos' = pos /\ apc' = apc /\ ipc[x] = "prepare"
    BY <1>5 DEF InitPrepare
  <2>1. \/ order' = order /\ (ipc' = [ipc EXCEPT ![x] = "missing"] \/
                                ipc' = [ipc EXCEPT ![x] = "cycle"])
        \/ \E g \in ResolvedGraphs(dep.reg, dep.strong, dep.weak) :
             /\ \E s \in InitOrders(exts, g) : order' = [order EXCEPT ![x] = s]
             /\ ipc' = [ipc EXCEPT ![x] = "hooks"]
    BY <1>5 DEF InitPrepare
  <2>2. CASE x # c
    <3>1. ipc'[c] = ipc[c] /\ order'[c] = order[c]
      BY <1>0, <2>1, <2>2
    <3> QED BY <1>2, <2>0, <3>1
  <2>3. CASE x = c /\ order' = order /\ (ipc' = [ipc EXCEPT ![x] = "missing"] \/
                                          ipc' = [ipc EXCEPT ![x] = "cycle"])
    <3>1. ipc'[c] = "missing" \/ ipc'[c] = "cycle"
      BY <1>0, <2>3
    <3> QED BY <1>3, <2>0, <2>3, <3>1 DEF Planned
  <2>4. ASSUME x = c, NEW g \in ResolvedGraphs(dep.reg, dep.strong, dep.weak),
               NEW s \in InitOrders(exts, g), order' = [order EXCEPT ![x] = s],
               ipc' = [ipc EXCEPT ![x] = "hooks"]
        PROVE  Goal
    <3>1. order'[c] = s /\ ipc'[c] = "hooks"
      BY <1>0, <2>4
    <3>2. pos[c] = 0 /\ apc[c] = "none"
      BY <1>0, <2>0, <2>4 DEF CallSound, Planned
    <3>3. /\ s \in Seq(Name) /\ \A n \in exts : \E i \in 1..Len(s) : s[i] = n
          /\ \A i \in 1..Len(s) : s[i] \in DOMAIN g =>
               \A d \in g[s[i]] : \E j \in 1..(i - 1) : s[j] = d
      <4>1. exts \subseteq Name
        BY <1>0
      <4>2. Lists(s, exts, g)
        BY <4>1, OrderCovers
      <4> QED BY <4>2 DEF Lists
    <3>4. ~HasCycle(Graph) => g = Graph
      BY <2>4 DEF Graph, ResolvedGraphs
    <3>5. OrderSound(c)'
      <4>1. \A n \in dep.reg : \E i \in 1..Len(s) : s[i] = n
        BY <3>3
      <4>2. ~HasCycle(Graph) =>
              \A i \in 1..Len(s) : s[i] \in dep.reg =>
                \A d \in Graph[s[i]] : \E j \in 1..(i - 1) : s[j] = d
        BY <1>0, <3>3, <3>4
      <4> QED BY <1>0, <3>1, <4>1, <4>2 DEF OrderSound
    <3>6. HooksRun(c)'
      <4>1. Len(s) \in Nat
        BY <3>3
      <4>2. ~\E i \in 1..Len(s) : i <= 0 \/ Len(s) + i <= 0 \/ 2 * Len(s) + i <= 0
        BY <4>1
      <4>3. order'[c] = s /\ pos'[c] = 0
        BY <2>0, <3>1, <3>2
      <4>4. ASSUME NEW i \in 1..Len(order'[c])
            PROVE  ~(i <= pos'[c] \/ Len(order'[c]) + i <= pos'[c] \/ 2 * Len(order'[c]) + i <= pos'[c])
        BY <4>2, <4>3
      <4> QED BY <4>4 DEF HooksRun
    <3>7. CallSound(c)'
      BY <2>0, <3>1, <3>2 DEF CallSound, Planned
    <3> QED BY <3>5, <3>6, <3>7
  <2> QED BY <2>1, <2>2, <2>3, <2>4
<1>6. ASSUME NEW x \in Caller, InitHook(x) PROVE Goal
  <2>0. /\ ipc' = ipc /\ order' = order /\ apc' = apc /\ pos' = [pos EXCEPT ![x] = @ + 1]
        /\ ipc[x] = "hooks"
    BY <1>6 DEF InitHook, Advance
  <2>1. CASE x # c
    <3>1. pos'[c] = pos[c]
      BY <1>0, <2>0, <2>1
    <3> QED BY <1>2, <2>0, <3>1
  <2>2. CASE x = c
    <3>1. pos'[c] = pos[c] + 1
      BY <1>0, <2>0, <2>2
    <3>2. PICK i \in 1..Len(order[c]), h \in HookNames : Runs(c, i, h)
      BY <1>6, <2>2, HookStep
    <3>3. Len(order[c]) \in Nat /\ pos[c] \in Nat /\ order[c][i] \in Name
      BY <1>0
    <3>4. pos[c] + 1 = Before(h, Len(order[c])) + i
      BY <3>2 DEF Runs
    <3>5. hooks'[order[c][i]][h] > 0
      <4>1. \A m \in Name, y \in HookNames :
              hooks'[m][y] > 0 <=> hooks[m][y] > 0 \/ (m = order[c][i] /\ y = h)
        BY <3>2 DEF Runs, Ran
      <4> QED BY <3>3, <4>1
    <3>6. ASSUME NEW j \in 1..Len(order[c]), NEW y \in HookNames,
                 Before(y, Len(order[c])) + j <= pos[c] + 1
          PROVE  hooks'[order[c][j]][y] > 0
      <4>1. CASE Before(y, Len(order[c])) + j <= pos[c]
        <5>1. hooks[order[c][j]][y] > 0
          BY <1>0, <4>1 DEF HooksRun, Ran, Before, HookNames
        <5> QED BY <1>1, <5>1
      <4>2. CASE Before(y, Len(order[c])) + j = pos[c] + 1
        <5>1. y = h /\ j = i
          BY <3>3, <3>4, <4>2 DEF Before, HookNames
        <5> QED BY <3>5, <5>1
      <4>3. Before(y, Len(order[c])) \in Nat
        BY <3>3 DEF Before
      <4> QED BY <3>3, <3>6, <4>1, <4>2, <4>3
    <3>7. HooksRun(c)'
      <4>1. Before("PreInit", Len(order[c])) = 0 /\ Before("Init", Len(order[c])) = Len(order[c])
            /\ Before("PostInit", Len(order[c])) = 2 * Len(order[c])
        BY DEF Before
      <4>2. ASSUME NEW j \in 1..Len(order[c])
            PROVE  /\ j <= pos[c] + 1 => hooks'[order[c][j]]["PreInit"] > 0
                   /\ Len(order[c]) + j <= pos[c] + 1 => hooks'[order[c][j]]["Init"] > 0
                   /\ 2 * Len(order[c]) + j <= pos[c] + 1 => hooks'[order[c][j]]["PostInit"] > 0
        <5>1. 0 + j = j
          OBVIOUS
        <5> QED BY <3>6, <4>1, <5>1 DEF HookNames
      <4> QED BY <2>0, <3>1, <4>2 DEF HooksRun, Ran
    <3>8. OrderSound(c)'
      <4>1. order'[c] = order[c] /\ (Planned(c)' => Planned(c))
        BY <2>0 DEF Planned
      <4> QED BY <1>22, <4>1
    <3>9. CallSound(c)'
      BY <1>0, <2>0, <2>2 DEF CallSound, Planned
    <3> QED BY <3>7, <3>8, <3>9
  <2> QED BY <2>1, <2>2
<1>7. ASSUME NEW x \in Caller, InitHookFails(x) \/ InitReady(x) \/ InitFinish(x) PROVE Goal
  <2>0. /\ order' = order /\ pos' = pos
        /\ \/ /\ ipc[x] = "hooks" /\ ipc' = [ipc EXCEPT ![x] = "failed"] /\ apc' = apc
           \/ /\ ipc[x] = "hooks" /\ ipc' = [ipc EXCEPT ![x] = "finish"]
              /\ apc' = [apc EXCEPT ![x] = "discover"] /\ pos[x] = 3 * Len(order[x])
           \/ /\ ipc[x] = "finish" /\ ipc' = [ipc EXCEPT ![x] = "ok"] /\ apc' = apc
    BY <1>7 DEF InitHookFails, InitReady, InitFinish
  <2>1. CASE x # c
    <3>1. ipc'[c] = ipc[c] /\ apc'[c] = apc[c]
      BY <1>0, <2>0, <2>1
    <3> QED BY <1>2, <2>0, <3>1
  <2>2. CASE x = c
    <3>1. /\ Planned(c) /\ Planned(c)'
          /\ ipc'[c] \in {"finish", "ok"} => pos[c] = 3 * Len(order[c])
          /\ apc'[c] # "none" => ipc'[c] \in {"finish", "ok"}
      BY <1>0, <2>0, <2>2 DEF Planned, CallSound
    <3>2. OrderSound(c)'
      BY <1>0, <2>0, <3>1 DEF OrderSound
    <3>3. HooksRun(c)'
      <4>1. order' = order /\ pos' = pos
        BY <2>0
      <4>2. HooksRun(c)
        BY <1>0
      <4> QED BY <1>1, <4>1, <4>2 DEF HooksRun, HookNames, Ran
    <3>4. CallSound(c)'
      BY <2>0, <3>1 DEF CallSound
    <3> QED BY <3>2, <3>3, <3>4
  <2> QED BY <2>1, <2>2
<1>8. ASSUME NEW x \in Caller, AsyncDiscover(x) \/ AsyncClear(x) \/ AsyncFind(x)
      PROVE  Goal
  <2>0. /\ order' = order /\ pos' = pos /\ ipc' = ipc /\ apc[x] # "none"
        /\ apc' = apc \/ \E v \in {"clear", "cross", "done"} : apc' = [apc EXCEPT ![x] = v]
    BY <1>8 DEF AsyncDiscover, AsyncClear, AsyncFind
  <2>1. OrderSound(c)' /\ HooksRun(c)'
    BY <1>0, <1>1, <2>0 DEF OrderSound, Planned, HooksRun, HookNames, Ran
  <2>2. CallSound(c)'
    BY <1>0, <2>0 DEF CallSound, Planned
  <2> QED BY <2>1, <2>2
<1>9. CASE UNCHANGED <<ipc, order, pos, apc>>
  BY <1>2, <1>9
<1>10. ASSUME NEW n \in Name, \/ RegisterExtension(n) \/ LoadPlugin(n) \/ UnloadLock(n)
                              \/ UnloadFails(n) \/ UnloadRemove(n)
       PROVE  UNCHANGED <<ipc, order, pos, apc>>
  BY <1>10 DEF RegisterExtension, LoadPlugin, UnloadLock, UnloadFails, UnloadRemove
<1>11. ASSUME NEW x \in Caller, InitHookPanics(x) \/ AsyncRegister(x)
       PROVE  UNCHANGED <<ipc, order, pos, apc>>
  BY <1>11 DEF InitHookPanics, AsyncRegister
<1>12. ASSUME CleanupSnapshot \/ CleanupEach \/ CleanupClear \/ MapRace \/ UNCHANGED vars
       PROVE  UNCHANGED <<ipc, order, pos, apc>>
  BY <1>12 DEF CleanupSnapshot, CleanupEach, CleanupClear, MapRace, vars
<1> QED BY Actions, <1>4, <1>5, <1>6, <1>7, <1>8, <1>9, <1>10, <1>11, <1>12

-----------------------------------------------------------------------------
(***************************************************************************)
(* The map of extensions.                                                  *)
(***************************************************************************)

\* How a step changes the map: it enters names, or takes one out for UnloadPlugin,
\* which cleans it up and blocks, or empties it at the end of Cleanup.  What was removed
\* from the map stays removed.
LEMMA MapSteps ==
  ASSUME TypeOK, [Next]_vars
  PROVE  /\ \/ extensions \subseteq extensions'
            \/ \E n \in Name : /\ upc'[n] = "blocked" /\ cleaned' = cleaned \cup {n}
                               /\ extensions' = extensions \ {n}
            \/ kpc = "clear" /\ kpc' = "done"
         /\ Removed => Removed'
         /\ cleaned \subseteq cleaned'
<1> USE DEF initVars, asyncVars, cleanVars
<1>0. upc \in [Name -> {"idle", "locked", "blocked", "notFound", "failed"}]
  BY DEF TypeOK
<1> DEFINE Goal ==
      /\ \/ extensions \subseteq extensions'
         \/ \E n \in Name : /\ upc'[n] = "blocked" /\ cleaned' = cleaned \cup {n}
                            /\ extensions' = extensions \ {n}
         \/ kpc = "clear" /\ kpc' = "done"
      /\ Removed => Removed'
      /\ cleaned \subseteq cleaned'
<1>1. ASSUME NEW n \in Name, RegisterExtension(n) \/ LoadPlugin(n) PROVE Goal
  BY <1>1 DEF RegisterExtension, LoadPlugin, Removed
<1>2. ASSUME NEW n \in Name, UnloadLock(n) PROVE Goal
  BY <1>0, <1>2 DEF UnloadLock, Removed
<1>3. ASSUME NEW n \in Name, UnloadFails(n) PROVE Goal
  BY <1>0, <1>3 DEF UnloadFails, Removed
<1>4. ASSUME NEW n \in Name, UnloadRemove(n) PROVE Goal
  BY <1>0, <1>4 DEF UnloadRemove, Removed
<1>5. ASSUME NEW c \in Caller, \/ InitCheck(c) \/ InitPrepare(c) \/ InitHook(c)
                              \/ InitHookFails(c) \/ InitHookPanics(c)
                              \/ InitReady(c) \/ InitFinish(c)
                              \/ AsyncDiscover(c) \/ AsyncClear(c) \/ AsyncFind(c)
                              \/ AsyncRegister(c)
      PROVE  Goal
  <2>1. upc' = upc /\ kpc' = kpc /\ cleaned' = cleaned /\ extensions \subseteq extensions'
    BY <1>5 DEF InitCheck, InitPrepare, InitHook, InitHookFails, InitHookPanics, InitReady,
                InitFinish, AsyncDiscover, AsyncClear, AsyncFind, AsyncRegister
  <2> QED BY <2>1 DEF Removed
<1>6. ASSUME CleanupSnapshot \/ CleanupEach \/ CleanupClear \/ MapRace \/ UNCHANGED vars
      PROVE  Goal
  BY <1>6 DEF CleanupSnapshot, CleanupEach, CleanupClear, MapRace, vars, Removed
<1> QED BY Actions, <1>1, <1>2, <1>3, <1>4, <1>5, <1>6

\* What a call is about to initialise is there, or was removed by another call.
LEMMA NextEntries ==
  ASSUME TypeOK, Calls, [Next]_vars, NEW c \in Caller
  PROVE  EntriesThere(c)'
<1> USE DEF initVars, asyncVars, cleanVars
<1> SUFFICES ASSUME ipc'[c] = "hooks", ~Removed'
             PROVE  \A i \in 1..Len(order'[c]) : order'[c][i] \in extensions'
  BY DEF EntriesThere
<1>0. /\ ipc \in [Caller -> {"idle", "prepare", "hooks", "finish"} \cup Returned]
      /\ order \in [Caller -> Seq(Name)] /\ EntriesThere(c)
      /\ dep.reg \subseteq Name /\ extensions \subseteq Name
  <2>1. dep \in DeploymentType
    BY DeploymentAssumption DEF TypeOK
  <2> QED BY <2>1 DEF DeploymentType, TypeOK, Calls
<1>1. extensions \subseteq extensions' /\ ~Removed
  BY MapSteps DEF Removed
<1>2. ASSUME ipc[c] = "hooks", order'[c] = order[c]
      PROVE  \A i \in 1..Len(order'[c]) : order'[c][i] \in extensions'
  BY <1>0, <1>1, <1>2 DEF EntriesThere
<1>3. ASSUME NEW x \in Caller, InitPrepare(x)
      PROVE  \A i \in 1..Len(order'[c]) : order'[c][i] \in extensions'
  <2> DEFINE exts == extensions \cup dep.reg
  <2>1. \/ order' = order /\ (ipc' = [ipc EXCEPT ![x] = "missing"] \/
                                ipc' = [ipc EXCEPT ![x] = "cycle"])
        \/ \E g \in ResolvedGraphs(dep.reg, dep.strong, dep.weak) :
             /\ \E s \in InitOrders(exts, g) : order' = [order EXCEPT ![x] = s]
             /\ ipc' = [ipc EXCEPT ![x] = "hooks"]
    BY <1>3 DEF InitPrepare
  <2>2. CASE x # c
    <3>1. ipc'[c] = ipc[c] /\ order'[c] = order[c]
      BY <1>0, <2>1, <2>2
    <3> QED BY <1>2, <3>1
  <2>3. CASE x = c
    <3>0. PICK g : \E s \in InitOrders(exts, g) : order' = [order EXCEPT ![c] = s]
      BY <1>0, <2>1, <2>3
    <3>1. PICK s \in InitOrders(exts, g) : order' = [order EXCEPT ![c] = s]
      BY <3>0
    <3>2. exts \subseteq Name
      BY <1>0
    <3>3. Lists(s, exts, g)
      BY <3>2, OrderCovers
    <3>4. order'[c] = s /\ extensions' = exts
      BY <1>0, <1>3, <3>1 DEF InitPrepare
    <3> QED BY <3>3, <3>4 DEF Lists
  <2> QED BY <2>2, <2>3
<1>4. ASSUME NEW x \in Caller,
             \/ InitCheck(x) \/ InitHook(x) \/ InitHookFails(x) \/ InitHookPanics(x)
             \/ InitReady(x) \/ InitFinish(x) \/ AsyncDiscover(x) \/ AsyncClear(x)
             \/ AsyncFind(x) \/ AsyncRegister(x)
      PROVE  ipc[c] = "hooks" /\ order' = order
  <2>1. order' = order /\ (ipc' = ipc \/ \E v \in {"already", "prepare", "failed", "finish", "ok"} :
                                           ipc' = [ipc EXCEPT ![x] = v])
    BY <1>4 DEF InitCheck, InitHook, InitHookFails, InitHookPanics, InitReady,
                InitFinish, AsyncDiscover, AsyncClear, AsyncFind, AsyncRegister
  <2> QED BY <1>0, <2>1
<1>5. ASSUME NEW n \in Name, \/ RegisterExtension(n) \/ LoadPlugin(n) \/ UnloadLock(n)
                             \/ UnloadFails(n) \/ UnloadRemove(n)
      PROVE  ipc' = ipc /\ order' = order
  BY <1>5 DEF RegisterExtension, LoadPlugin, UnloadLock, UnloadFails, UnloadRemove
<1>6. ASSUME CleanupSnapshot \/ CleanupEach \/ CleanupClear \/ MapRace \/ UNCHANGED vars
      PROVE  ipc' = ipc /\ order' = order
  BY <1>6 DEF CleanupSnapshot, CleanupEach, CleanupClear, MapRace, vars
<1> QED BY Actions, <1>2, <1>3, <1>4, <1>5, <1>6

\* Only a missing entry makes a hook panic.
LEMMA NextPanic ==
  ASSUME TypeOK, Calls, PanicNeedsRemoval, [Next]_vars
  PROVE  PanicNeedsRemoval'
<1> USE DEF initVars, asyncVars, cleanVars
<1>1. Removed => PanicNeedsRemoval'
  BY MapSteps DEF Removed, PanicNeedsRemoval
<1>2. ASSUME NEW c \in Caller, InitHookPanics(c) PROVE Removed
  <2>1. ipc[c] = "hooks" /\ pos[c] < 3 * Len(order[c]) /\ ExtOf(c) \notin extensions
    BY <1>2 DEF InitHookPanics
  <2>2. pos[c] \in Nat /\ Len(order[c]) \in Nat
    BY DEF TypeOK
  <2>3. (pos[c] % Len(order[c])) + 1 \in 1..Len(order[c])
    BY <2>1, <2>2, Position
  <2>4. ~\A i \in 1..Len(order[c]) : order[c][i] \in extensions
    BY <2>1, <2>3 DEF ExtOf
  <2> QED BY <2>1, <2>4 DEF Calls, EntriesThere
<1>3. ASSUME crashed' = crashed \/ crashed' = "race" PROVE PanicNeedsRemoval'
  <2>1. CASE crashed = "panic"
    BY <1>1, <2>1 DEF PanicNeedsRemoval, Removed
  <2>2. CASE crashed # "panic"
    BY <1>3, <2>2 DEF PanicNeedsRemoval
  <2> QED BY <2>1, <2>2
<1>4. ASSUME NEW c \in Caller,
             \/ InitCheck(c) \/ InitPrepare(c) \/ InitHook(c) \/ InitHookFails(c)
             \/ InitReady(c) \/ InitFinish(c) \/ AsyncDiscover(c) \/ AsyncClear(c)
             \/ AsyncFind(c) \/ AsyncRegister(c)
      PROVE  crashed' = crashed
  BY <1>4 DEF InitCheck, InitPrepare, InitHook, InitHookFails, InitReady,
              InitFinish, AsyncDiscover, AsyncClear, AsyncFind, AsyncRegister
<1>5. ASSUME NEW n \in Name, \/ RegisterExtension(n) \/ LoadPlugin(n) \/ UnloadLock(n)
                             \/ UnloadFails(n) \/ UnloadRemove(n)
      PROVE  crashed' = crashed
  BY <1>5 DEF RegisterExtension, LoadPlugin, UnloadLock, UnloadFails, UnloadRemove
<1>6. ASSUME CleanupSnapshot \/ CleanupEach \/ CleanupClear \/ MapRace \/ UNCHANGED vars
      PROVE  crashed' = crashed \/ crashed' = "race"
  BY <1>6 DEF CleanupSnapshot, CleanupEach, CleanupClear, MapRace, vars
<1> QED BY Actions, <1>1, <1>2, <1>3, <1>4, <1>5, <1>6

-----------------------------------------------------------------------------
(***************************************************************************)
(* Dependencies, announcements and cleanup.                                *)
(***************************************************************************)

\* A hook of InitExtensions comes after the same hook of everything the extension
\* depends on; LoadPlugin runs the hooks of plugins only.
LEMMA NextDependencies ==
  ASSUME TypeOK, Calls, DependenciesFirst, [Next]_vars
  PROVE  DependenciesFirst'
<1>0. /\ dep' = dep /\ Graph' = Graph /\ dep.reg \subseteq Name
      /\ Graph \in [dep.reg -> SUBSET Name] /\ order \in [Caller -> Seq(Name)]
      /\ \A n \in Name, h \in HookNames : Ran(n, h) => Ran(n, h)'
  <2>1. dep \in DeploymentType
    BY DeploymentAssumption DEF TypeOK
  <2>2. dep.reg \subseteq Name /\ Graph \in [dep.reg -> SUBSET Name]
    BY <2>1 DEF DeploymentType, Graph, DeclaredGraph
  <2> QED BY <2>2, SameProgram, HooksGrow DEF TypeOK
<1> SUFFICES ASSUME ~HasCycle(Graph), NEW n \in dep.reg \ dep.plugins, NEW h \in HookNames,
                    Ran(n, h)', NEW d \in Graph[n]
             PROVE  Ran(d, h)'
  BY <1>0 DEF DependenciesFirst, HookNames
<1>1. n \in Name /\ d \in Name
  BY <1>0
<1>2. Ran(n, h) => Ran(d, h)'
  BY <1>0, <1>1 DEF DependenciesFirst, HookNames
<1>3. CASE hooks' = hooks
  BY <1>2, <1>3 DEF Ran
<1>4. ASSUME NEW m \in Name, LoadPlugin(m) PROVE Ran(d, h)'
  BY <1>1, <1>2, <1>4, LoadStep
<1>5. ASSUME NEW c \in Caller, InitHook(c) PROVE Ran(d, h)'
  <2>1. PICK i \in 1..Len(order[c]), k \in HookNames : Runs(c, i, k)
    BY <1>5, HookStep
  <2>2. CASE Ran(n, h)
    BY <1>2, <2>2
  <2>3. CASE n = order[c][i] /\ h = k
    <3>1. OrderSound(c) /\ HooksRun(c) /\ Planned(c)
      BY <1>5 DEF Calls, InitHook, Planned
    <3>2. PICK j \in 1..(i - 1) : order[c][j] = d
      BY <2>3, <3>1 DEF OrderSound
    <3>3. Len(order[c]) \in Nat /\ pos[c] \in Nat
      BY DEF TypeOK
    <3>4. j \in 1..Len(order[c]) /\ Before(h, Len(order[c])) + j <= pos[c]
      BY <2>1, <2>3, <3>2, <3>3 DEF Runs, Before
    <3>5. Ran(order[c][j], h)
      BY <3>1, <3>3, <3>4 DEF HooksRun, Before, HookNames
    <3> QED BY <1>0, <1>1, <3>2, <3>5
  <2> QED BY <1>1, <2>1, <2>2, <2>3 DEF Runs
<1> QED BY OtherSteps, <1>3, <1>4, <1>5

\* What is announced is ready: the calls that announce are past the hooks.
LEMMA NextAnnounced ==
  ASSUME TypeOK, Calls, AnnouncedIsReady, [Next]_vars
  PROVE  AnnouncedIsReady'
<1> USE DEF initVars, asyncVars, cleanVars
<1>0. /\ dep' = dep /\ dep.reg \subseteq Name /\ order \in [Caller -> Seq(Name)]
      /\ \A n \in Name, h \in HookNames : Ran(n, h) => Ran(n, h)'
  <2>1. dep \in DeploymentType
    BY DeploymentAssumption DEF TypeOK
  <2> QED BY <2>1, SameProgram, HooksGrow DEF TypeOK, DeploymentType
<1>1. /\ events # {} => \A m \in dep.reg : Ran(m, "Init")'
      /\ initialized \/ (consul \cup cross) \cap dep.reg # {} =>
           \A m \in dep.reg : Ran(m, "PostInit")'
  BY <1>0 DEF AnnouncedIsReady, HookNames
<1>2. ASSUME NEW c \in Caller, ipc[c] = "finish" \/ apc[c] # "none"
      PROVE  \A m \in dep.reg : Ran(m, "PostInit")'
  <2>1. pos[c] = 3 * Len(order[c]) /\ Planned(c) /\ OrderSound(c) /\ HooksRun(c)
    BY <1>2 DEF Calls, CallSound, Planned
  <2>2. Len(order[c]) \in Nat
    BY <1>0
  <2>3. ASSUME NEW m \in dep.reg PROVE Ran(m, "PostInit")
    <3>1. PICK i \in 1..Len(order[c]) : order[c][i] = m
      BY <2>1 DEF OrderSound
    <3> QED BY <2>1, <2>2, <3>1 DEF HooksRun
  <2> QED BY <1>0, <2>3 DEF HookNames
<1> DEFINE Fresh == \A m \in dep.reg : Ran(m, "PostInit")'
<1>3. ASSUME events' = events \/ (\A m \in dep.reg : Ran(m, "Init")'),
             \/ Fresh
             \/ /\ initialized' => initialized
                /\ consul' \subseteq consul /\ cross' \subseteq cross
      PROVE  AnnouncedIsReady'
  <2>1. ASSUME NEW m \in dep.reg, events' # {} PROVE Ran(m, "Init")'
    BY <1>1, <1>3, <2>1
  <2>2. ASSUME NEW m \in dep.reg, initialized' \/ (consul' \cup cross') \cap dep.reg # {}
        PROVE  Ran(m, "PostInit")'
    BY <1>1, <1>3, <2>2
  <2> QED BY <1>0, <2>1, <2>2 DEF AnnouncedIsReady
<1>4. ASSUME NEW c \in Caller, InitHook(c) PROVE AnnouncedIsReady'
  <2>1. PICK i \in 1..Len(order[c]), k \in HookNames : Runs(c, i, k)
    BY <1>4, HookStep
  <2>2. k # "PostInit" => events' = events
    BY <2>1 DEF Runs
  <2>3. ASSUME k = "PostInit", NEW m \in dep.reg PROVE Ran(m, "Init")'
    <3>1. OrderSound(c) /\ HooksRun(c) /\ Planned(c)
      BY <1>4 DEF Calls, InitHook, Planned
    <3>2. PICK j \in 1..Len(order[c]) : order[c][j] = m
      BY <3>1 DEF OrderSound
    <3>3. Len(order[c]) \in Nat /\ pos[c] \in Nat
      BY DEF TypeOK
    <3>4. Len(order[c]) + j <= pos[c]
      BY <2>1, <2>3, <3>2, <3>3 DEF Runs, Before
    <3>5. Ran(m, "Init")
      BY <3>1, <3>2, <3>4 DEF HooksRun
    <3> QED BY <1>0, <3>5 DEF HookNames
  <2>4. initialized' = initialized /\ consul' = consul /\ cross' = cross
    BY <1>4 DEF InitHook
  <2> QED BY <1>3, <2>2, <2>3, <2>4
<1>5. ASSUME NEW c \in Caller, InitFinish(c) PROVE events' = events /\ Fresh
  BY <1>2, <1>5 DEF InitFinish
<1>6. ASSUME NEW c \in Caller,
             AsyncDiscover(c) \/ AsyncClear(c) \/ AsyncFind(c) \/ AsyncRegister(c)
      PROVE  events' = events /\ Fresh
  BY <1>2, <1>6 DEF AsyncDiscover, AsyncClear, AsyncFind, AsyncRegister
<1>7. ASSUME NEW c \in Caller, InitCheck(c) \/ InitPrepare(c) \/ InitHookFails(c)
                               \/ InitHookPanics(c) \/ InitReady(c)
      PROVE  events' = events /\ initialized' = initialized /\ consul' = consul /\ cross' = cross
  BY <1>7 DEF InitCheck, InitPrepare, InitHookFails, InitHookPanics, InitReady
<1>8. ASSUME NEW n \in Name, \/ RegisterExtension(n) \/ LoadPlugin(n) \/ UnloadLock(n)
                             \/ UnloadFails(n) \/ UnloadRemove(n)
      PROVE  events' = events /\ initialized' = initialized /\ consul' = consul /\ cross' = cross
  BY <1>8 DEF RegisterExtension, LoadPlugin, UnloadLock, UnloadFails, UnloadRemove
<1>9. ASSUME CleanupSnapshot \/ CleanupEach \/ MapRace \/ UNCHANGED vars
      PROVE  events' = events /\ initialized' = initialized /\ consul' = consul /\ cross' = cross
  BY <1>9 DEF CleanupSnapshot, CleanupEach, MapRace, vars
<1>10. ASSUME CleanupClear
       PROVE  events' = events /\ ~initialized' /\ consul' = consul /\ cross' = {}
  BY <1>10 DEF CleanupClear
<1> QED BY Actions, <1>3, <1>4, <1>5, <1>6, <1>7, <1>8, <1>9, <1>10

\* Until Cleanup takes its copy of the map, an extension whose PreInit ran is in the
\* map or was cleaned up by UnloadPlugin.
LEMMA NextTracked ==
  ASSUME TypeOK, Calls, Tracked, [Next]_vars
  PROVE  Tracked'
<1> SUFFICES ASSUME kpc' = "idle", NEW n \in Name \ dep.plugins, Ran(n, "PreInit")'
             PROVE  n \in extensions' \cup cleaned'
  BY SameProgram DEF Tracked
<1>1. kpc = "idle"
  BY Actions
  DEF RegisterExtension, LoadPlugin, UnloadLock, UnloadFails, UnloadRemove, InitCheck,
      InitPrepare, InitHook, InitHookFails, InitHookPanics, InitReady, InitFinish,
      AsyncDiscover, AsyncClear, AsyncFind, AsyncRegister, CleanupSnapshot, CleanupEach,
      CleanupClear, MapRace, vars, cleanVars
<1>2. n \in extensions \cup cleaned => n \in extensions' \cup cleaned'
  BY <1>1, MapSteps
<1>3. CASE Ran(n, "PreInit")
  BY <1>1, <1>2, <1>3 DEF Tracked
<1>4. CASE hooks' = hooks
  BY <1>3, <1>4 DEF Ran
<1>5. ASSUME NEW m \in Name, LoadPlugin(m) PROVE Ran(n, "PreInit")
  BY <1>5, LoadStep DEF HookNames
<1>6. ASSUME NEW c \in Caller, InitHook(c) PROVE n \in extensions' \cup cleaned'
  <2>1. PICK i \in 1..Len(order[c]), k \in HookNames : Runs(c, i, k)
    BY <1>6, HookStep
  <2>2. Ran(n, "PreInit") \/ n \in extensions
    BY <2>1 DEF Runs, HookNames
  <2> QED BY <1>2, <1>3, <2>2
<1> QED BY OtherSteps, <1>3, <1>4, <1>5, <1>6

-----------------------------------------------------------------------------
(***************************************************************************)
(* The theorems.                                                           *)
(***************************************************************************)

\* A new manager, with no calls yet, satisfies the invariant.
LEMMA InitIInv == Init => IInv
<1> SUFFICES ASSUME Init PROVE IInv
  OBVIOUS
<1>1. TypeOK
  BY InitTypeOK
<1>2. dep \in DeploymentType
  BY DeploymentAssumption DEF Init
<1>3. \A n \in Name, h \in HookNames : ~Ran(n, h)
  BY DEF Init, Ran, HookNames
<1>4. Calls
  BY DEF Init, Calls, OrderSound, HooksRun, CallSound, EntriesThere, Planned
<1>5. Tracked
  BY <1>3 DEF Tracked, HookNames
<1>6. DependenciesFirst
  BY <1>2, <1>3 DEF DependenciesFirst, HookNames, DeploymentType
<1>7. AnnouncedIsReady
  BY DEF Init, AnnouncedIsReady
<1>8. PanicNeedsRemoval
  BY DEF Init, PanicNeedsRemoval
<1> QED BY <1>1, <1>4, <1>5, <1>6, <1>7, <1>8 DEF IInv

\* The invariant is inductive.
LEMMA NextIInv == IInv /\ [Next]_vars => IInv'
<1> SUFFICES ASSUME IInv, [Next]_vars PROVE IInv'
  OBVIOUS
<1>0. /\ TypeOK /\ Calls /\ Tracked /\ DependenciesFirst /\ AnnouncedIsReady
      /\ PanicNeedsRemoval
  BY DEF IInv
<1>1. TypeOK'
  BY <1>0, NextTypeOK
<1>2. Calls'
  <2>1. ASSUME NEW c \in Caller
        PROVE  OrderSound(c)' /\ HooksRun(c)' /\ CallSound(c)' /\ EntriesThere(c)'
    BY <1>0, NextOrders, NextEntries
  <2> QED BY <2>1 DEF Calls
<1>3. Tracked' /\ DependenciesFirst' /\ AnnouncedIsReady' /\ PanicNeedsRemoval'
  BY <1>0, NextTracked, NextDependencies, NextAnnounced, NextPanic
<1> QED BY <1>1, <1>2, <1>3 DEF IInv

\* What InitExtensions announces, by an event, by the flag or through its services, is
\* initialised, and only a removed extension makes it panic: for any number of callers
\* and whatever is registered, loaded, unloaded and cleaned up meanwhile.
THEOREM PhasesSoundThm == Spec => []PhasesSound
<1>1. IInv => PhasesSound
  BY DEF IInv, PhasesSound
<1> QED BY InitIInv, NextIInv, <1>1, PTL DEF Spec

\* With an acyclic graph every hook of a registered extension runs after that hook of
\* everything it depends on.
THEOREM DependenciesFirstThm == Spec => []DependenciesFirst
<1>1. IInv => DependenciesFirst
  BY DEF IInv
<1> QED BY InitIInv, NextIInv, <1>1, PTL DEF Spec

\* How far Cleanup is with an extension that it has to clean up.
Due(n) ==
  /\ kpc = "idle" => n \in extensions \cup cleaned
  /\ kpc = "each" => n \in ktodo \cup cleaned
  /\ kpc \in {"clear", "done"} => n \in cleaned

\* Cleanup, once begun, loses nothing of its copy.
LEMMA NextDue ==
  ASSUME TypeOK, [Next]_vars, NEW n \in Name, Due(n)
  PROVE  Due(n)'
<1> USE DEF initVars, asyncVars, cleanVars
<1>1. /\ n \in cleaned => n \in cleaned'
      /\ kpc = "idle" /\ n \in extensions => n \in extensions' \cup cleaned'
  BY MapSteps
<1>2. ASSUME kpc' = kpc, ktodo' = ktodo PROVE Due(n)'
  BY <1>1, <1>2 DEF Due, TypeOK
<1>3. CASE CleanupSnapshot \/ CleanupEach \/ CleanupClear
  BY <1>3 DEF CleanupSnapshot, CleanupEach, CleanupClear, Due
<1>4. ASSUME NEW c \in Caller, \/ InitCheck(c) \/ InitPrepare(c) \/ InitHook(c)
                               \/ InitHookFails(c) \/ InitHookPanics(c)
                               \/ InitReady(c) \/ InitFinish(c)
                               \/ AsyncDiscover(c) \/ AsyncClear(c) \/ AsyncFind(c)
                               \/ AsyncRegister(c)
      PROVE  kpc' = kpc /\ ktodo' = ktodo
  BY <1>4 DEF InitCheck, InitPrepare, InitHook, InitHookFails, InitHookPanics, InitReady,
              InitFinish, AsyncDiscover, AsyncClear, AsyncFind, AsyncRegister
<1>5. ASSUME NEW m \in Name, \/ RegisterExtension(m) \/ LoadPlugin(m) \/ UnloadLock(m)
                             \/ UnloadFails(m) \/ UnloadRemove(m)
      PROVE  kpc' = kpc /\ ktodo' = ktodo
  BY <1>5 DEF RegisterExtension, LoadPlugin, UnloadLock, UnloadFails, UnloadRemove
<1>6. ASSUME MapRace \/ UNCHANGED vars PROVE kpc' = kpc /\ ktodo' = ktodo
  BY <1>6 DEF MapRace, vars
<1> QED BY Actions, <1>2, <1>3, <1>4, <1>5, <1>6

\* An extension whose PreInit ran before Cleanup began is cleaned up when Cleanup is
\* over, whatever failed and whatever UnloadPlugin did in between.
THEOREM CleanupReachesAllThm == Spec => CleanupReachesAll
<1>1. ASSUME NEW n \in Name
      PROVE  Spec => [](n \notin dep.plugins /\ Ran(n, "PreInit") /\ kpc = "idle"
                          => [](kpc = "done" => n \in cleaned))
  <2>1. IInv /\ n \notin dep.plugins /\ Ran(n, "PreInit") /\ kpc = "idle" => Due(n)
    BY DEF IInv, Tracked, Due
  <2>2. IInv /\ Due(n) /\ [Next]_vars => Due(n)'
    BY NextDue DEF IInv
  <2>3. Due(n) => (kpc = "done" => n \in cleaned)
    BY DEF Due
  <2> QED BY InitIInv, NextIInv, <2>1, <2>2, <2>3, PTL DEF Spec
<1> QED BY <1>1 DEF CleanupReachesAll

-----------------------------------------------------------------------------
(***************************************************************************)
(* Cycles of mutual dependencies.                                          *)
(***************************************************************************)

\* A set of numbers has a least one: induction by a least counterexample.
LEMMA LeastNumber ==
  ASSUME NEW T \in SUBSET Nat, T # {} PROVE \E x \in T : \A y \in T : x <= y
<1>1. PICK x \in T : \A y \in T : ~ (<<y, x>> \in OpToRel(<, Nat)) BY WFMin, NatLessThanWellFounded
<1>2. \A y \in T : ~(y < x) BY <1>1 DEF OpToRel
<1> QED BY <1>2

\* A finite set of names, which are integers, has a first one.
LEMMA LeastName ==
  ASSUME NEW S, S \subseteq Int, IsFiniteSet(S), S # {} PROVE \E m \in S : \A x \in S : m <= x
<1> DEFINE Below(x) == {y \in S : y < x}
<1> DEFINE sizes == {Cardinality(Below(x)) : x \in S}
<1>1. \A x \in S : IsFiniteSet(Below(x)) /\ Cardinality(Below(x)) \in Nat BY FS_Subset, FS_CardinalityType
<1>2. sizes \in SUBSET Nat /\ sizes # {} BY <1>1
<1>3. PICK k \in sizes : \A y \in sizes : k <= y BY <1>2, LeastNumber
<1>4. PICK m \in S : k = Cardinality(Below(m)) BY <1>3
<1>5. ASSUME NEW x \in S, x < m PROVE FALSE
  <2>1. Below(x) \in SUBSET Below(m) /\ x \in Below(m) /\ x \notin Below(x)
    <3>1. x \in Int /\ m \in Int /\ \A y \in S : y \in Int OBVIOUS
    <3>2. \A y \in S : y < x => y < m BY <1>5, <3>1
    <3>3. ~(x < x) BY <3>1
    <3> QED BY <1>5, <3>2, <3>3
  <2>2. Cardinality(Below(x)) <= Cardinality(Below(m)) /\ Cardinality(Below(x)) # Cardinality(Below(m))
    BY <1>1, <2>1, FS_Subset
  <2>3. Cardinality(Below(m)) <= Cardinality(Below(x)) BY <1>3, <1>4
  <2>4. Cardinality(Below(x)) \in Nat /\ Cardinality(Below(m)) \in Nat BY <1>1
  <2> QED BY ONLY <2>2, <2>3, <2>4
<1> QED BY <1>5

\* Every extension reaches itself.
LEMMA ReachSelf == ASSUME NEW g, NEW a PROVE Reaches(g, a, a)
BY DEF Reaches

\* What is reached from what is reached is reached.
LEMMA ReachTransitive ==
  ASSUME NEW g, NEW a, NEW b, NEW c, Reaches(g, a, b), Reaches(g, b, c) PROVE Reaches(g, a, c)
BY DEF Reaches

\* An extension reaches what it depends on.
LEMMA ReachStep ==
  ASSUME NEW g, NEW m \in DOMAIN g, NEW e \in g[m] \cap DOMAIN g PROVE Reaches(g, m, e)
BY DEF Reaches

\* More dependencies reach no less.
LEMMA ReachWeaken ==
  ASSUME NEW g, NEW h, DOMAIN h = DOMAIN g, \A m \in DOMAIN g : h[m] \subseteq g[m],
         NEW a, NEW b, Reaches(h, a, b)
  PROVE  Reaches(g, a, b)
<1> SUFFICES ASSUME NEW S \in SUBSET DOMAIN g, a \in S, \A m \in S : g[m] \cap DOMAIN g \subseteq S PROVE b \in S
  BY DEF Reaches
<1>1. S \in SUBSET DOMAIN h /\ \A m \in S : h[m] \cap DOMAIN h \subseteq S OBVIOUS
<1> QED BY <1>1 DEF Reaches

\* Every dependency that lies on a cycle goes both ways.
MutualOnly(g) ==
  \A n \in DOMAIN g : \A d \in g[n] \cap DOMAIN g : d # n /\ (n \in g[d] \/ ~Reaches(g, d, n))

\* Of such a graph BreakPairs leaves no cycle: along the dependencies it keeps, those that
\* still lead back go up in the sorted list.
LEMMA PairsBroken ==
  ASSUME NEW g, MutualOnly(g), NEW count, NEW r \in Sorted(DOMAIN g, count), IsFiniteSet(DOMAIN g)
  PROVE  ~HasCycle(BreakPairs(g, r))
<1> DEFINE b == BreakPairs(g, r)
<1> DEFINE N == DOMAIN g
<1>1. DOMAIN b = N /\ \A m \in N : b[m] \subseteq g[m] BY DEF BreakPairs
<1>2. \A m \in N : \A d \in b[m] \cap N : ~(d # m /\ m \in g[d] /\ r[d] < r[m]) BY DEF BreakPairs
<1>3. (\A m \in N : r[m] \in Int) /\ \A m, n \in N : m # n => r[m] # r[n]
  <2>1. Cardinality(N) \in Nat BY FS_CardinalityType
  <2> QED BY <2>1 DEF Sorted
<1> HIDE DEF b
<1> SUFFICES ASSUME NEW n \in N, NEW d \in b[n] \cap N, Reaches(b, d, n) PROVE FALSE
  BY <1>1 DEF HasCycle, b
<1>4. d # n /\ n \in g[d] /\ r[d] > r[n]
  <2>1. d \in g[n] \cap N BY <1>1
  <2>2. Reaches(g, d, n) BY <1>1, ReachWeaken
  <2>3. d # n /\ n \in g[d] BY <2>1, <2>2 DEF MutualOnly
  <2> QED BY <1>2, <1>3, <2>3
<1> DEFINE S == {m \in N : ~Reaches(g, m, n) \/ (r[m] > r[n] /\ Reaches(g, n, m))}
<1>5. d \in S BY <1>1, <1>4, ReachStep
<1>6. n \notin S BY <1>3, ReachSelf
<1>7. ASSUME NEW m \in S, NEW e \in b[m] \cap N PROVE e \in S
  <2>1. e \in g[m] \cap N /\ Reaches(g, m, e) BY <1>1, ReachStep
  <2>2. SUFFICES ASSUME Reaches(g, e, n) PROVE r[e] > r[n] /\ Reaches(g, n, e) OBVIOUS
  <2>3. Reaches(g, m, n) BY <2>1, <2>2, ReachTransitive
  <2>4. r[m] > r[n] /\ Reaches(g, n, m) BY <2>3
  <2>5. Reaches(g, e, m) BY <2>2, <2>4, ReachTransitive
  <2>6. e # m /\ m \in g[e] BY <2>1, <2>5 DEF MutualOnly
  <2>7. r[e] > r[m] BY <1>2, <1>3, <2>6
  <2>8. Reaches(g, n, e) BY <2>1, <2>4, ReachTransitive
  <2> QED BY <1>3, <2>4, <2>7, <2>8
<1>8. S \in SUBSET DOMAIN b /\ \A m \in S : b[m] \cap DOMAIN b \subseteq S BY <1>1, <1>7
<1> QED BY <1>5, <1>6, <1>8 DEF Reaches

\* Without a cycle, some extension of any set depends on none of the set.
LEMMA SomeoneReady ==
  ASSUME NEW g, IsFiniteSet(DOMAIN g), ~HasCycle(g), NEW R \in SUBSET DOMAIN g, R # {}
  PROVE  \E n \in R : g[n] \cap R = {}
<1> DEFINE After(n) == {x \in DOMAIN g : Reaches(g, n, x)}
<1> DEFINE sizes == {Cardinality(After(n)) : n \in R}
<1>1. \A n \in R : IsFiniteSet(After(n)) /\ Cardinality(After(n)) \in Nat BY FS_Subset, FS_CardinalityType
<1>2. sizes \in SUBSET Nat /\ sizes # {} BY <1>1
<1>3. PICK k \in sizes : \A y \in sizes : k <= y BY <1>2, LeastNumber
<1>4. PICK n \in R : k = Cardinality(After(n)) BY <1>3
<1>5. ASSUME NEW d \in g[n] \cap R PROVE FALSE
  <2>1. ~Reaches(g, d, n) BY DEF HasCycle
  <2>2. Reaches(g, n, d) BY ReachStep
  <2>3. \A x \in DOMAIN g : Reaches(g, d, x) => Reaches(g, n, x) BY <2>2, ReachTransitive
  <2>4. After(d) \in SUBSET After(n) /\ n \in After(n) /\ n \notin After(d) BY <2>1, <2>3, ReachSelf
  <2>5. Cardinality(After(d)) <= Cardinality(After(n)) /\ Cardinality(After(d)) # Cardinality(After(n))
    BY <1>1, <2>4, FS_Subset
  <2>6. Cardinality(After(n)) <= Cardinality(After(d)) BY <1>3, <1>4
  <2>7. Cardinality(After(d)) \in Nat /\ Cardinality(After(n)) \in Nat BY <1>1
  <2> QED BY ONLY <2>5, <2>6, <2>7
<1> QED BY <1>5

\* What getInitOrder has put out after k extensions: those without dependencies first, by
\* name and leaving none out, then each after its dependencies.
FirstOf(exts, g, k) ==
  LET deps(n) == IF n \in DOMAIN g THEN g[n] ELSE {}
      free == {n \in exts : deps(n) = {}}
      F == Cardinality(free)
  IN  {s \in [1..k -> exts] :
         /\ \A i, j \in 1..k : i # j => s[i] # s[j]
         /\ \A i \in 1..k : i <= F => s[i] \in free /\ \A f \in free : f < s[i] => \E j \in 1..(i - 1) : s[j] = f
         /\ \A i, j \in 1..k : i < j /\ j <= F => s[i] < s[j]
         /\ \A i \in 1..k : \A d \in deps(s[i]) : \E j \in 1..(i - 1) : s[j] = d}

\* There is always a next one.
LEMMA OneMore ==
  ASSUME NEW exts, exts \subseteq Name, NEW g, DOMAIN g \subseteq exts, \A n \in DOMAIN g : g[n] \subseteq exts,
         ~HasCycle(g), NEW k \in Nat, k < Cardinality(exts), FirstOf(exts, g, k) # {}
  PROVE  FirstOf(exts, g, k + 1) # {}
<1> DEFINE deps(n) == IF n \in DOMAIN g THEN g[n] ELSE {}
<1> DEFINE free == {n \in exts : deps(n) = {}}
<1> DEFINE F == Cardinality(free)
<1>1. PICK s \in [1..k -> exts] :
         /\ \A i, j \in 1..k : i # j => s[i] # s[j]
         /\ \A i \in 1..k : i <= F => s[i] \in free /\ \A f \in free : f < s[i] => \E j \in 1..(i - 1) : s[j] = f
         /\ \A i, j \in 1..k : i < j /\ j <= F => s[i] < s[j]
         /\ \A i \in 1..k : \A d \in deps(s[i]) : \E j \in 1..(i - 1) : s[j] = d
  BY DEF FirstOf
<1> DEFINE used == {s[i] : i \in 1..k}
<1>2. IsFiniteSet(exts) /\ IsFiniteSet(free) /\ IsFiniteSet(DOMAIN g) /\ F \in Nat /\ exts \subseteq Int
  BY NameAssumption, FS_Subset, FS_CardinalityType
<1>3. IsFiniteSet(used) /\ Cardinality(used) = k
  <2>1. s \in Bijection(1..k, used) BY <1>1 DEF Bijection, Injection, Surjection, IsInjective
  <2>2. ExistsBijection(1..k, used) BY <2>1 DEF ExistsBijection
  <2> QED BY <2>2, FS_CountingElements, FS_NatBijection
<1>4. ASSUME NEW m \in exts \ used, \A d \in deps(m) : d \in used,
             k < F => m \in free /\ (\A f \in free : f < m => f \in used) /\ \A i \in 1..k : s[i] < m
      PROVE  FirstOf(exts, g, k + 1) # {}
  <2> DEFINE t == [i \in 1..(k + 1) |-> IF i = k + 1 THEN m ELSE s[i]]
  <2>1. t \in [1..(k + 1) -> exts] BY <1>1
  <2>2. t[k + 1] = m /\ \A i \in 1..k : i \in 1..(k + 1) /\ t[i] = s[i] OBVIOUS
  <2>3. \A i \in 1..(k + 1) : i = k + 1 \/ i \in 1..k OBVIOUS
  <2> HIDE DEF t, deps, free, F
  <2>4. \A i, j \in 1..(k + 1) : i # j => t[i] # t[j] BY <1>1, <2>2, <2>3, <1>4
  <2>5. \A x \in used : \E j \in 1..k : t[j] = x BY <2>2
  <2>6. ASSUME NEW i \in 1..(k + 1), i <= F
        PROVE  t[i] \in free /\ \A f \in free : f < t[i] => \E j \in 1..(i - 1) : t[j] = f
    <3>1. CASE i = k + 1
      <4>1. k < F BY <1>2, <2>6, <3>1
      <4> QED BY <1>4, <2>2, <2>5, <3>1, <4>1
    <3>2. CASE i \in 1..k
      <4>1. \A j \in 1..(i - 1) : t[j] = s[j] BY <2>2, <3>2
      <4> QED BY <1>1, <2>2, <2>6, <3>2, <4>1
    <3> QED BY <2>3, <3>1, <3>2
  <2>7. ASSUME NEW i \in 1..(k + 1), NEW j \in 1..(k + 1), i < j, j <= F PROVE t[i] < t[j]
    <3>1. CASE j = k + 1
      <4>1. k < F /\ i \in 1..k BY <1>2, <2>7, <3>1
      <4> QED BY <1>4, <2>2, <3>1, <4>1
    <3>2. CASE j \in 1..k
      <4>1. i \in 1..k BY <2>7, <3>2
      <4> QED BY <1>1, <2>2, <2>7, <3>2, <4>1
    <3> QED BY <2>3, <3>1, <3>2
  <2>8. ASSUME NEW i \in 1..(k + 1), NEW d \in deps(t[i]) PROVE \E j \in 1..(i - 1) : t[j] = d
    <3>1. CASE i = k + 1 BY <1>4, <2>2, <2>5, <3>1
    <3>2. CASE i \in 1..k
      <4>1. \A j \in 1..(i - 1) : t[j] = s[j] BY <2>2, <3>2
      <4> QED BY <1>1, <2>2, <2>8, <3>2, <4>1
    <3> QED BY <2>3, <3>1, <3>2
  <2>9. t \in FirstOf(exts, g, k + 1)
    <3> USE DEF deps, free, F
    <3> QED BY ONLY <2>1, <2>4, <2>6, <2>7, <2>8 DEF FirstOf
  <2> QED BY <2>9
<1>5. CASE k < F
  <2>1. used \subseteq free BY <1>1, <1>2, <1>5
  <2>2. free \ used # {}
    <3>1. ASSUME free \ used = {} PROVE FALSE
      <4>1. free = used BY <2>1, <3>1
      <4> HIDE DEF free, used
      <4> QED BY <1>3, <1>5, <4>1
    <3> QED BY <3>1
  <2>3. IsFiniteSet(free \ used) /\ free \ used \subseteq Int BY <1>2, FS_Subset
  <2>4. PICK m \in free \ used : \A x \in free \ used : m <= x BY <2>2, <2>3, LeastName
  <2>5. \A f \in free : f < m => f \in used BY <1>2, <2>4
  <2>6. ASSUME NEW i \in 1..k PROVE s[i] < m
    <3>1. s[i] \in Int /\ m \in Int /\ s[i] # m BY <1>1, <1>2, <2>4
    <3>2. i <= F BY <1>2, <1>5
    <3>3. ~(m < s[i])
      <4>1. ASSUME m < s[i] PROVE FALSE
        <5>1. PICK j \in 1..(i - 1) : s[j] = m BY <1>1, <2>4, <3>2, <4>1
        <5>2. j \in 1..k OBVIOUS
        <5> QED BY <2>4, <5>1, <5>2
      <4> QED BY <4>1
    <3> QED BY <3>1, <3>3
  <2> QED BY <1>4, <2>4, <2>5, <2>6
<1>6. CASE ~(k < F)
  <2> DEFINE firsts == {s[i] : i \in 1..F}
  <2>1. 1..F \subseteq 1..k
    <3> HIDE DEF F
    <3> QED BY <1>2, <1>6
  <2>2. firsts \in SUBSET free BY <1>1, <1>2, <2>1
  <2>3. Cardinality(firsts) = F
    <3> DEFINE u == [i \in 1..F |-> s[i]]
    <3>1. u \in Bijection(1..F, firsts) BY <1>1, <2>1 DEF Bijection, Injection, Surjection, IsInjective
    <3>2. ExistsBijection(1..F, firsts) BY <3>1 DEF ExistsBijection
    <3> QED BY <1>2, <3>2, FS_CountingElements
  <2>4. free = firsts BY <1>2, <2>2, <2>3, FS_Subset
  <2>5. free \subseteq used BY <2>1, <2>4
  <2> DEFINE R == exts \ used
  <2>6. R # {}
    <3>1. used \subseteq exts BY <1>1
    <3>2. ASSUME R = {} PROVE FALSE
      <4>1. used = exts BY <3>1, <3>2
      <4> HIDE DEF used
      <4> QED BY <1>3, <4>1
    <3> QED BY <3>2
  <2>7. R \in SUBSET DOMAIN g BY <2>5
  <2>8. PICK m \in R : g[m] \cap R = {}
    <3> HIDE DEF R
    <3> QED BY <1>2, <2>6, <2>7, SomeoneReady
  <2>9. \A d \in deps(m) : d \in used BY <2>7, <2>8
  <2> QED BY <1>4, <1>6, <2>8, <2>9
<1> QED BY <1>5, <1>6

\* So an acyclic graph has an order.
LEMMA OrderExists ==
  ASSUME NEW exts, exts \subseteq Name, NEW g, DOMAIN g \subseteq exts, \A n \in DOMAIN g : g[n] \subseteq exts,
         ~HasCycle(g)
  PROVE  InitOrders(exts, g) # {}
<1> DEFINE N == Cardinality(exts)
<1>1. IsFiniteSet(exts) /\ N \in Nat BY NameAssumption, FS_Subset, FS_CardinalityType
<1> DEFINE left == {N - k : k \in {j \in 0..N : FirstOf(exts, g, j) # {}}}
<1>2. FirstOf(exts, g, 0) # {}
  <2>1. <<>> \in [1..0 -> exts] OBVIOUS
  <2>2. <<>> \in FirstOf(exts, g, 0) BY <2>1 DEF FirstOf
  <2> QED BY <2>2
<1>3. left \in SUBSET Nat /\ left # {} BY <1>1, <1>2
<1>4. PICK x \in left : \A y \in left : x <= y BY <1>3, LeastNumber
<1>5. PICK k \in 0..N : x = N - k /\ FirstOf(exts, g, k) # {} BY <1>4
<1>6. k = N
  <2>1. ASSUME k < N PROVE FALSE
    <3>1. FirstOf(exts, g, k + 1) # {} BY <1>5, <2>1, OneMore
    <3>2. N - (k + 1) \in left BY <1>1, <2>1, <3>1
    <3>3. N - k <= N - (k + 1) BY <1>4, <1>5, <3>2
    <3> HIDE DEF N
    <3> QED BY <1>1, <3>3
  <2> HIDE DEF N
  <2> QED BY <1>1, <2>1
<1>7. PICK s : s \in FirstOf(exts, g, N) BY <1>5, <1>6
<1> DEFINE deps(n) == IF n \in DOMAIN g THEN g[n] ELSE {}
<1> DEFINE free == {n \in exts : deps(n) = {}}
<1> DEFINE F == Cardinality(free)
<1>8. F \in Nat /\ F <= N BY <1>1, FS_Subset, FS_CardinalityType
<1>9. /\ s \in [1..N -> exts]
      /\ \A i, j \in 1..N : i # j => s[i] # s[j]
      /\ \A i \in 1..N : i <= F => s[i] \in free
      /\ \A i, j \in 1..N : i < j /\ j <= F => s[i] < s[j]
      /\ \A i \in 1..N : \A d \in deps(s[i]) : \E j \in 1..(i - 1) : s[j] = d
  BY <1>7 DEF FirstOf
<1>10. /\ \A i \in 1..F : s[i] \in free
       /\ \A i, j \in 1..F : i < j => s[i] < s[j]
  <2> HIDE DEF N, F, free
  <2> QED BY <1>1, <1>8, <1>9
<1>11. s \in InitOrders(exts, g)
  <2>1. DOMAIN s = 1..N BY <1>9
  <2> QED BY <1>9, <1>10, <2>1 DEF InitOrders
<1> QED BY <1>11

\* Whatever resolveDependencyGraph makes of a graph whose cycles are mutual has no cycle.
LEMMA ResolvedAcyclic ==
  ASSUME NEW reg, IsFiniteSet(reg), NEW strong, NEW weak, MutualOnly(DeclaredGraph(reg, strong, weak)),
         NEW g \in ResolvedGraphs(reg, strong, weak)
  PROVE  ~HasCycle(g) /\ DOMAIN g = reg /\ \A n \in reg : g[n] \subseteq strong[n] \cup reg
<1> DEFINE d == DeclaredGraph(reg, strong, weak)
<1> DEFINE w == DropWeak(d, weak)
<1> DEFINE count == [n \in reg |-> Cardinality(strong[n]) + Cardinality(weak[n] \cap reg)]
<1>1. DOMAIN d = reg /\ \A n \in reg : d[n] = strong[n] \cup (weak[n] \cap reg) BY DEF DeclaredGraph
<1>2. w = d
  <2>1. DOMAIN w = reg /\ \A n \in reg : w[n] = {e \in d[n] : ~(e \in reg /\ e \in weak[e])} BY <1>1 DEF DropWeak
  <2>2. \A e \in reg : e \notin weak[e] BY <1>1 DEF MutualOnly
  <2>3. \A n \in reg : w[n] = d[n] BY <2>1, <2>2
  <2>4. w = [n \in reg |-> w[n]] /\ d = [n \in reg |-> d[n]] BY DEF DropWeak, DeclaredGraph
  <2> HIDE DEF w, d
  <2> QED BY <2>3, <2>4
<1>3. \/ g = d /\ ~HasCycle(d)
      \/ g = w /\ ~HasCycle(w)
      \/ g \in {BreakPairs(w, r) : r \in Sorted(reg, count)}
  BY DEF ResolvedGraphs
<1> HIDE DEF w, count
<1>4. CASE g = d /\ ~HasCycle(d) BY <1>1, <1>4
<1>5. CASE g = w /\ ~HasCycle(w) BY <1>1, <1>2, <1>5
<1>6. CASE g \in {BreakPairs(w, r) : r \in Sorted(reg, count)}
  <2>1. PICK r \in Sorted(reg, count) : g = BreakPairs(d, r) BY <1>2, <1>6
  <2> HIDE DEF d
  <2>2. MutualOnly(d) BY DEF d
  <2>3. ~HasCycle(g) BY <1>1, <2>1, <2>2, PairsBroken
  <2>4. DOMAIN g = reg /\ \A n \in reg : g[n] \subseteq d[n] BY <1>1, <2>1 DEF BreakPairs
  <2> QED BY <1>1, <2>3, <2>4
<1> QED BY <1>3, <1>4, <1>5, <1>6

\* Every step keeps it: only the second critical section finds a cycle.
LEMMA NextMutual == IInv /\ MutualCyclesResolve /\ [Next]_vars => MutualCyclesResolve'
<1> SUFFICES ASSUME IInv, MutualCyclesResolve, [Next]_vars PROVE MutualCyclesResolve'
  OBVIOUS
<1>1. dep' = dep /\ Graph' = Graph BY SameProgram
<1>2. SUFFICES ASSUME \A n \in dep.reg : \A d \in Graph[n] \cap dep.reg : d # n /\ (n \in Graph[d] \/ ~Reaches(Graph, d, n)),
                      NEW c \in Caller, ipc'[c] = "cycle"
               PROVE  FALSE
  BY <1>1 DEF MutualCyclesResolve
<1>3. ipc[c] # "cycle" BY <1>2 DEF MutualCyclesResolve
<1>4. ipc \in [Caller -> {"idle", "prepare", "hooks", "finish"} \cup Returned] /\ dep \in DeploymentType
      /\ extensions \subseteq Name
  BY DeploymentAssumption DEF IInv, TypeOK
<1>5. InitPrepare(c)
  BY Actions, <1>2, <1>3, <1>4
  DEF RegisterExtension, LoadPlugin, UnloadLock, UnloadFails, UnloadRemove, InitCheck,
      InitPrepare, InitHook, InitHookFails, InitHookPanics, InitReady, InitFinish,
      AsyncDiscover, AsyncClear, AsyncFind, AsyncRegister, CleanupSnapshot, CleanupEach,
      CleanupClear, MapRace, vars, initVars
<1> DEFINE exts == extensions \cup dep.reg
<1>6. PICK g \in ResolvedGraphs(dep.reg, dep.strong, dep.weak) : InitOrders(exts, g) = {}
  BY <1>2, <1>4, <1>5 DEF InitPrepare
<1>7. \A n \in exts : dep.strong[n] \subseteq exts
  BY <1>2, <1>4, <1>5 DEF InitPrepare
<1>8. exts \subseteq Name /\ dep.reg \subseteq Name /\ IsFiniteSet(dep.reg)
  <2>1. dep.reg \subseteq Name BY <1>4 DEF DeploymentType
  <2> QED BY <1>4, <2>1, NameAssumption, FS_Subset
<1>9. MutualOnly(Graph) BY <1>2 DEF MutualOnly, Graph, DeclaredGraph
<1>10. ~HasCycle(g) /\ DOMAIN g = dep.reg /\ \A n \in dep.reg : g[n] \subseteq dep.strong[n] \cup dep.reg
  BY <1>6, <1>8, <1>9, ResolvedAcyclic DEF Graph
<1>11. DOMAIN g \subseteq exts /\ \A n \in DOMAIN g : g[n] \subseteq exts BY <1>7, <1>10
<1> QED BY <1>6, <1>8, <1>10, <1>11, OrderExists

\* For any number of extensions and whatever their dependencies: a program all of whose
\* cycles are mutual dependencies never fails with "cyclic dependency detected"; getInitOrder
\* always finds an order for what resolveDependencyGraph leaves.
THEOREM MutualCyclesResolveThm == Spec => []MutualCyclesResolve
<1>1. Init => IInv /\ MutualCyclesResolve
  BY InitIInv DEF Init, MutualCyclesResolve
<1>2. (IInv /\ MutualCyclesResolve) /\ [Next]_vars => (IInv /\ MutualCyclesResolve)'
  BY NextIInv, NextMutual
<1> QED BY <1>1, <1>2, PTL DEF Spec

=============================================================================
