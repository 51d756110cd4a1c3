--------------------------- MODULE ExtensionManager ---------------------------
(***************************************************************************)
(* The life cycle of extensions in extension/manager: manager.go,          *)
(* lifecycle.go and plugin.go.                                             *)
(*                                                                         *)
(* Goroutines: callers of InitExtensions, of RegisterExtension, LoadPlugin *)
(* and UnloadPlugin, of Cleanup, and the one that each InitExtensions      *)
(* starts for the optional services.  A critical section of m.mu is one    *)
(* step, except in UnloadPlugin, which asks for m.mu again while it holds  *)
(* it.  Some readers of m.extensions do not take m.mu at all.  What an     *)
(* extension's own methods do is not known: they succeed or fail, and the  *)
(* model counts the calls.                                                 *)
(***************************************************************************)
EXTENDS InitOrder

CONSTANTS
  Name,         \* extension names
  Caller,       \* goroutines that call InitExtensions, each at most once
  Deployments,  \* the programs considered: who is registered, and who calls what
  MaxFails,     \* bound on the methods of extensions that fail
  MaxHooks,     \* bound: a plugin whose PreInit ran this often is not loaded
  NoName        \* "no extension in hand"

\* A program: the extensions in the registry with their strong and weak
\* dependencies, the names passed to RegisterExtension and to LoadPlugin, the
\* plugins that are unloaded, the extensions that service discovery accepts, the
\* callers of InitExtensions, and whether Cleanup is called.
DeploymentType ==
  [reg : SUBSET Name, strong : [Name -> SUBSET Name], weak : [Name -> SUBSET Name],
   manual : SUBSET Name, plugins : SUBSET Name, unloads : SUBSET Name,
   discovered : SUBSET Name, callers : SUBSET Caller, cleanup : BOOLEAN]

ASSUME NameAssumption ==
  Name \subseteq Int /\ IsFiniteSet(Name) /\ NoName \notin Name
ASSUME DeploymentAssumption == Deployments \subseteq DeploymentType
ASSUME BoundAssumption == MaxFails \in Nat /\ MaxHooks \in Nat

VARIABLES
  dep,          \* the program
  mu,           \* "free", or "unload" while UnloadPlugin holds m.mu
  extensions,   \* the keys of m.extensions
  initialized,  \* m.initialized
  ipc,          \* where each InitExtensions call is
  order,        \* its initOrder
  pos,          \* hooks it has run: PreInit of all, then Init, then PostInit
  hooks,        \* how often each hook of each extension has succeeded
  fails,        \* how many methods of extensions have failed
  events,       \* names with a ready event
  apc,          \* the goroutine that an InitExtensions call started
  todo,         \* the names that this goroutine has still to visit
  found,        \* the extension whose services it is about to register
  consul,       \* names registered with service discovery
  cross,        \* names with services in m.crossServices
  kpc,          \* where Cleanup is
  ktodo,        \* the extensions that Cleanup has still to clean up
  cleaned,      \* extensions whose Cleanup method was called
  upc,          \* where the UnloadPlugin call of each name is
  crashed       \* "no", or what ended the process: a "panic" or a map "race"

initVars  == <<ipc, order, pos>>
asyncVars == <<apc, todo, found, consul, cross>>
cleanVars == <<kpc, ktodo, cleaned>>
vars == <<dep, mu, extensions, initialized, initVars, hooks, fails, events,
          asyncVars, cleanVars, upc, crashed>>

Hooks == <<"PreInit", "Init", "PostInit">>
Returned == {"ok", "already", "missing", "cycle", "failed"}

TypeOK ==
  /\ dep \in Deployments
  /\ mu \in {"free", "unload"}
  /\ extensions \subseteq Name
  /\ initialized \in BOOLEAN
  /\ ipc \in [Caller -> {"idle", "prepare", "hooks", "finish"} \cup Returned]
  /\ order \in [Caller -> Seq(Name)] /\ pos \in [Caller -> Nat]
  /\ \A c \in Caller : pos[c] <= 3 * Len(order[c])
  /\ hooks \in [Name -> [{"PreInit", "Init", "PostInit"} -> Nat]]
  /\ fails \in 0..MaxFails
  /\ events \subseteq Name
  /\ apc \in [Caller -> {"none", "discover", "clear", "cross", "done"}]
  /\ todo \in [Caller -> SUBSET Name]
  /\ found \in [Caller -> Name \cup {NoName}]
  /\ consul \subseteq Name /\ cross \subseteq Name
  /\ kpc \in {"idle", "each", "clear", "done"}
  /\ ktodo \subseteq Name /\ cleaned \subseteq Name
  /\ upc \in [Name -> {"idle", "locked", "blocked", "notFound", "failed"}]
  /\ crashed \in {"no", "panic", "race"}

Init ==
  /\ dep \in Deployments
  /\ mu = "free"
  /\ extensions = {}
  /\ initialized = FALSE
  /\ ipc = [c \in Caller |-> "idle"]
  /\ order = [c \in Caller |-> <<>>]
  /\ pos = [c \in Caller |-> 0]
  /\ hooks = [n \in Name |-> [h \in {"PreInit", "Init", "PostInit"} |-> 0]]
  /\ fails = 0
  /\ events = {}
  /\ apc = [c \in Caller |-> "none"]
  /\ todo = [c \in Caller |-> {}]
  /\ found = [c \in Caller |-> NoName]
  /\ consul = {} /\ cross = {}
  /\ kpc = "idle" /\ ktodo = {} /\ cleaned = {}
  /\ upc = [n \in Name |-> "idle"]
  /\ crashed = "no"

-----------------------------------------------------------------------------
(***************************************************************************)
(* Registration and plugins                                                *)
(***************************************************************************)

\* A goroutine that ranges over m.extensions without m.mu may or may not meet
\* the names that are entered meanwhile.
MayVisit(S) ==
  \E J \in SUBSET {c \in Caller : apc[c] \in {"discover", "cross"}} :
    todo' = [c \in Caller |-> IF c \in J THEN todo[c] \cup S ELSE todo[c]]

CanRegister(n) == n \in dep.manual \ extensions /\ mu = "free" /\ ~initialized
CanLoad(n) ==
  n \in dep.plugins \ extensions /\ mu = "free" /\ hooks[n]["PreInit"] < MaxHooks

\* RegisterExtension, when it succeeds.
RegisterExtension(n) ==
  /\ CanRegister(n)
  /\ extensions' = extensions \cup {n}
  /\ MayVisit({n})
  /\ UNCHANGED <<dep, mu, initialized, initVars, hooks, fails, events, apc, found,
                 consul, cross, cleanVars, upc, crashed>>

\* LoadPlugin of a plugin that is not loaded yet: its three hooks run, under
\* m.mu, and it is entered if they all succeed; the first failure ends the call.
LoadPlugin(n) ==
  /\ CanLoad(n)
  /\ \E ran \in 0..Len(Hooks) :
       /\ hooks' = [hooks EXCEPT ![n] = [h \in DOMAIN @ |->
                      IF \E i \in 1..ran : Hooks[i] = h THEN @[h] + 1 ELSE @[h]]]
       /\ IF ran = Len(Hooks)
          THEN /\ extensions' = extensions \cup {n}
               /\ MayVisit({n})
               /\ UNCHANGED fails
          ELSE /\ fails < MaxFails
               /\ fails' = fails + 1
               /\ UNCHANGED <<extensions, todo>>
  /\ UNCHANGED <<dep, mu, initialized, initVars, events, apc, found, consul, cross,
                 cleanVars, upc, crashed>>

\* UnloadPlugin takes m.mu and runs PreCleanup and Cleanup ...
UnloadLock(n) ==
  /\ n \in dep.unloads
  /\ upc[n] = "idle" /\ mu = "free"
  /\ IF n \in extensions
     THEN upc' = [upc EXCEPT ![n] = "locked"] /\ mu' = "unload"
     ELSE upc' = [upc EXCEPT ![n] = "notFound"] /\ UNCHANGED mu
  /\ UNCHANGED <<dep, extensions, initialized, initVars, hooks, fails, events,
                 asyncVars, cleanVars, crashed>>

\* ... which may fail ...
UnloadFails(n) ==
  /\ upc[n] = "locked" /\ fails < MaxFails
  /\ fails' = fails + 1
  /\ mu' = "free"
  /\ cleaned' = cleaned \cup {n}
  /\ upc' = [upc EXCEPT ![n] = "failed"]
  /\ UNCHANGED <<dep, extensions, initialized, initVars, hooks, events, asyncVars,
                 kpc, ktodo, crashed>>

\* ... or not.  Then the plugin leaves the map, and removeCrossServicesForExtension
\* asks for m.mu, which this goroutine holds: the call never gets any further,
\* and the rest of UnloadPlugin is never reached.
UnloadRemove(n) ==
  /\ upc[n] = "locked"
  /\ extensions' = extensions \ {n}
  /\ cleaned' = cleaned \cup {n}
  /\ todo' = [c \in Caller |-> todo[c] \ {n}]
  /\ upc' = [upc EXCEPT ![n] = "blocked"]
  /\ UNCHANGED <<dep, mu, initialized, initVars, hooks, fails, events, apc, found,
                 consul, cross, kpc, ktodo, crashed>>

UnloadPlugin(n) == UnloadLock(n) \/ UnloadFails(n) \/ UnloadRemove(n)

-----------------------------------------------------------------------------
(***************************************************************************)
(* InitExtensions                                                          *)
(***************************************************************************)

\* The check of m.initialized, in a critical section of its own.
InitCheck(c) ==
  /\ c \in dep.callers /\ ipc[c] = "idle" /\ mu = "free"
  /\ ipc' = [ipc EXCEPT ![c] = IF initialized THEN "already" ELSE "prepare"]
  /\ UNCHANGED <<dep, mu, extensions, initialized, order, pos, hooks, fails,
                 events, asyncVars, cleanVars, upc, crashed>>

\* Mutant of InitPrepare: the early return forgets m.mu.Unlock().
InitPrepareKeepsLock(c) ==
  LET exts == extensions \cup dep.reg IN
  /\ ipc[c] = "prepare" /\ mu = "free"
  /\ extensions' = exts
  /\ MayVisit(dep.reg \ extensions)
  /\ IF \E n \in exts : ~(dep.strong[n] \subseteq exts)
     THEN ipc' = [ipc EXCEPT ![c] = "missing"] /\ mu' = "held" /\ UNCHANGED order
     ELSE \E g \in ResolvedGraphs(dep.reg, dep.strong, dep.weak) :
            \/ /\ \E s \in InitOrders(exts, g) : order' = [order EXCEPT ![c] = s]
               /\ ipc' = [ipc EXCEPT ![c] = "hooks"]
               /\ UNCHANGED mu
            \/ /\ InitOrders(exts, g) = {}
               /\ ipc' = [ipc EXCEPT ![c] = "cycle"]
               /\ UNCHANGED <<order, mu>>
  /\ UNCHANGED <<dep, initialized, pos, hooks, fails, events, apc, found,
                 consul, cross, cleanVars, upc, crashed>>

\* The second critical section: the registry's extensions are entered, strong
\* dependencies are checked and an order is found.
InitPrepare(c) ==
  LET exts == extensions \cup dep.reg IN
  /\ ipc[c] = "prepare" /\ mu = "free"
  /\ extensions' = exts
  /\ MayVisit(dep.reg \ extensions)
  /\ IF \E n \in exts : ~(dep.strong[n] \subseteq exts)
     THEN ipc' = [ipc EXCEPT ![c] = "missing"] /\ UNCHANGED order
     ELSE \E g \in ResolvedGraphs(dep.reg, dep.strong, dep.weak) :
            \/ /\ \E s \in InitOrders(exts, g) : order' = [order EXCEPT ![c] = s]
               /\ ipc' = [ipc EXCEPT ![c] = "hooks"]
            \/ /\ InitOrders(exts, g) = {}
               /\ ipc' = [ipc EXCEPT ![c] = "cycle"]
               /\ UNCHANGED order
  /\ UNCHANGED <<dep, mu, initialized, pos, hooks, fails, events, apc, found,
                 consul, cross, cleanVars, upc, crashed>>

\* The phase and the extension of a call's next hook.
HookOf(c) == Hooks[(pos[c] \div Len(order[c])) + 1]
ExtOf(c)  == order[c][(pos[c] % Len(order[c])) + 1]

Advance(c) == pos' = [pos EXCEPT ![c] = @ + 1]

\* One hook of initializeExtensionsInPhases succeeds.  m.extensions is read
\* without m.mu, and PostInit is followed by the extension's ready event.
InitHook(c) ==
  /\ ipc[c] = "hooks" /\ pos[c] < 3 * Len(order[c])
  /\ ExtOf(c) \in extensions
  /\ hooks' = [hooks EXCEPT ![ExtOf(c)][HookOf(c)] = @ + 1]
  /\ events' = IF HookOf(c) = "PostInit" THEN events \cup {ExtOf(c)} ELSE events
  /\ Advance(c)
  /\ UNCHANGED <<dep, mu, extensions, initialized, ipc, order, fails, asyncVars,
                 cleanVars, upc, crashed>>

\* A hook fails: InitExtensions returns its error, and undoes nothing.
InitHookFails(c) ==
  /\ ipc[c] = "hooks" /\ pos[c] < 3 * Len(order[c])
  /\ ExtOf(c) \in extensions
  /\ fails < MaxFails
  /\ fails' = fails + 1
  /\ ipc' = [ipc EXCEPT ![c] = "failed"]
  /\ UNCHANGED <<dep, mu, extensions, initialized, order, pos, hooks, events,
                 asyncVars, cleanVars, upc, crashed>>

\* The extension has left the map since the order was found: m.extensions[name]
\* is nil, and the use of its Instance panics.
InitHookPanics(c) ==
  /\ ipc[c] = "hooks" /\ pos[c] < 3 * Len(order[c])
  /\ ExtOf(c) \notin extensions
  /\ crashed' = "panic"
  /\ UNCHANGED <<dep, mu, extensions, initialized, initVars, hooks, fails, events,
                 asyncVars, cleanVars, upc>>

\* Mutant of InitReady: the optional services do not wait for PostInit.
InitReadyEarly(c) ==
  /\ ipc[c] = "hooks" /\ pos[c] >= 2 * Len(order[c])
  /\ ipc' = [ipc EXCEPT ![c] = "finish"]
  /\ apc' = [apc EXCEPT ![c] = "discover"]
  /\ todo' = [todo EXCEPT ![c] = extensions]
  /\ UNCHANGED <<dep, mu, extensions, initialized, order, pos, hooks, fails,
                 events, found, consul, cross, cleanVars, upc, crashed>>

\* All hooks have run: the optional services are started in the background.
InitReady(c) ==
  /\ ipc[c] = "hooks" /\ pos[c] = 3 * Len(order[c])
  /\ ipc' = [ipc EXCEPT ![c] = "finish"]
  /\ apc' = [apc EXCEPT ![c] = "discover"]
  /\ todo' = [todo EXCEPT ![c] = extensions]
  /\ UNCHANGED <<dep, mu, extensions, initialized, order, pos, hooks, fails,
                 events, found, consul, cross, cleanVars, upc, crashed>>

InitFinish(c) ==
  /\ ipc[c] = "finish" /\ mu = "free"
  /\ initialized' = TRUE
  /\ ipc' = [ipc EXCEPT ![c] = "ok"]
  /\ UNCHANGED <<dep, mu, extensions, order, pos, hooks, fails, events, asyncVars,
                 cleanVars, upc, crashed>>

InitExtensions(c) ==
  \/ InitCheck(c) \/ InitPrepare(c)
  \/ InitHook(c) \/ InitHookFails(c) \/ InitHookPanics(c)
  \/ InitReady(c) \/ InitFinish(c)

-----------------------------------------------------------------------------
(***************************************************************************)
(* initOptionalServicesAsync                                               *)
(***************************************************************************)

\* registerServicesWithDiscovery ranges over the extensions without m.mu; an
\* extension may not need discovery, and RegisterService may fail.
AsyncDiscover(c) ==
  /\ apc[c] = "discover"
  /\ \/ \E n \in todo[c] :
          /\ consul' = consul \cup ({n} \cap dep.discovered)
          /\ todo' = [todo EXCEPT ![c] = @ \ {n}]
          /\ UNCHANGED apc
     \/ /\ todo[c] = {}
        /\ apc' = [apc EXCEPT ![c] = "clear"]
        /\ UNCHANGED <<consul, todo>>
  /\ UNCHANGED <<dep, mu, extensions, initialized, initVars, hooks, fails, events,
                 found, cross, cleanVars, upc, crashed>>

\* refreshCrossServices empties m.crossServices under m.mu ...
AsyncClear(c) ==
  /\ apc[c] = "clear" /\ mu = "free"
  /\ cross' = {}
  /\ todo' = [todo EXCEPT ![c] = extensions]
  /\ apc' = [apc EXCEPT ![c] = "cross"]
  /\ UNCHANGED <<dep, mu, extensions, initialized, initVars, hooks, fails, events,
                 found, consul, cleanVars, upc, crashed>>

\* ... looks each extension up, under m.mu, in the map as it is by then ...
AsyncFind(c) ==
  /\ apc[c] = "cross" /\ mu = "free" /\ found[c] = NoName
  /\ \/ \E n \in todo[c] :
          /\ found' = [found EXCEPT ![c] = IF n \in extensions THEN n ELSE NoName]
          /\ todo' = [todo EXCEPT ![c] = @ \ {n}]
          /\ UNCHANGED apc
     \/ /\ todo[c] = {}
        /\ apc' = [apc EXCEPT ![c] = "done"]
        /\ UNCHANGED <<found, todo>>
  /\ UNCHANGED <<dep, mu, extensions, initialized, initVars, hooks, fails, events,
                 consul, cross, cleanVars, upc, crashed>>

\* ... and registers its services, in other critical sections.
AsyncRegister(c) ==
  /\ apc[c] = "cross" /\ mu = "free" /\ found[c] # NoName
  /\ cross' = cross \cup {found[c]}
  /\ found' = [found EXCEPT ![c] = NoName]
  /\ UNCHANGED <<dep, mu, extensions, initialized, initVars, hooks, fails, events,
                 apc, todo, consul, cleanVars, upc, crashed>>

Async(c) == AsyncDiscover(c) \/ AsyncClear(c) \/ AsyncFind(c) \/ AsyncRegister(c)

-----------------------------------------------------------------------------
(***************************************************************************)
(* Cleanup                                                                 *)
(***************************************************************************)

\* Mutant of CleanupSnapshot: nothing to do before the manager is initialised.
CleanupSnapshotInitialized ==
  /\ dep.cleanup /\ kpc = "idle" /\ mu = "free"
  /\ ktodo' = IF initialized THEN extensions ELSE {}
  /\ kpc' = "each"
  /\ UNCHANGED <<dep, mu, extensions, initialized, initVars, hooks, fails, events,
                 asyncVars, cleaned, upc, crashed>>

\* cleanupExtensions takes a copy of the map ...
CleanupSnapshot ==
  /\ dep.cleanup /\ kpc = "idle" /\ mu = "free"
  /\ ktodo' = extensions
  /\ kpc' = "each"
  /\ UNCHANGED <<dep, mu, extensions, initialized, initVars, hooks, fails, events,
                 asyncVars, cleaned, upc, crashed>>

\* ... and cleans up one extension after the other, whether or not its methods
\* fail.  DeregisterService asks for the extension's name, which is not the ID it
\* was registered with, so the registration stays.
CleanupEach ==
  /\ kpc = "each"
  /\ \/ \E n \in ktodo :
          /\ cleaned' = cleaned \cup {n}
          /\ ktodo' = ktodo \ {n}
          /\ UNCHANGED kpc
     \/ /\ ktodo = {}
        /\ kpc' = "clear"
        /\ UNCHANGED <<cleaned, ktodo>>
  /\ UNCHANGED <<dep, mu, extensions, initialized, initVars, hooks, fails, events,
                 asyncVars, upc, crashed>>

\* The maps and the flag are reset under m.mu.  The new map is another one than
\* the goroutines that are ranging over the old one see.
CleanupClear ==
  /\ kpc = "clear" /\ mu = "free"
  /\ kpc' = "done"
  /\ extensions' = {}
  /\ initialized' = FALSE
  /\ cross' = {}
  /\ UNCHANGED <<dep, mu, initVars, hooks, fails, events, apc, todo, found, consul,
                 ktodo, cleaned, upc, crashed>>

Cleanup == CleanupSnapshot \/ CleanupEach \/ CleanupClear

-----------------------------------------------------------------------------

(***************************************************************************)
(* The unlocked reads                                                      *)
(***************************************************************************)

\* A goroutine looks names up in m.extensions, or ranges over it, without m.mu.
Reading ==
  \E c \in Caller : \/ ipc[c] = "hooks" /\ pos[c] < 3 * Len(order[c])
                    \/ apc[c] \in {"discover", "cross"}

\* A goroutine is about to enter a name in the same map, or to delete one.
Writing ==
  \/ \E n \in Name : CanRegister(n) \/ CanLoad(n) \/ upc[n] = "locked"
  \/ /\ mu = "free" /\ ~(dep.reg \subseteq extensions)
     /\ \E c \in Caller : ipc[c] = "prepare"

\* Both at once: the Go runtime may end the process (concurrent map read and map
\* write), and no recover helps.
MapRace ==
  /\ Reading /\ Writing
  /\ crashed' = "race"
  /\ UNCHANGED <<dep, mu, extensions, initialized, initVars, hooks, fails, events,
                 asyncVars, cleanVars, upc>>

-----------------------------------------------------------------------------

Step ==
  \/ \E n \in Name : RegisterExtension(n) \/ LoadPlugin(n) \/ UnloadPlugin(n)
  \/ \E c \in Caller : InitExtensions(c) \/ Async(c)
  \/ Cleanup
  \/ MapRace

Running == crashed = "no"

Next == Running /\ Step

(***************************************************************************)
(* Goroutines that can run do run, once they have begun; the methods of    *)
(* extensions return.                                                      *)
(***************************************************************************)
Fairness ==
  /\ \A c \in Caller : /\ WF_vars(Running /\ ipc[c] # "idle" /\ InitExtensions(c))
                       /\ WF_vars(Running /\ Async(c))
  /\ \A n \in Name : WF_vars(Running /\ upc[n] = "locked" /\ UnloadPlugin(n))
  /\ WF_vars(Running /\ kpc # "idle" /\ Cleanup)

Spec == Init /\ [][Next]_vars /\ Fairness

-----------------------------------------------------------------------------
(***************************************************************************)
(* Properties                                                              *)
(***************************************************************************)

Graph == DeclaredGraph(dep.reg, dep.strong, dep.weak)
Ran(n, h) == hooks[n][h] > 0

\* If the declared dependencies have no cycle, an extension of the registry is
\* initialised after everything it depends on, weakly or strongly, in each of
\* the three phases, however calls of InitExtensions interleave and fail
\* (GetExtensionsAndDependencies, getInitOrder, initializeExtensionsInPhases).
\* A plugin is not promised this, even under the name of a registered extension:
\* LoadPlugin runs its hooks at once, without a look at its dependencies.
DependenciesFirst ==
  ~HasCycle(Graph) =>
    \A n \in dep.reg \ dep.plugins, h \in {"PreInit", "Init", "PostInit"} :
      Ran(n, h) => \A d \in Graph[n] : Ran(d, h)

\* The three phases are barriers: whoever hears of an extension, by its ready
\* event, can rely on the Init of every registered extension, and whoever finds
\* its services, locally or by service discovery, on their PostInit; the same
\* when m.initialized says so.
AnnouncedIsReady ==
  \A m \in dep.reg :
    /\ events # {} => Ran(m, "Init")
    /\ initialized \/ (consul \cup cross) \cap dep.reg # {} => Ran(m, "PostInit")

\* Cycles in which every dependency goes both ways are resolved: such a program
\* never fails with "cyclic dependency detected" (resolveDependencyGraph).
MutualCyclesResolve ==
  (\A n \in dep.reg : \A d \in Graph[n] \cap dep.reg :
      d # n /\ (n \in Graph[d] \/ ~Reaches(Graph, d, n)))
    => \A c \in Caller : ipc[c] # "cycle"

\* Only Cleanup, and UnloadPlugin, take away an extension whose hooks are still to
\* run: nothing else can make InitExtensions use a nil entry.
PanicNeedsRemoval ==
  crashed = "panic" => kpc = "done" \/ \E n \in Name : upc[n] = "blocked"

\* What InitExtensions announces is initialised (AnnouncedIsReady), and what it is about to
\* initialise is there unless another call removed it (PanicNeedsRemoval).
PhasesSound == TypeOK /\ AnnouncedIsReady /\ PanicNeedsRemoval

\* An extension whose PreInit ran before Cleanup began has been cleaned up when
\* Cleanup is over, even if its own initialisation, or another one's, failed.
CleanupReachesAll ==
  \A n \in Name :
    [](n \notin dep.plugins /\ Ran(n, "PreInit") /\ kpc = "idle"
         => [](kpc = "done" => n \in cleaned))

\* An InitExtensions call returns, on every path, unless UnloadPlugin has taken
\* m.mu for good or the process died.
InitReturns ==
  \A c \in Caller :
    (ipc[c] = "prepare") ~> (ipc[c] \in Returned \/ mu = "unload" \/ ~Running)

\* Plugins can be unloaded at run time: an UnloadPlugin that holds m.mu gives it
\* back.
UnloadReturns == (mu = "unload") ~> (mu = "free")
===============================================================================
