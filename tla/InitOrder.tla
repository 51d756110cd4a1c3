------------------------------- MODULE InitOrder -------------------------------
(***************************************************************************)
(* The order in which extensions are initialised: the dependency graph     *)
(* that extension/registry/registry.go builds and the order that           *)
(* getInitOrder of extension/manager/utils.go derives from it.  The Go     *)
(* code iterates over maps, in an arbitrary order, and sorts with an       *)
(* unstable sort; so the operators yield the sets of possible results.     *)
(* Names are integers, in the order in which sort.Strings would put them.  *)
(***************************************************************************)
EXTENDS Integers, Sequences, FiniteSets

\* Following dependencies from node d of a graph leads to node n.
Reaches(g, d, n) ==
  \A S \in SUBSET DOMAIN g :
    (d \in S /\ \A m \in S : g[m] \cap DOMAIN g \subseteq S) => n \in S

\* detectCircularDependencies: its depth-first search meets a node that is still
\* on the path exactly when some dependency leads back to its dependent.
HasCycle(g) ==
  \E n \in DOMAIN g : \E d \in g[n] \cap DOMAIN g : Reaches(g, d, n)

\* The graph that GetExtensionsAndDependencies builds: strong dependencies, and
\* the weak ones that are registered.
DeclaredGraph(reg, strong, weak) ==
  [n \in reg |-> strong[n] \cup (weak[n] \cap reg)]

\* The first attempt of resolveDependencyGraph to break cycles: it drops the
\* dependencies on an extension that lists itself as a weak dependency.
DropWeak(g, weak) ==
  [n \in DOMAIN g |-> {d \in g[n] : ~(d \in DOMAIN g /\ d \in weak[d])}]

\* Mutant of BreakPairs: both sides of a mutual dependency are kept.
BreakNothing(g, before) == g

\* The second attempt: of two extensions that depend on each other, the later
\* one in the list sorted by the number of dependencies loses its dependency.
BreakPairs(g, before) ==
  [n \in DOMAIN g |->
     {d \in g[n] : ~(/\ d \in DOMAIN g \ {n} /\ n \in g[d]
                     /\ before[d] < before[n])}]

\* The positions that sort.Slice may give to nodes with these numbers of
\* dependencies (duplicates between strong and weak count twice).
Sorted(N, count) ==
  {r \in [N -> 1..Cardinality(N)] :
     \A m, n \in N : /\ m # n => r[m] # r[n]
                     /\ count[m] < count[n] => r[m] < r[n]}

\* resolveDependencyGraph
ResolvedGraphs(reg, strong, weak) ==
  LET g == DeclaredGraph(reg, strong, weak)
      w == DropWeak(g, weak)
      count == [n \in reg |-> Cardinality(strong[n]) + Cardinality(weak[n] \cap reg)]
  IN  IF ~HasCycle(g) THEN {g}
      ELSE IF ~HasCycle(w) THEN {w}
      ELSE {BreakPairs(w, r) : r \in Sorted(reg, count)}

\* Mutant of InitOrders: only the extensions without dependencies go first.
UnsortedOrders(exts, g) ==
  LET deps(n) == IF n \in DOMAIN g THEN g[n] ELSE {}
      free == {n \in exts : deps(n) = {}}
  IN  {s \in [1..Cardinality(exts) -> exts] :
         /\ \A i, j \in DOMAIN s : i # j => s[i] # s[j]
         /\ \A i \in 1..Cardinality(free) : s[i] \in free}

\* getInitOrder: first the extensions that the graph gives no dependencies (the
\* ones it does not know among them), sorted by name, then the others, each
\* after its dependencies.  There is no order, and the call fails, when some of
\* the others are never ready.
InitOrders(exts, g) ==
  LET deps(n) == IF n \in DOMAIN g THEN g[n] ELSE {}
      free == {n \in exts : deps(n) = {}}
  IN  {s \in [1..Cardinality(exts) -> exts] :
         /\ \A i, j \in DOMAIN s : i # j => s[i] # s[j]
         /\ \A i \in 1..Cardinality(free) : s[i] \in free
         /\ \A i, j \in 1..Cardinality(free) : i < j => s[i] < s[j]
         /\ \A i \in DOMAIN s : \A d \in deps(s[i]) :
              \E j \in 1..(i - 1) : s[j] = d}
===============================================================================
