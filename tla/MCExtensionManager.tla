-------------------------- MODULE MCExtensionManager --------------------------
(***************************************************************************)
(* Programs for ExtensionManager: every dependency graph of three          *)
(* registered extensions with a single InitExtensions, and a few programs  *)
(* of two extensions that use everything else of the manager concurrently. *)
(***************************************************************************)
EXTENDS ExtensionManager

NoDeps == [n \in Name |-> {}]

Plain(reg, strong, weak) ==
  [reg |-> reg, strong |-> strong, weak |-> weak, manual |-> {}, plugins |-> {},
   unloads |-> {}, discovered |-> {}, callers |-> {"a"}, cleanup |-> FALSE]

Edges == {<<m, n>> \in Name \X Name : m # n}

\* Each of the possible dependencies is absent, strong or weak.
GraphPrograms ==
  {Plain(Name, [m \in Name |-> {n \in Name \ {m} : kind[<<m, n>>] = "strong"}],
               [m \in Name |-> {n \in Name \ {m} : kind[<<m, n>>] = "weak"}]) :
     kind \in [Edges -> {"none", "strong", "weak"}]}

\* Extensions that depend on themselves, as the first stage of
\* resolveDependencyGraph expects of weak dependencies.
SelfPrograms ==
  {Plain({1, 2}, [NoDeps EXCEPT ![1] = one, ![2] = two],
                 [NoDeps EXCEPT ![1] = weak1, ![2] = weak2]) :
     one, two \in SUBSET {1, 2}, weak1 \in {{}, {1}, {1, 2}}, weak2 \in {{}, {2}}}

\* Two registered extensions, of which 2 depends on 1 and perhaps on 3, or one
\* alone that may depend on 3.
Pair(strong2) == Plain({1, 2}, [NoDeps EXCEPT ![2] = strong2], NoDeps)
Single(strong1) ==
  [Plain({1}, [NoDeps EXCEPT ![1] = strong1], NoDeps) EXCEPT !.discovered = {1}]

ConcurrentPrograms ==
  {[Pair({1}) EXCEPT !.callers = {"a", "b"}],
   [Pair({1, 3}) EXCEPT !.manual = {3}, !.cleanup = TRUE],
   [Pair({1}) EXCEPT !.plugins = {3}, !.unloads = {1, 3}],
   [Single({}) EXCEPT !.callers = {"a", "b"}, !.cleanup = TRUE],
   [Pair({1}) EXCEPT !.plugins = {2}],
   [Single({3}) EXCEPT !.manual = {3}, !.callers = {"a", "b"}],
   [Single({}) EXCEPT !.plugins = {3}, !.unloads = {3}, !.cleanup = TRUE]}

\* An extension that main() registers with the manager and that depends on one
\* of the registry.
ManualPrograms ==
  {[Plain({2}, [NoDeps EXCEPT ![1] = {2}], NoDeps) EXCEPT !.manual = {1}]}

Programs ==
  GraphPrograms \cup SelfPrograms \cup ConcurrentPrograms \cup ManualPrograms
===============================================================================
