---------------------------- MODULE MCLoadCache ----------------------------
(***************************************************************************)
(* Load graphs of three modules, each loading at most two modules.         *)
(***************************************************************************)
EXTENDS LoadCache, TLC

CONSTANTS m1, m2, m3

\* The order in which a module loads two others matters; self-loads are allowed.
Loads == {<<>>} \cup {<<m>> : m \in Module} \cup {s \in Module \X Module : s[1] # s[2]}
AllGraphs == [Module -> Loads]

Symmetric == Permutations(Module \ Broken) \cup Permutations(Thread)

\* For liveness, with three threads: a graph without cycles in which every module
\* can be reached from two others, one in which a module loads another twice and a
\* third loads itself, and one with a cycle of two modules.
SomeGraphs ==
  {(m1 :> <<m2>>) @@ (m2 :> <<>>) @@ (m3 :> <<m2, m1>>),
   (m1 :> <<m2, m2>>) @@ (m2 :> <<>>) @@ (m3 :> <<m3>>),
   (m1 :> <<m2>>) @@ (m2 :> <<m1>>) @@ (m3 :> <<>>)}

\* The graph on which two threads can be made to wait for each other.
TwoCycle == {(m1 :> <<m2>>) @@ (m2 :> <<m1>>) @@ (m3 :> <<>>)}
\* The acyclic graph on which a thread can be told that it met a cycle.
Diamond == {(m1 :> <<m2>>) @@ (m2 :> <<>>) @@ (m3 :> <<m2, m1>>)}
=============================================================================
