------------------------------ MODULE LoadOnce ------------------------------
(***************************************************************************)
(* What a loader promises to the program that calls it, without threads of *)
(* execution, locks or waiting: each module is executed at most once, its  *)
(* loads take effect in program order and the first that fails decides its *)
(* outcome, and every caller of a module sees that one outcome.            *)
(***************************************************************************)
EXTENDS Integers, Sequences

CONSTANTS Thread, Module, Graphs, Broken

VARIABLES
  deps,    \* the load graph
  root,    \* the module that each top-level call loads
  status,  \* of each module: "absent", "loading" or "ready"
  result,  \* the outcome of the modules that are ready
  answer   \* what each top-level call returned

vars == <<deps, root, status, result, answer>>

Init ==
  /\ deps \in Graphs
  /\ root \in [Thread -> Module]
  /\ status = [m \in Module |-> "absent"]
  /\ result = [m \in Module |-> "unset"]
  /\ answer = [t \in Thread |-> "unset"]

Loaded(m, r) == status[m] = "ready" /\ result[m] = r

\* The first n loads of m have succeeded.
LoadedUpTo(m, n) == \A i \in 1..n : Loaded(deps[m][i], "ok")

\* The outcomes that executing m may have.  A load that closes a cycle of waiting
\* threads is refused; that its module is being loaded, or was, is all that is known.
Justified(m, r) ==
  \/ r = "ok" /\ m \notin Broken /\ LoadedUpTo(m, Len(deps[m]))
  \/ r = "failed" /\ m \in Broken /\ LoadedUpTo(m, Len(deps[m]))
  \/ \E i \in 1..Len(deps[m]) :
       /\ LoadedUpTo(m, i - 1)
       /\ \/ r = "failed" /\ Loaded(deps[m][i], "failed")
          \/ r = "cycle" /\ status[deps[m][i]] # "absent"

\* A module is executed on behalf of a call, or of the next load of a module.
Start(m) ==
  /\ status[m] = "absent"
  /\ \/ \E t \in Thread : root[t] = m
     \/ \E c \in Module : \E i \in 1..Len(deps[c]) :
          status[c] = "loading" /\ LoadedUpTo(c, i - 1) /\ deps[c][i] = m
  /\ status' = [status EXCEPT ![m] = "loading"]
  /\ UNCHANGED <<deps, root, result, answer>>

Finish(m, r) ==
  /\ status[m] = "loading"
  /\ Justified(m, r)
  /\ status' = [status EXCEPT ![m] = "ready"]
  /\ result' = [result EXCEPT ![m] = r]
  /\ UNCHANGED <<deps, root, answer>>

Reply(t) ==
  /\ answer[t] = "unset"
  /\ status[root[t]] = "ready"
  /\ answer' = [answer EXCEPT ![t] = result[root[t]]]
  /\ UNCHANGED <<deps, root, status, result>>

Next ==
  \/ \E m \in Module : Start(m)
  \/ \E m \in Module, r \in {"ok", "cycle", "failed"} : Finish(m, r)
  \/ \E t \in Thread : Reply(t)

Spec == Init /\ [][Next]_vars
=============================================================================
