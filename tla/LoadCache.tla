------------------------------ MODULE LoadCache ------------------------------
(***************************************************************************)
(* example_test.go: the concurrent, duplicate-suppressing cache that       *)
(* serves Thread.Load, with its online detection of load cycles.           *)
(*                                                                         *)
(* A thread is one top-level call of Load with the goroutine it runs on    *)
(* and its cycleChecker; an entry of the cache is named by its module.     *)
(* Each atomic operation of the code (the critical section of get, every   *)
(* LoadPointer and StorePointer, close, the receive from ready) is one     *)
(* step, so all interleavings of get, cycleCheck and doLoad are here.      *)
(* A module is executed by at most one doLoad, so the goroutine's stack of *)
(* nested doLoads is kept as top[t] and the chain of caller[m].            *)
(***************************************************************************)
EXTENDS Integers, Sequences

CONSTANTS
  Thread,    \* the top-level calls of Load
  Module,    \* the module names
  Graphs,    \* the load graphs tried: Module -> Seq(Module), loads in program order
  Broken,    \* the modules whose execution fails, after their loads
  None       \* a nil pointer

ASSUME LoadCacheAssumption ==
  /\ Graphs \subseteq [Module -> Seq(Module)]
  /\ Broken \subseteq Module
  /\ None \notin Thread \cup Module

VARIABLES
  deps,      \* the load graph; never changes
  cache,     \* the modules that have an entry
  owner,     \* entry.owner
  waitsFor,  \* cycleChecker.waitsFor
  result,    \* entry.globals and entry.err: "unset", "ok", "cycle" or "failed"
  ready,     \* the entries whose ready channel is closed
  pc,        \* where each thread is
  want,      \* the argument of the get the thread is in
  cursor,    \* e in cycleCheck
  other,     \* cc in cycleCheck
  top,       \* the module the thread is executing, innermost doLoad
  caller,    \* while m is executed: the module whose execution loads it, if any
  stmt,      \* how many of a module's load statements have succeeded
  loader,    \* history: the thread whose get created the entry
  root,      \* the argument of the top-level call; never changes
  answer     \* what the top-level call returned

entryVars  == <<cache, owner, result, ready>>
checkVars  == <<waitsFor, cursor, other>>
threadVars == <<pc, want, top, caller, stmt, loader, answer>>
input      == <<deps, root>>
vars == <<input, entryVars, checkVars, threadVars>>

Outcome == {"ok", "cycle", "failed"}

Init ==
  /\ deps \in Graphs
  /\ cache = {} /\ ready = {}
  /\ owner = [m \in Module |-> None]
  /\ result = [m \in Module |-> "unset"]
  /\ waitsFor = [t \in Thread |-> None]
  /\ pc = [t \in Thread |-> "get"]
  /\ root \in [Thread -> Module]
  /\ want = root
  /\ loader = [m \in Module |-> None]
  /\ cursor = [t \in Thread |-> None]
  /\ other = [t \in Thread |-> None]
  /\ top = [t \in Thread |-> None]
  /\ caller = [m \in Module |-> None]
  /\ stmt = [m \in Module |-> 0]
  /\ answer = [t \in Thread |-> "unset"]

At(t, label) == pc[t] = label
Goto(t, label) == pc' = [pc EXCEPT ![t] = label]

\* The reads on which the operations decide, each after a mutant of it.
NeverFound(m) == FALSE
HasEntry(m) == m \in cache            \* c.cache[m] != nil, under the lock
NotWaited(m) == TRUE
IsReady(m) == m \in ready             \* the receive from m's channel does not block
ErrorDropped(m) == "ok"
EntryResult(m) == result[m]           \* e.globals, e.err
NeverMe(t, o) == FALSE
IsMe(t, o) == o = t                   \* cc == me
WaitsForOf(o) == waitsFor[o]          \* (*entry) LoadPointer(&cc.waitsFor)
ErrorIgnored(r) == FALSE
IsError(r) == r # "ok"                \* err != nil
EdgeKept(m) == owner[m]
NoOwner(m) == None                    \* what e.setOwner stores after doLoad
NoWait(t) == None                     \* what cc.setWaitsFor stores after the receive

\* The critical section of get: find the entry, or create it.
Get(t) ==
  /\ At(t, "get")
  /\ \/ /\ HasEntry(want[t])
        /\ cursor' = [cursor EXCEPT ![t] = want[t]]
        /\ Goto(t, "owner")
        /\ UNCHANGED <<cache, loader>>
     \/ /\ ~HasEntry(want[t])
        /\ cache' = cache \cup {want[t]}
        /\ loader' = [loader EXCEPT ![want[t]] = t]
        /\ Goto(t, "own")
        /\ UNCHANGED cursor
  /\ UNCHANGED <<input, owner, result, ready, waitsFor, other, want, top, caller, stmt, answer>>

\* Mutant of SetOwner: the entry is published before its module has run.
SetOwnerPublishes(t) ==
  /\ At(t, "own")
  /\ owner' = [owner EXCEPT ![want[t]] = t]
  /\ ready' = ready \cup {want[t]}
  /\ caller' = [caller EXCEPT ![want[t]] = top[t]]
  /\ top' = [top EXCEPT ![t] = want[t]]
  /\ Goto(t, "exec")
  /\ UNCHANGED <<input, cache, result, checkVars, want, stmt, loader, answer>>

\* Mutant of SetOwner: the owner is never set.
SetOwnerMissing(t) ==
  /\ At(t, "own")
  /\ caller' = [caller EXCEPT ![want[t]] = top[t]]
  /\ top' = [top EXCEPT ![t] = want[t]]
  /\ Goto(t, "exec")
  /\ UNCHANGED <<input, entryVars, checkVars, want, stmt, loader, answer>>

\* e.setOwner(cc), and the call of doLoad.
SetOwner(t) ==
  /\ At(t, "own")
  /\ owner' = [owner EXCEPT ![want[t]] = t]
  /\ caller' = [caller EXCEPT ![want[t]] = top[t]]
  /\ top' = [top EXCEPT ![t] = want[t]]
  /\ Goto(t, "exec")
  /\ UNCHANGED <<input, cache, result, ready, checkVars, want, stmt, loader, answer>>

\* ExecFile: the next load statement calls get.
ExecLoad(t) ==
  /\ At(t, "exec")
  /\ stmt[top[t]] < Len(deps[top[t]])
  /\ want' = [want EXCEPT ![t] = deps[top[t]][stmt[top[t]] + 1]]
  /\ Goto(t, "get")
  /\ UNCHANGED <<input, entryVars, checkVars, top, caller, stmt, loader, answer>>

\* ExecFile: the last statement has run, or a statement after the loads fails.
ExecEnd(t) ==
  /\ At(t, "exec")
  /\ stmt[top[t]] = Len(deps[top[t]])
  /\ result' = [result EXCEPT ![top[t]] = IF top[t] \in Broken THEN "failed" ELSE "ok"]
  /\ Goto(t, "disown")
  /\ UNCHANGED <<input, cache, owner, ready, checkVars, want, top, caller, stmt, loader, answer>>

\* e.setOwner(nil).
ClearOwner(t) ==
  /\ At(t, "disown")
  /\ owner' = [owner EXCEPT ![top[t]] = NoOwner(top[t])]
  /\ Goto(t, "close")
  /\ UNCHANGED <<input, cache, result, ready, checkVars, want, top, caller, stmt, loader, answer>>

\* A get called from the execution of m (None: the top-level call) returns r: the
\* execution goes on with its next statement, or fails and sets the entry of m.
Return(t, m, r) ==
  \/ /\ m = None
     /\ answer' = [answer EXCEPT ![t] = r]
     /\ Goto(t, "done")
     /\ UNCHANGED <<result, stmt>>
  \/ /\ m # None /\ ~IsError(r)
     /\ stmt' = [stmt EXCEPT ![m] = @ + 1]
     /\ Goto(t, "exec")
     /\ UNCHANGED <<result, answer>>
  \/ /\ m # None /\ IsError(r)
     /\ result' = [result EXCEPT ![m] = r]
     /\ Goto(t, "disown")
     /\ UNCHANGED <<stmt, answer>>

\* close(e.ready).
Close(t) ==
  /\ At(t, "close")
  /\ ready' = ready \cup {top[t]}
  /\ Goto(t, "return")
  /\ UNCHANGED <<input, cache, owner, result, checkVars, want, top, caller, stmt, loader, answer>>

\* The return from the get that created the entry.
Pop(t) ==
  LET m == top[t]
  IN  /\ At(t, "return")
      /\ top' = [top EXCEPT ![t] = caller[m]]
      /\ caller' = [caller EXCEPT ![m] = None]
      /\ Return(t, caller[m], EntryResult(m))
      /\ UNCHANGED <<input, cache, owner, ready, checkVars, want, loader>>

\* cycleCheck: cc := e.owner.
LoadOwner(t) ==
  /\ At(t, "owner")
  /\ other' = [other EXCEPT ![t] = owner[cursor[t]]]
  /\ \/ /\ owner[cursor[t]] = None
        /\ Goto(t, "setWaitsFor")
        /\ UNCHANGED <<result, stmt, answer>>
     \/ /\ owner[cursor[t]] # None /\ IsMe(t, owner[cursor[t]])
        /\ Return(t, top[t], "cycle")
     \/ /\ owner[cursor[t]] # None /\ ~IsMe(t, owner[cursor[t]])
        /\ Goto(t, "waitsFor")
        /\ UNCHANGED <<result, stmt, answer>>
  /\ UNCHANGED <<input, cache, owner, ready, waitsFor, cursor, want, top, caller, loader>>

\* cycleCheck: e = cc.waitsFor.
LoadWaitsFor(t) ==
  /\ At(t, "waitsFor")
  /\ cursor' = [cursor EXCEPT ![t] = WaitsForOf(other[t])]
  /\ Goto(t, IF WaitsForOf(other[t]) = None THEN "setWaitsFor" ELSE "owner")
  /\ UNCHANGED <<input, entryVars, waitsFor, other, want, top, caller, stmt, loader, answer>>

\* cc.setWaitsFor(e).
SetWaitsFor(t) ==
  /\ At(t, "setWaitsFor")
  /\ waitsFor' = [waitsFor EXCEPT ![t] = want[t]]
  /\ Goto(t, "wait")
  /\ UNCHANGED <<input, entryVars, cursor, other, want, top, caller, stmt, loader, answer>>

\* <-e.ready.
Wait(t) ==
  /\ At(t, "wait")
  /\ IsReady(want[t])
  /\ Goto(t, "clearWaitsFor")
  /\ UNCHANGED <<input, entryVars, checkVars, want, top, caller, stmt, loader, answer>>

\* cc.setWaitsFor(nil), and the return of the entry's result.
ClearWaitsFor(t) ==
  /\ At(t, "clearWaitsFor")
  /\ waitsFor' = [waitsFor EXCEPT ![t] = NoWait(t)]
  /\ Return(t, top[t], EntryResult(want[t]))
  /\ UNCHANGED <<input, cache, owner, ready, cursor, other, want, top, caller, loader>>

Step(t) ==
  \/ Get(t) \/ SetOwner(t) \/ ExecLoad(t) \/ ExecEnd(t) \/ ClearOwner(t) \/ Close(t) \/ Pop(t)
  \/ LoadOwner(t) \/ LoadWaitsFor(t) \/ SetWaitsFor(t) \/ Wait(t) \/ ClearWaitsFor(t)

\* Every call has returned; the only state in which nothing is left to do.
Finished == (\A t \in Thread : At(t, "done")) /\ UNCHANGED vars

Next == (\E t \in Thread : Step(t)) \/ Finished

Spec == Init /\ [][Next]_vars

\* The Go scheduler runs every goroutine that is not blocked.
FairSpec == Spec /\ \A t \in Thread : WF_vars(Step(t))

(***************************************************************************)
(* The load graph.                                                         *)
(***************************************************************************)
DepsOf(m) == {deps[m][i] : i \in DOMAIN deps[m]}

\* What loading m loads: the least set with m that is closed under the loads.
Needs(m) ==
  {x \in Module : \A S \in SUBSET Module :
     m \in S /\ (\A y \in S : DepsOf(y) \subseteq S) => x \in S}
Cyclic(x) == \E y \in DepsOf(x) : x \in Needs(y)
Shared(x) == \E t, u \in Thread : t # u /\ x \in Needs(root[t]) \cap Needs(root[u])

(***************************************************************************)
(* Properties.                                                             *)
(***************************************************************************)

\* Every variable has its type; apart, because most steps do not look at the graph.
GraphType == deps \in [Module -> Seq(Module)]
StateType ==
  /\ root \in [Thread -> Module]
  /\ cache \in SUBSET Module /\ ready \in SUBSET Module
  /\ owner \in [Module -> Thread \cup {None}]
  /\ waitsFor \in [Thread -> Module \cup {None}]
  /\ result \in [Module -> Outcome \cup {"unset"}]
  /\ pc \in [Thread -> {"get", "own", "exec", "disown", "close", "return", "owner",
                        "waitsFor", "setWaitsFor", "wait", "clearWaitsFor", "done"}]
  /\ want \in [Thread -> Module]
  /\ cursor \in [Thread -> Module \cup {None}]
  /\ other \in [Thread -> Thread \cup {None}]
  /\ top \in [Thread -> Module \cup {None}]
  /\ caller \in [Module -> Module \cup {None}]
  /\ stmt \in [Module -> Nat]
  /\ loader \in [Module -> Thread \cup {None}]
  /\ answer \in [Thread -> Outcome \cup {"unset"}]
TypeOK == GraphType /\ StateType

\* Duplicate suppression: the file of a module is being executed by one thread at
\* most, and a module whose entry is ready is never executed again (the critical
\* section of get).
Executing(t) == At(t, "exec") \/ At(t, "disown") \/ At(t, "close")
DuplicateSuppression ==
  \A t \in Thread : Executing(t) =>
    /\ top[t] \in cache \ ready
    /\ \A u \in Thread \ {t} : top[u] # top[t]

\* A thread that is past the receive reads an entry that is complete and that no
\* one writes any more: e.globals and e.err are written before close (get).
ReadsComplete ==
  \A t \in Thread : At(t, "clearWaitsFor") =>
    /\ want[t] \in ready /\ result[want[t]] # "unset"
    /\ \A u \in Thread : Executing(u) => top[u] # want[t]

\* What has been published never changes.
PublishedIsFinal ==
  [][\A m \in ready : m \in ready' /\ result'[m] = result[m]]_vars

\* A call that succeeds has loaded a graph without cycles and without a module that
\* fails; one that fails for another reason than a cycle has met such a module.
AnswerSound ==
  \A t \in Thread :
    /\ answer[t] = "ok" => \A x \in Needs(root[t]) : ~Cyclic(x) /\ x \notin Broken
    /\ answer[t] = "failed" => Needs(root[t]) \cap Broken # {}

\* m is being readied: its owner is about to call doLoad, in it, or just out of it.
Readied(m) ==
  /\ m \in cache \ ready
  /\ \A t \in Thread : ~(At(t, "own") /\ want[t] = m) /\ ~(At(t, "close") /\ top[t] = m)

\* The graph that cycleCheck walks is the one its comment describes: an entry has an
\* owner edge while, and only while, it is being readied, to the thread that does it,
\* and a thread a waits-for edge while, and only while, it waits, to the entry.
EdgesMatchThreads ==
  /\ \A t \in Thread : waitsFor[t] # None <=> At(t, "wait") \/ At(t, "clearWaitsFor")
  /\ \A t \in Thread : waitsFor[t] # None => waitsFor[t] = want[t]
  /\ \A m \in Module : owner[m] # None <=> Readied(m)
  /\ \A m \in Module : owner[m] # None => owner[m] = loader[m]

\* What the comment on cycleCheck says of its error: the load graph is cyclic.
CycleMeansCyclic ==
  \A t \in Thread : answer[t] = "cycle" => \E x \in Needs(root[t]) : Cyclic(x)

\* It does when no other thread loads what this one loads.
CycleMeansCyclicAlone ==
  \A t \in Thread :
    answer[t] = "cycle" /\ (\A x \in Needs(root[t]) : ~Shared(x))
    => \E x \in Needs(root[t]) : Cyclic(x)

\* What the comment on cache promises: no set of threads waits for each other.
Blocked(t) == At(t, "wait") /\ want[t] \notin ready
NoWaitCycle ==
  ~ \E S \in SUBSET Thread :
      S # {} /\ \A t \in S : Blocked(t) /\ owner[want[t]] \in S

\* Every call returns, provided that a load cycle is within reach of one thread only
\* (two threads that enter a cycle at different modules may deadlock, see NoWaitCycle).
Returns ==
  (\A x \in Module : Cyclic(x) => ~Shared(x)) => <>(\A t \in Thread : At(t, "done"))

\* The cache implements the loader that executes each module once: a module is being
\* loaded from the creation of its entry until its ready channel is closed.
Status ==
  [m \in Module |-> IF m \in ready THEN "ready" ELSE IF m \in cache THEN "loading" ELSE "absent"]
Published == [m \in Module |-> IF m \in ready THEN result[m] ELSE "unset"]
Once == INSTANCE LoadOnce WITH status <- Status, result <- Published

ImplementsLoadOnce == Once!Spec

(***************************************************************************)
(* The inductive invariant on which the proofs of LoadCacheProofs rest.    *)
(***************************************************************************)

\* The states of a thread that is inside a get.
InGet(t) == pc[t] \in {"get", "own", "owner", "waitsFor", "setWaitsFor", "wait", "clearWaitsFor"}

\* m is being executed and stands at a load statement that has not returned.
Suspended(m) == m \in cache \ ready /\ result[m] = "unset" /\ stmt[m] < Len(deps[m])
NextLoad(m)  == deps[m][stmt[m] + 1]

\* The innermost execution of a thread, and what the thread is doing in it.
Innermost(t) ==
  /\ pc[t] = "done" => top[t] = None
  /\ pc[t] \in {"exec", "disown", "close", "return"} => top[t] # None
  /\ top[t] # None => loader[top[t]] = t /\ top[t] \in cache
  /\ top[t] # None => (top[t] \in ready <=> pc[t] = "return")
  /\ top[t] # None /\ caller[top[t]] = None => top[t] = root[t]
  /\ pc[t] = "exec" => result[top[t]] = "unset"
  /\ pc[t] \in {"disown", "close", "return"} => result[top[t]] # "unset"
  /\ pc[t] \in {"close", "return"} => owner[top[t]] = None
  /\ InGet(t) /\ top[t] # None => Suspended(top[t]) /\ want[t] = NextLoad(top[t])
  /\ InGet(t) /\ top[t] = None => want[t] = root[t]
TopFrame == \A t \in Thread : Innermost(t)

\* The executions below it: each stands at the load of the one above.
LowerFrame(m) ==
  /\ m \in cache
  /\ loader[m] \in Thread
  /\ loader[caller[m]] = loader[m]
  /\ top[loader[m]] # caller[m]
  /\ Suspended(caller[m]) /\ m = NextLoad(caller[m])
  /\ caller[caller[m]] = None => caller[m] = root[loader[m]]
LowerFrames == \A m \in Module : caller[m] # None => LowerFrame(m)

\* An entry before its execution starts, and what get knows of the one it found.
NewEntry ==
  \A t \in Thread :
    /\ pc[t] = "own" =>
         /\ want[t] \in cache \ ready /\ loader[want[t]] = t
         /\ result[want[t]] = "unset" /\ caller[want[t]] = None
         /\ want[t] # top[t] /\ \A m \in Module : caller[m] # want[t]
    /\ pc[t] \in {"owner", "waitsFor", "setWaitsFor", "wait", "clearWaitsFor"} => want[t] \in cache
    /\ pc[t] = "clearWaitsFor" => want[t] \in ready
    /\ pc[t] = "owner" => cursor[t] # None
    /\ pc[t] = "waitsFor" => other[t] # None

\* A thread that executes nothing yet has created no entry but the one it is about to
\* execute; so cycleCheck cannot meet a thread that executes nothing.
Unstarted ==
  \A t \in Thread, m \in Module :
    top[t] = None /\ pc[t] # "done" /\ loader[m] = t => pc[t] = "own" /\ m = want[t]

\* What is known of a module, executed or not.
Known(m) ==
  /\ m \notin cache => loader[m] = None /\ result[m] = "unset" /\ caller[m] = None
  /\ m \in ready => m \in cache /\ result[m] # "unset"
  /\ stmt[m] <= Len(deps[m])
  /\ \A i \in 1..stmt[m] : deps[m][i] \in ready /\ result[deps[m][i]] = "ok"
Progress == \A m \in Module : Known(m)

\* Why a module ended as it did.
Reason(m) ==
  /\ result[m] = "ok" => stmt[m] = Len(deps[m]) /\ m \notin Broken
  /\ result[m] = "failed" =>
       \/ stmt[m] = Len(deps[m]) /\ m \in Broken
       \/ stmt[m] < Len(deps[m]) /\ NextLoad(m) \in ready /\ result[NextLoad(m)] = "failed"
  /\ result[m] = "cycle" => stmt[m] < Len(deps[m]) /\ NextLoad(m) \in cache
Justified == \A m \in Module : Reason(m)

\* A thread has no answer before its call has returned.
Unanswered == \A t \in Thread : pc[t] # "done" => answer[t] = "unset"

IInv ==
  /\ TopFrame /\ LowerFrames /\ NewEntry /\ Unstarted
  /\ Progress /\ Justified /\ EdgesMatchThreads /\ Unanswered

(***************************************************************************)
(* What the answers rest on, besides: AnswerInv of LoadCacheProofs.       *)
(***************************************************************************)

\* Modules succeed one after another: of any of them, one loads none of the others.
Succeeded == {m \in ready : result[m] = "ok"}
InTurn == \A S \in SUBSET Succeeded : S # {} => \E x \in S : DepsOf(x) \cap S = {}

\* A failure is that of a broken module below, and an answer is the root's result.
FailureMet == \A m \in Module : result[m] = "failed" => Needs(m) \cap Broken # {}
Answered ==
  \A t \in Thread : answer[t] \in {"ok", "failed"} => root[t] \in ready /\ result[root[t]] = answer[t]

\* A thread keeps to what its root needs.
Within ==
  /\ \A t \in Thread : want[t] \in Needs(root[t])
  /\ \A m \in cache : loader[m] \in Thread /\ m \in Needs(root[loader[m]])

\* The module that a thread executes is reached, going up from any that it owns.
Upward(S) == \A y \in Module : caller[y] \in S => y \in S
Stacked ==
  \A t \in Thread, m \in Module : owner[m] = t =>
    \A S \in SUBSET Module : m \in S /\ Upward(S) => top[t] \in S

\* A thread that shares no module meets nobody but itself, on a cycle of the graph.
Alone(t) == \A x \in Needs(root[t]) : ~Shared(x)
MeetsNobody ==
  \A t \in Thread : Alone(t) => pc[t] # "waitsFor" /\ (pc[t] = "owner" => cursor[t] = want[t])
CycleMet ==
  \A t \in Thread :
    Alone(t) /\ (answer[t] = "cycle" \/ \E m \in cache : loader[m] = t /\ result[m] = "cycle")
    => \E x \in Needs(root[t]) : Cyclic(x)

AnswerInv ==
  /\ IInv
  /\ InTurn /\ FailureMet /\ Answered
  /\ Within /\ Stacked /\ MeetsNobody /\ CycleMet
=============================================================================
