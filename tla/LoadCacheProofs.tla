--------------------------- MODULE LoadCacheProofs ---------------------------
(***************************************************************************)
(* Proofs about LoadCache, for every number of threads and modules and     *)
(* every load graph.  TypeOK /\ IInv is inductive; the safety properties   *)
(* of the cache follow from it, and what it answers: a success is that of  *)
(* a graph without cycles, a failure has a cause, and a thread that shares *)
(* nothing is told of real cycles only.                                    *)
(***************************************************************************)
EXTENDS LoadCache, TLAPS

(***************************************************************************)
(* The load graph and the types.                                           *)
(***************************************************************************)

\* The load graph and the roots are inputs: no step changes them.
LEMMA InputFixed == [Next]_vars => UNCHANGED input
<1> SUFFICES ASSUME [Next]_vars PROVE UNCHANGED input
  OBVIOUS
<1>1. ASSUME NEW t \in Thread, Step(t) PROVE UNCHANGED input
  BY <1>1 DEF Step, input, Get, SetOwner, ExecLoad, ExecEnd, ClearOwner, Close, Pop,
              LoadOwner, LoadWaitsFor, SetWaitsFor, Wait, ClearWaitsFor
<1> QED
  BY <1>1 DEF Next, Finished, vars, input

\* What the steps need to know of the load graph, which they never change.
LEMMA GraphFacts ==
  ASSUME GraphType
  PROVE  \A m \in Module :
           Len(deps[m]) \in Nat /\ \A i \in 1..Len(deps[m]) : deps[m][i] \in Module
  BY DEF GraphType

\* A return to the execution below keeps the types.
LEMMA ReturnType ==
  ASSUME StateType, NEW t \in Thread, NEW m \in Module \cup {None},
         NEW r \in Outcome \cup {"unset"}, Return(t, m, r)
  PROVE  /\ result' \in [Module -> Outcome \cup {"unset"}]
         /\ stmt' \in [Module -> Nat]
         /\ answer' \in [Thread -> Outcome \cup {"unset"}]
         /\ pc' \in [Thread -> {"get", "own", "exec", "disown", "close", "return", "owner",
                                "waitsFor", "setWaitsFor", "wait", "clearWaitsFor", "done"}]
  BY DEF StateType, Return, IsError, Goto

\* Every step keeps the types; that a pointer the step follows is not nil is in IInv.
LEMMA TypeStep == TypeOK /\ IInv /\ [Next]_vars => TypeOK'
<1> SUFFICES ASSUME TypeOK, IInv, [Next]_vars PROVE TypeOK'
  OBVIOUS
<1>a. GraphType'
  BY InputFixed DEF TypeOK, GraphType, input
<1>b. StateType
  BY DEF TypeOK
<1>c. \A m \in Module :
        Len(deps[m]) \in Nat /\ \A i \in 1..Len(deps[m]) : deps[m][i] \in Module
  BY GraphFacts DEF TypeOK
<1>d. \A t \in Thread : Innermost(t)
  BY DEF IInv, TopFrame
<1>e. CASE UNCHANGED vars
  BY <1>a, <1>b, <1>e DEF vars, TypeOK, StateType, input, entryVars, checkVars, threadVars
<1> USE <1>b DEF StateType, Goto, At, input, entryVars, checkVars, threadVars
<1>1. ASSUME NEW t \in Thread, Get(t) PROVE StateType'
  BY <1>1 DEF Get, HasEntry
<1>2. ASSUME NEW t \in Thread, SetOwner(t) PROVE StateType'
  BY <1>2 DEF SetOwner
<1>3. ASSUME NEW t \in Thread, ExecLoad(t) PROVE StateType'
  <2>1. top[t] \in Module
    BY <1>3, <1>d DEF ExecLoad, Innermost
  <2>2. stmt[top[t]] \in Nat /\ stmt[top[t]] < Len(deps[top[t]])
    BY <1>3, <2>1 DEF ExecLoad
  <2>3. deps[top[t]][stmt[top[t]] + 1] \in Module
    BY ONLY <1>c, <2>1, <2>2
  <2> QED
    BY <1>3, <2>3 DEF ExecLoad
<1>4. ASSUME NEW t \in Thread, ExecEnd(t) PROVE StateType'
  BY <1>4 DEF ExecEnd, Outcome
<1>5. ASSUME NEW t \in Thread, ClearOwner(t) PROVE StateType'
  BY <1>5 DEF ClearOwner, NoOwner
<1>6. ASSUME NEW t \in Thread, Close(t) PROVE StateType'
  BY <1>6, <1>d DEF Close, Innermost
<1>7. ASSUME NEW t \in Thread, Pop(t) PROVE StateType'
  <2>1. top[t] \in Module
    BY <1>7, <1>d DEF Pop, Innermost
  <2> QED
    BY <1>7, <2>1, ReturnType DEF Pop, EntryResult
<1>8. ASSUME NEW t \in Thread, LoadOwner(t) PROVE StateType'
  <2>1. cursor[t] \in Module
    BY <1>8 DEF LoadOwner, IInv, NewEntry
  <2> QED
    BY <1>8, <2>1, ReturnType DEF LoadOwner, IsMe, Outcome
<1>9. ASSUME NEW t \in Thread, LoadWaitsFor(t) PROVE StateType'
  <2>1. other[t] \in Thread
    BY <1>9 DEF LoadWaitsFor, IInv, NewEntry
  <2> QED
    BY <1>9, <2>1 DEF LoadWaitsFor, WaitsForOf
<1>10. ASSUME NEW t \in Thread, SetWaitsFor(t) PROVE StateType'
  BY <1>10 DEF SetWaitsFor
<1>11. ASSUME NEW t \in Thread, Wait(t) PROVE StateType'
  BY <1>11 DEF Wait
<1>12. ASSUME NEW t \in Thread, ClearWaitsFor(t) PROVE StateType'
  BY <1>12, ReturnType DEF ClearWaitsFor, EntryResult, NoWait
<1> QED
  BY <1>a, <1>1, <1>2, <1>3, <1>4, <1>5, <1>6, <1>7, <1>8, <1>9, <1>10, <1>11, <1>12, <1>e
  DEF Next, Step, Finished, TypeOK

(***************************************************************************)
(* The inductive invariant, one lemma per action.                          *)
(***************************************************************************)

\* Entering get keeps the invariant: an entry that is created is new to every frame.
LEMMA GetKeeps ==
  ASSUME StateType, StateType', GraphType, IInv, NEW t \in Thread, Get(t)
  PROVE  IInv'
<1>0. /\ TopFrame /\ LowerFrames /\ NewEntry /\ Unstarted
      /\ Progress /\ Justified /\ EdgesMatchThreads /\ Unanswered
  BY DEF IInv
<1>n. None \notin Thread \cup Module
  BY LoadCacheAssumption
<1>g. \A m \in Module :
        Len(deps[m]) \in Nat /\ \A i \in 1..Len(deps[m]) : deps[m][i] \in Module
  BY GraphFacts
<1> USE <1>0, <1>n DEF StateType, Outcome, Goto, At, input, entryVars, checkVars,
    threadVars, Get, HasEntry
<1>1. TopFrame'
  BY DEF TopFrame, Innermost, InGet, Suspended, NextLoad
<1>2. LowerFrames'
  <2> SUFFICES ASSUME NEW m \in Module, caller[m] # None PROVE LowerFrame(m)'
    BY DEF LowerFrames
  <2>1. LowerFrame(m)
    BY DEF LowerFrames
  <2>2. CASE want[t] \in cache
    BY <2>1, <2>2 DEF LowerFrame, Suspended, NextLoad
  <2>3. CASE want[t] \notin cache
    <3>1. m # want[t] /\ caller[m] \in Module /\ caller[m] # want[t]
      BY <2>1, <2>3 DEF LowerFrame, Suspended
    <3>2. loader'[m] = loader[m] /\ loader'[caller[m]] = loader[caller[m]]
      BY <2>3, <3>1
    <3> QED
      BY <2>1, <2>3, <3>1, <3>2 DEF LowerFrame, Suspended, NextLoad
  <2> QED
    BY <2>2, <2>3
<1>3. NewEntry'
  BY <1>g DEF NewEntry, TopFrame, Innermost, LowerFrames, LowerFrame, Progress, Known,
      InGet, Suspended, NextLoad
<1>4. Unstarted'
  BY DEF Unstarted
<1>5. Progress'
  BY DEF Progress, Known
<1>6. Justified'
  BY DEF Justified, Reason, NextLoad
<1>7. EdgesMatchThreads'
  BY DEF EdgesMatchThreads, Readied
<1>8. Unanswered'
  BY DEF Unanswered
<1> QED
  BY <1>1, <1>2, <1>3, <1>4, <1>5, <1>6, <1>7, <1>8 DEF IInv

\* Taking ownership pushes the frame of the new entry on those of the thread.
LEMMA SetOwnerKeeps ==
  ASSUME StateType, StateType', GraphType, IInv, NEW t \in Thread, SetOwner(t)
  PROVE  IInv'
<1>0. /\ TopFrame /\ LowerFrames /\ NewEntry /\ Unstarted
      /\ Progress /\ Justified /\ EdgesMatchThreads /\ Unanswered
  BY DEF IInv
<1>n. None \notin Thread \cup Module
  BY LoadCacheAssumption
<1> USE <1>0, <1>n DEF StateType, Outcome, Goto, At, input, entryVars, checkVars,
    threadVars, SetOwner
<1>1. TopFrame'
  BY DEF TopFrame, Innermost, NewEntry, InGet, Suspended, NextLoad
<1>2. LowerFrames'
  BY DEF LowerFrames, LowerFrame, TopFrame, Innermost, NewEntry, InGet, Suspended, NextLoad
<1>3. NewEntry'
  BY DEF NewEntry, TopFrame, Innermost, InGet, Suspended, NextLoad
<1>4. Unstarted'
  BY DEF Unstarted
<1>5. Progress'
  BY DEF Progress, Known, NewEntry
<1>6. Justified'
  BY DEF Justified, Reason, NextLoad
<1>7. EdgesMatchThreads'
  <2> DEFINE e == want[t]
  <2>1. e \in cache \ ready /\ loader[e] = t /\ e \in Module
    BY DEF NewEntry
  <2>2. \A u \in Thread \ {t} : ~(pc[u] = "own" /\ want[u] = e) /\ ~(pc[u] = "close" /\ top[u] = e)
    BY <2>1 DEF NewEntry, TopFrame, Innermost
  <2>3. Readied(e)' /\ ~Readied(e)
    BY <2>1, <2>2 DEF Readied
  <2>4. \A m \in Module \ {e} : Readied(m)' <=> Readied(m)
    <3>1. \A u \in Thread, m \in Module \ {e} :
            /\ (pc'[u] = "own" /\ want'[u] = m) <=> (pc[u] = "own" /\ want[u] = m)
            /\ (pc'[u] = "close" /\ top'[u] = m) <=> (pc[u] = "close" /\ top[u] = m)
      OBVIOUS
    <3> QED
      BY <3>1 DEF Readied
  <2> QED
    BY <2>1, <2>3, <2>4 DEF EdgesMatchThreads
<1>8. Unanswered'
  BY DEF Unanswered
<1> QED
  BY <1>1, <1>2, <1>3, <1>4, <1>5, <1>6, <1>7, <1>8 DEF IInv

\* A load statement leaves its module suspended at that statement.
LEMMA ExecLoadKeeps ==
  ASSUME StateType, StateType', GraphType, IInv, NEW t \in Thread, ExecLoad(t)
  PROVE  IInv'
<1>0. /\ TopFrame /\ LowerFrames /\ NewEntry /\ Unstarted
      /\ Progress /\ Justified /\ EdgesMatchThreads /\ Unanswered
  BY DEF IInv
<1>n. None \notin Thread \cup Module
  BY LoadCacheAssumption
<1> USE <1>0, <1>n DEF StateType, Outcome, Goto, At, input, entryVars, checkVars,
    threadVars, ExecLoad
<1>1. TopFrame'
  BY DEF TopFrame, Innermost, NewEntry, InGet, Suspended, NextLoad
<1>2. LowerFrames'
  BY DEF LowerFrames, LowerFrame, InGet, Suspended, NextLoad
<1>3. NewEntry'
  BY DEF NewEntry, TopFrame, Innermost, InGet, Suspended, NextLoad
<1>4. Unstarted'
  BY DEF Unstarted, TopFrame, Innermost, InGet, Suspended, NextLoad
<1>5. Progress'
  BY DEF Progress, Known, TopFrame, Innermost, InGet, Suspended, NextLoad
<1>6. Justified'
  BY DEF Justified, Reason, NextLoad
<1>7. EdgesMatchThreads'
  <2>1. \A u \in Thread, m \in Module :
          /\ (pc'[u] = "own" /\ want'[u] = m) <=> (pc[u] = "own" /\ want[u] = m)
          /\ (pc'[u] = "close" /\ top'[u] = m) <=> (pc[u] = "close" /\ top[u] = m)
    OBVIOUS
  <2>2. \A m \in Module : Readied(m)' <=> Readied(m)
    BY <2>1 DEF Readied
  <2>3. waitsFor[t] = None
    BY DEF EdgesMatchThreads
  <2>4. /\ UNCHANGED <<waitsFor, owner, loader>>
        /\ pc[t] = "exec" /\ pc'[t] = "get"
        /\ \A u \in Thread \ {t} : pc'[u] = pc[u] /\ want'[u] = want[u]
    OBVIOUS
  <2> HIDE DEF ExecLoad, Goto
  <2>5. \A u \in Thread :
          /\ waitsFor'[u] # None <=> pc'[u] = "wait" \/ pc'[u] = "clearWaitsFor"
          /\ waitsFor'[u] # None => waitsFor'[u] = want'[u]
    BY <2>3, <2>4 DEF EdgesMatchThreads
  <2>6. \A m \in Module :
          /\ owner'[m] # None <=> Readied(m)'
          /\ owner'[m] # None => owner'[m] = loader'[m]
    BY <2>2, <2>4 DEF EdgesMatchThreads
  <2> QED
    BY <2>5, <2>6 DEF EdgesMatchThreads
<1>8. Unanswered'
  BY DEF Unanswered
<1> QED
  BY <1>1, <1>2, <1>3, <1>4, <1>5, <1>6, <1>7, <1>8 DEF IInv

\* A module that ends has succeeded in all its loads.
LEMMA ExecEndKeeps ==
  ASSUME StateType, StateType', GraphType, IInv, NEW t \in Thread, ExecEnd(t)
  PROVE  IInv'
<1>0. /\ TopFrame /\ LowerFrames /\ NewEntry /\ Unstarted
      /\ Progress /\ Justified /\ EdgesMatchThreads /\ Unanswered
  BY DEF IInv
<1>n. None \notin Thread \cup Module
  BY LoadCacheAssumption
<1> USE <1>0, <1>n DEF StateType, Outcome, Goto, At, input, entryVars, checkVars,
    threadVars, ExecEnd
<1>1. TopFrame'
  BY DEF TopFrame, Innermost, NewEntry, InGet, Suspended, NextLoad
<1>2. LowerFrames'
  BY DEF LowerFrames, LowerFrame, InGet, Suspended, NextLoad
<1>3. NewEntry'
  BY DEF NewEntry, TopFrame, Innermost, InGet, Suspended, NextLoad
<1>4. Unstarted'
  BY DEF Unstarted, TopFrame, Innermost, InGet, Suspended, NextLoad
<1>5. Progress'
  BY DEF Progress, Known, TopFrame, Innermost, InGet, Suspended, NextLoad
<1>6. Justified'
  BY DEF Justified, Reason, NextLoad
<1>7. EdgesMatchThreads'
  <2>1. \A u \in Thread, m \in Module :
          /\ (pc'[u] = "own" /\ want'[u] = m) <=> (pc[u] = "own" /\ want[u] = m)
          /\ (pc'[u] = "close" /\ top'[u] = m) <=> (pc[u] = "close" /\ top[u] = m)
    OBVIOUS
  <2>2. \A m \in Module : Readied(m)' <=> Readied(m)
    BY <2>1 DEF Readied
  <2> QED
    BY <2>2 DEF EdgesMatchThreads
<1>8. Unanswered'
  BY DEF Unanswered
<1> QED
  BY <1>1, <1>2, <1>3, <1>4, <1>5, <1>6, <1>7, <1>8 DEF IInv

\* Giving up ownership precedes the closing of the channel.
LEMMA ClearOwnerKeeps ==
  ASSUME StateType, StateType', GraphType, IInv, NEW t \in Thread, ClearOwner(t)
  PROVE  IInv'
<1>0. /\ TopFrame /\ LowerFrames /\ NewEntry /\ Unstarted
      /\ Progress /\ Justified /\ EdgesMatchThreads /\ Unanswered
  BY DEF IInv
<1>n. None \notin Thread \cup Module
  BY LoadCacheAssumption
<1> USE <1>0, <1>n DEF StateType, Outcome, Goto, At, input, entryVars, checkVars,
    threadVars, ClearOwner, NoOwner
<1>1. TopFrame'
  BY DEF TopFrame, Innermost, InGet, Suspended, NextLoad
<1>2. LowerFrames'
  BY DEF LowerFrames, LowerFrame, InGet, Suspended, NextLoad
<1>3. NewEntry'
  BY DEF NewEntry
<1>4. Unstarted'
  BY DEF Unstarted
<1>5. Progress'
  BY DEF Progress, Known
<1>6. Justified'
  BY DEF Justified, Reason, NextLoad
<1>7. EdgesMatchThreads'
  BY DEF EdgesMatchThreads, Readied
<1>8. Unanswered'
  BY DEF Unanswered
<1> QED
  BY <1>1, <1>2, <1>3, <1>4, <1>5, <1>6, <1>7, <1>8 DEF IInv

\* Closing the channel publishes a result that is set.
LEMMA CloseKeeps ==
  ASSUME StateType, StateType', GraphType, IInv, NEW t \in Thread, Close(t)
  PROVE  IInv'
<1>0. /\ TopFrame /\ LowerFrames /\ NewEntry /\ Unstarted
      /\ Progress /\ Justified /\ EdgesMatchThreads /\ Unanswered
  BY DEF IInv
<1>n. None \notin Thread \cup Module
  BY LoadCacheAssumption
<1> USE <1>0, <1>n DEF StateType, Outcome, Goto, At, input, entryVars, checkVars,
    threadVars, Close
<1>1. TopFrame'
  BY DEF TopFrame, Innermost, InGet, Suspended, NextLoad
<1>2. LowerFrames'
  BY DEF LowerFrames, LowerFrame, TopFrame, Innermost, InGet, Suspended, NextLoad
<1>3. NewEntry'
  BY DEF NewEntry, TopFrame, Innermost, InGet, Suspended, NextLoad
<1>4. Unstarted'
  BY DEF Unstarted
<1>5. Progress'
  BY DEF Progress, Known, TopFrame, Innermost, InGet, Suspended, NextLoad
<1>6. Justified'
  BY DEF Justified, Reason, NextLoad
<1>7. EdgesMatchThreads'
  BY DEF EdgesMatchThreads, Readied, TopFrame, Innermost, InGet, Suspended, NextLoad
<1>8. Unanswered'
  BY DEF Unanswered
<1> QED
  BY <1>1, <1>2, <1>3, <1>4, <1>5, <1>6, <1>7, <1>8 DEF IInv

\* The return of the get that created the entry: c is the execution that called it.
LEMMA PopKeeps ==
  ASSUME StateType, StateType', GraphType, IInv, NEW t \in Thread, Pop(t)
  PROVE  IInv'
<1>0. /\ TopFrame /\ LowerFrames /\ NewEntry /\ Unstarted
      /\ Progress /\ Justified /\ EdgesMatchThreads /\ Unanswered
  BY DEF IInv
<1>n. None \notin Thread \cup Module
  BY LoadCacheAssumption
<1>g. \A m \in Module :
        Len(deps[m]) \in Nat /\ \A i \in 1..Len(deps[m]) : deps[m][i] \in Module
  BY GraphFacts
<1> DEFINE c == caller[top[t]]
<1>t. top[t] \in Module /\ top[t] \in ready /\ result[top[t]] # "unset" /\ loader[top[t]] = t
  BY <1>0, <1>n DEF Pop, At, TopFrame, Innermost, StateType
<1>c. c # None =>
        /\ c \in Module /\ LowerFrame(top[t]) /\ c # top[t]
        /\ Suspended(c) /\ top[t] = NextLoad(c)
  BY <1>0, <1>t DEF LowerFrames, LowerFrame, StateType
<1> USE <1>0, <1>n, <1>t, <1>c DEF StateType, Outcome, Goto, At, input, entryVars,
    checkVars, threadVars, Pop, Return, IsError, EntryResult
<1>1. TopFrame'
  <2> SUFFICES ASSUME NEW u \in Thread PROVE Innermost(u)'
    BY DEF TopFrame
  <2>1. CASE u = t
    <3>1. CASE c = None
      <4>1. pc'[t] = "done" /\ top'[t] = None
        BY <3>1
      <4> QED
        BY ONLY <2>1, <4>1 DEF Innermost, InGet
    <3>2. CASE c # None
      <4>1. top'[t] = c /\ caller'[c] = caller[c] /\ UNCHANGED <<cache, ready, owner, loader, root>>
        BY <3>2
      <4>2. loader[c] = t /\ c \in cache \ ready /\ (caller[c] = None => c = root[t])
        BY <3>2 DEF LowerFrame, Suspended
      <4>3. \/ pc'[t] = "exec" /\ result'[c] = "unset"
            \/ pc'[t] = "disown" /\ result'[c] # "unset"
        BY <3>2 DEF Suspended
      <4> QED
        BY ONLY <1>n, <2>1, <3>2, <4>1, <4>2, <4>3 DEF Innermost, InGet
    <3> QED
      BY <3>1, <3>2
  <2>2. CASE u # t
    <3>1. Innermost(u)
      BY DEF TopFrame
    <3>2. pc'[u] = pc[u] /\ top'[u] = top[u]
      BY <2>2
    <3>3. top[u] # None => top[u] \in Module /\ top[u] # top[t] /\ top[u] # c
      BY <2>2, <3>1 DEF Innermost, LowerFrame
    <3>4. top[u] # None => /\ caller'[top[u]] = caller[top[u]]
                           /\ stmt'[top[u]] = stmt[top[u]]
                           /\ result'[top[u]] = result[top[u]]
      BY <3>3
    <3>5. UNCHANGED <<deps, root, cache, ready, owner, want, loader>>
      OBVIOUS
    <3> QED
      BY ONLY <3>1, <3>2, <3>3, <3>4, <3>5 DEF Innermost, InGet, Suspended, NextLoad
  <2> QED
    BY <2>1, <2>2
<1>2. LowerFrames'
  <2> SUFFICES ASSUME NEW m \in Module, caller'[m] # None PROVE LowerFrame(m)'
    BY DEF LowerFrames
  <2>1. m # top[t] /\ caller'[m] = caller[m] /\ LowerFrame(m)
    BY DEF LowerFrames
  <2>2. caller[m] \in Module /\ caller[m] # c /\ caller[m] # top[t]
    BY <2>1 DEF LowerFrame
  <2>3. stmt'[caller[m]] = stmt[caller[m]] /\ result'[caller[m]] = result[caller[m]]
    BY <2>2
  <2> QED
    BY <2>1, <2>2, <2>3 DEF LowerFrame, Suspended, NextLoad
<1>3. NewEntry'
  BY DEF NewEntry
<1>4. Unstarted'
  BY DEF Unstarted
<1>5. Progress'
  <2> SUFFICES ASSUME NEW m \in Module PROVE Known(m)'
    BY DEF Progress
  <2>1. Known(m)
    BY DEF Progress
  <2>2. \A x \in ready : x \in Module /\ result'[x] = result[x]
    BY DEF Suspended
  <2>3. CASE m = c
    <3>1. CASE result[top[t]] = "ok"
      <4>1. /\ m \in Module /\ stmt[m] \in Nat /\ stmt[m] < Len(deps[m]) /\ Len(deps[m]) \in Nat
            /\ stmt'[m] = stmt[m] + 1 /\ result'[m] = result[m]
            /\ deps[m][stmt[m] + 1] = top[t]
        BY <1>g, <2>3, <3>1 DEF Suspended, NextLoad
      <4>2. \A i \in 1..stmt'[m] : deps[m][i] \in ready /\ result[deps[m][i]] = "ok"
        <5>1. \A i \in 1..stmt'[m] : i \in 1..stmt[m] \/ i = stmt[m] + 1
          BY ONLY <4>1
        <5> QED
          BY ONLY <1>t, <2>1, <3>1, <4>1, <5>1 DEF Known
      <4>3. \A i \in 1..stmt'[m] : deps[m][i] \in ready' /\ result'[deps[m][i]] = "ok"
        BY <2>2, <4>2
      <4>4. stmt'[m] <= Len(deps[m])
        BY ONLY <4>1
      <4>5. UNCHANGED <<deps, ready, cache, loader>> /\ m \in cache \ ready
        BY <2>3 DEF Suspended
      <4> QED
        BY <4>3, <4>4, <4>5 DEF Known
    <3>2. CASE result[top[t]] # "ok"
      BY <1>g, <2>1, <2>2, <2>3, <3>2 DEF Known, Suspended
    <3> QED
      BY <3>1, <3>2
  <2>4. CASE m # c
    <3>1. stmt'[m] = stmt[m] /\ result'[m] = result[m]
      BY <2>4
    <3> QED
      BY <1>g, <2>1, <2>2, <3>1 DEF Known
  <2> QED
    BY <2>3, <2>4
<1>6. Justified'
  <2> SUFFICES ASSUME NEW m \in Module PROVE Reason(m)'
    BY DEF Justified
  <2>1. Reason(m)
    BY DEF Justified
  <2>2. CASE m = c
    <3>1. CASE result[top[t]] = "ok"
      BY <2>1, <2>2, <3>1 DEF Reason, Suspended
    <3>2. CASE result[top[t]] # "ok"
      BY <2>1, <2>2, <3>2 DEF Reason, Suspended, NextLoad, LowerFrame
    <3> QED BY <3>1, <3>2
  <2>3. CASE m # c
    <3>1. stmt'[m] = stmt[m] /\ result'[m] = result[m]
      BY <2>3
    <3>2. \A x \in ready : x \in Module /\ result'[x] = result[x]
      BY DEF Suspended
    <3> QED
    BY <2>1, <3>1, <3>2 DEF Reason, NextLoad
  <2> QED
    BY <2>2, <2>3
<1>7. EdgesMatchThreads'
  <2>1. \A u \in Thread, m \in Module :
          /\ (pc'[u] = "own" /\ want'[u] = m) <=> (pc[u] = "own" /\ want[u] = m)
          /\ (pc'[u] = "close" /\ top'[u] = m) <=> (pc[u] = "close" /\ top[u] = m)
    OBVIOUS
  <2>2. \A m \in Module : Readied(m)' <=> Readied(m)
    BY <2>1 DEF Readied
  <2> QED
    BY <2>2 DEF EdgesMatchThreads
<1>8. Unanswered'
  BY DEF Unanswered
<1> QED
  BY <1>1, <1>2, <1>3, <1>4, <1>5, <1>6, <1>7, <1>8 DEF IInv

\* Following an owner edge; a cycle is reported to an execution, never to a call that
\* executes nothing.
LEMMA LoadOwnerKeeps ==
  ASSUME StateType, StateType', GraphType, IInv, NEW t \in Thread, LoadOwner(t)
  PROVE  IInv'
<1>0. /\ TopFrame /\ LowerFrames /\ NewEntry /\ Unstarted
      /\ Progress /\ Justified /\ EdgesMatchThreads /\ Unanswered
  BY DEF IInv
<1>n. None \notin Thread \cup Module
  BY LoadCacheAssumption
<1> USE <1>0, <1>n DEF StateType, Outcome, Goto, At, input, entryVars, checkVars,
    threadVars, LoadOwner, Return, IsError, IsMe
<1>1. TopFrame'
  BY DEF TopFrame, Innermost, InGet, Suspended, NextLoad
<1>2. LowerFrames'
  <2> SUFFICES ASSUME NEW m \in Module, caller[m] # None PROVE LowerFrame(m)'
    BY DEF LowerFrames
  <2>1. LowerFrame(m)
    BY DEF LowerFrames
  <2>2. Innermost(t) /\ InGet(t)
    BY DEF TopFrame, InGet
  <2>3. caller[m] \in Module /\ caller[m] # top[t]
    BY <2>1, <2>2 DEF LowerFrame, Innermost
  <2>4. stmt'[caller[m]] = stmt[caller[m]] /\ result'[caller[m]] = result[caller[m]]
    BY <2>3
  <2>5. UNCHANGED <<deps, root, cache, ready, top, caller, loader>>
    OBVIOUS
  <2> QED
    BY ONLY <2>1, <2>4, <2>5 DEF LowerFrame, Suspended, NextLoad
<1>3. NewEntry'
  BY DEF NewEntry, TopFrame, Innermost, InGet, Suspended, NextLoad
<1>4. Unstarted'
  BY DEF Unstarted
<1>5. Progress'
  BY DEF Progress, Known, TopFrame, Innermost, InGet, Suspended, NextLoad
<1>6. Justified'
  BY DEF Justified, Reason, TopFrame, Innermost, NewEntry, InGet, Suspended, NextLoad
<1>7. EdgesMatchThreads'
  BY DEF EdgesMatchThreads, Readied
<1>8. Unanswered'
  BY DEF Unanswered
<1> QED
  BY <1>1, <1>2, <1>3, <1>4, <1>5, <1>6, <1>7, <1>8 DEF IInv

\* Following a waits-for edge.
LEMMA LoadWaitsForKeeps ==
  ASSUME StateType, StateType', GraphType, IInv, NEW t \in Thread, LoadWaitsFor(t)
  PROVE  IInv'
<1>0. /\ TopFrame /\ LowerFrames /\ NewEntry /\ Unstarted
      /\ Progress /\ Justified /\ EdgesMatchThreads /\ Unanswered
  BY DEF IInv
<1>n. None \notin Thread \cup Module
  BY LoadCacheAssumption
<1> USE <1>0, <1>n DEF StateType, Outcome, Goto, At, input, entryVars, checkVars,
    threadVars, LoadWaitsFor, WaitsForOf
<1>1. TopFrame'
  BY DEF TopFrame, Innermost, InGet, Suspended, NextLoad
<1>2. LowerFrames'
  BY DEF LowerFrames, LowerFrame, InGet, Suspended, NextLoad
<1>3. NewEntry'
  BY DEF NewEntry
<1>4. Unstarted'
  BY DEF Unstarted
<1>5. Progress'
  BY DEF Progress, Known
<1>6. Justified'
  BY DEF Justified, Reason, NextLoad
<1>7. EdgesMatchThreads'
  BY DEF EdgesMatchThreads, Readied
<1>8. Unanswered'
  BY DEF Unanswered
<1> QED
  BY <1>1, <1>2, <1>3, <1>4, <1>5, <1>6, <1>7, <1>8 DEF IInv

\* Adding the waits-for edge.
LEMMA SetWaitsForKeeps ==
  ASSUME StateType, StateType', GraphType, IInv, NEW t \in Thread, SetWaitsFor(t)
  PROVE  IInv'
<1>0. /\ TopFrame /\ LowerFrames /\ NewEntry /\ Unstarted
      /\ Progress /\ Justified /\ EdgesMatchThreads /\ Unanswered
  BY DEF IInv
<1>n. None \notin Thread \cup Module
  BY LoadCacheAssumption
<1> USE <1>0, <1>n DEF StateType, Outcome, Goto, At, input, entryVars, checkVars,
    threadVars, SetWaitsFor
<1>1. TopFrame'
  BY DEF TopFrame, Innermost, InGet, Suspended, NextLoad
<1>2. LowerFrames'
  BY DEF LowerFrames, LowerFrame, InGet, Suspended, NextLoad
<1>3. NewEntry'
  BY DEF NewEntry
<1>4. Unstarted'
  BY DEF Unstarted
<1>5. Progress'
  BY DEF Progress, Known
<1>6. Justified'
  BY DEF Justified, Reason, NextLoad
<1>7. EdgesMatchThreads'
  BY DEF EdgesMatchThreads, Readied
<1>8. Unanswered'
  BY DEF Unanswered
<1> QED
  BY <1>1, <1>2, <1>3, <1>4, <1>5, <1>6, <1>7, <1>8 DEF IInv

\* The receive lets a thread past entries that are ready only.
LEMMA WaitKeeps ==
  ASSUME StateType, StateType', GraphType, IInv, NEW t \in Thread, Wait(t)
  PROVE  IInv'
<1>0. /\ TopFrame /\ LowerFrames /\ NewEntry /\ Unstarted
      /\ Progress /\ Justified /\ EdgesMatchThreads /\ Unanswered
  BY DEF IInv
<1>n. None \notin Thread \cup Module
  BY LoadCacheAssumption
<1> USE <1>0, <1>n DEF StateType, Outcome, Goto, At, input, entryVars, checkVars,
    threadVars, Wait, IsReady
<1>1. TopFrame'
  BY DEF TopFrame, Innermost, InGet, Suspended, NextLoad
<1>2. LowerFrames'
  BY DEF LowerFrames, LowerFrame, InGet, Suspended, NextLoad
<1>3. NewEntry'
  BY DEF NewEntry
<1>4. Unstarted'
  BY DEF Unstarted
<1>5. Progress'
  BY DEF Progress, Known
<1>6. Justified'
  BY DEF Justified, Reason, NextLoad
<1>7. EdgesMatchThreads'
  BY DEF EdgesMatchThreads, Readied
<1>8. Unanswered'
  BY DEF Unanswered
<1> QED
  BY <1>1, <1>2, <1>3, <1>4, <1>5, <1>6, <1>7, <1>8 DEF IInv

\* The return of a get that waited: c is the execution that called it.
LEMMA ClearWaitsForKeeps ==
  ASSUME StateType, StateType', GraphType, IInv, NEW t \in Thread, ClearWaitsFor(t)
  PROVE  IInv'
<1>0. /\ TopFrame /\ LowerFrames /\ NewEntry /\ Unstarted
      /\ Progress /\ Justified /\ EdgesMatchThreads /\ Unanswered
  BY DEF IInv
<1>n. None \notin Thread \cup Module
  BY LoadCacheAssumption
<1>g. \A m \in Module :
        Len(deps[m]) \in Nat /\ \A i \in 1..Len(deps[m]) : deps[m][i] \in Module
  BY GraphFacts
<1> DEFINE c == top[t]
<1>w. want[t] \in ready /\ result[want[t]] # "unset"
  BY <1>0 DEF NewEntry, Progress, Known, ClearWaitsFor, At, StateType
<1>c. c # None => c \in Module /\ loader[c] = t /\ Suspended(c) /\ want[t] = NextLoad(c)
  BY <1>0 DEF TopFrame, Innermost, InGet, StateType, ClearWaitsFor, At
<1> USE <1>0, <1>n, <1>w, <1>c DEF StateType, Outcome, Goto, At, input, entryVars,
    checkVars, threadVars, ClearWaitsFor, Return, IsError, EntryResult, NoWait
<1>1. TopFrame'
  <2> SUFFICES ASSUME NEW u \in Thread PROVE Innermost(u)'
    BY DEF TopFrame
  <2>1. Innermost(u)
    BY DEF TopFrame
  <2>2. CASE u = t
    BY <1>g, <2>1, <2>2 DEF Innermost, InGet, Suspended, NextLoad
  <2>3. CASE u # t
    <3>1. pc'[u] = pc[u]
      BY <2>3
    <3>2. top[u] # None => top[u] \in Module /\ top[u] # c
      BY <2>1, <2>3 DEF Innermost
    <3>3. top[u] # None => stmt'[top[u]] = stmt[top[u]] /\ result'[top[u]] = result[top[u]]
      BY <3>2
    <3> QED
      BY <2>1, <3>1, <3>2, <3>3 DEF Innermost, InGet, Suspended, NextLoad
  <2> QED
    BY <2>2, <2>3
<1>2. LowerFrames'
  <2> SUFFICES ASSUME NEW m \in Module, caller[m] # None PROVE LowerFrame(m)'
    BY DEF LowerFrames
  <2>1. LowerFrame(m)
    BY DEF LowerFrames
  <2>2. caller[m] \in Module /\ caller[m] # c
    BY <2>1 DEF LowerFrame
  <2>3. stmt'[caller[m]] = stmt[caller[m]] /\ result'[caller[m]] = result[caller[m]]
    BY <2>2
  <2> QED
    BY <2>1, <2>2, <2>3 DEF LowerFrame, Suspended, NextLoad
<1>3. NewEntry'
  BY DEF NewEntry, TopFrame, Innermost, InGet, Suspended, NextLoad
<1>4. Unstarted'
  BY DEF Unstarted
<1>5. Progress'
  <2> SUFFICES ASSUME NEW m \in Module PROVE Known(m)'
    BY DEF Progress
  <2>1. Known(m)
    BY DEF Progress
  <2>2. \A x \in ready : x \in Module /\ result'[x] = result[x]
    BY DEF Suspended
  <2>3. UNCHANGED <<deps, cache, ready, caller, loader>>
    OBVIOUS
  <2>4. CASE m = c /\ result[want[t]] = "ok"
    <3>1. /\ stmt[m] \in Nat /\ stmt[m] < Len(deps[m]) /\ Len(deps[m]) \in Nat
          /\ stmt'[m] = stmt[m] + 1 /\ m \in cache \ ready
          /\ deps[m][stmt[m] + 1] = want[t]
      BY <1>g, <2>4 DEF Suspended, NextLoad
    <3>2. \A i \in 1..stmt'[m] : deps[m][i] \in ready /\ result[deps[m][i]] = "ok"
      <4>1. \A i \in 1..stmt'[m] : i \in 1..stmt[m] \/ i = stmt[m] + 1
        BY ONLY <3>1
      <4> QED
        BY ONLY <1>w, <2>1, <2>4, <3>1, <4>1 DEF Known
    <3>3. stmt'[m] <= Len(deps[m])
      BY ONLY <3>1
    <3> QED
      BY ONLY <2>2, <2>3, <3>1, <3>2, <3>3 DEF Known
  <2>5. CASE ~(m = c /\ result[want[t]] = "ok")
    <3>1. stmt'[m] = stmt[m]
      BY <2>5
    <3>2. result'[m] = result[m] \/ (m = c /\ c # None)
      BY <2>5
    <3>3. m = c => m \in cache \ ready
      BY DEF Suspended
    <3> QED
      BY ONLY <2>1, <2>2, <2>3, <3>1, <3>2, <3>3 DEF Known
  <2> QED
    BY <2>4, <2>5
<1>6. Justified'
  <2> SUFFICES ASSUME NEW m \in Module PROVE Reason(m)'
    BY DEF Justified
  <2>1. Reason(m)
    BY DEF Justified
  <2>2. CASE m = c
    <3>1. CASE result[want[t]] = "ok"
      BY <2>1, <2>2, <3>1 DEF Reason, Suspended
    <3>2. CASE result[want[t]] # "ok"
      BY <2>1, <2>2, <3>2 DEF Reason, Suspended, NextLoad, NewEntry
    <3> QED BY <3>1, <3>2
  <2>3. CASE m # c
    <3>1. stmt'[m] = stmt[m] /\ result'[m] = result[m]
      BY <2>3
    <3>2. \A x \in ready : x \in Module /\ result'[x] = result[x]
      BY DEF Suspended
    <3> QED
    BY <2>1, <3>1, <3>2 DEF Reason, NextLoad
  <2> QED
    BY <2>2, <2>3
<1>7. EdgesMatchThreads'
  BY DEF EdgesMatchThreads, Readied
<1>8. Unanswered'
  BY DEF Unanswered
<1> QED
  BY <1>1, <1>2, <1>3, <1>4, <1>5, <1>6, <1>7, <1>8 DEF IInv

\* Every step keeps the invariant.
LEMMA InvStep == TypeOK /\ IInv /\ [Next]_vars => IInv'
<1> SUFFICES ASSUME TypeOK, IInv, [Next]_vars PROVE IInv'
  OBVIOUS
<1>1. GraphType /\ StateType /\ StateType'
  BY TypeStep DEF TypeOK
<1>2. CASE \E t \in Thread : Step(t)
  BY <1>1, <1>2, GetKeeps, SetOwnerKeeps, ExecLoadKeeps, ExecEndKeeps, ClearOwnerKeeps,
     CloseKeeps, PopKeeps, LoadOwnerKeeps, LoadWaitsForKeeps, SetWaitsForKeeps, WaitKeeps,
     ClearWaitsForKeeps
  DEF Step
<1>3. CASE UNCHANGED vars
  BY <1>3 DEF vars, input, entryVars, checkVars, threadVars, IInv, TopFrame, Innermost,
     LowerFrames, LowerFrame, NewEntry, Unstarted, Progress, Known, Justified, Reason,
     EdgesMatchThreads, Readied, Unanswered, InGet, Suspended, NextLoad, At
<1> QED
  BY <1>2, <1>3 DEF Next, Finished

\* Initially every thread is about to call get, and the cache is empty.
LEMMA InvInit == Init => TypeOK /\ IInv
<1> SUFFICES ASSUME Init PROVE TypeOK /\ IInv
  OBVIOUS
<1>1. GraphType
  BY LoadCacheAssumption DEF Init, GraphType
<1>2. StateType
  BY LoadCacheAssumption DEF Init, StateType
<1>3. \A m \in Module : Len(deps[m]) \in Nat
  BY <1>1, GraphFacts
<1>4. None \notin Thread \cup Module
  BY LoadCacheAssumption
<1> QED
  BY <1>1, <1>2, <1>3, <1>4
  DEF TypeOK, StateType, Init, IInv, TopFrame, Innermost, LowerFrames, NewEntry, Unstarted,
      Progress, Known, Justified, Reason, EdgesMatchThreads, Readied, Unanswered, InGet, At

\* The types and the invariant hold in every reachable state of the cache.
THEOREM Invariance == Spec => [](TypeOK /\ IInv)
  BY InvInit, TypeStep, InvStep, PTL DEF Spec

(***************************************************************************)
(* What follows from it.                                                   *)
(***************************************************************************)

\* The variables have their types in every reachable state of the cache.
THEOREM Typing == Spec => []TypeOK
  BY Invariance, PTL

\* No file is executed by two threads at once, and none again once its entry is
\* ready: the critical section of get hands every module to one thread.
THEOREM ExecutedOnce == Spec => []DuplicateSuppression
<1>1. TypeOK /\ IInv => DuplicateSuppression
  <2> SUFFICES ASSUME TypeOK, IInv, NEW t \in Thread, Executing(t)
               PROVE  /\ top[t] \in cache \ ready
                      /\ \A u \in Thread \ {t} : top[u] # top[t]
    BY DEF DuplicateSuppression
  <2>1. None \notin Thread \cup Module
    BY LoadCacheAssumption
  <2>2. \A u \in Thread : Innermost(u)
    BY DEF IInv, TopFrame
  <2> QED
    BY <2>1, <2>2 DEF TypeOK, StateType, Innermost, Executing, At
<1> QED
  BY <1>1, Invariance, PTL

\* After the receive from ready, globals and err are complete and nobody writes them:
\* the reads that end get race with no write.
THEOREM ReadsAfterReady == Spec => []ReadsComplete
<1>1. TypeOK /\ IInv => ReadsComplete
  <2> SUFFICES ASSUME TypeOK, IInv, NEW t \in Thread, At(t, "clearWaitsFor")
               PROVE  /\ want[t] \in ready /\ result[want[t]] # "unset"
                      /\ \A u \in Thread : Executing(u) => top[u] # want[t]
    BY DEF ReadsComplete
  <2>1. want[t] \in ready
    BY DEF IInv, NewEntry, At
  <2>2. result[want[t]] # "unset"
    BY <2>1 DEF IInv, Progress, Known, TypeOK, StateType
  <2>3. \A u \in Thread : Innermost(u)
    BY DEF IInv, TopFrame
  <2> QED
    BY <2>1, <2>2, <2>3 DEF Innermost, Executing, At
<1> QED
  BY <1>1, Invariance, PTL

\* The edges that cycleCheck walks without a lock: a waits-for edge for each thread that
\* waits, an owner edge for each module that is being readied, and no other.
THEOREM Edges == Spec => []EdgesMatchThreads
<1>1. IInv => EdgesMatchThreads
  BY DEF IInv
<1> QED
  BY <1>1, Invariance, PTL

\* The result of an entry never changes once its ready channel is closed.
THEOREM PublishedOnce == Spec => PublishedIsFinal
<1>1. TypeOK /\ IInv /\ [Next]_vars => [\A m \in ready : m \in ready' /\ result'[m] = result[m]]_vars
  <2> SUFFICES ASSUME TypeOK, IInv, NEW t \in Thread, Step(t), NEW m \in ready
               PROVE  m \in ready' /\ result'[m] = result[m]
    BY DEF Next, Finished
  <2>1. StateType /\ m \in Module /\ None \notin Thread \cup Module
    BY LoadCacheAssumption DEF TypeOK, StateType
  <2>2. Innermost(t) /\ (top[t] \in Module /\ caller[top[t]] # None => LowerFrame(top[t]))
    BY DEF IInv, TopFrame, LowerFrames
  <2>3. ASSUME NEW r, Return(t, IF pc[t] = "return" THEN caller[top[t]] ELSE top[t], r),
               pc[t] \in {"return", "owner", "clearWaitsFor"}
        PROVE  result'[m] = result[m]
    BY <2>1, <2>2, <2>3 DEF StateType, Return, Innermost, LowerFrame, Suspended, InGet
  <2> USE DEF At, Goto, input, entryVars, checkVars, threadVars
  <2>4. CASE Pop(t)
    BY <2>3, <2>4 DEF Pop
  <2>5. CASE LoadOwner(t)
    BY <2>3, <2>5 DEF LoadOwner
  <2>6. CASE ClearWaitsFor(t)
    BY <2>3, <2>6 DEF ClearWaitsFor
  <2>7. CASE ExecEnd(t)
    BY <2>1, <2>2, <2>7 DEF ExecEnd, Innermost, StateType
  <2>8. CASE \/ Get(t) \/ SetOwner(t) \/ ExecLoad(t) \/ ClearOwner(t) \/ Close(t)
             \/ LoadWaitsFor(t) \/ SetWaitsFor(t) \/ Wait(t)
    BY <2>8 DEF Get, SetOwner, ExecLoad, ClearOwner, Close, LoadWaitsFor, SetWaitsFor, Wait
  <2> QED
    BY <2>4, <2>5, <2>6, <2>7, <2>8 DEF Step
<1> QED
  BY <1>1, Invariance, PTL DEF Spec, PublishedIsFinal

(***************************************************************************)
(* The concurrent cache implements the loader of LoadOnce: creating an     *)
(* entry starts a module, closing its channel finishes it, the return of a *)
(* top-level call replies, and every other step is invisible.              *)
(***************************************************************************)

\* A step that changes no entry's visibility and answers no call is a stutter.
LEMMA Invisible ==
  ASSUME UNCHANGED <<input, cache, ready, answer>>, \A m \in ready : result'[m] = result[m]
  PROVE  UNCHANGED Once!vars
<1>1. Status' = Status /\ Published' = Published
  BY DEF Status, Published
<1> QED
  BY <1>1 DEF Once!vars, input

\* Creating an entry starts its module, for a call or for the load of a module that
\* is being loaded.
LEMMA GetRefines ==
  ASSUME TypeOK, IInv, NEW t \in Thread, Get(t)
  PROVE  [Once!Next]_(Once!vars)
<1>1. CASE want[t] \in cache
  BY <1>1, Invisible DEF Get, HasEntry, Goto
<1>2. CASE want[t] \notin cache
  <2>1. /\ want[t] \in Module /\ cache' = cache \cup {want[t]} /\ want[t] \notin ready
        /\ UNCHANGED <<deps, root, ready, result, answer>>
    BY <1>2 DEF Get, HasEntry, TypeOK, StateType, IInv, Progress, Known, input
  <2>2. Status[want[t]] = "absent"
    BY <1>2, <2>1 DEF Status
  <2>3. Status' = [Status EXCEPT ![want[t]] = "loading"] /\ Published' = Published
    BY <2>1 DEF Status, Published
  <2>4. \/ root[t] = want[t]
        \/ \E c \in Module : \E i \in 1..Len(deps[c]) :
             Status[c] = "loading" /\ Once!LoadedUpTo(c, i - 1) /\ deps[c][i] = want[t]
    <3>1. CASE top[t] = None
      BY <3>1 DEF IInv, TopFrame, Innermost, InGet, Get, At
    <3>2. CASE top[t] # None
      <4> DEFINE c == top[t]
                 i == stmt[c] + 1
      <4>1. c \in Module /\ Suspended(c) /\ want[t] = NextLoad(c) /\ Known(c)
        BY <3>2 DEF IInv, TopFrame, Innermost, InGet, Get, At, TypeOK, StateType, Progress
      <4>2. stmt[c] \in Nat /\ Len(deps[c]) \in Nat /\ \A j \in 1..Len(deps[c]) : deps[c][j] \in Module
        BY <4>1, GraphFacts DEF TypeOK, StateType
      <4>3. i \in 1..Len(deps[c]) /\ i - 1 = stmt[c] /\ deps[c][i] = want[t]
        BY <4>1, <4>2 DEF Suspended, NextLoad
      <4>4. Status[c] = "loading"
        BY <4>1 DEF Status, Suspended
      <4>5. ASSUME NEW j \in 1..stmt[c] PROVE Once!Loaded(deps[c][j], "ok")
        <5>1. j \in 1..Len(deps[c]) /\ deps[c][j] \in ready /\ result[deps[c][j]] = "ok"
          BY <4>1, <4>2 DEF Known, Suspended
        <5> QED
          BY <4>2, <5>1 DEF Once!Loaded, Status, Published
      <4>6. Once!LoadedUpTo(c, i - 1)
        BY <4>3, <4>5 DEF Once!LoadedUpTo
      <4> QED
        BY <4>1, <4>3, <4>4, <4>6
    <3> QED
      BY <3>1, <3>2
  <2>5. Once!Start(want[t])
    BY <2>1, <2>2, <2>3, <2>4 DEF Once!Start
  <2> QED
    BY <2>1, <2>5 DEF Once!Next
<1> QED
  BY <1>1, <1>2

\* Closing the channel finishes the module, with an outcome that its loads justify.
LEMMA CloseRefines ==
  ASSUME TypeOK, IInv, NEW t \in Thread, Close(t)
  PROVE  [Once!Next]_(Once!vars)
<1> DEFINE m == top[t]
           r == result[m]
<1>1. /\ m \in Module /\ m \in cache \ ready /\ r \in Outcome
      /\ Known(m) /\ Reason(m)
  BY DEF Close, At, IInv, TopFrame, Innermost, Progress, Justified, TypeOK, StateType
<1>2. ready' = ready \cup {m} /\ UNCHANGED <<deps, root, cache, result, answer>>
  BY DEF Close, input
<1>3. stmt[m] \in Nat /\ Len(deps[m]) \in Nat /\ \A j \in 1..Len(deps[m]) : deps[m][j] \in Module
  BY <1>1, GraphFacts DEF TypeOK, StateType
<1>4. Status[m] = "loading" /\ Status' = [Status EXCEPT ![m] = "ready"]
      /\ Published' = [Published EXCEPT ![m] = r]
  BY <1>1, <1>2 DEF Status, Published
<1>5. \A x \in Module, o \in Outcome : x \in ready /\ result[x] = o => Once!Loaded(x, o)
  BY DEF Once!Loaded, Status, Published
<1>6. Once!LoadedUpTo(m, stmt[m])
  <2> SUFFICES ASSUME NEW j \in 1..stmt[m] PROVE Once!Loaded(deps[m][j], "ok")
    BY DEF Once!LoadedUpTo
  <2>1. j \in 1..Len(deps[m]) /\ deps[m][j] \in ready /\ result[deps[m][j]] = "ok"
    BY <1>1, <1>3 DEF Known
  <2> QED
    BY <1>3, <1>5, <2>1 DEF Outcome
<1>7. Once!Justified(m, r)
  <2>1. CASE stmt[m] = Len(deps[m])
    BY <1>1, <1>3, <1>6, <2>1 DEF Reason, Outcome, Once!Justified
  <2>2. CASE stmt[m] < Len(deps[m])
    <3> DEFINE i == stmt[m] + 1
    <3>1. i \in 1..Len(deps[m]) /\ i - 1 = stmt[m] /\ deps[m][i] = NextLoad(m)
      BY <1>3, <2>2 DEF NextLoad
    <3>2. NextLoad(m) \in Module
      BY <1>3, <3>1
    <3>3. Once!LoadedUpTo(m, i - 1)
      BY <1>6, <3>1
    <3>4. \/ r = "failed" /\ Once!Loaded(deps[m][i], "failed")
          \/ r = "cycle" /\ Status[deps[m][i]] # "absent"
      BY <1>1, <1>3, <1>5, <2>2, <3>1, <3>2 DEF Reason, Outcome, Status
    <3> QED
      BY <3>1, <3>3, <3>4 DEF Once!Justified
  <2> QED
    BY <1>1, <1>3, <2>1, <2>2 DEF Known
<1>8. Once!Finish(m, r)
  BY <1>2, <1>4, <1>7 DEF Once!Finish
<1> QED
  BY <1>1, <1>8 DEF Once!Next, Outcome

\* The return of a get: to a top-level call, the reply; to an execution, invisible.
LEMMA ReturnRefines ==
  ASSUME TypeOK, IInv, NEW t \in Thread, NEW m \in Module \cup {None}, NEW r,
         Return(t, m, r), UNCHANGED <<input, cache, ready>>,
         m # None => m \notin ready,
         m = None => pc[t] # "done" /\ root[t] \in ready /\ r = result[root[t]]
  PROVE  [Once!Next]_(Once!vars)
<1>1. CASE m = None
  <2>1. root[t] \in Module /\ Published[root[t]] = r /\ Status[root[t]] = "ready"
    BY <1>1 DEF TypeOK, StateType, Status, Published
  <2>2. result' = result /\ answer' = [answer EXCEPT ![t] = r] /\ answer[t] = "unset"
    BY <1>1 DEF Return, IInv, Unanswered
  <2>3. Status' = Status /\ Published' = Published
    BY <2>2 DEF Status, Published
  <2>4. Once!Reply(t)
    BY <2>1, <2>2, <2>3 DEF Once!Reply, input
  <2> QED
    BY <2>4 DEF Once!Next
<1>2. CASE m # None
  <2>1. UNCHANGED <<input, cache, ready, answer>> /\ \A x \in ready : result'[x] = result[x]
    BY <1>2 DEF Return, TypeOK, StateType
  <2> QED
    BY <2>1, Invisible
<1> QED
  BY <1>1, <1>2

\* The return of the get that created the entry.
LEMMA PopRefines ==
  ASSUME TypeOK, IInv, NEW t \in Thread, Pop(t)
  PROVE  [Once!Next]_(Once!vars)
<1>1. top[t] \in Module /\ top[t] \in ready /\ Innermost(t) /\ caller[top[t]] \in Module \cup {None}
  BY DEF Pop, At, IInv, TopFrame, Innermost, TypeOK, StateType
<1>2. caller[top[t]] # None => caller[top[t]] \notin ready
  BY <1>1 DEF IInv, LowerFrames, LowerFrame, Suspended
<1>3. caller[top[t]] = None => root[t] = top[t]
  BY <1>1, LoadCacheAssumption DEF Innermost
<1>4. Return(t, caller[top[t]], result[top[t]]) /\ UNCHANGED <<input, cache, ready>> /\ pc[t] # "done"
  BY DEF Pop, EntryResult, At
<1> QED
  BY <1>1, <1>2, <1>3, <1>4, ReturnRefines

\* The return of a get that waited.
LEMMA ClearWaitsForRefines ==
  ASSUME TypeOK, IInv, NEW t \in Thread, ClearWaitsFor(t)
  PROVE  [Once!Next]_(Once!vars)
<1>1. Innermost(t) /\ InGet(t) /\ top[t] \in Module \cup {None} /\ want[t] \in ready
  BY DEF ClearWaitsFor, At, IInv, TopFrame, NewEntry, InGet, TypeOK, StateType
<1>2. top[t] # None => top[t] \notin ready
  BY <1>1 DEF Innermost, Suspended
<1>3. top[t] = None => want[t] = root[t]
  BY <1>1 DEF Innermost
<1>4. Return(t, top[t], result[want[t]]) /\ UNCHANGED <<input, cache, ready>> /\ pc[t] # "done"
  BY DEF ClearWaitsFor, EntryResult, At
<1> QED
  BY <1>1, <1>2, <1>3, <1>4, ReturnRefines

\* cycleCheck refuses a load to an execution only: a call that executes nothing owns
\* no entry, so it cannot find itself at the end of an owner edge.
LEMMA LoadOwnerRefines ==
  ASSUME TypeOK, IInv, NEW t \in Thread, LoadOwner(t)
  PROVE  [Once!Next]_(Once!vars)
<1>1. UNCHANGED <<input, cache, ready>>
  BY DEF LoadOwner
<1>2. cursor[t] \in Module /\ pc[t] = "owner" /\ top[t] \in Module \cup {None} /\ Innermost(t) /\ InGet(t)
  BY DEF LoadOwner, At, IInv, NewEntry, TopFrame, InGet, TypeOK, StateType
<1>3. CASE owner[cursor[t]] # None /\ IsMe(t, owner[cursor[t]])
  <2>1. loader[cursor[t]] = t
    BY <1>2, <1>3 DEF IsMe, IInv, EdgesMatchThreads, Readied
  <2>2. top[t] # None
    BY <1>2, <2>1 DEF IInv, Unstarted
  <2>3. top[t] \notin ready
    BY <1>2, <2>2 DEF Innermost, Suspended
  <2>4. Return(t, top[t], "cycle")
    BY <1>3 DEF LoadOwner
  <2> QED
    BY <1>1, <1>2, <2>2, <2>3, <2>4, ReturnRefines
<1>4. CASE ~(owner[cursor[t]] # None /\ IsMe(t, owner[cursor[t]]))
  BY <1>1, <1>4, Invisible DEF LoadOwner
<1> QED
  BY <1>3, <1>4

\* The end of an execution sets the result of an entry that is not ready yet.
LEMMA ExecEndRefines ==
  ASSUME TypeOK, IInv, NEW t \in Thread, ExecEnd(t)
  PROVE  [Once!Next]_(Once!vars)
<1>1. top[t] \notin ready
  BY DEF ExecEnd, At, IInv, TopFrame, Innermost
<1>2. \A m \in ready : result'[m] = result[m]
  BY <1>1 DEF ExecEnd, TypeOK, StateType
<1> QED
  BY <1>2, Invisible DEF ExecEnd

\* Duplicate suppression, seen by the callers: whatever the interleaving of get,
\* doLoad and cycleCheck, the cache behaves as a loader that executes each module at
\* most once, in program order, and gives every caller the same outcome.
THEOREM Refinement == Spec => ImplementsLoadOnce
<1>1. Init => Once!Init
  <2> SUFFICES ASSUME Init PROVE Once!Init
    OBVIOUS
  <2>1. Status = [m \in Module |-> "absent"] /\ Published = [m \in Module |-> "unset"]
    BY DEF Init, Status, Published
  <2> QED
    BY <2>1 DEF Init, Once!Init
<1>2. TypeOK /\ IInv /\ [Next]_vars => [Once!Next]_(Once!vars)
  <2> SUFFICES ASSUME TypeOK, IInv, [Next]_vars PROVE [Once!Next]_(Once!vars)
    OBVIOUS
  <2>1. ASSUME NEW t \in Thread,
               \/ SetOwner(t) \/ ExecLoad(t) \/ ClearOwner(t)
               \/ LoadWaitsFor(t) \/ SetWaitsFor(t) \/ Wait(t)
        PROVE  UNCHANGED Once!vars
    <3>1. UNCHANGED <<input, cache, ready, result, answer>>
      BY <2>1 DEF SetOwner, ExecLoad, ClearOwner, LoadWaitsFor, SetWaitsFor, Wait,
                  entryVars
    <3> QED
      BY <3>1, Invisible
  <2>2. CASE UNCHANGED vars
    BY <2>2, Invisible DEF vars, entryVars, threadVars
  <2> QED
    BY <2>1, <2>2, GetRefines, ExecEndRefines, CloseRefines, PopRefines, LoadOwnerRefines,
       ClearWaitsForRefines
    DEF Next, Step, Finished
<1> QED
  BY <1>1, <1>2, Invariance, PTL DEF Spec, ImplementsLoadOnce, Once!Spec

(***************************************************************************)
(* The load graph.                                                         *)
(***************************************************************************)
Closed(S) == \A y \in S : DepsOf(y) \subseteq S

\* What a module loads are modules.
LEMMA DepsAre ==
  ASSUME GraphType, NEW m \in Module
  PROVE  /\ DepsOf(m) \subseteq Module
         /\ \A i \in 1..Len(deps[m]) : deps[m][i] \in DepsOf(m)
         /\ \A d \in DepsOf(m) : \E i \in 1..Len(deps[m]) : d = deps[m][i]
<1>1. deps[m] \in Seq(Module)
  BY DEF GraphType
<1>2. DOMAIN deps[m] = 1..Len(deps[m]) /\ \A i \in 1..Len(deps[m]) : deps[m][i] \in Module
  BY <1>1
<1> QED
  BY <1>2 DEF DepsOf

\* What a module needs: itself, what it loads, and no more than any closed set that
\* has it.
LEMMA NeedsAre ==
  ASSUME GraphType, NEW m \in Module
  PROVE  /\ Needs(m) \subseteq Module /\ m \in Needs(m) /\ Closed(Needs(m))
         /\ DepsOf(m) \subseteq Needs(m)
         /\ \A S \in SUBSET Module : m \in S /\ Closed(S) => Needs(m) \subseteq S
<1>1. Needs(m) \subseteq Module /\ m \in Needs(m)
  BY DEF Needs
<1>2. \A S \in SUBSET Module : m \in S /\ Closed(S) => Needs(m) \subseteq S
  BY DEF Needs, Closed
<1>3. ASSUME NEW y \in Needs(m), NEW d \in DepsOf(y) PROVE d \in Needs(m)
  <2>1. y \in Module /\ d \in Module
    BY <1>1, DepsAre
  <2>2. ASSUME NEW S \in SUBSET Module, m \in S, \A z \in S : DepsOf(z) \subseteq S PROVE d \in S
    <3>1. y \in S
      BY <2>2 DEF Needs
    <3> QED
      BY <2>2, <3>1
  <2> QED
    BY <2>1, <2>2 DEF Needs
<1>4. Closed(Needs(m))
  BY <1>3 DEF Closed
<1> QED
  BY <1>1, <1>2, <1>4 DEF Closed

\* A module that is needed further down is needed by what is loaded.
LEMMA NeedsFrom ==
  ASSUME GraphType, NEW m \in Module, NEW x \in Needs(m), x # m
  PROVE  \E d \in DepsOf(m) : x \in Needs(d)
<1> DEFINE S == {m} \cup UNION {Needs(d) : d \in DepsOf(m)}
<1>1. \A d \in DepsOf(m) : d \in Module /\ Needs(d) \subseteq Module /\ d \in Needs(d) /\ Closed(Needs(d))
  BY DepsAre, NeedsAre
<1>2. S \in SUBSET Module
  BY <1>1
<1>3. ASSUME NEW y \in S PROVE DepsOf(y) \subseteq S
  <2>1. CASE y = m
    BY <1>1, <2>1
  <2>2. CASE \E d \in DepsOf(m) : y \in Needs(d)
    BY <1>1, <2>2 DEF Closed
  <2> QED
    BY <2>1, <2>2
<1>4. Needs(m) \subseteq S
  <2> HIDE DEF S
  <2>1. Closed(S)
    BY <1>3 DEF Closed
  <2>2. m \in S
    BY DEF S
  <2> QED
    BY <1>2, <2>1, <2>2, NeedsAre
<1> QED
  BY <1>4

\* Needing is transitive.
LEMMA NeedsThrough ==
  ASSUME GraphType, NEW m \in Module, NEW x \in Needs(m)
  PROVE  x \in Module /\ Needs(x) \subseteq Needs(m)
<1>1. Needs(m) \subseteq Module /\ Closed(Needs(m))
  BY NeedsAre
<1> QED
  BY <1>1, NeedsAre

(***************************************************************************)
(* What a step does to the results.                                        *)
(***************************************************************************)

\* The load graph is the same after a step, with all that is defined by it.
LEMMA GraphSame ==
  ASSUME UNCHANGED input
  PROVE  /\ \A m : DepsOf(m)' = DepsOf(m)
         /\ \A m : Needs(m)' = Needs(m)
<1>1. deps' = deps
  BY DEF input
<1>2. \A m : DepsOf(m)' = DepsOf(m)
  BY <1>1 DEF DepsOf
<1> QED
  BY <1>2 DEF Needs

\* What a return to the execution of c does: a result is set for c at most.
LEMMA ReturnResult ==
  ASSUME StateType, NEW t \in Thread, NEW c \in Module \cup {None}, NEW r, Return(t, c, r)
  PROVE  \A m \in Module : result'[m] = result[m] \/ m = c
  BY DEF StateType, Return

\* A step sets one result, or closes one channel, but not both; and it leaves what is
\* published as it is.
LEMMA ResultStep ==
  ASSUME TypeOK, IInv, NEW t \in Thread, Step(t)
  PROVE  /\ \A m \in ready : m \in ready' /\ result'[m] = result[m]
         /\ \A m, n \in Module : result'[m] # result[m] /\ result'[n] # result[n] => m = n
         /\ \A m, n \in ready' \ ready : m = n
         /\ ready' = ready \/ \A m \in Module : result'[m] = result[m]
         /\ ready' \subseteq Module
<1>1. StateType /\ None \notin Thread \cup Module
  BY LoadCacheAssumption DEF TypeOK
<1>2. Innermost(t) /\ (top[t] \in Module /\ caller[top[t]] # None => LowerFrame(top[t]))
  BY <1>1 DEF IInv, TopFrame, LowerFrames
<1> USE <1>1 DEF StateType, At, Goto, input, entryVars, checkVars, threadVars
<1>3. ASSUME NEW c \in Module \cup {None}, c # None => c \notin ready,
             \A m \in Module : result'[m] = result[m] \/ m = c, ready' = ready
      PROVE  /\ \A m \in ready : m \in ready' /\ result'[m] = result[m]
             /\ \A m, n \in Module : result'[m] # result[m] /\ result'[n] # result[n] => m = n
             /\ \A m, n \in ready' \ ready : m = n
             /\ ready' = ready \/ \A m \in Module : result'[m] = result[m]
             /\ ready' \subseteq Module
  BY <1>3
<1>4. CASE Pop(t)
  <2> DEFINE c == caller[top[t]]
  <2>1. top[t] \in Module
    BY <1>2, <1>4 DEF Pop, Innermost
  <2>2. c \in Module \cup {None} /\ (c # None => c \notin ready)
    BY <1>2, <2>1 DEF LowerFrame, Suspended
  <2>3. \A m \in Module : result'[m] = result[m] \/ m = c
    BY <1>4, <2>2, ReturnResult DEF Pop
  <2>4. ready' = ready
    BY <1>4 DEF Pop
  <2> HIDE DEF c
  <2> QED
    BY ONLY <1>3, <2>2, <2>3, <2>4
<1>5. CASE LoadOwner(t) \/ ClearWaitsFor(t)
  <2>1. top[t] # None => top[t] \notin ready
    BY <1>2, <1>5 DEF LoadOwner, ClearWaitsFor, Innermost, InGet, Suspended
  <2>2. \A m \in Module : result'[m] = result[m] \/ m = top[t]
    BY <1>5, ReturnResult DEF LoadOwner, ClearWaitsFor
  <2>3. ready' = ready /\ top[t] \in Module \cup {None}
    BY <1>5 DEF LoadOwner, ClearWaitsFor
  <2> QED
    BY ONLY <1>3, <2>1, <2>2, <2>3
<1>6. CASE ExecEnd(t)
  <2>1. top[t] \in Module /\ top[t] \notin ready
    BY <1>2, <1>6 DEF ExecEnd, Innermost
  <2>2. \A m \in Module : result'[m] = result[m] \/ m = top[t]
    BY <1>6 DEF ExecEnd
  <2>3. ready' = ready
    BY <1>6 DEF ExecEnd
  <2> QED
    BY ONLY <1>3, <2>1, <2>2, <2>3
<1>7. CASE Close(t)
  <2>1. top[t] \in Module
    BY <1>2, <1>7 DEF Close, Innermost
  <2> QED
    BY <1>7, <2>1 DEF Close
<1>8. CASE \/ Get(t) \/ SetOwner(t) \/ ExecLoad(t) \/ ClearOwner(t)
           \/ LoadWaitsFor(t) \/ SetWaitsFor(t) \/ Wait(t)
  <2>1. ready' = ready /\ result' = result
    BY <1>8 DEF Get, SetOwner, ExecLoad, ClearOwner, LoadWaitsFor, SetWaitsFor, Wait
  <2> QED
    BY <2>1
<1> QED
  BY <1>4, <1>5, <1>6, <1>7, <1>8 DEF Step

(***************************************************************************)
(* Modules succeed in turn.                                                *)
(***************************************************************************)

\* What has succeeded has loaded only what had succeeded, and is not broken.
LEMMA SucceededClosed ==
  ASSUME TypeOK, IInv, NEW m \in Module, result[m] = "ok"
  PROVE  m \notin Broken /\ DepsOf(m) \subseteq Succeeded
<1>1. Known(m) /\ Reason(m)
  BY DEF IInv, Progress, Justified
<1>2. \A i \in 1..Len(deps[m]) : deps[m][i] \in ready /\ result[deps[m][i]] = "ok"
  BY <1>1 DEF Known, Reason
<1>3. \A d \in DepsOf(m) : \E i \in 1..Len(deps[m]) : d = deps[m][i]
  BY DepsAre DEF TypeOK
<1> QED
  BY <1>1, <1>2, <1>3 DEF Reason, Succeeded

\* The modules that succeed are ordered: each after what it loads.
LEMMA InTurnStep ==
  ASSUME TypeOK, IInv, InTurn, NEW t \in Thread, Step(t), UNCHANGED input
  PROVE  InTurn'
<1> SUFFICES ASSUME NEW S \in SUBSET Succeeded', S # {}
             PROVE  \E x \in S : DepsOf(x) \cap S = {}
  BY GraphSame DEF InTurn
<1>1. ready \subseteq Module
  BY DEF TypeOK, StateType
<1>2. \A m \in Succeeded' : m \in Module /\ m \in ready' /\ result'[m] = "ok"
  BY ResultStep DEF Succeeded
<1>3. \A m \in Succeeded' \ Succeeded : m \in ready' \ ready
  BY <1>2, ResultStep DEF Succeeded
<1>4. CASE S \subseteq Succeeded
  BY <1>4 DEF InTurn
<1>5. CASE ~(S \subseteq Succeeded)
  <2>1. PICK m \in S : m \notin Succeeded
    BY <1>5
  <2>2. m \in ready' \ ready /\ m \in Module
    BY <1>2, <1>3, <2>1
  <2>3. S \ {m} \subseteq Succeeded
    BY <1>3, <2>1, <2>2, ResultStep
  <2>4. result[m] = "ok"
    BY <1>2, <2>1, <2>2, ResultStep
  <2>5. CASE S \ {m} # {}
    <3>1. PICK x \in S \ {m} : DepsOf(x) \cap (S \ {m}) = {}
      BY <2>3, <2>5 DEF InTurn
    <3>2. x \in Module /\ result[x] = "ok"
      BY <1>1, <2>3 DEF Succeeded
    <3>3. m \notin DepsOf(x)
      BY <2>1, <3>2, SucceededClosed
    <3> QED
      BY <3>1, <3>3
  <2>6. CASE S \ {m} = {}
    <3>1. S = {m}
      BY <2>1, <2>6
    <3>2. m \notin DepsOf(m)
      BY <2>1, <2>2, <2>4, SucceededClosed
    <3> QED
      BY <3>1, <3>2
  <2> QED
    BY <2>5, <2>6
<1> QED
  BY <1>4, <1>5

\* What has succeeded needs only what has succeeded, and no module of it is cyclic.
LEMMA SucceededSound ==
  ASSUME TypeOK, IInv, InTurn, NEW m \in Succeeded
  PROVE  \A x \in Needs(m) : ~Cyclic(x) /\ x \notin Broken
<1>g. GraphType
  BY DEF TypeOK
<1>1. Succeeded \subseteq Module
  BY DEF TypeOK, StateType, Succeeded
<1>2. \A y \in Succeeded : y \notin Broken /\ DepsOf(y) \subseteq Succeeded
  BY <1>1, SucceededClosed DEF Succeeded
<1>3. \A y \in Succeeded : Needs(y) \subseteq Succeeded
  BY <1>g, <1>1, <1>2, NeedsAre DEF Closed
<1> SUFFICES ASSUME NEW x \in Needs(m), Cyclic(x) PROVE FALSE
  BY <1>2, <1>3
<1>4. x \in Succeeded /\ x \in Module
  BY <1>1, <1>3
<1>5. PICK y \in DepsOf(x) : x \in Needs(y)
  BY DEF Cyclic
<1>6. y \in Succeeded
  BY <1>2, <1>4, <1>5
<1> DEFINE S == {z \in Succeeded : x \in Needs(z)}
<1>7. S \subseteq Succeeded /\ x \in S /\ y \in S
  BY <1>g, <1>4, <1>5, <1>6, NeedsAre
<1>8. PICK z \in S : DepsOf(z) \cap S = {}
  <2> HIDE DEF S
  <2> QED
    BY <1>7 DEF InTurn
<1>9. z \in Module /\ z \in Succeeded /\ x \in Needs(z)
  BY <1>1, <1>8
<1>10. CASE z = x
  BY <1>5, <1>7, <1>8, <1>10
<1>11. CASE z # x
  <2>1. PICK d \in DepsOf(z) : x \in Needs(d)
    BY <1>g, <1>9, <1>11, NeedsFrom
  <2>2. d \in Succeeded
    BY <1>2, <1>9, <2>1
  <2> QED
    BY <1>8, <2>1, <2>2
<1> QED
  BY <1>10, <1>11

(***************************************************************************)
(* Failures and answers.                                                   *)
(***************************************************************************)

\* A module fails because it is broken, or because a module failed that it loads.
LEMMA FailureStep ==
  ASSUME TypeOK, TypeOK', IInv, IInv', FailureMet, NEW t \in Thread, Step(t), UNCHANGED input
  PROVE  FailureMet'
<1>g. GraphType /\ deps' = deps /\ \A m : Needs(m)' = Needs(m)
  BY GraphSame DEF TypeOK, input
<1> SUFFICES ASSUME NEW m \in Module, result'[m] = "failed" PROVE Needs(m) \cap Broken # {}
  BY <1>g DEF FailureMet
<1>1. CASE result[m] = "failed"
  BY <1>1 DEF FailureMet
<1>2. CASE result[m] # "failed"
  <2>1. Reason(m)'
    BY DEF IInv, Justified
  <2>2. CASE m \in Broken
    BY <1>g, <2>2, NeedsAre
  <2>3. CASE m \notin Broken
    <3> DEFINE x == NextLoad(m)'
    <3>1. /\ stmt'[m] < Len(deps[m]) /\ x = deps[m][stmt'[m] + 1]
          /\ x \in ready' /\ result'[x] = "failed"
      BY <1>g, <2>1, <2>3 DEF Reason, NextLoad
    <3>2. stmt'[m] \in Nat /\ Len(deps[m]) \in Nat
      BY <1>g DEF TypeOK, StateType, GraphType
    <3>3. x \in DepsOf(m) /\ x \in Module
      <4>1. stmt'[m] + 1 \in 1..Len(deps[m])
        BY <3>1, <3>2
      <4> QED
        BY <1>g, <3>1, <4>1, DepsAre
    <3>4. x # m
      <4>1. SUFFICES ASSUME x = m PROVE FALSE
        OBVIOUS
      <4>2. m \in ready'
        BY ONLY <3>1, <4>1
      <4> HIDE DEF x
      <4> QED
        BY <1>2, <4>2, ResultStep
    <3>5. result[x] = "failed"
      <4> HIDE DEF x
      <4> QED
        BY <1>2, <3>1, <3>3, <3>4, ResultStep
    <3>6. Needs(x) \cap Broken # {} /\ Needs(x) \subseteq Needs(m)
      <4> HIDE DEF x
      <4> QED
        BY <1>g, <3>3, <3>5, NeedsAre, NeedsThrough DEF FailureMet
    <3> QED
      BY <3>6
  <2> QED
    BY <2>2, <2>3
<1> QED
  BY <1>1, <1>2

\* The answer of a call is what is published of its root; "cycle" may be an answer
\* without being that.
LEMMA AnsweredStep ==
  ASSUME TypeOK, IInv, Answered, NEW t \in Thread, Step(t), UNCHANGED input
  PROVE  Answered'
<1>1. StateType /\ root' = root /\ None \notin Thread \cup Module
  BY LoadCacheAssumption DEF TypeOK, input
<1>2. Innermost(t)
  BY DEF IInv, TopFrame
<1> SUFFICES ASSUME NEW u \in Thread, answer'[u] \in {"ok", "failed"}
             PROVE  root[u] \in ready' /\ result'[root[u]] = answer'[u]
  BY <1>1 DEF Answered
<1>3. CASE answer'[u] = answer[u]
  BY <1>3, ResultStep DEF Answered
<1>4. CASE answer'[u] # answer[u]
  <2>1. ASSUME NEW c \in Module \cup {None}, NEW r, Return(t, c, r)
        PROVE  u = t /\ c = None /\ answer'[u] = r
    BY <1>1, <1>4, <2>1 DEF StateType, Return
  <2>2. CASE Pop(t)
    <3>1. top[t] \in Module /\ top[t] \in ready
      BY <1>1, <1>2, <2>2 DEF Pop, Innermost, At, StateType
    <3>2. u = t /\ caller[top[t]] = None /\ answer'[u] = result[top[t]]
      BY <1>1, <2>1, <2>2, <3>1 DEF Pop, EntryResult, StateType
    <3>3. top[t] = root[t]
      BY <1>1, <1>2, <3>1, <3>2 DEF Innermost
    <3> QED
      BY <3>1, <3>2, <3>3, ResultStep
  <2>3. CASE LoadOwner(t)
    <3>1. answer'[u] = "cycle"
      BY <1>1, <1>4, <2>1, <2>3 DEF LoadOwner, StateType
    <3> QED
      BY <3>1
  <2>4. CASE ClearWaitsFor(t)
    <3>1. u = t /\ top[t] = None /\ answer'[u] = result[want[t]]
      BY <1>1, <2>1, <2>4 DEF ClearWaitsFor, EntryResult, StateType
    <3>2. want[t] = root[t] /\ want[t] \in ready
      BY <1>2, <2>4, <3>1 DEF ClearWaitsFor, At, Innermost, InGet, IInv, NewEntry
    <3> QED
      BY <3>1, <3>2, ResultStep
  <2>5. CASE \/ Get(t) \/ SetOwner(t) \/ ExecLoad(t) \/ ExecEnd(t) \/ ClearOwner(t) \/ Close(t)
             \/ LoadWaitsFor(t) \/ SetWaitsFor(t) \/ Wait(t)
    BY <1>4, <2>5 DEF Get, SetOwner, ExecLoad, ExecEnd, ClearOwner, Close, LoadWaitsFor,
       SetWaitsFor, Wait, threadVars
  <2> QED
    BY <2>2, <2>3, <2>4, <2>5 DEF Step
<1> QED
  BY <1>3, <1>4

\* A call that succeeds has loaded no cycle and no broken module, one that fails has
\* met a broken module.
LEMMA AnswersSound ==
  ASSUME TypeOK, IInv, InTurn, FailureMet, Answered
  PROVE  AnswerSound
<1> SUFFICES ASSUME NEW t \in Thread
             PROVE  /\ answer[t] = "ok" => \A x \in Needs(root[t]) : ~Cyclic(x) /\ x \notin Broken
                    /\ answer[t] = "failed" => Needs(root[t]) \cap Broken # {}
  BY DEF AnswerSound
<1>1. root[t] \in Module
  BY DEF TypeOK, StateType
<1>2. answer[t] = "ok" => root[t] \in Succeeded
  BY DEF Answered, Succeeded
<1>3. answer[t] = "failed" => result[root[t]] = "failed"
  BY DEF Answered
<1> QED
  BY <1>1, <1>2, <1>3, SucceededSound DEF FailureMet

(***************************************************************************)
(* What a thread keeps to.                                                 *)
(***************************************************************************)

\* A thread asks for, and loads, what its root needs only.
LEMMA WithinStep ==
  ASSUME TypeOK, IInv, Within, NEW t \in Thread, Step(t), UNCHANGED input
  PROVE  Within'
<1>1. StateType /\ GraphType /\ root' = root /\ None \notin Thread \cup Module
  BY LoadCacheAssumption DEF TypeOK, input
<1>2. \A m : Needs(m)' = Needs(m)
  BY GraphSame
<1> USE <1>1 DEF StateType, At
<1>3. CASE Get(t)
  <2>1. want' = want
    BY <1>3 DEF Get
  <2>2. \A m \in cache' :
          \/ m \in cache /\ loader'[m] = loader[m]
          \/ m = want[t] /\ loader'[m] = t
    <3>1. CASE want[t] \in cache
      <4>1. cache' = cache /\ loader' = loader
        BY <1>3, <3>1 DEF Get, HasEntry
      <4> QED
        BY <4>1
    <3>2. CASE want[t] \notin cache
      <4>1. cache' = cache \cup {want[t]} /\ loader' = [loader EXCEPT ![want[t]] = t]
        BY <1>3, <3>2 DEF Get, HasEntry
      <4> QED
        BY <3>2, <4>1
    <3> QED
      BY <3>1, <3>2
  <2> QED
    BY <1>2, <2>1, <2>2 DEF Within
<1>4. CASE ExecLoad(t)
  <2>1. top[t] \in Module /\ top[t] \in cache /\ loader[top[t]] = t
    BY <1>4 DEF ExecLoad, IInv, TopFrame, Innermost
  <2>2. stmt[top[t]] \in Nat /\ stmt[top[t]] < Len(deps[top[t]]) /\ Len(deps[top[t]]) \in Nat
    BY <1>4, <2>1 DEF ExecLoad, GraphType
  <2>3. want'[t] \in DepsOf(top[t])
    <3>1. stmt[top[t]] + 1 \in 1..Len(deps[top[t]])
      BY <2>2
    <3>2. want'[t] = deps[top[t]][stmt[top[t]] + 1]
      BY <1>4 DEF ExecLoad
    <3> QED
      BY <2>1, <3>1, <3>2, DepsAre
  <2>4. top[t] \in Needs(root[t])
    BY <2>1 DEF Within
  <2>5. want'[t] \in Needs(root[t])
    BY <2>3, <2>4, NeedsAre DEF Closed
  <2>6. \A u \in Thread : u # t => want'[u] = want[u]
    BY <1>4 DEF ExecLoad
  <2>7. cache' = cache /\ loader' = loader
    BY <1>4 DEF ExecLoad, entryVars
  <2> QED
    BY <1>2, <2>5, <2>6, <2>7 DEF Within
<1>5. CASE \/ SetOwner(t) \/ ExecEnd(t) \/ ClearOwner(t) \/ Close(t) \/ Pop(t) \/ LoadOwner(t)
           \/ LoadWaitsFor(t) \/ SetWaitsFor(t) \/ Wait(t) \/ ClearWaitsFor(t)
  <2>1. want' = want /\ cache' = cache /\ loader' = loader
    BY <1>5 DEF SetOwner, ExecEnd, ClearOwner, Close, Pop, LoadOwner, LoadWaitsFor, SetWaitsFor,
       Wait, ClearWaitsFor, entryVars
  <2> QED
    BY <1>2, <2>1 DEF Within
<1> QED
  BY <1>3, <1>4, <1>5 DEF Step

\* What a thread that shares nothing needs, nobody else has loaded.
LEMMA AloneLoads ==
  ASSUME TypeOK, Within, NEW t \in Thread, Alone(t), NEW m \in cache, m \in Needs(root[t])
  PROVE  loader[m] = t
  BY DEF TypeOK, StateType, Within, Alone, Shared

\* A thread that shares nothing finds no owner but itself: cycleCheck goes no further
\* than the entry that it was called for.
LEMMA MeetsNobodyStep ==
  ASSUME TypeOK, IInv, Within, MeetsNobody, NEW t \in Thread, Step(t), UNCHANGED input
  PROVE  MeetsNobody'
<1>1. StateType /\ root' = root /\ None \notin Thread \cup Module
  BY LoadCacheAssumption DEF TypeOK, input
<1>2. \A u : Alone(u)' = Alone(u)
  BY <1>1, GraphSame DEF Alone, Shared
<1> SUFFICES ASSUME NEW u \in Thread, Alone(u)
             PROVE  pc'[u] # "waitsFor" /\ (pc'[u] = "owner" => cursor'[u] = want'[u])
  BY <1>2 DEF MeetsNobody
<1>3. pc[u] # "waitsFor" /\ (pc[u] = "owner" => cursor[u] = want[u])
  BY DEF MeetsNobody
<1> USE <1>1 DEF StateType, At, Goto, checkVars, threadVars
<1>4. CASE u # t
  <2>1. pc'[u] = pc[u] /\ cursor'[u] = cursor[u] /\ want'[u] = want[u]
    BY <1>4 DEF Step, Get, SetOwner, ExecLoad, ExecEnd, ClearOwner, Close, Pop, LoadOwner,
       LoadWaitsFor, SetWaitsFor, Wait, ClearWaitsFor, Return
  <2> QED
    BY <1>3, <2>1
<1>5. CASE u = t
  <2>1. CASE Get(t)
    BY <1>5, <2>1 DEF Get
  <2>2. CASE LoadOwner(t)
    <3>1. cursor[t] = want[t] /\ want[t] \in cache
      BY <1>3, <1>5, <2>2 DEF LoadOwner, IInv, NewEntry
    <3>2. loader[want[t]] = t
      BY <1>5, <3>1, AloneLoads DEF Within
    <3>3. owner[cursor[t]] = None \/ owner[cursor[t]] = t
      BY <3>1, <3>2 DEF IInv, EdgesMatchThreads, Readied
    <3>4. pc'[t] \notin {"waitsFor", "owner"}
      BY <2>2, <3>3 DEF LoadOwner, IsMe, Return
    <3> QED
      BY <1>5, <3>4
  <2>3. CASE LoadWaitsFor(t)
    BY <1>3, <1>5, <2>3 DEF LoadWaitsFor
  <2>4. CASE \/ SetOwner(t) \/ ExecLoad(t) \/ ExecEnd(t) \/ ClearOwner(t) \/ Close(t) \/ Pop(t)
             \/ SetWaitsFor(t) \/ Wait(t) \/ ClearWaitsFor(t)
    <3>1. pc'[t] \notin {"waitsFor", "owner"}
      BY <2>4 DEF SetOwner, ExecLoad, ExecEnd, ClearOwner, Close, Pop, SetWaitsFor, Wait,
         ClearWaitsFor, Return
    <3> QED
      BY <1>5, <3>1
  <2> QED
    BY <2>1, <2>2, <2>3, <2>4 DEF Step
<1> QED
  BY <1>4, <1>5

(***************************************************************************)
(* The stack of a thread, and the cycles it meets.                         *)
(***************************************************************************)

\* Taking ownership puts the new module above the one that loads it.
LEMMA StackedSetOwner ==
  ASSUME TypeOK, IInv, Stacked, NEW t \in Thread, SetOwner(t)
  PROVE  Stacked'
<1>1. StateType /\ None \notin Thread \cup Module
  BY LoadCacheAssumption DEF TypeOK
<1>2. caller[want[t]] = None /\ want[t] \in Module
  BY <1>1 DEF IInv, NewEntry, SetOwner, At, StateType
<1>3. /\ owner' = [owner EXCEPT ![want[t]] = t]
      /\ caller' = [caller EXCEPT ![want[t]] = top[t]]
      /\ top' = [top EXCEPT ![t] = want[t]]
  BY DEF SetOwner
<1> SUFFICES ASSUME NEW u \in Thread, NEW m \in Module, owner'[m] = u,
                    NEW S \in SUBSET Module, m \in S, Upward(S)'
             PROVE  top'[u] \in S
  BY DEF Stacked
<1>4. Upward(S)
  <2> SUFFICES ASSUME NEW y \in Module, caller[y] \in S PROVE y \in S
    BY DEF Upward
  <2>1. y # want[t]
    BY <1>1, <1>2
  <2>2. caller'[y] = caller[y]
    BY <1>1, <1>3, <2>1 DEF StateType
  <2> QED
    BY <2>2 DEF Upward
<1>5. CASE u = t
  <2>1. top'[u] = want[t]
    BY <1>1, <1>3, <1>5 DEF StateType
  <2>2. CASE m = want[t]
    BY <2>1, <2>2
  <2>3. CASE m # want[t]
    <3>1. owner[m] = t
      BY <1>1, <1>3, <1>5, <2>3 DEF StateType
    <3>2. top[t] \in S
      BY <1>4, <3>1 DEF Stacked
    <3>3. caller'[want[t]] = top[t]
      BY <1>1, <1>2, <1>3 DEF StateType
    <3> QED
      BY <1>2, <2>1, <3>2, <3>3 DEF Upward
  <2> QED
    BY <2>2, <2>3
<1>6. CASE u # t
  <2>1. owner[m] = u /\ top'[u] = top[u]
    BY <1>1, <1>2, <1>3, <1>6 DEF StateType
  <2> QED
    BY <1>4, <2>1 DEF Stacked
<1> QED
  BY <1>5, <1>6

\* The return of an execution uncovers the one that it was loaded from.
LEMMA StackedPop ==
  ASSUME TypeOK, IInv, Stacked, NEW t \in Thread, Pop(t)
  PROVE  Stacked'
<1>1. StateType /\ None \notin Thread \cup Module
  BY LoadCacheAssumption DEF TypeOK
<1> DEFINE k == top[t]
<1>2. k \in Module /\ loader[k] = t /\ owner[k] = None
  BY <1>1 DEF IInv, TopFrame, Innermost, Pop, At, StateType
<1>3. /\ owner' = owner
      /\ caller' = [caller EXCEPT ![k] = None]
      /\ top' = [top EXCEPT ![t] = caller[k]]
  BY DEF Pop
<1> SUFFICES ASSUME NEW u \in Thread, NEW m \in Module, owner'[m] = u,
                    NEW S \in SUBSET Module, m \in S, Upward(S)'
             PROVE  top'[u] \in S
  BY DEF Stacked
<1>4. \A y \in Module : y # k /\ caller[y] \in S => y \in S
  <2> SUFFICES ASSUME NEW y \in Module, y # k, caller[y] \in S PROVE y \in S
    OBVIOUS
  <2>1. caller'[y] = caller[y]
    BY <1>1, <1>3 DEF StateType
  <2> QED
    BY <2>1 DEF Upward
<1>5. owner[m] = u
  BY <1>3
<1> HIDE DEF k
<1>6. CASE u = t
  <2>1. top'[u] = caller[k]
    BY <1>1, <1>3, <1>6 DEF StateType
  <2>2. CASE caller[k] \notin S
    <3> DEFINE R == S \ {k}
    <3>1. Upward(R)
      BY <1>4, <2>2 DEF Upward
    <3>2. m \in R /\ R \in SUBSET Module
      BY <1>1, <1>2, <1>5
    <3>3. k \notin R
      OBVIOUS
    <3> HIDE DEF R
    <3>4. top[t] \in R
      BY <1>5, <1>6, <3>1, <3>2 DEF Stacked
    <3> QED
      BY <3>3, <3>4 DEF k
  <2> QED
    BY <2>1, <2>2
<1>7. CASE u # t
  <2>1. top'[u] = top[u]
    BY <1>1, <1>3, <1>7 DEF StateType
  <2> DEFINE R == {y \in S : loader[y] = u}
  <2>2. Upward(R)
    <3> SUFFICES ASSUME NEW y \in Module, caller[y] \in R PROVE y \in R
      BY DEF Upward
    <3>1. caller[y] # None
      BY <1>1
    <3>2. loader[y] = u
      BY <3>1 DEF IInv, LowerFrames, LowerFrame
    <3>3. y # k
      BY <1>2, <1>7, <3>2
    <3> QED
      BY <1>4, <3>2, <3>3
  <2>3. m \in R /\ R \in SUBSET Module
    BY <1>1, <1>5 DEF IInv, EdgesMatchThreads, Readied
  <2>4. R \subseteq S
    OBVIOUS
  <2> HIDE DEF R
  <2>5. top[u] \in R
    BY <1>5, <2>2, <2>3 DEF Stacked
  <2> QED
    BY <2>1, <2>4, <2>5
<1> QED
  BY <1>6, <1>7

\* From every module that a thread owns, the callers lead up to the one it executes.
LEMMA StackedStep ==
  ASSUME TypeOK, IInv, Stacked, NEW t \in Thread, Step(t)
  PROVE  Stacked'
<1>1. StateType /\ None \notin Thread \cup Module
  BY LoadCacheAssumption DEF TypeOK
<1>2. CASE ClearOwner(t)
  <2>1. caller' = caller /\ top' = top
    BY <1>2 DEF ClearOwner, threadVars
  <2>2. \A m \in Module : owner'[m] = owner[m] \/ owner'[m] = None
    BY <1>1, <1>2 DEF ClearOwner, NoOwner, StateType
  <2>3. \A S : Upward(S)' = Upward(S)
    BY <2>1 DEF Upward
  <2> QED
    BY <1>1, <2>1, <2>2, <2>3 DEF Stacked
<1>3. CASE \/ Get(t) \/ ExecLoad(t) \/ ExecEnd(t) \/ Close(t) \/ LoadOwner(t) \/ LoadWaitsFor(t)
           \/ SetWaitsFor(t) \/ Wait(t) \/ ClearWaitsFor(t)
  <2>1. caller' = caller /\ top' = top /\ owner' = owner
    BY <1>3 DEF Get, ExecLoad, ExecEnd, Close, LoadOwner, LoadWaitsFor, SetWaitsFor, Wait,
       ClearWaitsFor, threadVars, entryVars
  <2>2. \A S : Upward(S)' = Upward(S)
    BY <2>1 DEF Upward
  <2> QED
    BY <2>1, <2>2 DEF Stacked
<1> QED
  BY <1>2, <1>3, StackedSetOwner, StackedPop DEF Step

\* A thread that finds itself the owner of the module it wants has met a real cycle.
LEMMA OwnCycle ==
  ASSUME TypeOK, IInv, Within, Stacked, NEW t \in Thread, At(t, "owner"), owner[want[t]] = t
  PROVE  \E x \in Needs(root[t]) : Cyclic(x)
<1>1. StateType /\ GraphType /\ None \notin Thread \cup Module /\ want[t] \in Module
  BY LoadCacheAssumption DEF TypeOK, StateType
<1>2. loader[want[t]] = t
  BY <1>1 DEF IInv, EdgesMatchThreads, Readied
<1>3. top[t] # None
  BY <1>1, <1>2 DEF IInv, Unstarted, At
<1>4. /\ top[t] \in cache /\ loader[top[t]] = t
      /\ stmt[top[t]] < Len(deps[top[t]]) /\ want[t] = deps[top[t]][stmt[top[t]] + 1]
  BY <1>3 DEF IInv, TopFrame, Innermost, InGet, Suspended, NextLoad, At
<1>5. top[t] \in Module
  BY <1>1, <1>3 DEF StateType
<1>6. \A c \in Module : stmt[c] < Len(deps[c]) => deps[c][stmt[c] + 1] \in DepsOf(c)
  <2> SUFFICES ASSUME NEW c \in Module, stmt[c] < Len(deps[c])
               PROVE  deps[c][stmt[c] + 1] \in DepsOf(c)
    OBVIOUS
  <2>1. stmt[c] + 1 \in 1..Len(deps[c])
    BY <1>1 DEF StateType, GraphType
  <2> QED
    BY <1>1, <2>1, DepsAre
<1>7. Upward(Needs(want[t]))
  <2> SUFFICES ASSUME NEW y \in Module, caller[y] \in Needs(want[t]) PROVE y \in Needs(want[t])
    BY DEF Upward
  <2>1. caller[y] \in Module /\ caller[y] # None
    BY <1>1, NeedsAre
  <2>2. stmt[caller[y]] < Len(deps[caller[y]]) /\ y = deps[caller[y]][stmt[caller[y]] + 1]
    BY <2>1 DEF IInv, LowerFrames, LowerFrame, Suspended, NextLoad
  <2> QED
    BY <1>1, <1>6, <2>1, <2>2, NeedsAre DEF Closed
<1>8. top[t] \in Needs(want[t])
  BY <1>1, <1>7, NeedsAre DEF Stacked
<1>9. want[t] \in DepsOf(top[t])
  BY <1>4, <1>5, <1>6
<1>10. Cyclic(top[t])
  BY <1>8, <1>9 DEF Cyclic
<1> QED
  BY <1>4, <1>10 DEF Within

\* What a return with r does, seen from the results and answers that are "cycle".
LEMMA ReturnCycle ==
  ASSUME StateType, NEW t \in Thread, NEW c \in Module \cup {None}, NEW r, Return(t, c, r)
  PROVE  /\ \A u \in Thread :
              answer'[u] = "cycle" => answer[u] = "cycle" \/ (u = t /\ c = None /\ r = "cycle")
         /\ \A m \in Module :
              result'[m] = "cycle" => result[m] = "cycle" \/ (m = c /\ r = "cycle")
<1>1. \A u \in Thread :
        answer'[u] = answer[u] \/ (u = t /\ c = None /\ answer'[u] = r)
  BY DEF StateType, Return
<1>2. \A m \in Module : result'[m] = result[m] \/ (m = c /\ result'[m] = r)
  BY DEF StateType, Return
<1> QED
  BY <1>1, <1>2

\* Where a thread is told of a cycle, and of whose.
Told(u) == answer[u] = "cycle" \/ \E m \in cache : loader[m] = u /\ result[m] = "cycle"
Met(u)  == \E x \in Needs(root[u]) : Cyclic(x)

\* A thread that shares nothing is told of a cycle of its own modules, or of one that
\* a module of its own has ended with.
LEMMA CycleMetStep ==
  ASSUME TypeOK, TypeOK', IInv, IInv', Within, Stacked, MeetsNobody, CycleMet,
         NEW t \in Thread, Step(t), UNCHANGED input
  PROVE  CycleMet'
<1>1. StateType /\ GraphType /\ root' = root /\ None \notin Thread \cup Module
  BY LoadCacheAssumption DEF TypeOK, input
<1>2. \A u : Alone(u)' = Alone(u)
  BY <1>1, GraphSame DEF Alone, Shared
<1>3. \A u : Met(u)' = Met(u)
  BY <1>1, GraphSame DEF Met, Cyclic
<1> SUFFICES ASSUME NEW u \in Thread, Alone(u), Told(u)', ~Met(u) PROVE FALSE
  BY <1>2, <1>3 DEF CycleMet, Told, Met
<1>4. ~Told(u)
  BY DEF CycleMet, Told, Met
<1>5. Innermost(t)
  BY DEF IInv, TopFrame
<1> USE <1>1 DEF StateType, At
<1>6. ASSUME NEW c \in Module \cup {None}, NEW r, Return(t, c, r),
             cache' = cache, loader' = loader, c # None => loader[c] = t
      PROVE  u = t /\ r = "cycle"
  <2>1. CASE answer'[u] = "cycle"
    BY <1>4, <1>6, <2>1, ReturnCycle DEF Told
  <2>2. CASE \E m \in cache' : loader'[m] = u /\ result'[m] = "cycle"
    <3>1. PICK m \in cache : loader[m] = u /\ result'[m] = "cycle"
      BY <1>6, <2>2
    <3>2. result[m] # "cycle"
      BY <1>4, <3>1 DEF Told
    <3>3. m \in Module /\ m = c /\ r = "cycle"
      BY <1>6, <3>1, <3>2, ReturnCycle
    <3> QED
      BY <1>6, <3>1, <3>3
  <2> QED
    BY <2>1, <2>2 DEF Told
<1>7. CASE Pop(t)
  <2>1. top[t] \in Module /\ top[t] \in cache /\ loader[top[t]] = t
    BY <1>5, <1>7 DEF Pop, Innermost
  <2>2. caller[top[t]] # None => loader[caller[top[t]]] = t
    BY <2>1 DEF IInv, LowerFrames, LowerFrame
  <2>3. Return(t, caller[top[t]], result[top[t]]) /\ cache' = cache /\ loader' = loader
    BY <1>7 DEF Pop, EntryResult
  <2>4. caller[top[t]] \in Module \cup {None}
    BY <2>1
  <2>5. u = t /\ result[top[t]] = "cycle"
    BY <1>6, <2>2, <2>3, <2>4
  <2> QED
    BY <1>4, <2>1, <2>5 DEF Told
<1>8. CASE LoadOwner(t)
  <2>1. top[t] # None => loader[top[t]] = t
    BY <1>5 DEF Innermost
  <2>2. CASE owner[cursor[t]] # None /\ IsMe(t, owner[cursor[t]])
    <3>1. Return(t, top[t], "cycle") /\ cache' = cache /\ loader' = loader
      BY <1>8, <2>2 DEF LoadOwner
    <3>2. u = t
      BY <1>6, <2>1, <3>1
    <3>3. cursor[t] = want[t]
      BY <1>8, <3>2 DEF LoadOwner, MeetsNobody
    <3>4. Met(t)
      BY <1>8, <2>2, <3>3, OwnCycle DEF LoadOwner, IsMe, Met
    <3> QED
      BY <3>2, <3>4
  <2>3. CASE ~(owner[cursor[t]] # None /\ IsMe(t, owner[cursor[t]]))
    <3>1. UNCHANGED <<result, answer, cache, loader>>
      BY <1>8, <2>3 DEF LoadOwner
    <3> QED
      BY <1>4, <3>1 DEF Told
  <2> QED
    BY <2>2, <2>3
<1>9. CASE ClearWaitsFor(t)
  <2>1. top[t] # None => loader[top[t]] = t
    BY <1>5 DEF Innermost
  <2>2. Return(t, top[t], result[want[t]]) /\ cache' = cache /\ loader' = loader
    BY <1>9 DEF ClearWaitsFor, EntryResult
  <2>3. u = t /\ result[want[t]] = "cycle"
    BY <1>6, <2>1, <2>2
  <2>4. want[t] \in cache /\ loader[want[t]] = t
    <3>1. want[t] \in cache
      BY <1>9 DEF ClearWaitsFor, IInv, NewEntry
    <3> QED
      BY <2>3, <3>1, AloneLoads DEF Within
  <2> QED
    BY <1>4, <2>3, <2>4 DEF Told
<1>10. CASE Get(t)
  <2>1. UNCHANGED <<result, answer>>
    BY <1>10 DEF Get
  <2>2. PICK m \in cache' : loader'[m] = u /\ result[m] = "cycle"
    BY <1>4, <2>1 DEF Told
  <2>3. m \in cache
    <3>1. m \in Module
      BY DEF TypeOK
    <3> QED
      BY <2>2, <3>1 DEF IInv, Progress, Known
  <2>4. loader'[m] = loader[m]
    <3>1. \/ loader' = loader
          \/ want[t] \notin cache /\ loader' = [loader EXCEPT ![want[t]] = t]
      BY <1>10 DEF Get, HasEntry
    <3> QED
      BY <2>3, <3>1
  <2> QED
    BY <1>4, <2>2, <2>3, <2>4 DEF Told
<1>11. CASE ExecEnd(t)
  <2>1. UNCHANGED <<answer, cache, loader>>
    BY <1>11 DEF ExecEnd
  <2>2. \A m \in Module : result'[m] = "cycle" => result[m] = "cycle"
    BY <1>11 DEF ExecEnd
  <2> QED
    BY <1>4, <2>1, <2>2 DEF Told
<1>12. CASE \/ SetOwner(t) \/ ExecLoad(t) \/ ClearOwner(t) \/ Close(t)
            \/ LoadWaitsFor(t) \/ SetWaitsFor(t) \/ Wait(t)
  <2>1. UNCHANGED <<result, answer, cache, loader>>
    BY <1>12 DEF SetOwner, ExecLoad, ClearOwner, Close, LoadWaitsFor, SetWaitsFor, Wait,
       entryVars, threadVars
  <2> QED
    BY <1>4, <2>1 DEF Told
<1> QED
  BY <1>7, <1>8, <1>9, <1>10, <1>11, <1>12 DEF Step

(***************************************************************************)
(* The invariant and what follows from it.                                 *)
(***************************************************************************)

\* A step that changes nothing keeps all of it.
LEMMA AnswersStutter ==
  ASSUME AnswerInv, UNCHANGED vars
  PROVE  InTurn' /\ FailureMet' /\ Answered' /\ Within' /\ Stacked' /\ MeetsNobody' /\ CycleMet'
<1>1. /\ InTurn /\ FailureMet /\ Answered /\ Within /\ Stacked /\ MeetsNobody /\ CycleMet
  BY DEF AnswerInv
<1>2. UNCHANGED <<deps, root, cache, owner, result, ready, cursor, pc, want, top, caller,
                  loader, answer>>
  BY DEF vars, input, entryVars, checkVars, threadVars
<1>3. /\ \A m : DepsOf(m)' = DepsOf(m) /\ Needs(m)' = Needs(m)
      /\ Succeeded' = Succeeded
  BY <1>2, GraphSame DEF Succeeded, input
<1>4. \A u : Alone(u)' = Alone(u)
  BY <1>2, <1>3 DEF Alone, Shared
<1>5. \A x : Cyclic(x)' = Cyclic(x)
  BY <1>3 DEF Cyclic
<1>6. \A S : Upward(S)' = Upward(S)
  BY <1>2 DEF Upward
<1>7. InTurn' /\ FailureMet' /\ Answered' /\ Within'
  BY <1>1, <1>2, <1>3 DEF InTurn, FailureMet, Answered, Within
<1>8. Stacked'
  BY <1>1, <1>2, <1>6 DEF Stacked
<1>9. MeetsNobody' /\ CycleMet'
  BY <1>1, <1>2, <1>3, <1>4, <1>5 DEF MeetsNobody, CycleMet
<1> QED
  BY <1>7, <1>8, <1>9

\* What the answers rest on holds of the empty cache.
LEMMA AnswerInit == Init => AnswerInv
<1> SUFFICES ASSUME Init PROVE AnswerInv
  OBVIOUS
<1>1. TypeOK /\ IInv
  BY InvInit
<1>2. None \notin Thread \cup Module
  BY LoadCacheAssumption
<1>3. Succeeded = {}
  BY DEF Init, Succeeded
<1>4. InTurn
  BY <1>3 DEF InTurn
<1>5. Within
  BY <1>1, NeedsAre DEF Init, Within, TypeOK
<1>6. FailureMet /\ Answered /\ Stacked /\ MeetsNobody /\ CycleMet
  BY <1>2 DEF Init, FailureMet, Answered, Stacked, MeetsNobody, CycleMet
<1> QED
  BY <1>1, <1>4, <1>5, <1>6 DEF AnswerInv

\* And every step keeps it.
LEMMA AnswerStep == TypeOK /\ AnswerInv /\ [Next]_vars => AnswerInv'
<1> SUFFICES ASSUME TypeOK, AnswerInv, [Next]_vars PROVE AnswerInv'
  OBVIOUS
<1>1. /\ IInv /\ InTurn /\ FailureMet /\ Answered /\ Within /\ Stacked /\ MeetsNobody /\ CycleMet
  BY DEF AnswerInv
<1>2. TypeOK' /\ IInv' /\ UNCHANGED input
  BY <1>1, TypeStep, InvStep, InputFixed
<1>3. CASE \E t \in Thread : Step(t)
  <2>1. PICK t \in Thread : Step(t)
    BY <1>3
  <2>2. InTurn' /\ FailureMet' /\ Answered'
    BY <1>1, <1>2, <2>1, InTurnStep, FailureStep, AnsweredStep
  <2>3. Within' /\ Stacked' /\ MeetsNobody' /\ CycleMet'
    BY <1>1, <1>2, <2>1, WithinStep, StackedStep, MeetsNobodyStep, CycleMetStep
  <2> QED
    BY <1>2, <2>2, <2>3 DEF AnswerInv
<1>4. CASE UNCHANGED vars
  BY <1>2, <1>4, AnswersStutter DEF AnswerInv
<1> QED
  BY <1>3, <1>4 DEF Next, Finished

\* The types, the invariant of the cache and what the answers rest on hold in every
\* reachable state.
THEOREM AnswerInvariant == Spec => [](TypeOK /\ AnswerInv)
<1>1. Init => TypeOK /\ AnswerInv
  BY AnswerInit, InvInit
<1>2. TypeOK /\ AnswerInv /\ [Next]_vars => TypeOK' /\ AnswerInv'
  BY AnswerStep, TypeStep DEF AnswerInv
<1> QED
  BY <1>1, <1>2, PTL DEF Spec

\* What Load answers is true of the load graph: a success is that of an acyclic graph
\* of modules that all succeed, a failure has met a module that fails (doLoad, get).
THEOREM AnswersAreSound == Spec => []AnswerSound
<1>1. TypeOK /\ AnswerInv => AnswerSound
  BY AnswersSound DEF AnswerInv
<1> QED
  BY <1>1, AnswerInvariant, PTL

\* "cycle in load graph" is true of the load graph of a thread that shares no module
\* with another (cycleCheck); of others it is not, which a run shows.
THEOREM CyclesAloneAreReal == Spec => []CycleMeansCyclicAlone
<1>1. TypeOK /\ AnswerInv => CycleMeansCyclicAlone
  BY DEF AnswerInv, CycleMet, CycleMeansCyclicAlone, Alone
<1> QED
  BY <1>1, AnswerInvariant, PTL
=============================================================================
