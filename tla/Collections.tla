----------------------------- MODULE Collections -----------------------------
(***************************************************************************)
(* The heap of Starlark values: aliased lists, tuples, dicts and functions *)
(* (value.go), what programs do to them (eval.go, library.go), and how     *)
(* freezing makes the globals of a module safe to share with the threads   *)
(* that load it.                                                           *)
(*                                                                         *)
(* A Module here is one execution of a file by Exec.  Several run at once  *)
(* (example_test.go loads modules in parallel); a nested load is the       *)
(* special case in which the loader waits.  Memory is not reused.          *)
(***************************************************************************)
EXTENDS Integers, Sequences, FiniteSets, SequencesExt

CONSTANTS
  Module,    \* the executions
  Obj,       \* the addresses of values that refer to others
  Atom,      \* the values that do not: None, ints, strings, ...
  Name,      \* the global variables of a module
  Kinds,     \* the kinds of value that programs make
  Index,     \* the integers used as an index
  Unset,     \* the nil Value of a global that was never assigned
  MaxLen,    \* bound on the length of a collection
  MaxDepth   \* bound on the nesting of loops and assignments

ASSUME CollectionsAssumption ==
  /\ Obj \cap Atom = {} /\ Unset \notin Obj \cup Atom \cup Module
  /\ IsFiniteSet(Module)
  /\ Kinds \subseteq {"list", "dict", "tuple", "function"}
  /\ Index \subseteq Int /\ Obj \cap Index = {}
  /\ MaxLen \in Nat /\ MaxDepth \in Nat

VARIABLES
  heap,      \* Obj -> the value at that address
  globals,   \* Module -> its global variables (Exec's globals)
  done,      \* the modules whose Exec has returned
  stack,     \* Module -> the loops and assignments in progress, the outermost first
  panicked   \* an index expression of the Go code was out of range

vars == <<heap, globals, done, stack, panicked>>

Value == Obj \cup Atom

\* A list holds elems; a dict holds elems under keys, in insertion order; a tuple
\* holds elems, and so does a function (its defaults and captured variables) and a
\* bound method (its receiver).  home is the execution that made the value, and
\* code, of a function, the module whose globals it uses.
Free == [kind |-> "free", keys |-> <<>>, elems |-> <<>>, frozen |-> FALSE,
         itercount |-> 0, home |-> Unset, code |-> Unset]
New(k, vs, m, c) == [Free EXCEPT !.kind = k, !.elems = vs, !.home = m, !.code = c]

Kind(o)        == heap[o].kind
Container(h, o) == h[o].kind \in {"list", "dict"}
Iterable(o)    == Kind(o) \in {"list", "dict", "tuple"}
Hashable(v)    == v \in Obj => Kind(v) = "function"

Init ==
  /\ heap = [o \in Obj |-> Free]
  /\ globals = [m \in Module |-> [x \in Name |-> Unset]]
  /\ done = {}
  /\ stack = [m \in Module |-> <<>>]
  /\ panicked = FALSE

(***************************************************************************)
(* What refers to what.                                                    *)
(***************************************************************************)
Children(h, o) == (ToSet(h[o].keys) \cup ToSet(h[o].elems)) \cap Obj

\* The addresses that can be reached from those of R along the edges E: those that
\* are in every set that holds R and that no edge leaves.
Closed(E, R) == {C \in SUBSET Obj : R \cap Obj \subseteq C /\ \A x \in C : E[x] \subseteq C}
Reach(E, R)  == LET closed == Closed(E, R) IN {o \in Obj : \A C \in closed : o \in C}

GlobalsOf(m) == {globals[m][x] : x \in Name} \cap Obj

\* A program gets from a value to its children, and from a function, by calling it,
\* to the globals of the function's module.
Uses == [o \in Obj |-> Children(heap, o) \cup
                       IF Kind(o) = "function" THEN GlobalsOf(heap[o].code) ELSE {}]

\* What m can get hold of: what it made, and what it loads.
Access(m) ==
  Reach(Uses, {o \in Obj : heap[o].home = m} \cup UNION {GlobalsOf(d) : d \in done})

(***************************************************************************)
(* Freeze.                                                                 *)
(***************************************************************************)

\* Mutant of FreezeEdges: functions and bound methods do not pass Freeze on.
FreezeEdgesNoClosures(h) ==
  [o \in Obj |-> IF h[o].kind = "function" \/ (Container(h, o) /\ h[o].frozen)
                 THEN {} ELSE Children(h, o)]

\* Freeze on a list or dict that is already frozen stops there; tuples, functions and
\* bound methods have no flag and always pass the call on.
FreezeEdges(h) ==
  [o \in Obj |-> IF Container(h, o) /\ h[o].frozen THEN {} ELSE Children(h, o)]

\* The heap after Freeze on each value of R.
Frozen(h, R) ==
  [o \in Obj |-> IF Container(h, o) /\ o \in Reach(FreezeEdges(h), R)
                 THEN [h[o] EXCEPT !.frozen = TRUE] ELSE h[o]]

(***************************************************************************)
(* Steps of a running program.                                             *)
(***************************************************************************)
Running(m)    == m \notin done /\ ~panicked
Held(m)       == Atom \cup Access(m)   \* the values that m can get hold of
Top(m)        == Last(stack[m])
\* At most MaxDepth loops, the outermost of which may be an assignment instead.
Push(m, a)    == /\ Len(stack[m]) < MaxDepth /\ (a.op = "iter" \/ stack[m] = <<>>)
                 /\ stack' = [stack EXCEPT ![m] = Append(@, a)]
Replace(m, a) == stack' = [stack EXCEPT ![m] = Append(Front(@), a)]

\* checkMutable(verb, false), checkMutable(verb, true) and the guards of hashtable.go.
Assignable(o) == ~heap[o].frozen
MutableFrozen(o) == heap[o].itercount = 0   \* mutant of Mutable
Mutable(o)    == ~heap[o].frozen /\ heap[o].itercount = 0

Allocate(o, k, vs, m, c) == Kind(o) = "free" /\ heap' = [heap EXCEPT ![o] = New(k, vs, m, c)]

\* List and tuple displays, and what copies into a new list or tuple: comprehensions,
\* slices, list(), sorted(), +, ...
MakeSequence(m, o, k, vs) ==
  /\ Running(m) /\ k \in Kinds \cap {"list", "tuple"}
  /\ Allocate(o, k, vs, m, Unset)
  /\ UNCHANGED <<globals, done, stack, panicked>>

\* A dict or set, to be filled by SetKey.
MakeDict(m, o) ==
  /\ Running(m) /\ "dict" \in Kinds
  /\ Allocate(o, "dict", <<>>, m, Unset)
  /\ UNCHANGED <<globals, done, stack, panicked>>

\* def and lambda, in m's own code or in that of a function that m calls; x.method.
Code(m) == {m} \cup {heap[f].code : f \in {o \in Access(m) : Kind(o) = "function"}}
MakeFunction(m, o, vs, c) ==
  /\ Running(m) /\ "function" \in Kinds
  /\ Allocate(o, "function", vs, m, c)
  /\ UNCHANGED <<globals, done, stack, panicked>>

SetElems(o, s) == heap' = [heap EXCEPT ![o].elems = s]

IsList(m, l) == Running(m) /\ Kind(l) = "list"
IsDict(m, d) == Running(m) /\ Kind(d) = "dict"

\* A negative index counts from the end.
Normal(i, n) == IF i < 0 THEN i + n ELSE i

\* What iterating over y yields.
Yield(y) == IF Kind(y) = "dict" THEN heap[y].keys ELSE heap[y].elems

\* list.append
ListAppend(m, l, v) ==
  /\ IsList(m, l) /\ Mutable(l) /\ Len(heap[l].elems) < MaxLen
  /\ SetElems(l, Append(heap[l].elems, v))
  /\ UNCHANGED <<globals, done, stack, panicked>>

\* list.extend
ListExtend(m, l, y) ==
  /\ IsList(m, l) /\ Mutable(l) /\ Iterable(y)
  /\ Len(heap[l].elems) + Len(Yield(y)) <= MaxLen
  /\ SetElems(l, heap[l].elems \o Yield(y))
  /\ UNCHANGED <<globals, done, stack, panicked>>

\* list.insert: an index beyond either end is clamped.
ListInsert(m, l, i, v) ==
  /\ IsList(m, l) /\ Mutable(l) /\ Len(heap[l].elems) < MaxLen
  /\ LET n == Len(heap[l].elems)
         j == Normal(i, n)
     IN  SetElems(l, IF j >= n THEN Append(heap[l].elems, v)
                     ELSE InsertAt(heap[l].elems, IF j < 0 THEN 1 ELSE j + 1, v))
  /\ UNCHANGED <<globals, done, stack, panicked>>

\* Mutant of ListRemove: pop is not taken for a structural change.
ListRemoveAnyTime(m, l, i) ==
  /\ IsList(m, l) /\ Assignable(l) /\ i \in DOMAIN heap[l].elems
  /\ SetElems(l, RemoveAt(heap[l].elems, i))
  /\ UNCHANGED <<globals, done, stack, panicked>>

\* list.pop, and list.remove, which drops the first element equal to its argument.
ListRemove(m, l, i) ==
  /\ IsList(m, l) /\ Mutable(l) /\ i \in DOMAIN heap[l].elems
  /\ SetElems(l, RemoveAt(heap[l].elems, i))
  /\ UNCHANGED <<globals, done, stack, panicked>>

\* list.clear
ListClear(m, l) ==
  /\ IsList(m, l) /\ Mutable(l)
  /\ SetElems(l, <<>>)
  /\ UNCHANGED <<globals, done, stack, panicked>>

\* The position of key k in d.
KeyAt(d, k) == CHOOSE i \in DOMAIN heap[d].keys : heap[d].keys[i] = k

\* l[i] = v, which does not change the structure.
StoreIndex(l, i, v) ==
  LET j == Normal(i, Len(heap[l].elems)) + 1
  IN  /\ j \in DOMAIN heap[l].elems /\ Assignable(l)
      /\ heap' = [heap EXCEPT ![l].elems[j] = v]
SetIndex(m, l, i, v) ==
  /\ IsList(m, l)
  /\ StoreIndex(l, i, v)
  /\ UNCHANGED <<globals, done, stack, panicked>>

\* d[k] = v, dict.setdefault, dict.update with one pair: an update in place counts as
\* a structural change.  (Dict and OrderedDict say more; equality is identity here.)
StoreKey(d, k, v) ==
  /\ Mutable(d) /\ Hashable(k)
  /\ IF k \in ToSet(heap[d].keys)
     THEN heap' = [heap EXCEPT ![d].elems[KeyAt(d, k)] = v]
     ELSE /\ Len(heap[d].keys) < MaxLen
          /\ heap' = [heap EXCEPT ![d].keys = Append(@, k), ![d].elems = Append(@, v)]
SetKey(m, d, k, v) ==
  /\ IsDict(m, d)
  /\ StoreKey(d, k, v)
  /\ UNCHANGED <<globals, done, stack, panicked>>

\* dict.pop and dict.popitem
DeleteKey(m, d, i) ==
  /\ IsDict(m, d) /\ Mutable(d) /\ i \in DOMAIN heap[d].keys
  /\ heap' = [heap EXCEPT ![d].keys = RemoveAt(@, i), ![d].elems = RemoveAt(@, i)]
  /\ UNCHANGED <<globals, done, stack, panicked>>

\* dict.clear
DictClear(m, d) ==
  /\ IsDict(m, d) /\ Mutable(d)
  /\ heap' = [heap EXCEPT ![d].keys = <<>>, ![d].elems = <<>>]
  /\ UNCHANGED <<globals, done, stack, panicked>>

(***************************************************************************)
(* Loops and assignments in progress, between whose steps the program may  *)
(* do anything: the body of the loop, the calls in the targets of an       *)
(* unpacking assignment, the right-hand side of x[i] += y.                 *)
(***************************************************************************)
CountedAlways(o) == Container(heap, o)   \* mutant of Counted
Counted(o) == Container(heap, o) /\ ~heap[o].frozen

\* Iterate: a for loop, a comprehension, *args, a built-in that iterates while it
\* calls back.  len is the length at the start.
Iterate(m, o) ==
  /\ Running(m) /\ Iterable(o)
  /\ Push(m, [op |-> "iter", obj |-> o, i |-> 0, len |-> Len(heap[o].elems)])
  /\ heap' = IF Counted(o) THEN [heap EXCEPT ![o].itercount = @ + 1] ELSE heap
  /\ UNCHANGED <<globals, done, panicked>>

\* Next: the following element, if there is one.
NextElem(m) ==
  /\ Running(m) /\ stack[m] # <<>> /\ Top(m).op = "iter"
  /\ Top(m).i < Len(heap[Top(m).obj].elems)
  /\ Replace(m, [Top(m) EXCEPT !.i = @ + 1])
  /\ UNCHANGED <<heap, globals, done, panicked>>

\* a, b = x for an Indexable x: the length is compared with the number of targets, and
\* x.Index(0) read.  (The elements of a dict are copied out before the assignments.)
Unpack(m, o) ==
  /\ Running(m) /\ Kind(o) \in {"list", "tuple"} /\ heap[o].elems # <<>>
  /\ Push(m, [op |-> "unpack", obj |-> o, i |-> 1, len |-> Len(heap[o].elems)])
  /\ UNCHANGED <<heap, globals, done, panicked>>

\* The expressions of one target have been evaluated; x.Index(i) for the next one.
UnpackNext(m) ==
  /\ Running(m) /\ stack[m] # <<>> /\ Top(m).op = "unpack" /\ Top(m).i < Top(m).len
  /\ IF Top(m).i < Len(heap[Top(m).obj].elems)
     THEN Replace(m, [Top(m) EXCEPT !.i = @ + 1]) /\ UNCHANGED panicked
     ELSE panicked' = TRUE /\ UNCHANGED stack
  /\ UNCHANGED <<heap, globals, done>>

\* l[i] += ..., d[k] += ..., x += ...: the target is read first, and how to set it is
\* remembered, then the right-hand side is evaluated.
AugmentIndex(m, l, i) ==
  /\ IsList(m, l) /\ Normal(i, Len(heap[l].elems)) + 1 \in DOMAIN heap[l].elems
  /\ Push(m, [op |-> "setindex", obj |-> l, at |-> i,
              old |-> heap[l].elems[Normal(i, Len(heap[l].elems)) + 1]])
  /\ UNCHANGED <<heap, globals, done, panicked>>
AugmentKey(m, d, k) ==
  /\ IsDict(m, d) /\ k \in ToSet(heap[d].keys)
  /\ Push(m, [op |-> "setkey", obj |-> d, at |-> k, old |-> heap[d].elems[KeyAt(d, k)]])
  /\ UNCHANGED <<heap, globals, done, panicked>>
AugmentVariable(m, l) ==
  /\ IsList(m, l)
  /\ Push(m, [op |-> "setvariable", obj |-> Unset, at |-> Unset, old |-> l])
  /\ UNCHANGED <<heap, globals, done, panicked>>
Augmenting == {"setindex", "setkey", "setvariable"}

Pop(m) == stack' = [stack EXCEPT ![m] = Front(@)]

\* ... to a list: it is extended in place, wherever it is now.
AugmentList(m, y) ==
  /\ Running(m) /\ stack[m] # <<>> /\ Top(m).op \in Augmenting
  /\ LET old == Top(m).old
     IN  /\ old \in Obj /\ Kind(old) = "list" /\ Mutable(old) /\ Iterable(y)
         /\ Len(heap[old].elems) + Len(Yield(y)) <= MaxLen
         /\ SetElems(old, heap[old].elems \o Yield(y))
  /\ Pop(m)
  /\ UNCHANGED <<globals, done, panicked>>

\* ... with another operator or to another value: the result is stored at l[i] or d[k],
\* looked up again.
AugmentOther(m, v) ==
  /\ Running(m) /\ stack[m] # <<>>
  /\ LET a == Top(m)
     IN  /\ a.op \in {"setindex", "setkey"}
         /\ \/ a.op = "setindex" /\ Kind(a.obj) = "list" /\ StoreIndex(a.obj, a.at, v)
            \/ a.op = "setkey" /\ Kind(a.obj) = "dict" /\ StoreKey(a.obj, a.at, v)
  /\ Pop(m)
  /\ UNCHANGED <<globals, done, panicked>>

\* Mutant of Leave: Done is called at the end of the elements only.
LeaveSkipsDone(m) ==
  /\ Running(m) /\ stack[m] # <<>>
  /\ heap' = IF Top(m).op = "iter" /\ Counted(Top(m).obj) /\ Top(m).i = Top(m).len
             THEN [heap EXCEPT ![Top(m).obj].itercount = @ - 1] ELSE heap
  /\ Pop(m)
  /\ UNCHANGED <<globals, done, panicked>>

\* A loop or assignment ends: it is complete, or break, return or an error leaves it.
\* The deferred Done of a loop runs in any case.
Leave(m) ==
  /\ Running(m) /\ stack[m] # <<>>
  /\ heap' = IF Top(m).op = "iter" /\ Counted(Top(m).obj)
             THEN [heap EXCEPT ![Top(m).obj].itercount = @ - 1] ELSE heap
  /\ Pop(m)
  /\ UNCHANGED <<globals, done, panicked>>

(***************************************************************************)
(* Globals, freezing, and the end of the execution.                        *)
(***************************************************************************)

\* A statement of m's top level assigns to a global.
SetGlobal(m, x, v) ==
  /\ Running(m)
  /\ globals' = [globals EXCEPT ![m][x] = v]
  /\ UNCHANGED <<heap, done, stack, panicked>>

\* The host's freeze built-in (starlarktest.go).
FreezeValue(m, v) ==
  /\ Running(m)
  /\ heap' = Frozen(heap, {v})
  /\ UNCHANGED <<globals, done, stack, panicked>>

\* Mutant of Exec: the globals are returned as they are.
ExecNoFreeze(m) ==
  /\ Running(m) /\ stack[m] = <<>>
  /\ done' = done \cup {m}
  /\ UNCHANGED <<heap, globals, stack, panicked>>

\* Exec: when the statements have ended or failed, the globals are frozen and
\* returned to whoever loads m.
Exec(m) ==
  /\ Running(m) /\ stack[m] = <<>>
  /\ heap' = Frozen(heap, GlobalsOf(m))
  /\ done' = done \cup {m}
  /\ UNCHANGED <<globals, stack, panicked>>

\* The values a step works on are values that m can get hold of.
Step(m) ==
  \/ \E o \in Obj, k \in {"list", "tuple"}, vs \in BoundedSeq(Held(m), MaxLen) : MakeSequence(m, o, k, vs)
  \/ \E o \in Obj : MakeDict(m, o)
  \/ \E o \in Obj, vs \in BoundedSeq(Held(m), MaxLen), c \in Code(m) : MakeFunction(m, o, vs, c)
  \/ \E l \in Access(m), v \in Held(m) : ListAppend(m, l, v)
  \/ \E l \in Access(m), y \in Access(m) : ListExtend(m, l, y)
  \/ \E l \in Access(m), i \in Index, v \in Held(m) : ListInsert(m, l, i, v)
  \/ \E l \in Access(m), i \in 1..MaxLen : ListRemove(m, l, i)
  \/ \E l \in Access(m) : ListClear(m, l)
  \/ \E l \in Access(m), i \in Index, v \in Held(m) : SetIndex(m, l, i, v)
  \/ \E d \in Access(m), k \in Held(m), v \in Held(m) : SetKey(m, d, k, v)
  \/ \E d \in Access(m), i \in 1..MaxLen : DeleteKey(m, d, i)
  \/ \E d \in Access(m) : DictClear(m, d)
  \/ \E o \in Access(m) : Iterate(m, o)
  \/ NextElem(m)
  \/ \E o \in Access(m) : Unpack(m, o)
  \/ UnpackNext(m)
  \/ \E l \in Access(m), i \in Index : AugmentIndex(m, l, i)
  \/ \E d \in Access(m), k \in Held(m) : AugmentKey(m, d, k)
  \/ \E l \in Access(m) : AugmentVariable(m, l)
  \/ \E y \in Access(m) : AugmentList(m, y)
  \/ \E v \in Held(m) : AugmentOther(m, v)
  \/ Leave(m)
  \/ \E x \in Name, v \in Held(m) : SetGlobal(m, x, v)
  \/ \E v \in Access(m) : FreezeValue(m, v)
  \/ Exec(m)

Next == \E m \in Module : Step(m)
Spec == Init /\ [][Next]_vars

(***************************************************************************)
(* Properties.                                                             *)
(***************************************************************************)

\* Types.
Activity ==
  [op : {"iter", "unpack"}, obj : Obj, i : Nat, len : Nat] \cup
  [op : {"setindex"}, obj : Obj, at : Index, old : Value] \cup
  [op : {"setkey"}, obj : Obj, at : Value, old : Value] \cup
  [op : {"setvariable"}, obj : {Unset}, at : {Unset}, old : Value]
TypeOK ==
  /\ heap \in [Obj -> [kind : {"free", "list", "dict", "tuple", "function"},
                       keys : Seq(Value), elems : Seq(Value), frozen : BOOLEAN,
                       itercount : Nat, home : Module \cup {Unset}, code : Module \cup {Unset}]]
  /\ \A o \in Obj : Len(heap[o].keys) = IF Kind(o) = "dict" THEN Len(heap[o].elems) ELSE 0
  /\ globals \in [Module -> [Name -> Value \cup {Unset}]]
  /\ done \subseteq Module
  /\ stack \in [Module -> Seq(Activity)]
  /\ \A m \in Module : Len(stack[m]) <= MaxDepth
  /\ panicked \in BOOLEAN

\* Freezing is deep and stays so: nothing that can be changed is reachable from a
\* frozen list or dict through collections, closures and bound methods, however the
\* data is shared or cyclic and whatever was made of it since.
FrozenClosed ==
  \A o \in Obj : heap[o].frozen =>
    \A x \in Reach([y \in Obj |-> Children(heap, y)], {o}) :
      Container(heap, x) => heap[x].frozen

\* No field of a frozen value is ever written again, not even its count of iterators:
\* threads read frozen values without locks.
FrozenNeverWritten == [][\A o \in Obj : heap[o].frozen => heap'[o] = heap[o]]_vars

\* What a thread can get hold of by loading a module that is done is frozen, and so is
\* all that two executions can both get hold of: threads run without locks.
Loadable == Reach(Uses, UNION {GlobalsOf(d) : d \in done})
SharedIsFrozen ==
  /\ \A o \in Loadable : Container(heap, o) => heap[o].frozen
  /\ \A m, n \in Module \ done : m # n =>
       \A o \in Access(m) \cap Access(n) : Container(heap, o) => heap[o].frozen

\* The loops over o in progress: of which execution, and how deep in its nesting.
LoopAt(o, m, j) == j \in DOMAIN stack[m] /\ stack[m][j].op = "iter" /\ stack[m][j].obj = o
Loops(o) == {l \in Module \X (1..MaxDepth) : LoopAt(o, l[1], l[2])}

\* As long as a list or dict is not frozen, its count is the number of loops over it,
\* so that it can be changed again when, and only when, the last of them is left.
LoopsCounted ==
  \A o \in Obj : Container(heap, o) /\ ~heap[o].frozen => heap[o].itercount = Cardinality(Loops(o))

\* A collection keeps its length while a loop over it is in progress, so that each
\* loop makes exactly as many iterations as there were elements.
LoopLengthFixed ==
  \A m \in Module \ done : \A j \in DOMAIN stack[m] :
    LET a == stack[m][j]
    IN  a.op = "iter" => a.i <= a.len /\ a.len = Len(heap[a.obj].elems)

\* Indexable (value.go:177): Index is called with an index in range only.
IndexInRange == ~panicked

(***************************************************************************)
(* The inductive invariant.                                                *)
(***************************************************************************)
Own(m) == {o \in Obj : heap[o].home = m}

\* S holds what is frozen, and no way leads out of it.
Solid(S) ==
  /\ {o \in Obj : heap[o].frozen} \subseteq S
  /\ \A o \in S : /\ Kind(o) # "free" /\ Children(heap, o) \subseteq S
                  /\ Container(heap, o) => heap[o].frozen

\* P holds what the modules that are done have published; what a running execution
\* made, and the loops and assignments it is in, refer to what it made itself and to P.
Operands(a) == (IF a.op \in Augmenting THEN {a.obj, a.at, a.old} ELSE {a.obj}) \cap Obj
Published(P) ==
  /\ \A o \in P : /\ Kind(o) # "free" /\ Children(heap, o) \subseteq P
                  /\ Container(heap, o) => heap[o].frozen
                  /\ Kind(o) = "function" => heap[o].code \in done
  /\ \A m \in Module : GlobalsOf(m) \subseteq P \cup IF m \in done THEN {} ELSE Own(m)
  /\ \A m \in Module \ done :
       /\ \A o \in Own(m) : /\ Children(heap, o) \subseteq P \cup Own(m)
                            /\ Kind(o) = "function" => heap[o].code \in done \cup {m}
       /\ \A j \in DOMAIN stack[m] : Operands(stack[m][j]) \subseteq P \cup Own(m)

\* The addresses not yet in use are bare, and a module that is done runs no more.
Allocation ==
  /\ \A o \in Obj : /\ Kind(o) = "free" <=> heap[o].home = Unset
                    /\ heap[o].frozen => Container(heap, o)
                    /\ Kind(o) = "function" => heap[o].code \in Module
  /\ \A m \in done : stack[m] = <<>>

SharingInv == \E S, P \in SUBSET Obj : Solid(S) /\ Published(P)
LoopInv    == LoopsCounted /\ LoopLengthFixed

\* What the proofs rest on: it holds initially and every step preserves it.
IInv == TypeOK /\ Allocation /\ SharingInv /\ LoopInv
=============================================================================
