-------------------------- MODULE CollectionsProofs --------------------------
(***************************************************************************)
(* Proofs about Collections, for any number of executions, values, globals *)
(* and any bounds.  IInv is inductive: SharingInv is about what refers to  *)
(* what, LoopInv about the loops in progress.                              *)
(***************************************************************************)
EXTENDS Collections, SequenceTheorems, FiniteSetTheorems, TLAPS

(***************************************************************************)
(* Reachability.                                                           *)
(***************************************************************************)

\* Reach(E, R) holds R, is closed under E, and is the least such set.
LEMMA ReachFacts ==
  ASSUME NEW E \in [Obj -> SUBSET Obj], NEW R
  PROVE  /\ Reach(E, R) \subseteq Obj
         /\ R \cap Obj \subseteq Reach(E, R)
         /\ \A x \in Reach(E, R) : E[x] \subseteq Reach(E, R)
         /\ \A C \in Closed(E, R) : Reach(E, R) \subseteq C
  BY DEF Reach, Closed

\* A set of addresses that holds R and is closed under E holds Reach(E, R).
LEMMA ReachLeast ==
  ASSUME NEW E \in [Obj -> SUBSET Obj], NEW R, NEW C \in SUBSET Obj,
         R \cap Obj \subseteq C, \A x \in C : E[x] \subseteq C
  PROVE  Reach(E, R) \subseteq C
  BY DEF Reach, Closed

\* Uses is a set of edges between addresses.
LEMMA UsesType == Uses \in [Obj -> SUBSET Obj]
  BY DEF Uses, Children, GlobalsOf

\* So are those along which Freeze is passed on.
LEMMA FreezeEdgesType == ASSUME NEW h PROVE FreezeEdges(h) \in [Obj -> SUBSET Obj]
  BY DEF FreezeEdges, Children

(***************************************************************************)
(* The effects of a step.                                                  *)
(***************************************************************************)

\* When the modules that are done have published P, m can get hold of no more than these.
Known(P, m)  == P \cup Own(m)
Values(P, m) == Atom \cup Known(P, m)

\* m makes a value of values that it holds.
Alloc(P, m) ==
  /\ UNCHANGED <<globals, done, stack, panicked>>
  /\ \E o \in Obj, k \in {"list", "tuple", "dict", "function"}, vs \in Seq(Values(P, m)),
        c \in done \cup {m, Unset} :
       /\ Allocate(o, k, vs, m, c)
       /\ k = "dict" => vs = <<>>
       /\ k = "function" => c \in done \cup {m}

\* m changes what a list or dict holds to other values that it holds, and not the
\* number of elements if the list or dict is in a loop.
Write(o, ks, vs) ==
  /\ Container(heap, o) /\ ~heap[o].frozen
  /\ heap[o].itercount = 0 \/ Len(vs) = Len(heap[o].elems)
  /\ Len(ks) = IF Kind(o) = "dict" THEN Len(vs) ELSE 0
  /\ heap' = [heap EXCEPT ![o].keys = ks, ![o].elems = vs]
Writes(P, m) ==
  \E o \in Own(m), ks \in Seq(Values(P, m)), vs \in Seq(Values(P, m)) : Write(o, ks, vs)
AugmentEnds(m) == stack[m] # <<>> /\ Top(m).op \in Augmenting /\ Pop(m)
Change(P, m) ==
  /\ UNCHANGED <<globals, done, panicked>>
  /\ UNCHANGED stack \/ AugmentEnds(m)
  /\ Writes(P, m)

\* m starts an assignment, or goes on with a loop or an assignment.
Starts(P, m) ==
  \E a \in Activity : a.op # "iter" /\ Operands(a) \subseteq Known(P, m) /\ Push(m, a)
Advances(m) ==
  /\ stack[m] # <<>> /\ Top(m).op \in {"iter", "unpack"}
  /\ Top(m).op = "iter" => Top(m).i < Len(heap[Top(m).obj].elems)
  /\ Replace(m, [Top(m) EXCEPT !.i = @ + 1])
StackOnly(P, m) ==
  /\ UNCHANGED <<heap, globals, done>> /\ panicked' \in BOOLEAN
  /\ UNCHANGED stack \/ Starts(P, m) \/ Advances(m)

Effect(P, m) ==
  \/ Alloc(P, m)
  \/ Change(P, m)
  \/ \E o \in Known(P, m) : Iterate(m, o)
  \/ StackOnly(P, m)
  \/ Leave(m)
  \/ \E x \in Name, v \in Values(P, m) : SetGlobal(m, x, v)
  \/ \E v \in Known(P, m) : FreezeValue(m, v)
  \/ Exec(m)

(***************************************************************************)
(* What a step does.                                                       *)
(***************************************************************************)
HeapType ==
  heap \in [Obj -> [kind : {"free", "list", "dict", "tuple", "function"},
                    keys : Seq(Value), elems : Seq(Value), frozen : BOOLEAN,
                    itercount : Nat, home : Module \cup {Unset}, code : Module \cup {Unset}]]

\* What is stored in a value that m can get hold of, m can get hold of.
LEMMA Contents ==
  ASSUME HeapType, NEW P \in SUBSET Obj, Published(P), NEW m \in Module \ done,
         NEW o \in Known(P, m)
  PROVE  heap[o].keys \in Seq(Values(P, m)) /\ heap[o].elems \in Seq(Values(P, m))
<1>1. o \in Obj /\ Children(heap, o) \subseteq Known(P, m)
  BY DEF Known, Own, Published
<1>2. ASSUME NEW s \in Seq(Value), ToSet(s) \cap Obj \subseteq Known(P, m)
      PROVE  s \in Seq(Values(P, m))
  <2>1. \A i \in 1..Len(s) : s[i] \in Values(P, m)
    BY <1>2 DEF ToSet, Values, Value
  <2> QED
    BY <1>2, <2>1
<1>3. heap[o].keys \in Seq(Value) /\ heap[o].elems \in Seq(Value)
  BY <1>1 DEF HeapType
<1> QED
  BY <1>1, <1>2, <1>3 DEF Children

\* An element less: a sequence of the same kind.
LEMMA RemoveAtType ==
  ASSUME NEW S, NEW s \in Seq(S), NEW i \in 1..Len(s)
  PROVE  RemoveAt(s, i) \in Seq(S) /\ Len(RemoveAt(s, i)) = Len(s) - 1
<1> DEFINE a == SubSeq(s, 1, i - 1)
           b == SubSeq(s, i + 1, Len(s))
<1>1. a \in Seq(S) /\ Len(a) = i - 1
  BY SubSeqProperties
<1>2. b \in Seq(S) /\ Len(b) = Len(s) - i
  BY SubSeqProperties
<1>3. RemoveAt(s, i) = a \o b
  BY DEF RemoveAt
<1> HIDE DEF a, b
<1>4. a \o b \in Seq(S) /\ Len(a \o b) = Len(a) + Len(b)
  BY <1>1, <1>2, ConcatProperties
<1>5. Len(s) \in Nat
  OBVIOUS
<1> QED
  BY <1>1, <1>2, <1>3, <1>4, <1>5

\* An element more: a sequence of the same kind.
LEMMA InsertAtType ==
  ASSUME NEW S, NEW s \in Seq(S), NEW i \in 1..Len(s), NEW v \in S
  PROVE  InsertAt(s, i, v) \in Seq(S)
<1>1. SubSeq(s, 1, i - 1) \in Seq(S) /\ SubSeq(s, i, Len(s)) \in Seq(S) /\ <<v>> \in Seq(S)
  BY SubSeqProperties
<1> QED
  BY <1>1, ConcatProperties DEF InsertAt

\* A change of elems alone, to values that m holds, is a change.
LEMMA ElemsChange ==
  ASSUME HeapType, NEW P \in SUBSET Obj, Published(P), NEW m \in Module \ done,
         NEW o \in Own(m), NEW vs \in Seq(Values(P, m)),
         Container(heap, o), ~heap[o].frozen,
         heap[o].itercount = 0 \/ Len(vs) = Len(heap[o].elems),
         Len(heap[o].keys) = IF Kind(o) = "dict" THEN Len(vs) ELSE 0,
         SetElems(o, vs)
  PROVE  Writes(P, m)
<1>1. o \in Known(P, m) /\ o \in Obj
  BY DEF Known, Own
<1>2. heap' = [heap EXCEPT ![o].keys = heap[o].keys, ![o].elems = vs]
  BY <1>1 DEF SetElems, HeapType
<1> QED
  BY <1>1, <1>2, Contents DEF Write, Writes

\* An execution can get hold of nothing but what it made and what is published.
LEMMA AccessBound ==
  ASSUME TypeOK, NEW P \in SUBSET Obj, Published(P), NEW m \in Module \ done
  PROVE  /\ Access(m) \subseteq Known(P, m) /\ Held(m) \subseteq Values(P, m)
         /\ Code(m) \subseteq done \cup {m}
<1> DEFINE C == P \cup Own(m)
           R == {o \in Obj : heap[o].home = m} \cup UNION {GlobalsOf(d) : d \in done}
<1>1. \A d \in done : GlobalsOf(d) \subseteq P
  BY DEF Published, TypeOK
<1>2. C \in SUBSET Obj /\ R \cap Obj \subseteq C
  BY <1>1 DEF Own
<1>3. \A x \in C : Uses[x] \subseteq C
  <2> TAKE x \in C
  <2>1. x \in Obj /\ Children(heap, x) \subseteq C
    BY DEF Own, Published
  <2>2. ASSUME Kind(x) = "function" PROVE GlobalsOf(heap[x].code) \subseteq C
    <3>1. heap[x].code \in done \cup {m}
      BY <2>2 DEF Published
    <3>2. GlobalsOf(m) \subseteq C
      BY DEF Published
    <3> QED
      BY <3>1, <3>2, <1>1
  <2> QED
    BY <2>1, <2>2 DEF Uses
<1>4. Access(m) \subseteq C
  <2> HIDE DEF C, R
  <2>1. Reach(Uses, R) \subseteq C
    BY <1>2, <1>3, UsesType, ReachLeast
  <2> QED
    BY <2>1 DEF Access, R
<1>5. \A f \in C : Kind(f) = "function" => heap[f].code \in done \cup {m}
  BY DEF Published
<1> QED
  BY <1>4, <1>5 DEF Code, Held, Values, Known

\* What it can change, it made.
LEMMA MutableIsOwn ==
  ASSUME TypeOK, NEW P \in SUBSET Obj, Published(P), NEW m \in Module \ done,
         NEW o \in Known(P, m), Container(heap, o), ~heap[o].frozen
  PROVE  o \in Own(m)
  BY DEF Published, Known

\* Displays, def, lambda and what copies.
LEMMA MakeEffect ==
  ASSUME NEW P, NEW m,
         \/ \E o \in Obj, k \in {"list", "tuple"}, vs \in BoundedSeq(Values(P, m), MaxLen) :
              MakeSequence(m, o, k, vs)
         \/ \E o \in Obj : MakeDict(m, o)
         \/ \E o \in Obj, vs \in BoundedSeq(Values(P, m), MaxLen), c \in done \cup {m} :
              MakeFunction(m, o, vs, c)
  PROVE  Alloc(P, m)
<1>1. BoundedSeq(Values(P, m), MaxLen) \subseteq Seq(Values(P, m))
  BY CollectionsAssumption DEF BoundedSeq, SeqOf
<1>2. CASE \E o \in Obj, k \in {"list", "tuple"}, vs \in BoundedSeq(Values(P, m), MaxLen) :
             MakeSequence(m, o, k, vs)
  BY <1>1, <1>2 DEF MakeSequence, Alloc
<1>3. CASE \E o \in Obj : MakeDict(m, o)
  <2>1. <<>> \in Seq(Values(P, m))
    OBVIOUS
  <2> QED
    BY <1>3, <2>1 DEF MakeDict, Alloc
<1>4. CASE \E o \in Obj, vs \in BoundedSeq(Values(P, m), MaxLen), c \in done \cup {m} :
             MakeFunction(m, o, vs, c)
  BY <1>1, <1>4 DEF MakeFunction, Alloc
<1> QED
  BY <1>2, <1>3, <1>4

\* What iteration yields, m can get hold of.
LEMMA YieldType ==
  ASSUME HeapType, NEW P \in SUBSET Obj, Published(P), NEW m \in Module \ done,
         NEW y \in Known(P, m)
  PROVE  Yield(y) \in Seq(Values(P, m))
  BY Contents DEF Yield

\* setIndex on a list that m made writes to it.
LEMMA StoreIndexWrites ==
  ASSUME TypeOK, NEW P \in SUBSET Obj, Published(P), NEW m \in Module \ done,
         NEW l \in Own(m), Kind(l) = "list", NEW i, NEW v \in Values(P, m),
         StoreIndex(l, i, v)
  PROVE  Writes(P, m)
<1> DEFINE s == heap[l].elems
<1>1. HeapType /\ l \in Obj /\ l \in Known(P, m)
  BY DEF TypeOK, HeapType, Known, Own
<1>2. s \in Seq(Values(P, m)) /\ Len(heap[l].keys) = 0
  BY <1>1, Contents DEF TypeOK
<1>3. PICK j \in DOMAIN s : ~heap[l].frozen /\ heap' = [heap EXCEPT ![l].elems[j] = v]
  BY DEF StoreIndex, Assignable
<1> DEFINE r == [s EXCEPT ![j] = v]
<1>4. r \in Seq(Values(P, m)) /\ Len(r) = Len(s)
  BY <1>2, ExceptSeq
<1>5. SetElems(l, r)
  BY <1>1, <1>3 DEF SetElems, HeapType
<1> HIDE DEF r
<1> QED
  BY <1>1, <1>2, <1>3, <1>4, <1>5, ElemsChange DEF Container, Kind

\* setIndex on a dict that m made writes to it.
LEMMA StoreKeyWrites ==
  ASSUME TypeOK, NEW P \in SUBSET Obj, Published(P), NEW m \in Module \ done,
         NEW d \in Own(m), Kind(d) = "dict", NEW k \in Values(P, m), NEW v \in Values(P, m),
         StoreKey(d, k, v)
  PROVE  Writes(P, m)
<1> DEFINE ks == heap[d].keys
           vs == heap[d].elems
           i  == KeyAt(d, k)
           r  == [vs EXCEPT ![i] = v]
<1>1. HeapType /\ d \in Obj /\ d \in Known(P, m)
  BY DEF TypeOK, HeapType, Known, Own
<1>2. ks \in Seq(Values(P, m)) /\ vs \in Seq(Values(P, m)) /\ Len(ks) = Len(vs)
  BY <1>1, Contents DEF TypeOK
<1>3. Mutable(d) /\ Container(heap, d)
  BY DEF StoreKey, Container, Kind
<1>4. CASE k \in ToSet(ks)
  <2>1. i \in DOMAIN ks
    BY <1>4 DEF KeyAt, ToSet
  <2>2. r \in Seq(Values(P, m)) /\ Len(r) = Len(vs)
    BY <1>2, <2>1, ExceptSeq
  <2>3. SetElems(d, r)
    BY <1>1, <1>4 DEF StoreKey, SetElems, HeapType
  <2> HIDE DEF r, i
  <2> QED
    BY <1>1, <1>2, <1>3, <2>2, <2>3, ElemsChange DEF Mutable
<1>5. CASE k \notin ToSet(ks)
  <2>1. heap' = [heap EXCEPT ![d].keys = Append(ks, k), ![d].elems = Append(vs, v)]
    BY <1>1, <1>5 DEF StoreKey, HeapType
  <2>2. /\ Append(ks, k) \in Seq(Values(P, m)) /\ Append(vs, v) \in Seq(Values(P, m))
        /\ Len(Append(ks, k)) = Len(Append(vs, v))
    BY <1>2
  <2>3. Write(d, Append(ks, k), Append(vs, v))
    BY <1>3, <2>1, <2>2 DEF Write, Mutable
  <2> QED
    BY <2>2, <2>3 DEF Writes
<1> QED
  BY <1>4, <1>5

\* The methods of lists and l[i] = v.
LEMMA ListEffect ==
  ASSUME TypeOK, NEW P \in SUBSET Obj, Published(P), NEW m \in Module \ done,
         NEW l \in Known(P, m),
         \/ \E v \in Values(P, m) : ListAppend(m, l, v)
         \/ \E y \in Known(P, m) : ListExtend(m, l, y)
         \/ \E i \in Index, v \in Values(P, m) : ListInsert(m, l, i, v)
         \/ \E i \in 1..MaxLen : ListRemove(m, l, i)
         \/ ListClear(m, l)
         \/ \E i \in Index, v \in Values(P, m) : SetIndex(m, l, i, v)
  PROVE  Change(P, m)
<1> DEFINE s == heap[l].elems
<1>1. HeapType /\ l \in Obj
  BY DEF TypeOK, HeapType, Known, Own
<1>2. s \in Seq(Values(P, m)) /\ Len(s) \in Nat
  BY <1>1, Contents
<1>3. Kind(l) = "list" /\ ~heap[l].frozen
  BY DEF ListAppend, ListExtend, ListInsert, ListRemove, ListClear, SetIndex, IsList, StoreIndex,
         Mutable, Assignable
<1>4. l \in Own(m) /\ Container(heap, l)
  BY <1>3, MutableIsOwn DEF Container, Kind
<1>5. ASSUME NEW vs \in Seq(Values(P, m)), SetElems(l, vs),
             heap[l].itercount = 0 \/ Len(vs) = Len(s)
      PROVE  Writes(P, m)
  <2>1. Len(heap[l].keys) = 0
    BY <1>1, <1>3 DEF TypeOK, Kind
  <2> QED
    BY <1>1, <1>3, <1>4, <1>5, <2>1, ElemsChange DEF Kind
<1>6. SUFFICES Writes(P, m)
  BY DEF Change, ListAppend, ListExtend, ListInsert, ListRemove, ListClear, SetIndex
<1> HIDE DEF s
<1>7. CASE \E v \in Values(P, m) : ListAppend(m, l, v)
  <2>1. PICK v \in Values(P, m) : Mutable(l) /\ SetElems(l, Append(s, v))
    BY <1>7 DEF ListAppend, s
  <2>2. Append(s, v) \in Seq(Values(P, m))
    BY <1>2
  <2> QED
    BY <2>1, <2>2, <1>5 DEF Mutable
<1>8. CASE \E y \in Known(P, m) : ListExtend(m, l, y)
  <2>1. PICK y \in Known(P, m) : Mutable(l) /\ SetElems(l, s \o Yield(y))
    BY <1>8 DEF ListExtend, s
  <2>2. s \o Yield(y) \in Seq(Values(P, m))
    BY <1>1, <1>2, YieldType
  <2> QED
    BY <2>1, <2>2, <1>5 DEF Mutable
<1>9. CASE \E i \in Index, v \in Values(P, m) : ListInsert(m, l, i, v)
  <2> DEFINE n == Len(s)
             Insert(j, v) == IF j >= n THEN Append(s, v)
                             ELSE InsertAt(s, IF j < 0 THEN 1 ELSE j + 1, v)
  <2>1. PICK i \in Index, v \in Values(P, m) : Mutable(l) /\ SetElems(l, Insert(Normal(i, n), v))
    BY <1>9 DEF ListInsert, s
  <2>2. Normal(i, n) \in Int
    BY <1>2, CollectionsAssumption DEF Normal
  <2>3. ASSUME NEW j \in Int PROVE Insert(j, v) \in Seq(Values(P, m))
    <3>1. CASE j >= n
      BY <3>1, <1>2
    <3>2. CASE j < n
      <4>1. (IF j < 0 THEN 1 ELSE j + 1) \in 1..Len(s) \/ n = 0
        BY <3>2, <1>2
      <4>2. CASE n = 0
        <5>1. InsertAt(s, IF j < 0 THEN 1 ELSE j + 1, v) \in Seq(Values(P, m))
          BY <4>2, <3>2, <1>2, SubSeqProperties, ConcatProperties DEF InsertAt
        <5> QED
          BY <5>1, <3>2
      <4> QED
        BY <4>1, <4>2, <3>2, <1>2, InsertAtType
    <3> QED
      BY <3>1, <3>2, <1>2
  <2> QED
    BY <2>1, <2>2, <2>3, <1>5 DEF Mutable
<1>10. CASE \E i \in 1..MaxLen : ListRemove(m, l, i)
  <2>1. PICK i \in DOMAIN s : Mutable(l) /\ SetElems(l, RemoveAt(s, i))
    BY <1>10 DEF ListRemove, s
  <2>2. RemoveAt(s, i) \in Seq(Values(P, m))
    BY <1>2, <2>1, RemoveAtType
  <2> QED
    BY <2>1, <2>2, <1>5 DEF Mutable
<1>11. CASE ListClear(m, l)
  <2>1. Mutable(l) /\ SetElems(l, <<>>) /\ <<>> \in Seq(Values(P, m))
    BY <1>11 DEF ListClear
  <2> QED
    BY <2>1, <1>5 DEF Mutable
<1>12. CASE \E i \in Index, v \in Values(P, m) : SetIndex(m, l, i, v)
  BY <1>1, <1>3, <1>4, <1>12, StoreIndexWrites DEF SetIndex
<1> QED
  BY <1>7, <1>8, <1>9, <1>10, <1>11, <1>12

\* The methods of dicts and d[k] = v.
LEMMA DictEffect ==
  ASSUME TypeOK, NEW P \in SUBSET Obj, Published(P), NEW m \in Module \ done,
         NEW d \in Known(P, m),
         \/ \E k \in Values(P, m), v \in Values(P, m) : SetKey(m, d, k, v)
         \/ \E i \in 1..MaxLen : DeleteKey(m, d, i)
         \/ DictClear(m, d)
  PROVE  Change(P, m)
<1> DEFINE ks == heap[d].keys
           vs == heap[d].elems
<1>1. HeapType /\ d \in Obj
  BY DEF TypeOK, HeapType, Known, Own
<1>2. Kind(d) = "dict" /\ Mutable(d)
  BY DEF SetKey, DeleteKey, DictClear, IsDict, StoreKey
<1>3. d \in Own(m) /\ Container(heap, d)
  BY <1>2, MutableIsOwn DEF Container, Kind, Mutable
<1>4. ks \in Seq(Values(P, m)) /\ vs \in Seq(Values(P, m)) /\ Len(ks) = Len(vs)
  BY <1>1, <1>2, Contents DEF TypeOK
<1>5. SUFFICES Writes(P, m)
  BY DEF Change, SetKey, DeleteKey, DictClear
<1>6. CASE \E k \in Values(P, m), v \in Values(P, m) : SetKey(m, d, k, v)
  BY <1>2, <1>3, <1>6, StoreKeyWrites DEF SetKey
<1>7. CASE \E i \in 1..MaxLen : DeleteKey(m, d, i)
  <2>1. PICK i \in DOMAIN ks : heap' = [heap EXCEPT ![d].keys = RemoveAt(@, i),
                                                    ![d].elems = RemoveAt(@, i)]
    BY <1>7 DEF DeleteKey
  <2> DEFINE a == RemoveAt(ks, i)
             b == RemoveAt(vs, i)
  <2>2. heap' = [heap EXCEPT ![d].keys = a, ![d].elems = b]
    BY <2>1, <1>1 DEF HeapType
  <2>3. i \in 1..Len(ks) /\ i \in 1..Len(vs)
    BY <2>1, <1>4
  <2>4. a \in Seq(Values(P, m)) /\ Len(a) = Len(ks) - 1
    BY <2>3, <1>4, RemoveAtType
  <2>5. b \in Seq(Values(P, m)) /\ Len(b) = Len(vs) - 1
    BY <2>3, <1>4, RemoveAtType
  <2> HIDE DEF a, b
  <2> QED
    BY <1>2, <1>3, <1>4, <2>2, <2>4, <2>5 DEF Write, Writes, Mutable
<1>8. CASE DictClear(m, d)
  <2>1. heap' = [heap EXCEPT ![d].keys = <<>>, ![d].elems = <<>>]
    BY <1>8 DEF DictClear
  <2>2. <<>> \in Seq(Values(P, m))
    OBVIOUS
  <2> QED
    BY <1>2, <1>3, <2>1, <2>2 DEF Write, Writes, Mutable
<1> QED
  BY <1>6, <1>7, <1>8

\* The top of a stack that is not empty.
LEMMA TopType ==
  ASSUME TypeOK, NEW m \in Module, stack[m] # <<>>
  PROVE  /\ Len(stack[m]) \in DOMAIN stack[m] /\ Len(stack[m]) \in 1..MaxDepth
         /\ Top(m) = stack[m][Len(stack[m])] /\ Top(m) \in Activity
<1>1. stack[m] \in Seq(Activity) /\ Len(stack[m]) <= MaxDepth
  BY DEF TypeOK
<1>2. Len(stack[m]) \in DOMAIN stack[m] /\ Len(stack[m]) \in Nat /\ Len(stack[m]) # 0
  BY <1>1
<1> QED
  BY <1>1, <1>2, CollectionsAssumption DEF Top, Last

\* The end of x[i] += y: what it changes is m's own.
LEMMA AugmentEffect ==
  ASSUME TypeOK, NEW P \in SUBSET Obj, Published(P), NEW m \in Module \ done,
         \/ \E y \in Known(P, m) : AugmentList(m, y)
         \/ \E v \in Values(P, m) : AugmentOther(m, v)
  PROVE  Change(P, m)
<1> DEFINE a == Top(m)
<1>1. stack[m] # <<>> /\ a.op \in Augmenting /\ Pop(m)
  BY DEF AugmentList, AugmentOther, Augmenting
<1>2. a \in Activity /\ Operands(a) \subseteq Known(P, m)
  BY <1>1, TopType DEF Published, Known
<1>3. HeapType
  BY DEF TypeOK, HeapType
<1>4. SUFFICES Writes(P, m)
  BY <1>1 DEF Change, AugmentEnds, AugmentList, AugmentOther
<1> HIDE DEF a
<1>5. CASE \E y \in Known(P, m) : AugmentList(m, y)
  <2> DEFINE l == a.old
  <2>1. PICK y \in Known(P, m) : /\ l \in Obj /\ Kind(l) = "list" /\ Mutable(l)
                                 /\ SetElems(l, heap[l].elems \o Yield(y))
    BY <1>5 DEF AugmentList, a
  <2>2. l \in Known(P, m)
    BY <1>1, <1>2, <2>1 DEF Operands
  <2>3. l \in Own(m) /\ Container(heap, l)
    BY <2>1, <2>2, MutableIsOwn DEF Container, Kind, Mutable
  <2>4. heap[l].elems \in Seq(Values(P, m)) /\ Yield(y) \in Seq(Values(P, m))
    BY <2>2, <1>3, Contents, YieldType
  <2>5. heap[l].elems \o Yield(y) \in Seq(Values(P, m))
    BY <2>4, ConcatProperties
  <2>6. Len(heap[l].keys) = 0
    BY <2>1 DEF TypeOK
  <2> HIDE DEF l
  <2> QED
    BY <1>3, <2>1, <2>3, <2>5, <2>6, ElemsChange DEF Mutable, Kind
<1>6. CASE \E v \in Values(P, m) : AugmentOther(m, v)
  <2>1. PICK v \in Values(P, m) :
          \/ a.op = "setindex" /\ Kind(a.obj) = "list" /\ StoreIndex(a.obj, a.at, v)
          \/ a.op = "setkey" /\ Kind(a.obj) = "dict" /\ StoreKey(a.obj, a.at, v)
    BY <1>6 DEF AugmentOther, a
  <2>2. a.obj \in Known(P, m)
    BY <1>2, <2>1 DEF Operands, Activity, Augmenting
  <2>3. CASE a.op = "setindex"
    <3>1. Kind(a.obj) = "list" /\ StoreIndex(a.obj, a.at, v) /\ ~heap[a.obj].frozen
      BY <2>1, <2>3 DEF StoreIndex, Assignable
    <3>2. a.obj \in Own(m)
      BY <2>2, <3>1, MutableIsOwn DEF Container, Kind
    <3> QED
      BY <3>1, <3>2, StoreIndexWrites
  <2>4. CASE a.op = "setkey"
    <3>1. Kind(a.obj) = "dict" /\ StoreKey(a.obj, a.at, v) /\ ~heap[a.obj].frozen
      BY <2>1, <2>4 DEF StoreKey, Mutable
    <3>2. a.obj \in Own(m)
      BY <2>2, <3>1, MutableIsOwn DEF Container, Kind
    <3>3. a.at \in Values(P, m)
      BY <2>4, <1>2 DEF Operands, Augmenting, Activity, Value, Values, Known
    <3> QED
      BY <3>1, <3>2, <3>3, StoreKeyWrites
  <2> QED
    BY <2>1, <2>3, <2>4
<1> QED
  BY <1>5, <1>6

\* The steps that change only the stack.
LEMMA StackEffect ==
  ASSUME TypeOK, NEW P \in SUBSET Obj, Published(P), NEW m \in Module \ done,
         \/ NextElem(m)
         \/ \E o \in Known(P, m) : Unpack(m, o)
         \/ UnpackNext(m)
         \/ \E l \in Known(P, m), i \in Index : AugmentIndex(m, l, i)
         \/ \E d \in Known(P, m), k \in Values(P, m) : AugmentKey(m, d, k)
         \/ \E l \in Known(P, m) : AugmentVariable(m, l)
  PROVE  StackOnly(P, m)
<1>1. HeapType /\ panicked \in BOOLEAN
  BY DEF TypeOK, HeapType
<1>2. Known(P, m) \subseteq Obj /\ Values(P, m) \subseteq Value /\ Known(P, m) \subseteq Values(P, m)
  BY DEF Known, Own, Values, Value
<1>3. \A o \in Obj : Len(heap[o].elems) \in Nat
  BY <1>1 DEF HeapType
<1>4. \A o \in Known(P, m) : \A i \in DOMAIN heap[o].elems : heap[o].elems[i] \in Values(P, m)
  <2> TAKE o \in Known(P, m)
  <2>1. heap[o].elems \in Seq(Values(P, m))
    BY <1>1, Contents
  <2> QED
    BY <2>1
<1>5. CASE NextElem(m)
  BY <1>1, <1>5 DEF NextElem, StackOnly, Advances
<1>6. CASE \E o \in Known(P, m) : Unpack(m, o)
  <2>1. PICK o \in Known(P, m) : Unpack(m, o)
    BY <1>6
  <2> DEFINE a == [op |-> "unpack", obj |-> o, i |-> 1, len |-> Len(heap[o].elems)]
  <2>2. a \in Activity /\ a.op # "iter" /\ Operands(a) \subseteq Known(P, m)
    BY <1>2, <1>3 DEF Activity, Operands, Augmenting
  <2> QED
    BY <1>1, <2>1, <2>2 DEF Unpack, StackOnly, Starts
<1>7. CASE UnpackNext(m)
  BY <1>1, <1>7 DEF UnpackNext, StackOnly, Advances
<1>8. CASE \E l \in Known(P, m), i \in Index : AugmentIndex(m, l, i)
  <2>1. PICK l \in Known(P, m), i \in Index : AugmentIndex(m, l, i)
    BY <1>8
  <2> DEFINE v == heap[l].elems[Normal(i, Len(heap[l].elems)) + 1]
             a == [op |-> "setindex", obj |-> l, at |-> i, old |-> v]
  <2>2. v \in Values(P, m)
    BY <2>1, <1>4 DEF AugmentIndex
  <2> HIDE DEF v
  <2>3. a \in Activity /\ a.op # "iter"
    BY <1>2, <2>2 DEF Activity
  <2>4. Operands(a) \subseteq Known(P, m)
    BY <2>2, CollectionsAssumption DEF Operands, Values
  <2>5. Push(m, a)
    BY <2>1 DEF AugmentIndex, v
  <2> QED
    BY <1>1, <2>1, <2>3, <2>4, <2>5 DEF AugmentIndex, StackOnly, Starts
<1>9. CASE \E d \in Known(P, m), k \in Values(P, m) : AugmentKey(m, d, k)
  <2>1. PICK d \in Known(P, m), k \in Values(P, m) : AugmentKey(m, d, k)
    BY <1>9
  <2> DEFINE v == heap[d].elems[KeyAt(d, k)]
             a == [op |-> "setkey", obj |-> d, at |-> k, old |-> v]
  <2>2. heap[d].keys \in Seq(Values(P, m)) /\ heap[d].elems \in Seq(Values(P, m))
    BY <1>1, Contents
  <2>3. KeyAt(d, k) \in DOMAIN heap[d].keys
    BY <2>1 DEF AugmentKey, KeyAt, ToSet
  <2>4. Len(heap[d].keys) = Len(heap[d].elems)
    BY <2>1, <1>2 DEF AugmentKey, IsDict, TypeOK
  <2>5. v \in Values(P, m)
    BY <2>2, <2>3, <2>4
  <2> HIDE DEF v
  <2>6. a \in Activity /\ a.op # "iter"
    BY <1>2, <2>5 DEF Activity
  <2>7. Operands(a) \subseteq Known(P, m)
    BY <2>5, CollectionsAssumption DEF Operands, Values
  <2>8. Push(m, a)
    BY <2>1 DEF AugmentKey, v
  <2> QED
    BY <1>1, <2>1, <2>6, <2>7, <2>8 DEF AugmentKey, StackOnly, Starts
<1>10. CASE \E l \in Known(P, m) : AugmentVariable(m, l)
  <2>1. PICK l \in Known(P, m) : AugmentVariable(m, l)
    BY <1>10
  <2> DEFINE a == [op |-> "setvariable", obj |-> Unset, at |-> Unset, old |-> l]
  <2>2. a \in Activity /\ a.op # "iter" /\ Operands(a) \subseteq Known(P, m)
    BY <1>2, CollectionsAssumption DEF Activity, Operands
  <2> QED
    BY <1>1, <2>1, <2>2 DEF AugmentVariable, StackOnly, Starts
<1> QED
  BY <1>5, <1>6, <1>7, <1>8, <1>9, <1>10

\* Every step has one of the effects.
LEMMA Effects ==
  ASSUME TypeOK, NEW P \in SUBSET Obj, Published(P), NEW m \in Module, Step(m)
  PROVE  Running(m) /\ Effect(P, m)
<1>1. Running(m)
  BY DEF Step, MakeSequence, MakeDict, MakeFunction, ListAppend, ListExtend, ListInsert,
         ListRemove, ListClear, SetIndex, SetKey, DeleteKey, DictClear, Iterate, NextElem,
         Unpack, UnpackNext, AugmentIndex, AugmentKey, AugmentVariable, AugmentList,
         AugmentOther, Leave, SetGlobal, FreezeValue, Exec, IsList, IsDict
<1>2. m \in Module \ done
  BY <1>1 DEF Running
<1>3. Access(m) \subseteq Known(P, m) /\ Held(m) \subseteq Values(P, m) /\ Code(m) \subseteq done \cup {m}
  BY <1>2, AccessBound
<1>4. BoundedSeq(Held(m), MaxLen) \subseteq BoundedSeq(Values(P, m), MaxLen)
  BY <1>3, CollectionsAssumption DEF BoundedSeq, SeqOf
<1>5. CASE \/ \E o \in Obj, k \in {"list", "tuple"}, vs \in BoundedSeq(Held(m), MaxLen) :
                MakeSequence(m, o, k, vs)
           \/ \E o \in Obj : MakeDict(m, o)
           \/ \E o \in Obj, vs \in BoundedSeq(Held(m), MaxLen), c \in Code(m) :
                MakeFunction(m, o, vs, c)
  <2>1. Alloc(P, m)
    BY <1>3, <1>4, <1>5, MakeEffect
  <2> QED
    BY <1>1, <2>1 DEF Effect
<1>6. CASE \E l \in Access(m) : \/ \E v \in Held(m) : ListAppend(m, l, v)
                                \/ \E y \in Access(m) : ListExtend(m, l, y)
                                \/ \E i \in Index, v \in Held(m) : ListInsert(m, l, i, v)
                                \/ \E i \in 1..MaxLen : ListRemove(m, l, i)
                                \/ ListClear(m, l)
                                \/ \E i \in Index, v \in Held(m) : SetIndex(m, l, i, v)
  <2>1. Change(P, m)
    BY <1>2, <1>3, <1>6, ListEffect
  <2> QED
    BY <1>1, <2>1 DEF Effect
<1>7. CASE \E d \in Access(m) : \/ \E k \in Held(m), v \in Held(m) : SetKey(m, d, k, v)
                                \/ \E i \in 1..MaxLen : DeleteKey(m, d, i)
                                \/ DictClear(m, d)
  <2>1. Change(P, m)
    BY <1>2, <1>3, <1>7, DictEffect
  <2> QED
    BY <1>1, <2>1 DEF Effect
<1>8. CASE (\E y \in Access(m) : AugmentList(m, y)) \/ (\E v \in Held(m) : AugmentOther(m, v))
  <2>1. Change(P, m)
    BY <1>2, <1>3, <1>8, AugmentEffect
  <2> QED
    BY <1>1, <2>1 DEF Effect
<1>9. CASE \/ NextElem(m)
           \/ \E o \in Access(m) : Unpack(m, o)
           \/ UnpackNext(m)
           \/ \E l \in Access(m), i \in Index : AugmentIndex(m, l, i)
           \/ \E d \in Access(m), k \in Held(m) : AugmentKey(m, d, k)
           \/ \E l \in Access(m) : AugmentVariable(m, l)
  <2>1. StackOnly(P, m)
    BY <1>2, <1>3, <1>9, StackEffect
  <2> QED
    BY <1>1, <2>1 DEF Effect
<1>10. CASE \/ \E o \in Access(m) : Iterate(m, o)
            \/ Leave(m)
            \/ \E x \in Name, v \in Held(m) : SetGlobal(m, x, v)
            \/ \E v \in Access(m) : FreezeValue(m, v)
            \/ Exec(m)
  BY <1>1, <1>3, <1>10 DEF Effect
<1> QED
  BY <1>5, <1>6, <1>7, <1>8, <1>9, <1>10 DEF Step

(***************************************************************************)
(* The stack and the heap after each effect.                               *)
(***************************************************************************)
StackType ==
  /\ stack \in [Module -> Seq(Activity)]
  /\ \A m \in Module : Len(stack[m]) <= MaxDepth

\* The stack without its top.
LEMMA PopFacts ==
  ASSUME StackType, NEW m \in Module, stack[m] # <<>>, Pop(m)
  PROVE  /\ StackType'
         /\ \A n \in Module \ {m} : stack'[n] = stack[n]
         /\ Len(stack[m]) \in Nat \ {0}
         /\ DOMAIN stack[m] = 1..Len(stack[m])
         /\ DOMAIN stack'[m] = 1..(Len(stack[m]) - 1)
         /\ \A j \in DOMAIN stack'[m] : stack'[m][j] = stack[m][j]
<1> DEFINE s == stack[m]
           t == SubSeq(s, 1, Len(s) - 1)
<1>1. s \in Seq(Activity) /\ Len(s) \in Nat \ {0} /\ Len(s) <= MaxDepth
  BY DEF StackType
<1>2. t \in Seq(Activity) /\ Len(t) = Len(s) - 1 /\ \A j \in 1..Len(s) - 1 : t[j] = s[j]
  BY <1>1, SubSeqProperties
<1>3. stack' = [stack EXCEPT ![m] = t]
  BY DEF Pop, Front
<1> HIDE DEF t
<1>4. stack'[m] = t /\ stack' \in [Module -> Seq(Activity)]
  BY <1>2, <1>3 DEF StackType
<1>5. \A n \in Module \ {m} : stack'[n] = stack[n]
  BY <1>3 DEF StackType
<1>6. StackType'
  <2>1. Len(t) <= MaxDepth
    BY <1>1, <1>2, CollectionsAssumption
  <2>2. \A n \in Module : Len(stack'[n]) <= MaxDepth
    BY <1>4, <1>5, <2>1 DEF StackType
  <2> QED
    BY <1>4, <2>2 DEF StackType
<1>7. DOMAIN t = 1..(Len(s) - 1) /\ DOMAIN s = 1..Len(s)
  BY <1>1, <1>2
<1> QED
  BY <1>1, <1>2, <1>4, <1>5, <1>6, <1>7

\* The stack with one more on top.
LEMMA PushFacts ==
  ASSUME StackType, NEW m \in Module, NEW a \in Activity, Push(m, a)
  PROVE  /\ StackType'
         /\ \A n \in Module \ {m} : stack'[n] = stack[n]
         /\ Len(stack[m]) + 1 \in 1..MaxDepth
         /\ DOMAIN stack[m] = 1..Len(stack[m])
         /\ DOMAIN stack'[m] = 1..(Len(stack[m]) + 1)
         /\ stack'[m][Len(stack[m]) + 1] = a
         /\ \A j \in DOMAIN stack[m] : stack'[m][j] = stack[m][j]
<1> DEFINE s == stack[m]
           t == Append(s, a)
<1>1. s \in Seq(Activity) /\ Len(s) \in Nat /\ Len(s) < MaxDepth
  BY DEF StackType, Push
<1>2. /\ t \in Seq(Activity) /\ Len(t) = Len(s) + 1 /\ t[Len(s) + 1] = a
      /\ \A j \in 1..Len(s) : t[j] = s[j]
  BY <1>1
<1>3. stack' = [stack EXCEPT ![m] = t]
  BY DEF Push
<1>4. DOMAIN t = 1..(Len(s) + 1) /\ DOMAIN s = 1..Len(s)
  BY <1>1, <1>2
<1> HIDE DEF t
<1>5. stack'[m] = t /\ stack' \in [Module -> Seq(Activity)]
  BY <1>2, <1>3 DEF StackType
<1>6. \A n \in Module \ {m} : stack'[n] = stack[n]
  BY <1>3 DEF StackType
<1>7. StackType'
  <2>1. Len(t) <= MaxDepth
    BY <1>1, <1>2, CollectionsAssumption
  <2>2. \A n \in Module : Len(stack'[n]) <= MaxDepth
    BY <1>5, <1>6, <2>1 DEF StackType
  <2> QED
    BY <1>5, <2>2 DEF StackType
<1> QED
  BY <1>1, <1>2, <1>4, <1>5, <1>6, <1>7, CollectionsAssumption

\* The stack whose top has gone on to the next element.
LEMMA AdvanceFacts ==
  ASSUME TypeOK, NEW m \in Module, Advances(m)
  PROVE  /\ StackType'
         /\ \A n \in Module \ {m} : stack'[n] = stack[n]
         /\ DOMAIN stack[m] = 1..Len(stack[m]) /\ Len(stack[m]) \in DOMAIN stack[m]
         /\ DOMAIN stack'[m] = DOMAIN stack[m]
         /\ \A j \in DOMAIN stack[m] :
              stack'[m][j] = IF j = Len(stack[m]) THEN [stack[m][j] EXCEPT !.i = @ + 1]
                             ELSE stack[m][j]
<1> DEFINE s == stack[m]
           a == [Top(m) EXCEPT !.i = @ + 1]
           f == SubSeq(s, 1, Len(s) - 1)
           t == Append(f, a)
<1>1. s \in Seq(Activity) /\ Len(s) \in Nat \ {0} /\ Len(s) <= MaxDepth
  BY DEF TypeOK, Advances
<1>2. Top(m) = s[Len(s)] /\ Top(m) \in Activity
  BY TopType DEF Advances
<1>3. a \in Activity
  BY <1>2 DEF Activity, Advances
<1>4. f \in Seq(Activity) /\ Len(f) = Len(s) - 1 /\ \A j \in 1..Len(s) - 1 : f[j] = s[j]
  BY <1>1, SubSeqProperties
<1>5. stack' = [stack EXCEPT ![m] = t]
  BY DEF Advances, Replace, Front
<1> HIDE DEF a, f
<1>6. /\ t \in Seq(Activity) /\ Len(t) = Len(s) /\ t[Len(s)] = a
      /\ \A j \in 1..Len(s) - 1 : t[j] = f[j]
  BY <1>1, <1>3, <1>4
<1>7. DOMAIN t = 1..Len(s) /\ DOMAIN s = 1..Len(s)
  BY <1>1, <1>6
<1> HIDE DEF t
<1>8. stack'[m] = t /\ stack' \in [Module -> Seq(Activity)]
  BY <1>5, <1>6 DEF TypeOK
<1>9. \A n \in Module \ {m} : stack'[n] = stack[n]
  BY <1>5 DEF TypeOK
<1>10. StackType'
  <2>1. Len(t) <= MaxDepth
    BY <1>1, <1>6
  <2>2. \A n \in Module : Len(stack'[n]) <= MaxDepth
    BY <1>8, <1>9, <2>1 DEF TypeOK
  <2> QED
    BY <1>8, <2>2 DEF StackType
<1>11. \A j \in 1..Len(s) : t[j] = IF j = Len(s) THEN a ELSE s[j]
  BY <1>1, <1>4, <1>6
<1>12. a = [s[Len(s)] EXCEPT !.i = @ + 1]
  BY <1>2 DEF a
<1>13. \A j \in DOMAIN s : t[j] = IF j = Len(s) THEN [s[j] EXCEPT !.i = @ + 1] ELSE s[j]
  BY <1>7, <1>11, <1>12
<1>14. Len(s) \in DOMAIN s
  BY <1>1, <1>7
<1> QED
  BY <1>7, <1>8, <1>9, <1>10, <1>13, <1>14

\* Freezing sets the flag of the lists and dicts that it reaches, and nothing else.
LEMMA FrozenFacts ==
  ASSUME HeapType, NEW R, heap' = Frozen(heap, R)
  PROVE  /\ HeapType'
         /\ \A o \in Obj :
              /\ heap'[o].kind = heap[o].kind /\ heap'[o].keys = heap[o].keys
              /\ heap'[o].elems = heap[o].elems /\ heap'[o].itercount = heap[o].itercount
              /\ heap'[o].home = heap[o].home /\ heap'[o].code = heap[o].code
              /\ heap'[o].frozen <=>
                   heap[o].frozen \/ (Container(heap, o) /\ o \in Reach(FreezeEdges(heap), R))
              /\ heap[o].frozen => heap'[o] = heap[o]
<1> DEFINE F == Reach(FreezeEdges(heap), R)
<1> HIDE DEF F
<1>1. heap' = [o \in Obj |-> IF Container(heap, o) /\ o \in F THEN [heap[o] EXCEPT !.frozen = TRUE]
                             ELSE heap[o]]
  BY DEF Frozen, F
<1>2. HeapType'
  <2> DEFINE V == [kind : {"free", "list", "dict", "tuple", "function"}, keys : Seq(Value),
                   elems : Seq(Value), frozen : BOOLEAN, itercount : Nat,
                   home : Module \cup {Unset}, code : Module \cup {Unset}]
  <2>1. \A o \in Obj : heap[o] \in V
    BY DEF HeapType
  <2>2. \A r \in V : [r EXCEPT !.frozen = TRUE] \in V
    OBVIOUS
  <2> HIDE DEF V
  <2>3. heap' \in [Obj -> V]
    BY <1>1, <2>1, <2>2
  <2> QED
    BY <2>3 DEF HeapType, V
<1>3. \A o \in Obj :
        /\ heap'[o].kind = heap[o].kind /\ heap'[o].keys = heap[o].keys
        /\ heap'[o].elems = heap[o].elems /\ heap'[o].itercount = heap[o].itercount
        /\ heap'[o].home = heap[o].home /\ heap'[o].code = heap[o].code
        /\ heap'[o].frozen <=> heap[o].frozen \/ (Container(heap, o) /\ o \in F)
        /\ heap[o].frozen => heap'[o] = heap[o]
  BY <1>1 DEF HeapType
<1> QED
  BY <1>2, <1>3 DEF F

(***************************************************************************)
(* TypeOK and Allocation are preserved by each effect.                     *)
(***************************************************************************)
KeysType ==
  \A o \in Obj : Len(heap[o].keys) = IF Kind(o) = "dict" THEN Len(heap[o].elems) ELSE 0
RestType ==
  /\ globals \in [Module -> [Name -> Value \cup {Unset}]]
  /\ done \subseteq Module /\ panicked \in BOOLEAN
Types == HeapType /\ KeysType /\ RestType /\ StackType

\* The types, by parts.
LEMMA TypesOK == TypeOK <=> Types
  BY DEF TypeOK, Types, HeapType, KeysType, RestType, StackType

\* What each address holds after Alloc.
Made(P, m, o) ==
  /\ heap[o].kind = "free"
  /\ heap'[o].kind \in {"list", "tuple", "dict", "function"}
  /\ heap'[o].keys = <<>> /\ heap'[o].elems \in Seq(Values(P, m))
  /\ heap'[o].kind = "dict" => heap'[o].elems = <<>>
  /\ ~heap'[o].frozen /\ heap'[o].itercount = 0
  /\ heap'[o].home = m /\ heap'[o].code \in done \cup {m, Unset}
  /\ heap'[o].kind = "function" => heap'[o].code \in done \cup {m}
  /\ \A p \in Obj \ {o} : heap'[p] = heap[p]
  /\ HeapType'

LEMMA AllocFacts ==
  ASSUME TypeOK, NEW P \in SUBSET Obj, NEW m \in Module, Alloc(P, m)
  PROVE  \E o \in Obj : Made(P, m, o)
<1>1. PICK o \in Obj, k \in {"list", "tuple", "dict", "function"}, vs \in Seq(Values(P, m)),
           c \in done \cup {m, Unset} :
        /\ Allocate(o, k, vs, m, c)
        /\ k = "dict" => vs = <<>>
        /\ k = "function" => c \in done \cup {m}
  BY DEF Alloc
<1> DEFINE r == New(k, vs, m, c)
<1>2. /\ r.kind = k /\ r.keys = <<>> /\ r.elems = vs /\ r.frozen = FALSE /\ r.itercount = 0
      /\ r.home = m /\ r.code = c
  BY DEF New, Free
<1>3. r \in [kind : {"free", "list", "dict", "tuple", "function"},
             keys : Seq(Value), elems : Seq(Value), frozen : BOOLEAN,
             itercount : Nat, home : Module \cup {Unset}, code : Module \cup {Unset}]
  <2>1. vs \in Seq(Value)
    BY DEF Values, Known, Own, Value
  <2>2. c \in Module \cup {Unset}
    BY DEF TypeOK
  <2>3. <<>> \in Seq(Value)
    OBVIOUS
  <2> QED
    BY <2>1, <2>2, <2>3 DEF New, Free
<1> HIDE DEF r
<1>4. heap' = [heap EXCEPT ![o] = r] /\ heap[o].kind = "free"
  BY <1>1 DEF Allocate, Kind, r
<1>5. heap'[o] = r /\ \A p \in Obj \ {o} : heap'[p] = heap[p]
  BY <1>4 DEF TypeOK
<1>6. HeapType'
  BY <1>3, <1>4 DEF TypeOK, HeapType
<1> QED
  BY <1>1, <1>2, <1>4, <1>5, <1>6 DEF Made

\* A new value has a type, and an owner.
LEMMA AllocTypes ==
  ASSUME TypeOK, Allocation, NEW P \in SUBSET Obj, NEW m \in Module \ done, Alloc(P, m)
  PROVE  TypeOK' /\ Allocation'
<1>1. PICK o \in Obj : Made(P, m, o)
  BY AllocFacts
<1> USE DEF Made
<1>2. UNCHANGED <<globals, done, stack, panicked>>
  BY DEF Alloc
<1>3. KeysType'
  BY <1>1, TypesOK DEF Types, KeysType, Kind
<1>4. TypeOK'
  BY <1>1, <1>2, <1>3 DEF TypeOK, HeapType, KeysType
<1>5. m # Unset /\ done \subseteq Module
  BY CollectionsAssumption DEF TypeOK
<1>6. Allocation'
  BY <1>1, <1>2, <1>5 DEF Allocation, Kind, Container
<1> QED
  BY <1>4, <1>6

\* What each address holds after Write.
LEMMA WriteFacts ==
  ASSUME TypeOK, NEW P \in SUBSET Obj, NEW m \in Module, NEW o \in Own(m),
         NEW ks \in Seq(Values(P, m)), NEW vs \in Seq(Values(P, m)), Write(o, ks, vs)
  PROVE  /\ HeapType' /\ KeysType'
         /\ \A p \in Obj \ {o} : heap'[p] = heap[p]
         /\ heap'[o].keys = ks /\ heap'[o].elems = vs
         /\ heap'[o].kind = heap[o].kind /\ heap'[o].frozen = heap[o].frozen
         /\ heap'[o].itercount = heap[o].itercount /\ heap'[o].home = heap[o].home
         /\ heap'[o].code = heap[o].code
<1>1. ks \in Seq(Value) /\ vs \in Seq(Value) /\ o \in Obj
  BY DEF Values, Known, Own, Value
<1> DEFINE V == [kind : {"free", "list", "dict", "tuple", "function"}, keys : Seq(Value),
                 elems : Seq(Value), frozen : BOOLEAN, itercount : Nat,
                 home : Module \cup {Unset}, code : Module \cup {Unset}]
           r == [heap[o] EXCEPT !.keys = ks, !.elems = vs]
<1>2. HeapType' /\ \A p \in Obj \ {o} : heap'[p] = heap[p]
  <2>1. heap \in [Obj -> V]
    BY DEF TypeOK
  <2>2. r \in V
    BY <1>1, <2>1
  <2>3. heap' = [heap EXCEPT ![o] = r]
    BY <1>1, <2>1 DEF Write
  <2> HIDE DEF V, r
  <2>4. heap' \in [Obj -> V] /\ \A p \in Obj \ {o} : heap'[p] = heap[p]
    BY <2>1, <2>2, <2>3
  <2> QED
    BY <2>4 DEF HeapType, V
<1>3. /\ heap'[o].keys = ks /\ heap'[o].elems = vs
      /\ heap'[o].kind = heap[o].kind /\ heap'[o].frozen = heap[o].frozen
      /\ heap'[o].itercount = heap[o].itercount /\ heap'[o].home = heap[o].home
      /\ heap'[o].code = heap[o].code
  BY <1>1 DEF Write, TypeOK
<1>4. KeysType'
  <2>1. Len(ks) = IF heap[o].kind = "dict" THEN Len(vs) ELSE 0
    BY DEF Write, Kind
  <2> QED
    BY <1>2, <1>3, <2>1 DEF TypeOK, KeysType, Kind
<1> QED
  BY <1>2, <1>3, <1>4

\* A change respects types and owners.
LEMMA ChangeTypes ==
  ASSUME TypeOK, Allocation, NEW P \in SUBSET Obj, NEW m \in Module \ done, Change(P, m)
  PROVE  TypeOK' /\ Allocation'
<1>1. PICK o \in Own(m), ks \in Seq(Values(P, m)), vs \in Seq(Values(P, m)) : Write(o, ks, vs)
  BY DEF Change, Writes
<1>2. /\ HeapType' /\ KeysType'
      /\ \A p \in Obj \ {o} : heap'[p] = heap[p]
      /\ heap'[o].kind = heap[o].kind /\ heap'[o].frozen = heap[o].frozen
      /\ heap'[o].home = heap[o].home /\ heap'[o].code = heap[o].code
  BY <1>1, WriteFacts
<1>3. UNCHANGED <<globals, done, panicked>>
  BY DEF Change
<1>4. StackType' /\ \A n \in Module \ {m} : stack'[n] = stack[n]
  <2>1. StackType
    BY TypesOK DEF Types
  <2>2. CASE UNCHANGED stack
    BY <2>1, <2>2 DEF StackType
  <2>3. CASE AugmentEnds(m)
    BY <2>1, <2>3, PopFacts DEF AugmentEnds
  <2> QED
    BY <2>2, <2>3 DEF Change
<1>5. TypeOK'
  BY <1>2, <1>3, <1>4 DEF TypeOK, HeapType, KeysType, StackType
<1>6. Allocation'
  <2>1. \A p \in Obj :
          /\ heap'[p].kind = heap[p].kind /\ heap'[p].frozen = heap[p].frozen
          /\ heap'[p].home = heap[p].home /\ heap'[p].code = heap[p].code
    BY <1>2
  <2>2. \A n \in done : stack'[n] = <<>>
    BY <1>4 DEF Allocation, TypeOK
  <2> QED
    BY <2>1, <2>2, <1>3 DEF Allocation, Kind, Container
<1> QED
  BY <1>5, <1>6

\* The values refer to the same values as before.
SameValues ==
  \A p \in Obj : /\ heap'[p].kind = heap[p].kind /\ heap'[p].keys = heap[p].keys
                 /\ heap'[p].elems = heap[p].elems
                 /\ heap'[p].home = heap[p].home /\ heap'[p].code = heap[p].code
SameFlags == \A p \in Obj : heap'[p].frozen = heap[p].frozen

\* What each address holds after a change of a count of iterators.
LEMMA CountFacts ==
  ASSUME HeapType, NEW o \in Obj, NEW n \in Nat, heap' = [heap EXCEPT ![o].itercount = n]
  PROVE  /\ HeapType' /\ SameValues /\ SameFlags
         /\ heap'[o].itercount = n
         /\ \A p \in Obj \ {o} : heap'[p] = heap[p]
<1> DEFINE V == [kind : {"free", "list", "dict", "tuple", "function"}, keys : Seq(Value),
                 elems : Seq(Value), frozen : BOOLEAN, itercount : Nat,
                 home : Module \cup {Unset}, code : Module \cup {Unset}]
           r == [heap[o] EXCEPT !.itercount = n]
<1>1. heap \in [Obj -> V]
  BY DEF HeapType
<1>2. r \in V
  BY <1>1
<1>3. /\ r.kind = heap[o].kind /\ r.keys = heap[o].keys /\ r.elems = heap[o].elems
      /\ r.home = heap[o].home /\ r.code = heap[o].code /\ r.frozen = heap[o].frozen
      /\ r.itercount = n
  BY <1>1
<1>4. heap' = [heap EXCEPT ![o] = r]
  BY <1>1
<1> HIDE DEF V, r
<1>5. heap' \in [Obj -> V] /\ heap'[o] = r /\ \A p \in Obj \ {o} : heap'[p] = heap[p]
  BY <1>1, <1>2, <1>4
<1>6. SameValues /\ SameFlags
  BY <1>3, <1>5 DEF SameValues, SameFlags
<1> QED
  BY <1>3, <1>5, <1>6 DEF HeapType, V

\* As long as values, globals and done are the same, so are types and allocation.
LEMMA SameTypes ==
  ASSUME TypeOK, Allocation, NEW m \in Module \ done, HeapType', SameValues, StackType', RestType',
         \A p \in Obj : heap'[p].frozen => heap[p].frozen \/ Container(heap, p),
         \A n \in Module \ {m} : stack'[n] = stack[n],
         done' = done \/ (done' = done \cup {m} /\ stack'[m] = <<>>)
  PROVE  TypeOK' /\ Allocation'
<1>1. KeysType'
  <2>1. KeysType
    BY DEF TypeOK, KeysType
  <2> QED
    BY <2>1 DEF SameValues, KeysType, Kind
<1>2. TypeOK'
  BY <1>1 DEF TypeOK, HeapType, KeysType, StackType, RestType
<1>3. \A n \in done' : stack'[n] = <<>>
  BY DEF Allocation, TypeOK
<1>4. Allocation'
  BY <1>3 DEF SameValues, Allocation, Kind, Container
<1> QED
  BY <1>2, <1>4

\* The loops over a value can be counted.
LEMMA LoopsFinite ==
  ASSUME NEW o
  PROVE  IsFiniteSet(Loops(o)) /\ Cardinality(Loops(o)) \in Nat
         /\ (Cardinality(Loops(o)) = 0 <=> Loops(o) = {})
<1>1. IsFiniteSet(1..MaxDepth)
  BY FS_Interval, CollectionsAssumption
<1>2. IsFiniteSet(Module \X (1..MaxDepth))
  BY <1>1, FS_Product, CollectionsAssumption
<1>3. Loops(o) \subseteq Module \X (1..MaxDepth)
  BY DEF Loops
<1>4. IsFiniteSet(Loops(o))
  BY <1>2, <1>3, FS_Subset
<1> QED
  BY <1>4, FS_CardinalityType, FS_EmptySet

\* If nothing changes, nothing changes.
LEMMA UnchangedHeap ==
  ASSUME HeapType, heap' = heap
  PROVE  HeapType' /\ SameValues /\ SameFlags
  BY DEF HeapType, SameValues, SameFlags

\* What each address holds after Iterate, and what is pushed.
LEMMA IterateFacts ==
  ASSUME TypeOK, NEW m \in Module, NEW o \in Obj, Iterate(m, o)
  PROVE  /\ HeapType' /\ SameValues /\ SameFlags
         /\ heap'[o].itercount = IF Counted(o) THEN heap[o].itercount + 1 ELSE heap[o].itercount
         /\ \A p \in Obj \ {o} : heap'[p] = heap[p]
         /\ \E a \in Activity : /\ a.op = "iter" /\ a.obj = o /\ a.i = 0
                                /\ a.len = Len(heap[o].elems) /\ Push(m, a)
<1>1. HeapType
  BY TypesOK DEF Types
<1>2. heap[o].itercount \in Nat /\ Len(heap[o].elems) \in Nat
  BY <1>1 DEF HeapType
<1>3. \E a \in Activity : /\ a.op = "iter" /\ a.obj = o /\ a.i = 0
                          /\ a.len = Len(heap[o].elems) /\ Push(m, a)
  <2> DEFINE a == [op |-> "iter", obj |-> o, i |-> 0, len |-> Len(heap[o].elems)]
  <2>1. a \in Activity /\ a.op = "iter" /\ a.obj = o /\ a.i = 0 /\ a.len = Len(heap[o].elems)
    BY <1>2 DEF Activity
  <2>2. Push(m, a)
    BY DEF Iterate
  <2> QED
    BY <2>1, <2>2
<1>4. CASE Counted(o)
  <2> DEFINE n == heap[o].itercount + 1
  <2>1. heap' = [heap EXCEPT ![o].itercount = n] /\ n \in Nat
    BY <1>1, <1>2, <1>4 DEF Iterate, HeapType
  <2> HIDE DEF n
  <2>2. /\ HeapType' /\ SameValues /\ SameFlags /\ heap'[o].itercount = n
        /\ \A p \in Obj \ {o} : heap'[p] = heap[p]
    BY <1>1, <2>1, CountFacts
  <2> QED
    BY <1>3, <1>4, <2>2 DEF n
<1>5. CASE ~Counted(o)
  <2>1. heap' = heap
    BY <1>5 DEF Iterate
  <2> QED
    BY <1>1, <1>3, <1>5, <2>1, UnchangedHeap
<1> QED
  BY <1>4, <1>5

\* The loop that Leave leaves is counted.
LEMMA LeaveFacts ==
  ASSUME TypeOK, LoopsCounted, NEW m \in Module, Leave(m)
  PROVE  /\ HeapType' /\ SameValues /\ SameFlags
         /\ Top(m).op = "iter" /\ Counted(Top(m).obj) =>
              heap'[Top(m).obj].itercount = heap[Top(m).obj].itercount - 1
         /\ \A p \in Obj : ~(Top(m).op = "iter" /\ Counted(p) /\ p = Top(m).obj) =>
              heap'[p] = heap[p]
<1> DEFINE o == Top(m).obj
<1>1. HeapType
  BY TypesOK DEF Types
<1>2. CASE Top(m).op = "iter" /\ Counted(o)
  <2>1. /\ Len(stack[m]) \in DOMAIN stack[m] /\ Len(stack[m]) \in 1..MaxDepth
        /\ Top(m) = stack[m][Len(stack[m])] /\ Top(m) \in Activity
    BY TopType DEF Leave
  <2>2. o \in Obj
    BY <1>2, <2>1 DEF Activity
  <2>3. <<m, Len(stack[m])>> \in Loops(o)
    BY <1>2, <2>1 DEF Loops, LoopAt
  <2>4. heap[o].itercount = Cardinality(Loops(o))
    BY <1>2, <2>2 DEF LoopsCounted, Counted
  <2> DEFINE n == heap[o].itercount - 1
  <2>5. n \in Nat
    BY <2>3, <2>4, LoopsFinite
  <2>6. heap' = [heap EXCEPT ![o].itercount = n]
    BY <1>1, <1>2, <2>2 DEF Leave, HeapType
  <2> HIDE DEF n
  <2>7. /\ HeapType' /\ SameValues /\ SameFlags /\ heap'[o].itercount = n
        /\ \A p \in Obj \ {o} : heap'[p] = heap[p]
    BY <1>1, <2>2, <2>5, <2>6, CountFacts
  <2> QED
    BY <1>2, <2>7 DEF n
<1>3. CASE ~(Top(m).op = "iter" /\ Counted(o))
  <2>1. heap' = heap
    BY <1>3 DEF Leave
  <2> QED
    BY <1>1, <1>3, <2>1, UnchangedHeap
<1> QED
  BY <1>2, <1>3

\* Types and Allocation, for the other effects.
LEMMA OtherTypes ==
  ASSUME TypeOK, Allocation, LoopsCounted, NEW P \in SUBSET Obj, NEW m \in Module \ done,
         \/ \E o \in Known(P, m) : Iterate(m, o)
         \/ StackOnly(P, m)
         \/ Leave(m)
         \/ \E x \in Name, v \in Values(P, m) : SetGlobal(m, x, v)
         \/ \E v \in Known(P, m) : FreezeValue(m, v)
         \/ Exec(m)
  PROVE  TypeOK' /\ Allocation'
<1>1. HeapType /\ StackType /\ RestType
  BY TypesOK DEF Types
<1>2. Known(P, m) \subseteq Obj /\ Values(P, m) \subseteq Value
  BY DEF Known, Own, Values, Value
<1>3. CASE \E o \in Known(P, m) : Iterate(m, o)
  <2>1. PICK o \in Obj : Iterate(m, o)
    BY <1>2, <1>3
  <2>2. HeapType' /\ SameValues /\ SameFlags /\ StackType' /\ \A n \in Module \ {m} : stack'[n] = stack[n]
    BY <1>1, <2>1, IterateFacts, PushFacts
  <2>3. RestType' /\ done' = done
    BY <1>1, <2>1 DEF Iterate, RestType
  <2> QED
    BY <2>2, <2>3, SameTypes DEF SameFlags
<1>4. CASE StackOnly(P, m)
  <2>1. HeapType' /\ SameValues /\ SameFlags
    BY <1>1, <1>4, UnchangedHeap DEF StackOnly
  <2>2. StackType' /\ \A n \in Module \ {m} : stack'[n] = stack[n]
    <3>1. CASE UNCHANGED stack
      BY <1>1, <3>1 DEF StackType
    <3>2. CASE Starts(P, m)
      BY <1>1, <3>2, PushFacts DEF Starts
    <3>3. CASE Advances(m)
      BY <3>3, AdvanceFacts
    <3> QED
      BY <1>4, <3>1, <3>2, <3>3 DEF StackOnly
  <2>3. RestType' /\ done' = done
    BY <1>1, <1>4 DEF StackOnly, RestType
  <2> QED
    BY <2>1, <2>2, <2>3, SameTypes DEF SameFlags
<1>5. CASE Leave(m)
  <2>1. HeapType' /\ SameValues /\ SameFlags
    BY <1>5, LeaveFacts
  <2>2. StackType' /\ \A n \in Module \ {m} : stack'[n] = stack[n]
    BY <1>1, <1>5, PopFacts DEF Leave
  <2>3. RestType' /\ done' = done
    BY <1>1, <1>5 DEF Leave, RestType
  <2> QED
    BY <2>1, <2>2, <2>3, SameTypes DEF SameFlags
<1>6. CASE \E x \in Name, v \in Values(P, m) : SetGlobal(m, x, v)
  <2>1. PICK x \in Name, v \in Value : SetGlobal(m, x, v)
    BY <1>2, <1>6
  <2>2. HeapType' /\ SameValues /\ SameFlags /\ UNCHANGED stack /\ StackType' /\ done' = done
    BY <1>1, <2>1, UnchangedHeap DEF SetGlobal, StackType
  <2>3. RestType'
    BY <1>1, <2>1 DEF SetGlobal, RestType
  <2> QED
    BY <2>2, <2>3, SameTypes DEF SameFlags
<1>7. CASE (\E v \in Known(P, m) : FreezeValue(m, v)) \/ Exec(m)
  <2>1. PICK R : heap' = Frozen(heap, R)
    BY <1>7 DEF FreezeValue, Exec
  <2>2. HeapType' /\ SameValues /\ \A p \in Obj : heap'[p].frozen => heap[p].frozen \/ Container(heap, p)
    BY <1>1, <2>1, FrozenFacts DEF SameValues
  <2>3. UNCHANGED <<globals, stack, panicked>> /\ (done' = done \/ (done' = done \cup {m} /\ stack'[m] = <<>>))
    BY <1>7 DEF FreezeValue, Exec
  <2>4. RestType' /\ StackType'
    BY <1>1, <2>3 DEF RestType, StackType
  <2> QED
    BY <2>2, <2>3, <2>4, SameTypes
<1> QED
  BY <1>3, <1>4, <1>5, <1>6, <1>7

(***************************************************************************)
(* What refers to what: Solid and Published.                               *)
(***************************************************************************)

\* p refers to what it referred to, and is no less frozen.
Kept(p) ==
  /\ heap'[p].kind = heap[p].kind /\ heap'[p].code = heap[p].code
  /\ Children(heap', p) = Children(heap, p)
  /\ heap[p].frozen => heap'[p].frozen

\* Nothing is frozen, and what is solid is kept.
LEMMA SolidKept ==
  ASSUME NEW S \in SUBSET Obj, Solid(S), \A p \in S : Kept(p),
         \A p \in Obj : heap'[p].frozen => heap[p].frozen
  PROVE  Solid(S)'
  BY DEF Solid, Kept, Kind, Container

\* m goes on; what is published, and what others made, is kept.
LEMMA PublishedKept ==
  ASSUME TypeOK, NEW P \in SUBSET Obj, Published(P), NEW m \in Module \ done,
         \A p \in Obj : p \in P \/ heap[p].home \notin {m, Unset} => Kept(p),
         \A p \in Obj : heap[p].home # Unset => heap'[p].home = heap[p].home,
         \A p \in Obj : heap[p].home = Unset => heap'[p].home \in {m, Unset},
         done' = done,
         \A n \in Module \ {m} : globals'[n] = globals[n] /\ stack'[n] = stack[n],
         GlobalsOf(m)' \subseteq Known(P, m)',
         \A o \in Own(m)' : /\ Children(heap', o) \subseteq Known(P, m)'
                            /\ heap'[o].kind = "function" => heap'[o].code \in done \cup {m},
         \A j \in DOMAIN stack'[m] : Operands(stack'[m][j]) \subseteq Known(P, m)'
  PROVE  Published(P)'
<1>1. m # Unset /\ Unset \notin Module
  BY CollectionsAssumption
<1>2. \A n \in Module : Own(n) \subseteq Own(n)'
  BY <1>1 DEF Own
<1>3. \A n \in Module \ {m} : Own(n)' = Own(n) /\ \A o \in Own(n) : Kept(o)
  BY <1>1 DEF Own
<1>4. \A o \in P : /\ heap'[o].kind # "free" /\ Children(heap', o) \subseteq P
                   /\ Container(heap', o) => heap'[o].frozen
                   /\ heap'[o].kind = "function" => heap'[o].code \in done
  BY DEF Published, Kept, Kind, Container
<1>5. \A n \in Module : GlobalsOf(n)' \subseteq P \cup IF n \in done THEN {} ELSE Own(n)'
  <2> TAKE n \in Module
  <2>1. CASE n = m
    BY <2>1 DEF Known
  <2>2. CASE n # m
    <3>1. GlobalsOf(n)' = GlobalsOf(n)
      BY <2>2 DEF GlobalsOf
    <3> QED
      BY <3>1, <1>2 DEF Published
  <2> QED
    BY <2>1, <2>2
<1>6. \A n \in Module \ done :
       /\ \A o \in Own(n)' : /\ Children(heap', o) \subseteq P \cup Own(n)'
                             /\ heap'[o].kind = "function" => heap'[o].code \in done \cup {n}
       /\ \A j \in DOMAIN stack'[n] : Operands(stack'[n][j]) \subseteq P \cup Own(n)'
  <2> TAKE n \in Module \ done
  <2>1. CASE n = m
    BY <2>1 DEF Known
  <2>2. CASE n # m
    BY <2>2, <1>3 DEF Published, Kept, Kind
  <2> QED
    BY <2>1, <2>2
<1> QED
  BY <1>4, <1>5, <1>6 DEF Published, Kind

\* What refers to values that m holds refers to what m can get hold of.
LEMMA KnownChildren ==
  ASSUME NEW P, NEW m, NEW ks \in Seq(Values(P, m)), NEW vs \in Seq(Values(P, m))
  PROVE  (ToSet(ks) \cup ToSet(vs)) \cap Obj \subseteq Known(P, m)
<1>1. ToSet(ks) \subseteq Values(P, m) /\ ToSet(vs) \subseteq Values(P, m)
  BY DEF ToSet
<1> QED
  BY <1>1, CollectionsAssumption DEF Values

\* A new value refers to what its maker can get hold of.
LEMMA AllocSharing ==
  ASSUME TypeOK, Allocation, NEW S \in SUBSET Obj, Solid(S), NEW P \in SUBSET Obj, Published(P),
         NEW m \in Module \ done, Alloc(P, m)
  PROVE  Solid(S)' /\ Published(P)'
<1>1. PICK o \in Obj : Made(P, m, o)
  BY AllocFacts
<1> USE DEF Made
<1>2. UNCHANGED <<globals, done, stack, panicked>>
  BY DEF Alloc
<1>3. heap[o].home = Unset /\ o \notin S /\ o \notin P /\ m # Unset
  BY <1>1, CollectionsAssumption DEF Allocation, Solid, Published, Kind
<1>4. \A p \in Obj \ {o} : Kept(p)
  BY <1>1 DEF Kept, Children
<1>5. Solid(S)'
  BY <1>1, <1>3, <1>4, SolidKept
<1>6. Own(m)' = Own(m) \cup {o}
  BY <1>1 DEF Own
<1>7. Children(heap', o) \subseteq Known(P, m)
  <2>1. <<>> \in Seq(Values(P, m))
    OBVIOUS
  <2> QED
    BY <2>1, <1>1, KnownChildren DEF Children
<1>8. \A p \in Own(m)' : /\ Children(heap', p) \subseteq Known(P, m)'
                         /\ heap'[p].kind = "function" => heap'[p].code \in done \cup {m}
  BY <1>1, <1>4, <1>6, <1>7 DEF Published, Known, Kept, Kind, Own
<1>9. GlobalsOf(m)' \subseteq Known(P, m)'
  BY <1>2, <1>6 DEF Published, Known, GlobalsOf
<1>10. \A j \in DOMAIN stack'[m] : Operands(stack'[m][j]) \subseteq Known(P, m)'
  BY <1>2, <1>6 DEF Published, Known
<1>11. Published(P)'
  BY <1>1, <1>2, <1>3, <1>4, <1>8, <1>9, <1>10, PublishedKept
<1> QED
  BY <1>5, <1>11

\* What changes is neither solid nor published.
LEMMA ChangeSharing ==
  ASSUME TypeOK, Allocation, NEW S \in SUBSET Obj, Solid(S), NEW P \in SUBSET Obj, Published(P),
         NEW m \in Module \ done, Change(P, m)
  PROVE  Solid(S)' /\ Published(P)'
<1>1. PICK o \in Own(m), ks \in Seq(Values(P, m)), vs \in Seq(Values(P, m)) : Write(o, ks, vs)
  BY DEF Change, Writes
<1>2. /\ \A p \in Obj \ {o} : heap'[p] = heap[p]
      /\ heap'[o].keys = ks /\ heap'[o].elems = vs
      /\ heap'[o].kind = heap[o].kind /\ heap'[o].frozen = heap[o].frozen
      /\ heap'[o].home = heap[o].home /\ heap'[o].code = heap[o].code
  BY <1>1, WriteFacts
<1>3. UNCHANGED <<globals, done>>
  BY DEF Change
<1>4. o \notin S /\ o \notin P /\ m # Unset /\ o \in Obj /\ heap[o].home = m
  BY <1>1, CollectionsAssumption DEF Write, Solid, Published, Own
<1>5. \A p \in Obj \ {o} : Kept(p)
  BY <1>2 DEF Kept, Children
<1>6. Solid(S)'
  BY <1>2, <1>4, <1>5, SolidKept
<1>7. Own(m)' = Own(m) /\ \A p \in Obj : heap'[p].home = heap[p].home
  BY <1>2 DEF Own
<1>8. Children(heap', o) \subseteq Known(P, m)
  BY <1>2, KnownChildren DEF Children
<1>9. \A p \in Own(m)' : /\ Children(heap', p) \subseteq Known(P, m)'
                         /\ heap'[p].kind = "function" => heap'[p].code \in done \cup {m}
  BY <1>2, <1>4, <1>5, <1>7, <1>8 DEF Published, Known, Kept, Kind, Own
<1>10. GlobalsOf(m)' \subseteq Known(P, m)'
  BY <1>3, <1>7 DEF Published, Known, GlobalsOf
<1>11. /\ \A n \in Module \ {m} : stack'[n] = stack[n]
       /\ \A j \in DOMAIN stack'[m] : Operands(stack'[m][j]) \subseteq Known(P, m)'
  <2>1. StackType
    BY TypesOK DEF Types
  <2>2. CASE UNCHANGED stack
    BY <2>2, <1>7 DEF Published, Known
  <2>3. CASE AugmentEnds(m)
    <3>1. /\ \A n \in Module \ {m} : stack'[n] = stack[n]
          /\ DOMAIN stack'[m] \subseteq DOMAIN stack[m]
          /\ \A j \in DOMAIN stack'[m] : stack'[m][j] = stack[m][j]
      BY <2>1, <2>3, PopFacts DEF AugmentEnds
    <3> QED
      BY <3>1, <1>7 DEF Published, Known
  <2> QED
    BY <2>2, <2>3 DEF Change
<1>12. Published(P)'
  BY <1>3, <1>4, <1>5, <1>7, <1>9, <1>10, <1>11, PublishedKept
<1> QED
  BY <1>6, <1>12

\* If no value changes, it is enough that globals and operands can be got hold of.
LEMMA SameSharing ==
  ASSUME TypeOK, NEW S \in SUBSET Obj, Solid(S), NEW P \in SUBSET Obj, Published(P),
         NEW m \in Module \ done, SameValues, SameFlags, done' = done,
         \A n \in Module \ {m} : globals'[n] = globals[n] /\ stack'[n] = stack[n],
         GlobalsOf(m)' \subseteq Known(P, m),
         \A j \in DOMAIN stack'[m] : Operands(stack'[m][j]) \subseteq Known(P, m)
  PROVE  Solid(S)' /\ Published(P)'
<1>1. \A p \in Obj : Kept(p)
  BY DEF SameValues, SameFlags, Kept, Children
<1>2. Solid(S)'
  BY <1>1, SolidKept DEF SameFlags
<1>3. \A p \in Obj : heap'[p].home = heap[p].home
  BY DEF SameValues
<1>4. Own(m)' = Own(m) /\ Known(P, m)' = Known(P, m)
  BY <1>3 DEF Own, Known
<1>5. \A o \in Own(m)' : /\ Children(heap', o) \subseteq Known(P, m)'
                         /\ heap'[o].kind = "function" => heap'[o].code \in done \cup {m}
  BY <1>1, <1>4 DEF Kept, Published, Known, Kind, Own
<1>6. Published(P)'
  BY <1>1, <1>3, <1>4, <1>5, PublishedKept
<1> QED
  BY <1>2, <1>6

\* The operands of what is in progress, as it goes on.
LEMMA OperandsKept ==
  ASSUME TypeOK, NEW P \in SUBSET Obj, Published(P), NEW m \in Module \ done,
         \/ UNCHANGED stack
         \/ stack[m] # <<>> /\ Pop(m)
         \/ \E a \in Activity : Operands(a) \subseteq Known(P, m) /\ Push(m, a)
         \/ Advances(m)
  PROVE  /\ \A n \in Module \ {m} : stack'[n] = stack[n]
         /\ \A j \in DOMAIN stack'[m] : Operands(stack'[m][j]) \subseteq Known(P, m)
<1>1. StackType
  BY TypesOK DEF Types
<1>2. \A j \in DOMAIN stack[m] : Operands(stack[m][j]) \subseteq Known(P, m)
  BY DEF Published, Known
<1>3. CASE UNCHANGED stack
  BY <1>2, <1>3
<1>4. CASE stack[m] # <<>> /\ Pop(m)
  <2>1. /\ \A n \in Module \ {m} : stack'[n] = stack[n]
        /\ DOMAIN stack'[m] \subseteq DOMAIN stack[m]
        /\ \A j \in DOMAIN stack'[m] : stack'[m][j] = stack[m][j]
    BY <1>1, <1>4, PopFacts
  <2> QED
    BY <2>1, <1>2
<1>5. CASE \E a \in Activity : Operands(a) \subseteq Known(P, m) /\ Push(m, a)
  <2>1. PICK a \in Activity : Operands(a) \subseteq Known(P, m) /\ Push(m, a)
    BY <1>5
  <2>2. /\ \A n \in Module \ {m} : stack'[n] = stack[n]
        /\ \A j \in DOMAIN stack'[m] : stack'[m][j] = a \/ (j \in DOMAIN stack[m] /\ stack'[m][j] = stack[m][j])
    <3>1. /\ \A n \in Module \ {m} : stack'[n] = stack[n]
          /\ DOMAIN stack[m] = 1..Len(stack[m])
          /\ DOMAIN stack'[m] = 1..(Len(stack[m]) + 1)
          /\ stack'[m][Len(stack[m]) + 1] = a
          /\ \A j \in DOMAIN stack[m] : stack'[m][j] = stack[m][j]
      BY <1>1, <2>1, PushFacts
    <3>2. Len(stack[m]) \in Nat
      BY <1>1 DEF StackType
    <3> QED
      BY <3>1, <3>2
  <2> QED
    BY <2>1, <2>2, <1>2
<1>6. CASE Advances(m)
  <2>1. /\ \A n \in Module \ {m} : stack'[n] = stack[n]
        /\ Len(stack[m]) \in DOMAIN stack[m]
        /\ DOMAIN stack'[m] = DOMAIN stack[m]
        /\ \A j \in DOMAIN stack[m] :
              stack'[m][j] = IF j = Len(stack[m]) THEN [stack[m][j] EXCEPT !.i = @ + 1]
                             ELSE stack[m][j]
    BY <1>6, AdvanceFacts
  <2> DEFINE a == stack[m][Len(stack[m])]
             b == [a EXCEPT !.i = @ + 1]
  <2>2. a \in Activity /\ a.op \in {"iter", "unpack"}
    BY <1>6, TopType DEF Advances
  <2>3. a \in [op : {"iter", "unpack"}, obj : Obj, i : Nat, len : Nat]
    BY <2>2 DEF Activity
  <2>4. b.op = a.op /\ b.obj = a.obj
    BY <2>3
  <2>5. Operands(b) = Operands(a)
    BY <2>2, <2>4 DEF Operands, Augmenting
  <2> QED
    BY <1>2, <2>1, <2>5
<1> QED
  BY <1>3, <1>4, <1>5, <1>6

\* Loops, assignments in progress and assignments to globals.
LEMMA OtherSharing ==
  ASSUME TypeOK, LoopsCounted, NEW S \in SUBSET Obj, Solid(S), NEW P \in SUBSET Obj, Published(P),
         NEW m \in Module \ done,
         \/ \E o \in Known(P, m) : Iterate(m, o)
         \/ StackOnly(P, m)
         \/ Leave(m)
         \/ \E x \in Name, v \in Values(P, m) : SetGlobal(m, x, v)
  PROVE  Solid(S)' /\ Published(P)'
<1>1. HeapType
  BY TypesOK DEF Types
<1>2. Known(P, m) \subseteq Obj /\ Values(P, m) \cap Obj \subseteq Known(P, m)
  BY CollectionsAssumption DEF Known, Own, Values
<1>3. GlobalsOf(m) \subseteq Known(P, m)
  BY DEF Published, Known
<1>4. SameValues /\ SameFlags /\ done' = done
  <2>1. CASE \E o \in Known(P, m) : Iterate(m, o)
    BY <1>2, <2>1, IterateFacts DEF Iterate
  <2>2. CASE StackOnly(P, m)
    BY <1>1, <2>2, UnchangedHeap DEF StackOnly
  <2>3. CASE Leave(m)
    BY <2>3, LeaveFacts DEF Leave
  <2>4. CASE \E x \in Name, v \in Values(P, m) : SetGlobal(m, x, v)
    BY <1>1, <2>4, UnchangedHeap DEF SetGlobal
  <2> QED
    BY <2>1, <2>2, <2>3, <2>4
<1>5. (\A n \in Module \ {m} : globals'[n] = globals[n]) /\ GlobalsOf(m)' \subseteq Known(P, m)
  <2>1. CASE globals' = globals
    BY <1>3, <2>1 DEF GlobalsOf
  <2>2. CASE \E x \in Name, v \in Values(P, m) : SetGlobal(m, x, v)
    <3>1. PICK x \in Name, v \in Values(P, m) : globals' = [globals EXCEPT ![m][x] = v]
      BY <2>2 DEF SetGlobal
    <3>2. globals'[m] = [globals[m] EXCEPT ![x] = v] /\ \A n \in Module \ {m} : globals'[n] = globals[n]
      BY <3>1 DEF TypeOK
    <3>3. \A y \in Name : globals'[m][y] \in {v, globals[m][y]}
      BY <3>2 DEF TypeOK
    <3>4. GlobalsOf(m)' \subseteq GlobalsOf(m) \cup ({v} \cap Obj)
      BY <3>3 DEF GlobalsOf
    <3> QED
      BY <3>2, <3>4, <1>2, <1>3
  <2> QED
    BY <2>1, <2>2 DEF Iterate, StackOnly, Leave
<1>6. \/ UNCHANGED stack
      \/ stack[m] # <<>> /\ Pop(m)
      \/ \E a \in Activity : Operands(a) \subseteq Known(P, m) /\ Push(m, a)
      \/ Advances(m)
  <2>1. CASE \E o \in Known(P, m) : Iterate(m, o)
    <3>1. PICK o \in Known(P, m) : Iterate(m, o)
      BY <2>1
    <3>2. PICK a \in Activity : a.op = "iter" /\ a.obj = o /\ Push(m, a)
      BY <3>1, <1>2, IterateFacts
    <3>3. Operands(a) \subseteq Known(P, m)
      BY <3>1, <3>2 DEF Operands, Augmenting
    <3> QED
      BY <3>2, <3>3
  <2>2. CASE StackOnly(P, m)
    BY <2>2 DEF StackOnly, Starts
  <2>3. CASE Leave(m)
    BY <2>3 DEF Leave
  <2>4. CASE \E x \in Name, v \in Values(P, m) : SetGlobal(m, x, v)
    BY <2>4 DEF SetGlobal
  <2> QED
    BY <2>1, <2>2, <2>3, <2>4
<1>7. /\ \A n \in Module \ {m} : stack'[n] = stack[n]
      /\ \A j \in DOMAIN stack'[m] : Operands(stack'[m][j]) \subseteq Known(P, m)
  BY <1>6, OperandsKept
<1> QED
  BY <1>4, <1>5, <1>7, SameSharing

\* Freezing what m can get hold of: what is frozen then, and what Freeze reached, is solid.
LEMMA FreezeSolid ==
  ASSUME TypeOK, Allocation, NEW S \in SUBSET Obj, Solid(S), NEW P \in SUBSET Obj, Published(P),
         NEW m \in Module \ done, NEW R, R \cap Obj \subseteq Known(P, m),
         heap' = Frozen(heap, R)
  PROVE  /\ SameValues /\ \A p \in Obj : Kept(p)
         /\ \E T \in SUBSET Obj : R \cap Obj \subseteq T /\ Solid(T)'
<1> DEFINE F == Reach(FreezeEdges(heap), R)
           E == FreezeEdges(heap)
<1>1. HeapType
  BY TypesOK DEF Types
<1>2. E \in [Obj -> SUBSET Obj]
  BY FreezeEdgesType
<1>3. Known(P, m) \in SUBSET Obj
  BY DEF Known, Own
<1>4. \A x \in Known(P, m) : E[x] \subseteq Known(P, m)
  BY <1>3 DEF FreezeEdges, Known, Published
<1>5. F \subseteq Known(P, m)
  <2> HIDE DEF E
  <2>1. Reach(E, R) \subseteq Known(P, m)
    BY <1>2, <1>3, <1>4, ReachLeast
  <2> QED
    BY <2>1 DEF E
<1>6. F \subseteq Obj /\ R \cap Obj \subseteq F /\ \A x \in F : E[x] \subseteq F
  <2> HIDE DEF E
  <2>1. /\ Reach(E, R) \subseteq Obj /\ R \cap Obj \subseteq Reach(E, R)
        /\ \A x \in Reach(E, R) : E[x] \subseteq Reach(E, R)
    BY <1>2, ReachFacts
  <2> QED
    BY <2>1 DEF E
<1>7. \A o \in Obj :
        /\ heap'[o].kind = heap[o].kind /\ heap'[o].keys = heap[o].keys
        /\ heap'[o].elems = heap[o].elems
        /\ heap'[o].home = heap[o].home /\ heap'[o].code = heap[o].code
        /\ heap'[o].frozen <=> heap[o].frozen \/ (Container(heap, o) /\ o \in F)
  BY <1>1, FrozenFacts
<1> HIDE DEF F
<1>8. SameValues /\ \A p \in Obj : Kept(p)
  BY <1>7 DEF SameValues, Kept, Children
<1>9. \A o \in F : heap[o].kind # "free" /\ Children(heap, o) \subseteq S \cup F
  <2> TAKE o \in F
  <2>1. m # Unset
    BY CollectionsAssumption
  <2>2. heap[o].kind # "free"
    BY <1>5, <2>1 DEF Known, Own, Published, Allocation, Kind
  <2>3. CASE Container(heap, o) /\ heap[o].frozen
    BY <2>2, <2>3, <1>6 DEF Solid
  <2>4. CASE ~(Container(heap, o) /\ heap[o].frozen)
    BY <2>2, <2>4, <1>6 DEF FreezeEdges
  <2> QED
    BY <2>3, <2>4
<1>10. \A o \in S : /\ heap[o].kind # "free" /\ Children(heap, o) \subseteq S
                    /\ Container(heap, o) => heap[o].frozen
  BY DEF Solid, Kind
<1>11. PICK T \in SUBSET Obj : T = S \cup F
  BY <1>6
<1>12. {o \in Obj : heap'[o].frozen} \subseteq T
  BY <1>7, <1>11 DEF Solid
<1>13. \A o \in T : /\ heap'[o].kind # "free" /\ Children(heap', o) \subseteq T
                    /\ Container(heap', o) => heap'[o].frozen
  <2> TAKE o \in T
  <2>1. Children(heap', o) = Children(heap, o) /\ (Container(heap', o) <=> Container(heap, o))
    BY <1>7 DEF Children, Container
  <2> QED
    BY <1>7, <1>9, <1>10, <1>11, <2>1
<1>14. Solid(T)'
  BY <1>12, <1>13 DEF Solid, Kind
<1> QED
  BY <1>6, <1>8, <1>11, <1>14

\* FreezeValue makes the solid set grow; what is published is the same.
LEMMA FreezeSharing ==
  ASSUME TypeOK, Allocation, NEW S \in SUBSET Obj, Solid(S), NEW P \in SUBSET Obj, Published(P),
         NEW m \in Module \ done, NEW v \in Known(P, m), FreezeValue(m, v)
  PROVE  SharingInv'
<1>1. heap' = Frozen(heap, {v}) /\ UNCHANGED <<globals, done, stack>>
  BY DEF FreezeValue
<1>2. SameValues /\ (\A p \in Obj : Kept(p)) /\ \E T \in SUBSET Obj : Solid(T)'
  BY <1>1, FreezeSolid
<1>3. \A p \in Obj : heap'[p].home = heap[p].home
  BY <1>2 DEF SameValues
<1>4. Own(m)' = Own(m) /\ Known(P, m)' = Known(P, m)
  BY <1>3 DEF Own, Known
<1>5. \A o \in Own(m)' : /\ Children(heap', o) \subseteq Known(P, m)'
                         /\ heap'[o].kind = "function" => heap'[o].code \in done \cup {m}
  BY <1>2, <1>4 DEF Kept, Published, Known, Kind, Own
<1>6. GlobalsOf(m)' \subseteq Known(P, m)'
  BY <1>1, <1>4 DEF GlobalsOf, Published, Known
<1>7. \A j \in DOMAIN stack'[m] : Operands(stack'[m][j]) \subseteq Known(P, m)'
  BY <1>1, <1>4 DEF Published, Known
<1>8. Published(P)'
  BY <1>1, <1>2, <1>3, <1>5, <1>6, <1>7, PublishedKept
<1> QED
  BY <1>2, <1>8 DEF SharingInv

\* Exec publishes what m made and its globals reach.
LEMMA ExecSharing ==
  ASSUME TypeOK, Allocation, NEW S \in SUBSET Obj, Solid(S), NEW P \in SUBSET Obj, Published(P),
         NEW m \in Module \ done, Exec(m)
  PROVE  SharingInv'
<1> DEFINE R == GlobalsOf(m)
<1>1. heap' = Frozen(heap, R) /\ UNCHANGED <<globals, stack>> /\ done' = done \cup {m}
  BY DEF Exec
<1>2. R \subseteq Known(P, m) /\ R \cap Obj = R
  BY DEF Published, Known, GlobalsOf
<1> HIDE DEF R
<1>3. /\ SameValues /\ \A p \in Obj : Kept(p)
      /\ \E T \in SUBSET Obj : R \subseteq T /\ Solid(T)'
  BY <1>1, <1>2, FreezeSolid
<1>4. PICK T \in SUBSET Obj : R \subseteq T /\ Solid(T)'
  BY <1>3
<1>5. PICK Q \in SUBSET Obj : Q = P \cup (Own(m) \cap T)
  OBVIOUS
<1>6. \A n : Own(n)' = Own(n)
  BY <1>3 DEF SameValues, Own
<1>7. \A o \in Q : /\ heap'[o].kind # "free" /\ Children(heap', o) \subseteq Q
                   /\ Container(heap', o) => heap'[o].frozen
                   /\ heap'[o].kind = "function" => heap'[o].code \in done'
  <2> TAKE o \in Q
  <2>1. Kept(o) /\ o \in Obj
    BY <1>3
  <2>2. CASE o \in P
    BY <1>1, <1>5, <2>1, <2>2 DEF Kept, Published, Kind, Container
  <2>3. CASE o \in Own(m) \cap T
    <3>1. /\ heap'[o].kind # "free" /\ Children(heap', o) \subseteq T
          /\ Container(heap', o) => heap'[o].frozen
      BY <1>4, <2>3 DEF Solid, Kind
    <3>2. Children(heap, o) \subseteq P \cup Own(m) /\ (Kind(o) = "function" => heap[o].code \in done \cup {m})
      BY <2>3 DEF Published
    <3> QED
      BY <1>1, <1>5, <2>1, <3>1, <3>2 DEF Kept, Kind
  <2> QED
    BY <1>5, <2>2, <2>3
<1>8. \A n \in Module : GlobalsOf(n)' \subseteq Q \cup IF n \in done' THEN {} ELSE Own(n)'
  <2> TAKE n \in Module
  <2>1. GlobalsOf(n)' = GlobalsOf(n)
    BY <1>1 DEF GlobalsOf
  <2>2. CASE n = m
    <3>1. GlobalsOf(m) \subseteq T /\ GlobalsOf(m) \subseteq P \cup Own(m)
      BY <1>2, <1>4 DEF R, Known
    <3> QED
      BY <1>5, <2>1, <2>2, <3>1
  <2>3. CASE n # m
    BY <1>1, <1>6, <1>5, <2>1, <2>3 DEF Published
  <2> QED
    BY <2>2, <2>3
<1>9. \A n \in Module \ done' :
       /\ \A o \in Own(n)' : /\ Children(heap', o) \subseteq Q \cup Own(n)'
                             /\ heap'[o].kind = "function" => heap'[o].code \in done' \cup {n}
       /\ \A j \in DOMAIN stack'[n] : Operands(stack'[n][j]) \subseteq Q \cup Own(n)'
  <2> TAKE n \in Module \ done'
  <2>1. n \in Module \ done
    BY <1>1
  <2>2. \A o \in Own(n) : Kept(o)
    BY <1>3 DEF Own
  <2> QED
    BY <1>1, <1>6, <1>5, <2>1, <2>2 DEF Published, Kept, Kind
<1>10. Published(Q)'
  BY <1>7, <1>8, <1>9 DEF Published, Kind
<1> QED
  BY <1>4, <1>10 DEF SharingInv

(***************************************************************************)
(* Loops: LoopsCounted and LoopLengthFixed.                                *)
(***************************************************************************)

\* A value has the loops it had if the stacks have the same loops over it.
LEMMA LoopsKept ==
  ASSUME NEW o, \A n \in Module, j \in 1..MaxDepth : LoopAt(o, n, j)' <=> LoopAt(o, n, j)
  PROVE  Loops(o)' = Loops(o)
  BY DEF Loops

\* Nobody loops over an address that is free.
LEMMA FreeHasNoLoops ==
  ASSUME TypeOK, Allocation, NEW P \in SUBSET Obj, Published(P), NEW o \in Obj, Kind(o) = "free"
  PROVE  Loops(o) = {} /\ \A n \in Module : \A j \in DOMAIN stack[n] : ~LoopAt(o, n, j)
<1>1. ASSUME NEW n \in Module, NEW j \in DOMAIN stack[n], LoopAt(o, n, j) PROVE FALSE
  <2>1. n \notin done
    BY <1>1 DEF Allocation
  <2>2. o \in P \cup Own(n)
    BY <1>1, <2>1 DEF LoopAt, Published, Operands, Augmenting
  <2>3. Unset \notin Module
    BY CollectionsAssumption
  <2> QED
    BY <1>1, <2>2, <2>3 DEF Published, Allocation, Own
<1> QED
  BY <1>1 DEF Loops, LoopAt

\* Who loops over a list or dict that counts no iterator?  Nobody.
LEMMA UncountedHasNoLoops ==
  ASSUME TypeOK, LoopsCounted, NEW o \in Obj, Container(heap, o), ~heap[o].frozen,
         heap[o].itercount = 0, NEW n \in Module, NEW j \in DOMAIN stack[n]
  PROVE  ~LoopAt(o, n, j)
<1>1. Loops(o) = {}
  BY LoopsFinite DEF LoopsCounted
<1>2. j \in 1..MaxDepth
  <2>1. stack[n] \in Seq(Activity) /\ Len(stack[n]) <= MaxDepth
    BY DEF TypeOK
  <2> QED
    BY <2>1, CollectionsAssumption
<1>3. <<n, j>> \in Module \X (1..MaxDepth) /\ <<n, j>>[1] = n /\ <<n, j>>[2] = j
  BY <1>2
<1> QED
  BY <1>1, <1>3 DEF Loops

\* Nobody loops over a new value.
LEMMA AllocLoops ==
  ASSUME TypeOK, Allocation, LoopInv, NEW P \in SUBSET Obj, Published(P), NEW m \in Module \ done,
         Alloc(P, m)
  PROVE  LoopInv'
<1>1. PICK o \in Obj : Made(P, m, o)
  BY AllocFacts
<1> USE DEF Made
<1>2. UNCHANGED <<stack, done>>
  BY DEF Alloc
<1>3. \A p : Loops(p)' = Loops(p)
  BY <1>2 DEF Loops, LoopAt
<1>4. Loops(o) = {} /\ \A n \in Module : \A j \in DOMAIN stack[n] : ~LoopAt(o, n, j)
  BY <1>1, FreeHasNoLoops DEF Kind
<1>5. Cardinality(Loops(o)) = 0
  BY <1>4, FS_EmptySet
<1>6. LoopsCounted'
  BY <1>1, <1>3, <1>5 DEF LoopInv, LoopsCounted, Container
<1>7. LoopLengthFixed'
  <2> SUFFICES ASSUME NEW n \in Module \ done, NEW j \in DOMAIN stack[n], stack[n][j].op = "iter"
               PROVE  stack[n][j].i <= stack[n][j].len /\ stack[n][j].len = Len(heap'[stack[n][j].obj].elems)
    BY <1>2 DEF LoopLengthFixed
  <2>1. stack[n][j].obj # o
    BY <1>4 DEF LoopAt
  <2>2. stack[n][j] \in Activity
    BY DEF TypeOK
  <2>3. stack[n][j].obj \in Obj
    BY <2>2 DEF Activity
  <2> QED
    BY <1>1, <2>1, <2>3 DEF LoopInv, LoopLengthFixed
<1> QED
  BY <1>6, <1>7 DEF LoopInv

\* What is in a loop keeps its length.
LEMMA ChangeLoops ==
  ASSUME TypeOK, LoopInv, NEW P \in SUBSET Obj, NEW m \in Module \ done, Change(P, m)
  PROVE  LoopInv'
<1>1. PICK o \in Own(m), ks \in Seq(Values(P, m)), vs \in Seq(Values(P, m)) : Write(o, ks, vs)
  BY DEF Change, Writes
<1>2. /\ \A p \in Obj \ {o} : heap'[p] = heap[p]
      /\ heap'[o].elems = vs
      /\ heap'[o].kind = heap[o].kind /\ heap'[o].frozen = heap[o].frozen
      /\ heap'[o].itercount = heap[o].itercount
  BY <1>1, WriteFacts
<1>3. /\ \A n \in Module : \A j \in DOMAIN stack'[n] :
           j \in DOMAIN stack[n] /\ stack'[n][j] = stack[n][j]
      /\ \A n \in Module : \A j \in DOMAIN stack[n] :
           stack[n][j].op = "iter" => j \in DOMAIN stack'[n]
  <2>1. StackType
    BY TypesOK DEF Types
  <2>2. CASE UNCHANGED stack
    BY <2>2
  <2>3. CASE AugmentEnds(m)
    <3>1. /\ \A n \in Module \ {m} : stack'[n] = stack[n]
          /\ Len(stack[m]) \in Nat \ {0}
          /\ DOMAIN stack[m] = 1..Len(stack[m])
          /\ DOMAIN stack'[m] = 1..(Len(stack[m]) - 1)
          /\ \A j \in DOMAIN stack'[m] : stack'[m][j] = stack[m][j]
      BY <2>1, <2>3, PopFacts DEF AugmentEnds
    <3>2. stack[m][Len(stack[m])].op # "iter"
      BY <2>3, TopType DEF AugmentEnds, Augmenting
    <3> QED
      BY <3>1, <3>2
  <2> QED
    BY <2>2, <2>3 DEF Change
<1>4. \A p \in Obj : Loops(p)' = Loops(p)
  BY <1>3, LoopsKept DEF LoopAt
<1>5. LoopsCounted'
  BY <1>2, <1>4 DEF LoopInv, LoopsCounted, Container
<1>6. LoopLengthFixed'
  <2> SUFFICES ASSUME NEW n \in Module \ done, NEW j \in DOMAIN stack'[n], stack'[n][j].op = "iter"
               PROVE  /\ stack'[n][j].i <= stack'[n][j].len
                      /\ stack'[n][j].len = Len(heap'[stack'[n][j].obj].elems)
    BY DEF LoopLengthFixed, Change
  <2> DEFINE a == stack[n][j]
  <2>1. j \in DOMAIN stack[n] /\ stack'[n][j] = a
    BY <1>3
  <2>2. a \in Activity /\ a.op = "iter"
    BY <2>1 DEF TypeOK
  <2>3. a.obj \in Obj
    BY <2>2 DEF Activity
  <2>4. a.i <= a.len /\ a.len = Len(heap[a.obj].elems)
    BY <2>1, <2>2 DEF LoopInv, LoopLengthFixed
  <2>5. CASE a.obj = o
    <3>1. heap[o].itercount # 0
      BY <1>1, <2>1, <2>2, <2>3, <2>5, UncountedHasNoLoops DEF Write, LoopAt, LoopInv
    <3>2. Len(vs) = Len(heap[o].elems)
      BY <1>1, <3>1 DEF Write
    <3> QED
      BY <1>2, <2>1, <2>4, <2>5, <3>2
  <2>6. CASE a.obj # o
    BY <1>2, <2>1, <2>3, <2>4, <2>6
  <2> QED
    BY <2>5, <2>6
<1> QED
  BY <1>5, <1>6 DEF LoopInv

\* A loop starts: there is one more over o.
LEMMA IterateLoops ==
  ASSUME TypeOK, LoopInv, NEW m \in Module \ done, NEW o \in Obj, Iterate(m, o)
  PROVE  LoopInv'
<1>0. PICK n0 : n0 = Len(stack[m])
  OBVIOUS
<1>1. /\ SameValues /\ SameFlags
      /\ heap'[o].itercount = IF Counted(o) THEN heap[o].itercount + 1 ELSE heap[o].itercount
      /\ \A p \in Obj \ {o} : heap'[p] = heap[p]
  BY IterateFacts
<1>2. PICK a \in Activity : a.op = "iter" /\ a.obj = o /\ a.i = 0 /\ a.len = Len(heap[o].elems) /\ Push(m, a)
  BY IterateFacts
<1>3. StackType /\ HeapType
  BY TypesOK DEF Types
<1>4. /\ \A n \in Module \ {m} : stack'[n] = stack[n]
      /\ n0 + 1 \in 1..MaxDepth
      /\ DOMAIN stack[m] = 1..n0
      /\ DOMAIN stack'[m] = 1..(n0 + 1)
      /\ stack'[m][n0 + 1] = a
      /\ \A j \in DOMAIN stack[m] : stack'[m][j] = stack[m][j]
  BY <1>0, <1>2, <1>3, PushFacts
<1>5. n0 \in Nat
  BY <1>0, <1>3 DEF StackType
<1>6. \A p, n, j : n \in Module /\ ~(p = o /\ n = m /\ j = n0 + 1) => (LoopAt(p, n, j)' <=> LoopAt(p, n, j))
  <2> SUFFICES ASSUME NEW p, NEW n \in Module, NEW j, ~(p = o /\ n = m /\ j = n0 + 1)
               PROVE  LoopAt(p, n, j)' <=> LoopAt(p, n, j)
    OBVIOUS
  <2>1. CASE n # m
    BY <1>4, <2>1 DEF LoopAt
  <2>2. CASE n = m
    <3>1. DOMAIN stack'[m] = DOMAIN stack[m] \cup {n0 + 1} /\ n0 + 1 \notin DOMAIN stack[m]
      BY <1>4, <1>5
    <3>2. j = n0 + 1 => p # o
      BY <2>2
    <3>3. CASE j = n0 + 1
      BY <1>2, <1>4, <2>2, <3>1, <3>2, <3>3 DEF LoopAt
    <3>4. CASE j # n0 + 1
      BY <1>4, <2>2, <3>1, <3>4 DEF LoopAt
    <3> QED
      BY <3>3, <3>4
  <2> QED
    BY <2>1, <2>2
<1>7. LoopAt(o, m, n0 + 1)' /\ ~LoopAt(o, m, n0 + 1)
  BY <1>2, <1>4, <1>5 DEF LoopAt
<1>8. \A p : p # o => Loops(p)' = Loops(p)
  BY <1>6, LoopsKept
<1>9. Loops(o)' = Loops(o) \cup {<<m, n0 + 1>>} /\ <<m, n0 + 1>> \notin Loops(o)
  <2>1. \A l \in Module \X (1..MaxDepth) :
          LoopAt(o, l[1], l[2])' <=> LoopAt(o, l[1], l[2]) \/ l = <<m, n0 + 1>>
    BY <1>6, <1>7
  <2> QED
    BY <1>4, <1>7, <2>1 DEF Loops
<1>10. Cardinality(Loops(o)') = Cardinality(Loops(o)) + 1
  BY <1>9, LoopsFinite, FS_AddElement
<1>11. LoopsCounted'
  <2> SUFFICES ASSUME NEW p \in Obj, Container(heap', p), ~heap'[p].frozen
               PROVE  heap'[p].itercount = Cardinality(Loops(p)')
    BY DEF LoopsCounted
  <2>1. Container(heap, p) /\ ~heap[p].frozen
    BY <1>1 DEF SameValues, SameFlags, Container
  <2>2. heap[p].itercount = Cardinality(Loops(p))
    BY <2>1 DEF LoopInv, LoopsCounted
  <2>3. CASE p = o
    BY <1>1, <1>10, <2>1, <2>2, <2>3 DEF Counted
  <2>4. CASE p # o
    BY <1>1, <1>8, <2>2, <2>4
  <2> QED
    BY <2>3, <2>4
<1>12. LoopLengthFixed'
  <2> SUFFICES ASSUME NEW n \in Module \ done, NEW j \in DOMAIN stack'[n], stack'[n][j].op = "iter"
               PROVE  /\ stack'[n][j].i <= stack'[n][j].len
                      /\ stack'[n][j].len = Len(heap'[stack'[n][j].obj].elems)
    BY DEF LoopLengthFixed, Iterate
  <2> DEFINE b == stack'[n][j]
  <2>1. CASE n = m /\ j = n0 + 1
    <3>1. heap'[o].elems = heap[o].elems /\ Len(heap[o].elems) \in Nat
      BY <1>1, <1>3 DEF SameValues, HeapType
    <3> QED
      BY <1>2, <1>4, <2>1, <3>1
  <2>2. CASE ~(n = m /\ j = n0 + 1)
    <3>1. j \in DOMAIN stack[n] /\ b = stack[n][j]
      <4>1. CASE n # m
        BY <1>4, <4>1
      <4>2. CASE n = m
        <5>1. DOMAIN stack'[m] = DOMAIN stack[m] \cup {n0 + 1}
          BY <1>4, <1>5
        <5> QED
          BY <1>4, <2>2, <4>2, <5>1
      <4> QED
        BY <4>1, <4>2
    <3>2. b \in Activity /\ b.op = "iter"
      BY <1>3, <3>1 DEF StackType
    <3>3. b.obj \in Obj
      BY <3>2 DEF Activity
    <3> QED
      BY <1>1, <3>1, <3>2, <3>3 DEF LoopInv, LoopLengthFixed, SameValues
  <2> QED
    BY <2>1, <2>2
<1> QED
  BY <1>11, <1>12 DEF LoopInv

\* A loop or an assignment ends: there is one loop less over the object of a loop.
LEMMA LeaveLoops ==
  ASSUME TypeOK, LoopInv, NEW m \in Module \ done, Leave(m)
  PROVE  LoopInv'
<1>0. PICK n0, a : n0 = Len(stack[m]) /\ a = Top(m)
  OBVIOUS
<1>1. /\ SameValues /\ SameFlags
      /\ a.op = "iter" /\ Counted(a.obj) => heap'[a.obj].itercount = heap[a.obj].itercount - 1
      /\ \A p \in Obj : ~(a.op = "iter" /\ Counted(p) /\ p = a.obj) => heap'[p] = heap[p]
  BY <1>0, LeaveFacts DEF LoopInv
<1>2. StackType /\ HeapType
  BY TypesOK DEF Types
<1>3. /\ \A n \in Module \ {m} : stack'[n] = stack[n]
      /\ n0 \in Nat \ {0}
      /\ DOMAIN stack[m] = 1..n0
      /\ DOMAIN stack'[m] = 1..(n0 - 1)
      /\ \A j \in DOMAIN stack'[m] : stack'[m][j] = stack[m][j]
  BY <1>0, <1>2, PopFacts DEF Leave
<1>4. n0 \in 1..MaxDepth /\ a = stack[m][n0] /\ a \in Activity
  BY <1>0, TopType DEF Leave
<1>5. \A p, n, j : n \in Module /\ ~(n = m /\ j = n0) => (LoopAt(p, n, j)' <=> LoopAt(p, n, j))
  BY <1>3 DEF LoopAt
<1>6. \A p : ~LoopAt(p, m, n0)' /\ (LoopAt(p, m, n0) <=> a.op = "iter" /\ a.obj = p)
  BY <1>3, <1>4 DEF LoopAt
<1>7. \A p : ~(a.op = "iter" /\ a.obj = p) => Loops(p)' = Loops(p)
  BY <1>5, <1>6, LoopsKept
<1>8. ASSUME NEW o, a.op = "iter" /\ a.obj = o
      PROVE  Cardinality(Loops(o)') = Cardinality(Loops(o)) - 1
  <2>1. \A l \in Module \X (1..MaxDepth) :
          LoopAt(o, l[1], l[2])' <=> LoopAt(o, l[1], l[2]) /\ l # <<m, n0>>
    BY <1>5, <1>6
  <2>2. Loops(o)' = Loops(o) \ {<<m, n0>>} /\ <<m, n0>> \in Loops(o)
    BY <1>4, <1>6, <1>8, <2>1 DEF Loops
  <2> QED
    BY <2>2, LoopsFinite, FS_RemoveElement
<1>9. LoopsCounted'
  <2> SUFFICES ASSUME NEW p \in Obj, Container(heap', p), ~heap'[p].frozen
               PROVE  heap'[p].itercount = Cardinality(Loops(p)')
    BY DEF LoopsCounted
  <2>1. Container(heap, p) /\ ~heap[p].frozen
    BY <1>1 DEF SameValues, SameFlags, Container
  <2>2. heap[p].itercount = Cardinality(Loops(p))
    BY <2>1 DEF LoopInv, LoopsCounted
  <2>3. CASE a.op = "iter" /\ a.obj = p
    BY <1>1, <1>8, <2>1, <2>2, <2>3 DEF Counted
  <2>4. CASE ~(a.op = "iter" /\ a.obj = p)
    BY <1>1, <1>7, <2>2, <2>4
  <2> QED
    BY <2>3, <2>4
<1>10. LoopLengthFixed'
  <2> SUFFICES ASSUME NEW n \in Module \ done, NEW j \in DOMAIN stack'[n], stack'[n][j].op = "iter"
               PROVE  /\ stack'[n][j].i <= stack'[n][j].len
                      /\ stack'[n][j].len = Len(heap'[stack'[n][j].obj].elems)
    BY DEF LoopLengthFixed, Leave
  <2> DEFINE b == stack'[n][j]
  <2>1. j \in DOMAIN stack[n] /\ b = stack[n][j]
    BY <1>3
  <2>2. b \in Activity /\ b.op = "iter"
    BY <1>2, <2>1 DEF StackType
  <2>3. b.obj \in Obj
    BY <2>2 DEF Activity
  <2> QED
    BY <1>1, <2>1, <2>2, <2>3 DEF LoopInv, LoopLengthFixed, SameValues
<1> QED
  BY <1>9, <1>10 DEF LoopInv

\* m starts an assignment, or goes on: the loops are the same.
LEMMA StackOnlyLoops ==
  ASSUME TypeOK, LoopInv, NEW P \in SUBSET Obj, NEW m \in Module \ done, StackOnly(P, m)
  PROVE  LoopInv'
<1>1. UNCHANGED <<heap, done>>
  BY DEF StackOnly
<1>2. StackType /\ HeapType
  BY TypesOK DEF Types
<1>3. CASE UNCHANGED stack
  BY <1>1, <1>3 DEF LoopInv, LoopsCounted, LoopLengthFixed, Loops, LoopAt, Container
<1>4. CASE Starts(P, m)
  <2>0. PICK n0 : n0 = Len(stack[m])
    OBVIOUS
  <2>1. PICK a \in Activity : a.op # "iter" /\ Push(m, a)
    BY <1>4 DEF Starts
  <2>2. /\ \A n \in Module \ {m} : stack'[n] = stack[n]
        /\ n0 + 1 \in 1..MaxDepth
        /\ DOMAIN stack[m] = 1..n0
        /\ DOMAIN stack'[m] = 1..(n0 + 1)
        /\ stack'[m][n0 + 1] = a
        /\ \A j \in DOMAIN stack[m] : stack'[m][j] = stack[m][j]
    BY <1>2, <2>0, <2>1, PushFacts
  <2>3. n0 \in Nat
    BY <1>2, <2>0 DEF StackType
  <2>4. DOMAIN stack'[m] = DOMAIN stack[m] \cup {n0 + 1} /\ n0 + 1 \notin DOMAIN stack[m]
    BY <2>2, <2>3
  <2>5. \A n \in Module : \A j : j \in DOMAIN stack'[n] /\ stack'[n][j].op = "iter" <=>
                                 j \in DOMAIN stack[n] /\ stack[n][j].op = "iter"
    BY <2>1, <2>2, <2>4
  <2>6. \A n \in Module : \A j : j \in DOMAIN stack[n] => stack'[n][j] = stack[n][j]
    BY <2>2
  <2>7. \A p : Loops(p)' = Loops(p)
    BY <2>5, <2>6, LoopsKept DEF LoopAt
  <2>8. LoopsCounted'
    BY <1>1, <2>7 DEF LoopInv, LoopsCounted, Container
  <2>9. LoopLengthFixed'
    BY <1>1, <2>5, <2>6 DEF LoopInv, LoopLengthFixed
  <2> QED
    BY <2>8, <2>9 DEF LoopInv
<1>5. CASE Advances(m)
  <2>0. PICK n0 : n0 = Len(stack[m])
    OBVIOUS
  <2>1. /\ \A n \in Module \ {m} : stack'[n] = stack[n]
        /\ n0 \in DOMAIN stack[m]
        /\ DOMAIN stack'[m] = DOMAIN stack[m]
        /\ \A j \in DOMAIN stack[m] :
              stack'[m][j] = IF j = n0 THEN [stack[m][j] EXCEPT !.i = @ + 1] ELSE stack[m][j]
    BY <1>5, <2>0, AdvanceFacts
  <2> DEFINE a == stack[m][n0]
             b == [a EXCEPT !.i = @ + 1]
  <2>2. a = Top(m) /\ a \in Activity /\ a.op \in {"iter", "unpack"}
    BY <1>5, <2>0, TopType DEF Advances
  <2>3. a \in [op : {"iter", "unpack"}, obj : Obj, i : Nat, len : Nat]
    BY <2>2 DEF Activity
  <2>4. b.op = a.op /\ b.obj = a.obj /\ b.i = a.i + 1 /\ b.len = a.len
    BY <2>3
  <2>5. \A n \in Module : \A j : /\ j \in DOMAIN stack'[n] <=> j \in DOMAIN stack[n]
                                 /\ j \in DOMAIN stack[n] =>
                                      stack'[n][j].op = stack[n][j].op /\ stack'[n][j].obj = stack[n][j].obj
    BY <2>1, <2>4
  <2>6. \A p : Loops(p)' = Loops(p)
    BY <2>5, LoopsKept DEF LoopAt
  <2>7. LoopsCounted'
    BY <1>1, <2>6 DEF LoopInv, LoopsCounted, Container
  <2>8. LoopLengthFixed'
    <3> SUFFICES ASSUME NEW n \in Module \ done, NEW j \in DOMAIN stack'[n], stack'[n][j].op = "iter"
                 PROVE  /\ stack'[n][j].i <= stack'[n][j].len
                        /\ stack'[n][j].len = Len(heap[stack'[n][j].obj].elems)
      BY <1>1 DEF LoopLengthFixed
    <3>1. CASE n = m /\ j = n0
      <4>1. stack'[n][j] = b
        BY <2>1, <3>1
      <4>2. a.op = "iter" /\ a.i <= a.len /\ a.len = Len(heap[a.obj].elems)
        BY <2>1, <2>4, <3>1, <4>1 DEF LoopInv, LoopLengthFixed
      <4>3. a.i < Len(heap[a.obj].elems)
        BY <1>5, <2>2, <4>2 DEF Advances
      <4>4. a.i + 1 <= a.len
        BY <2>3, <4>2, <4>3
      <4> QED
        BY <2>4, <4>1, <4>2, <4>4
    <3>2. CASE ~(n = m /\ j = n0)
      <4>1. j \in DOMAIN stack[n] /\ stack'[n][j] = stack[n][j]
        BY <2>1, <3>2
      <4> QED
        BY <4>1 DEF LoopInv, LoopLengthFixed
    <3> QED
      BY <3>1, <3>2
  <2> QED
    BY <2>7, <2>8 DEF LoopInv
<1> QED
  BY <1>3, <1>4, <1>5 DEF StackOnly

\* An assignment to a global, freezing and the end of an execution do not touch loops.
LEMMA QuietLoops ==
  ASSUME TypeOK, LoopInv, NEW m \in Module,
         \/ \E x \in Name, v \in Value : SetGlobal(m, x, v)
         \/ \E v \in Obj : FreezeValue(m, v)
         \/ Exec(m)
  PROVE  LoopInv'
<1>1. HeapType
  BY TypesOK DEF Types
<1>2. stack' = stack /\ done \subseteq done'
  BY DEF SetGlobal, FreezeValue, Exec
<1>3. \A p \in Obj : /\ heap'[p].kind = heap[p].kind /\ heap'[p].elems = heap[p].elems
                     /\ heap'[p].itercount = heap[p].itercount
                     /\ heap[p].frozen => heap'[p].frozen
  <2>1. CASE heap' = heap
    BY <2>1
  <2>2. CASE \E R : heap' = Frozen(heap, R)
    BY <1>1, <2>2, FrozenFacts
  <2> QED
    BY <2>1, <2>2 DEF SetGlobal, FreezeValue, Exec
<1>4. \A p : Loops(p)' = Loops(p)
  BY <1>2, LoopsKept DEF LoopAt
<1>5. LoopsCounted'
  BY <1>3, <1>4 DEF LoopInv, LoopsCounted, Container
<1>6. LoopLengthFixed'
  <2> SUFFICES ASSUME NEW n \in Module \ done', NEW j \in DOMAIN stack[n], stack[n][j].op = "iter"
               PROVE  /\ stack[n][j].i <= stack[n][j].len
                      /\ stack[n][j].len = Len(heap'[stack[n][j].obj].elems)
    BY <1>2 DEF LoopLengthFixed
  <2>1. n \in Module \ done
    BY <1>2
  <2>2. stack[n][j] \in Activity
    BY <2>1 DEF TypeOK
  <2>3. stack[n][j].obj \in Obj
    BY <2>2 DEF Activity
  <2> QED
    BY <1>3, <2>1, <2>3 DEF LoopInv, LoopLengthFixed
<1> QED
  BY <1>5, <1>6 DEF LoopInv

(***************************************************************************)
(* The invariant.                                                          *)
(***************************************************************************)
LEMMA Initially == Init => IInv
<1> SUFFICES ASSUME Init PROVE IInv
  OBVIOUS
<1>1. TypeOK
  <2>1. <<>> \in Seq(Value) /\ <<>> \in Seq(Activity) /\ Len(<<>>) = 0
    OBVIOUS
  <2>2. heap = [o \in Obj |-> Free]
    BY DEF Init
  <2>3. HeapType
    BY <2>1, <2>2 DEF HeapType, Free
  <2>4. KeysType
    BY <2>1, <2>2 DEF KeysType, Free, Kind
  <2>5. RestType
    BY DEF Init, RestType
  <2>6. StackType
    BY <2>1, CollectionsAssumption DEF Init, StackType
  <2> QED
    BY <2>3, <2>4, <2>5, <2>6, TypesOK DEF Types
<1>2. Allocation
  BY CollectionsAssumption DEF Init, Allocation, Free, Kind, Container
<1>3. SharingInv
  <2>1. \A m \in Module : GlobalsOf(m) = {} /\ Own(m) = {} /\ stack[m] = <<>>
    BY CollectionsAssumption DEF Init, GlobalsOf, Own, Free
  <2>2. Solid({}) /\ Published({})
    BY <2>1 DEF Init, Solid, Published, Free
  <2> QED
    BY <2>2 DEF SharingInv
<1>4. LoopInv
  <2>1. \A n \in Module : stack[n] = <<>> /\ DOMAIN stack[n] = {}
    BY DEF Init
  <2>2. \A o : Loops(o) = {}
    BY <2>1 DEF Loops, LoopAt
  <2>3. LoopsCounted
    BY <2>2, FS_EmptySet DEF Init, LoopsCounted, Container, Free
  <2>4. LoopLengthFixed
    BY <2>1 DEF LoopLengthFixed
  <2> QED
    BY <2>3, <2>4 DEF LoopInv
<1> QED
  BY <1>1, <1>2, <1>3, <1>4 DEF IInv

\* Stuttering.
LEMMA Unchanged == IInv /\ UNCHANGED vars => IInv'
<1> SUFFICES ASSUME IInv, UNCHANGED vars PROVE IInv'
  OBVIOUS
<1> USE DEF vars
<1>1. TypeOK' /\ Allocation'
  BY DEF IInv, TypeOK, Allocation, Kind, Container
<1>2. SharingInv'
  <2>1. PICK S \in SUBSET Obj, P \in SUBSET Obj : Solid(S) /\ Published(P)
    BY DEF IInv, SharingInv
  <2>2. Solid(S)'
    BY <2>1 DEF Solid, Kind
  <2>3. \A m \in Module : GlobalsOf(m)' = GlobalsOf(m) /\ Own(m)' = Own(m)
    BY DEF GlobalsOf, Own
  <2>4. Published(P)'
    BY <2>1, <2>3 DEF Published, Kind
  <2> QED
    BY <2>2, <2>4 DEF SharingInv
<1>3. LoopInv'
  BY DEF IInv, LoopInv, LoopsCounted, LoopLengthFixed, Loops, LoopAt, Container
<1> QED
  BY <1>1, <1>2, <1>3 DEF IInv

\* Every step preserves the invariant: one case per effect.
LEMMA StepKeeps ==
  ASSUME IInv, NEW m \in Module, Step(m)
  PROVE  IInv'
<1>1. TypeOK /\ Allocation /\ LoopInv /\ LoopsCounted
  BY DEF IInv, LoopInv
<1>2. PICK S \in SUBSET Obj, P \in SUBSET Obj : Solid(S) /\ Published(P)
  BY DEF IInv, SharingInv
<1>3. Running(m) /\ Effect(P, m)
  BY <1>1, <1>2, Effects
<1>4. m \in Module \ done
  BY <1>3 DEF Running
<1>5. Known(P, m) \subseteq Obj /\ Values(P, m) \subseteq Value
  BY DEF Known, Own, Values, Value
<1>6. ASSUME Solid(S)' /\ Published(P)' PROVE SharingInv'
  BY <1>6 DEF SharingInv
<1>7. CASE Alloc(P, m)
  <2>1. TypeOK' /\ Allocation'
    BY <1>1, <1>4, <1>7, AllocTypes
  <2>2. Solid(S)' /\ Published(P)'
    BY <1>1, <1>2, <1>4, <1>7, AllocSharing
  <2>3. LoopInv'
    BY <1>1, <1>2, <1>4, <1>7, AllocLoops
  <2> QED
    BY <1>6, <2>1, <2>2, <2>3 DEF IInv
<1>8. CASE Change(P, m)
  <2>1. TypeOK' /\ Allocation'
    BY <1>1, <1>4, <1>8, ChangeTypes
  <2>2. Solid(S)' /\ Published(P)'
    BY <1>1, <1>2, <1>4, <1>8, ChangeSharing
  <2>3. LoopInv'
    BY <1>1, <1>4, <1>8, ChangeLoops
  <2> QED
    BY <1>6, <2>1, <2>2, <2>3 DEF IInv
<1>9. CASE \/ \E o \in Known(P, m) : Iterate(m, o)
           \/ StackOnly(P, m)
           \/ Leave(m)
           \/ \E x \in Name, v \in Values(P, m) : SetGlobal(m, x, v)
  <2>1. TypeOK' /\ Allocation'
    BY <1>1, <1>4, <1>9, OtherTypes
  <2>2. Solid(S)' /\ Published(P)'
    BY <1>1, <1>2, <1>4, <1>9, OtherSharing
  <2>3. LoopInv'
    BY <1>1, <1>4, <1>5, <1>9, IterateLoops, StackOnlyLoops, LeaveLoops, QuietLoops
  <2> QED
    BY <1>6, <2>1, <2>2, <2>3 DEF IInv
<1>10. CASE (\E v \in Known(P, m) : FreezeValue(m, v)) \/ Exec(m)
  <2>1. TypeOK' /\ Allocation'
    BY <1>1, <1>4, <1>10, OtherTypes
  <2>2. SharingInv'
    BY <1>1, <1>2, <1>4, <1>10, FreezeSharing, ExecSharing
  <2>3. LoopInv'
    BY <1>1, <1>4, <1>5, <1>10, QuietLoops
  <2> QED
    BY <2>1, <2>2, <2>3 DEF IInv
<1> QED
  BY <1>3, <1>7, <1>8, <1>9, <1>10 DEF Effect

\* The invariant holds in every state of every execution.
THEOREM Invariance == Spec => []IInv
<1>1. Init => IInv
  BY Initially
<1>2. IInv /\ [Next]_vars => IInv'
  BY StepKeeps, Unchanged DEF Next
<1> QED
  BY <1>1, <1>2, PTL DEF Spec

(***************************************************************************)
(* The results.                                                            *)
(***************************************************************************)

\* Types.
THEOREM Typing == Spec => []TypeOK
<1>1. IInv => TypeOK
  BY DEF IInv
<1> QED
  BY <1>1, Invariance, PTL

\* Freezing is deep: nothing that can be changed is reachable from a frozen list or dict.
\* The witness is Solid's set.
THEOREM FrozenDeep == Spec => []FrozenClosed
<1>1. ASSUME IInv PROVE FrozenClosed
  <2> DEFINE E == [y \in Obj |-> Children(heap, y)]
  <2>1. PICK S \in SUBSET Obj : Solid(S)
    BY <1>1 DEF IInv, SharingInv
  <2>2. E \in [Obj -> SUBSET Obj] /\ \A x \in S : E[x] \subseteq S
    BY <2>1 DEF Solid, Children
  <2>3. ASSUME NEW o \in Obj, heap[o].frozen PROVE Reach(E, {o}) \subseteq S
    <3>1. {o} \cap Obj \subseteq S
      BY <2>1, <2>3 DEF Solid
    <3> HIDE DEF E
    <3> QED
      BY <2>2, <3>1, ReachLeast
  <2> HIDE DEF E
  <2>4. \A o \in Obj : heap[o].frozen =>
          \A x \in Reach(E, {o}) : Container(heap, x) => heap[x].frozen
    BY <2>1, <2>3 DEF Solid
  <2> QED
    BY <2>4 DEF FrozenClosed, E
<1> QED
  BY <1>1, Invariance, PTL

\* What executions share is frozen: it lies in Published's set, of which every list and
\* dict is frozen.
THEOREM NoSharing == Spec => []SharedIsFrozen
<1>1. ASSUME IInv PROVE SharedIsFrozen
  <2>1. TypeOK
    BY <1>1 DEF IInv
  <2>2. PICK P \in SUBSET Obj : Published(P)
    BY <1>1 DEF IInv, SharingInv
  <2>3. \A o \in P : Container(heap, o) => heap[o].frozen
    BY <2>2 DEF Published
  <2>4. Loadable \subseteq P
    <3> DEFINE R == UNION {GlobalsOf(d) : d \in done}
    <3>1. \A d \in done : GlobalsOf(d) \subseteq P
      BY <2>1, <2>2 DEF Published, TypeOK
    <3>2. R \cap Obj \subseteq P
      BY <3>1
    <3>3. \A x \in P : Uses[x] \subseteq P
      BY <2>2, <3>1 DEF Published, Uses
    <3> HIDE DEF R
    <3>4. Reach(Uses, R) \subseteq P
      BY <3>2, <3>3, UsesType, ReachLeast
    <3> QED
      BY <3>4 DEF Loadable, R
  <2>5. ASSUME NEW m \in Module \ done, NEW n \in Module \ done, m # n
        PROVE  Access(m) \cap Access(n) \subseteq P
    <3>1. Access(m) \subseteq Known(P, m) /\ Access(n) \subseteq Known(P, n)
      BY <2>1, <2>2, AccessBound
    <3>2. Own(m) \cap Own(n) = {}
      BY <2>5 DEF Own
    <3> QED
      BY <3>1, <3>2 DEF Known
  <2> QED
    BY <2>3, <2>4, <2>5 DEF SharedIsFrozen
<1> QED
  BY <1>1, Invariance, PTL

\* No step writes to a frozen value.
THEOREM FrozenFinal == Spec => FrozenNeverWritten
<1> DEFINE Same == \A o \in Obj : heap[o].frozen => heap'[o] = heap[o]
<1>1. ASSUME IInv, NEW m \in Module, Step(m) PROVE Same
  <2>1. TypeOK /\ Allocation /\ LoopsCounted /\ HeapType
    BY <1>1, TypesOK DEF IInv, LoopInv, Types
  <2>2. PICK P \in SUBSET Obj : Published(P)
    BY <1>1 DEF IInv, SharingInv
  <2>3. Running(m) /\ Effect(P, m)
    BY <1>1, <2>1, <2>2, Effects
  <2>4. Known(P, m) \subseteq Obj
    BY DEF Known, Own
  <2>5. CASE Alloc(P, m)
    <3>1. PICK o \in Obj : Made(P, m, o)
      BY <2>1, <2>5, AllocFacts
    <3> QED
      BY <2>1, <3>1 DEF Allocation, Container, Made
  <2>6. CASE Change(P, m)
    <3>1. PICK o \in Own(m), ks \in Seq(Values(P, m)), vs \in Seq(Values(P, m)) : Write(o, ks, vs)
      BY <2>6 DEF Change, Writes
    <3>2. /\ HeapType' /\ KeysType'
          /\ \A p \in Obj \ {o} : heap'[p] = heap[p]
          /\ heap'[o].keys = ks /\ heap'[o].elems = vs
          /\ heap'[o].kind = heap[o].kind /\ heap'[o].frozen = heap[o].frozen
          /\ heap'[o].itercount = heap[o].itercount /\ heap'[o].home = heap[o].home
          /\ heap'[o].code = heap[o].code
      BY <2>1, <3>1, WriteFacts
    <3> QED
      BY <3>1, <3>2 DEF Write
  <2>7. CASE \E o \in Known(P, m) : Iterate(m, o)
    <3>1. PICK o \in Obj : Iterate(m, o)
      BY <2>4, <2>7
    <3>2. \A p \in Obj \ {o} : heap'[p] = heap[p]
      BY <2>1, <3>1, IterateFacts
    <3> QED
      BY <3>1, <3>2 DEF Iterate, Counted
  <2>8. CASE Leave(m)
    <3>1. \A p \in Obj : ~(Top(m).op = "iter" /\ Counted(p) /\ p = Top(m).obj) => heap'[p] = heap[p]
      BY <2>1, <2>8, LeaveFacts
    <3> QED
      BY <3>1 DEF Counted
  <2>9. CASE StackOnly(P, m) \/ \E x \in Name, v \in Values(P, m) : SetGlobal(m, x, v)
    BY <2>9 DEF StackOnly, SetGlobal
  <2>10. CASE (\E v \in Known(P, m) : FreezeValue(m, v)) \/ Exec(m)
    <3>1. PICK R : heap' = Frozen(heap, R)
      BY <2>10 DEF FreezeValue, Exec
    <3> QED
      BY <2>1, <3>1, FrozenFacts
  <2> QED
    BY <2>3, <2>5, <2>6, <2>7, <2>8, <2>9, <2>10 DEF Effect
<1>2. ASSUME IInv, [Next]_vars PROVE [Same]_vars
  BY <1>1, <1>2 DEF Next
<1> QED
  BY <1>2, Invariance, PTL DEF Spec, FrozenNeverWritten

\* The count of iterators of what is not frozen is the number of loops over it.
THEOREM Counting == Spec => []LoopsCounted
<1>1. IInv => LoopsCounted
  BY DEF IInv, LoopInv
<1> QED
  BY <1>1, Invariance, PTL

\* So a loop makes as many iterations as there were elements: a list or dict whose length
\* changes counts no iterator.
THEOREM LoopLength == Spec => []LoopLengthFixed
<1>1. IInv => LoopLengthFixed
  BY DEF IInv, LoopInv
<1> QED
  BY <1>1, Invariance, PTL
=============================================================================
