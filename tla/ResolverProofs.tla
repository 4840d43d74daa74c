---------------------------- MODULE ResolverProofs ----------------------------
(***************************************************************************)
(* Proofs about Resolver, for any names, options and parameter lists and   *)
(* programs of any size.  The walk over the program keeps an invariant     *)
(* (Walked), action by action; the loop over the pending uses keeps        *)
(* another (Looped); what the resolver leaves behind is what the program   *)
(* says.                                                                   *)
(***************************************************************************)
EXTENDS Resolver, Induction, FiniteSetTheorems, SequenceTheorems

(***************************************************************************)
(* Recursion up a tree.                                                    *)
(***************************************************************************)

\* f is a recursion up a tree of n nodes: at the nodes where it stops it is base, at the
\* others what F makes of its value at the parent.
Climbs(f, n, S, stop, base, par, F) ==
  /\ f \in [1..n -> S]
  /\ \A c \in 1..n : f[c] = IF c \in stop THEN base[c] ELSE F[<<c, f[par[c]]>>]

\* Such a recursion exists.
LEMMA Climbing ==
  ASSUME NEW n \in Nat, NEW S, NEW stop, NEW base, NEW par, NEW F,
         \A c \in (1..n) \cap stop : base[c] \in S,
         \A c \in (1..n) \ stop : par[c] \in 1..(c - 1),
         F \in [(1..n) \X S -> S]
  PROVE  \E f : Climbs(f, n, S, stop, base, par, F)
<1> DEFINE T == {m \in 0..n : \E f : Climbs(f, m, S, stop, base, par, F)}
<1>1. 0 \in T
  <2>1. Climbs([c \in {} |-> c], 0, S, stop, base, par, F)
    BY DEF Climbs
  <2> QED
    BY <2>1
<1>2. ASSUME NEW m \in 1..n, m - 1 \in T PROVE m \in T
  <2>1. PICK f : Climbs(f, m - 1, S, stop, base, par, F)
    BY <1>2
  <2>2. /\ f \in [1..(m - 1) -> S]
        /\ \A c \in 1..(m - 1) : f[c] = IF c \in stop THEN base[c] ELSE F[<<c, f[par[c]]>>]
    BY <2>1 DEF Climbs
  <2> DEFINE v == IF m \in stop THEN base[m] ELSE F[<<m, f[par[m]]>>]
             g == [c \in 1..m |-> IF c = m THEN v ELSE f[c]]
  <2>3. v \in S
    <3>1. CASE m \in stop
      BY <3>1
    <3>2. CASE m \notin stop
      <4>1. par[m] \in 1..(m - 1)
        BY <3>2
      <4>2. f[par[m]] \in S
        BY <2>2, <4>1
      <4> QED
        BY <3>2, <4>2
    <3> QED
      BY <3>1, <3>2
  <2>4. \A c \in 1..(m - 1) : c \in 1..m /\ c # m /\ c \in 1..n
    OBVIOUS
  <2>5. \A c \in 1..m : c \in 1..(m - 1) \/ c = m
    OBVIOUS
  <2> HIDE DEF v
  <2>6. g \in [1..m -> S]
    BY <2>2, <2>3, <2>5
  <2>7. \A c \in 1..(m - 1) : g[c] = f[c]
    BY <2>4
  <2>8. g[m] = v
    OBVIOUS
  <2>9. ASSUME NEW c \in 1..m PROVE g[c] = IF c \in stop THEN base[c] ELSE F[<<c, g[par[c]]>>]
    <3> HIDE DEF g
    <3>1. CASE c = m
      <4>1. m \notin stop => par[m] \in 1..(m - 1)
        BY <2>4
      <4> QED
        BY <2>7, <2>8, <3>1, <4>1 DEF v
    <3>2. CASE c # m
      <4>1. c \in 1..(m - 1) /\ (c \notin stop => par[c] \in 1..(c - 1))
        BY <2>4, <2>5, <3>2
      <4>2. c \notin stop => par[c] \in 1..(m - 1)
        BY <4>1
      <4> QED
        BY <2>2, <2>7, <4>1, <4>2
    <3> QED
      BY <3>1, <3>2
  <2>10. Climbs(g, m, S, stop, base, par, F)
    <3> HIDE DEF g
    <3> QED
      BY <2>6, <2>9 DEF Climbs
  <2> QED
    BY <2>10
<1> HIDE DEF T
<1>3. 0..n \subseteq T
  BY <1>1, <1>2, BoundedInduction
<1> QED
  BY <1>3 DEF T

\* f is a recursion that counts from zero.
Counts(f, n, S, first, F) ==
  f \in [0..n -> S] /\ f[0] = first /\ \A i \in 1..n : f[i] = F[<<i, f[i - 1]>>]

\* Such a recursion exists.
LEMMA Counting ==
  ASSUME NEW n \in Nat, NEW S, NEW first \in S, NEW F, F \in [(1..n) \X S -> S]
  PROVE  \E f : Counts(f, n, S, first, F)
<1> DEFINE stop == {1}
           base == [c \in {1} |-> first]
           par  == [c \in 1..(n + 1) |-> c - 1]
           G    == [p \in (1..(n + 1)) \X S |-> F[<<p[1] - 1, p[2]>>]]
           H    == [p \in (1..(n + 1)) \X S |-> IF p[1] = 1 THEN first ELSE G[p]]
<1>1. /\ n + 1 \in Nat
      /\ \A c \in (1..(n + 1)) \cap stop : base[c] \in S
      /\ \A c \in (1..(n + 1)) \ stop : par[c] \in 1..(c - 1)
  OBVIOUS
<1>2. ASSUME NEW c \in 1..(n + 1), NEW v \in S
      PROVE  H[<<c, v>>] = (IF c = 1 THEN first ELSE F[<<c - 1, v>>]) /\ H[<<c, v>>] \in S
  <2>1. <<c, v>> \in (1..(n + 1)) \X S /\ <<c, v>>[1] = c /\ <<c, v>>[2] = v
    OBVIOUS
  <2>2. H[<<c, v>>] = IF c = 1 THEN first ELSE F[<<c - 1, v>>]
    BY <2>1
  <2>3. c # 1 => c - 1 \in 1..n
    OBVIOUS
  <2> HIDE DEF H
  <2> QED
    BY <2>2, <2>3
<1>3. H \in [(1..(n + 1)) \X S -> S]
  <2>1. H = [p \in (1..(n + 1)) \X S |-> H[p]]
    OBVIOUS
  <2>2. \A p \in (1..(n + 1)) \X S : H[p] \in S
    <3> SUFFICES ASSUME NEW p \in (1..(n + 1)) \X S PROVE H[p] \in S
      OBVIOUS
    <3>1. p[1] \in 1..(n + 1) /\ p[2] \in S /\ p = <<p[1], p[2]>>
      OBVIOUS
    <3> HIDE DEF H
    <3> QED
      BY <1>2, <3>1
  <2> HIDE DEF H
  <2> QED
    BY <2>1, <2>2
<1> HIDE DEF stop, base, par, H, G
<1>4. PICK g : Climbs(g, n + 1, S, stop, base, par, H)
  BY <1>1, <1>3, Climbing
<1>5. g \in [1..(n + 1) -> S] /\ \A c \in 1..(n + 1) : g[c] = IF c \in stop THEN base[c] ELSE H[<<c, g[par[c]]>>]
  BY <1>4 DEF Climbs
<1> DEFINE f == [i \in 0..n |-> g[i + 1]]
<1>6. \A i \in 0..n : f[i] = g[i + 1] /\ i + 1 \in 1..(n + 1) /\ f[i] \in S
  BY <1>5
<1>7. f[0] = first
  <2>1. 1 \in stop /\ base[1] = first
    BY DEF stop, base
  <2>2. 1 \in 1..(n + 1) /\ 0 \in 0..n /\ 0 + 1 = 1
    OBVIOUS
  <2>3. g[1] = first
    BY <1>5, <2>1, <2>2
  <2> HIDE DEF f
  <2> QED
    BY <1>6, <2>2, <2>3
<1>8. ASSUME NEW i \in 1..n PROVE f[i] = F[<<i, f[i - 1]>>]
  <2>1. i \in 0..n /\ i - 1 \in 0..n /\ i + 1 \in 1..(n + 1) /\ i + 1 # 1 /\ (i - 1) + 1 = i /\ (i + 1) - 1 = i
    OBVIOUS
  <2>2. par[i + 1] = i /\ i + 1 \notin stop
    BY <2>1 DEF par, stop
  <2>3. f[i] = H[<<i + 1, g[i]>>] /\ g[i] = f[i - 1] /\ g[i] \in S
    BY <1>5, <1>6, <2>1, <2>2
  <2> HIDE DEF f
  <2> QED
    BY <1>2, <2>1, <2>3
<1>9. f \in [0..n -> S]
  BY <1>6
<1> HIDE DEF f
<1> QED
  BY <1>7, <1>8, <1>9 DEF Counts

(***************************************************************************)
(* The types.                                                              *)
(***************************************************************************)
Scopes   == {"none", "local", "free", "global", "predeclared", "universal", "undefined"}
Bindings == [scope : Scopes, index : Nat]
FreeVars == [name : Name, scope : Scopes, index : Nat]
BlockType ==
  [parent : Nat, kind : {"module", "function", "comp"}, bindings : [Name -> Bindings],
   locals : Seq(Nat), freevars : Seq(FreeVars), uses : Seq(Nat), params : Seq(Param)]
IdType ==
  [name : Name, env : Nat, binds : BOOLEAN, scope : Scopes \cup {"unresolved"}, index : Nat]
Errors ==
  {"unsupported", "undefined", "cannot reassign global", "duplicate parameter", "misplaced parameter",
   "can't assign", "nested def", "lambda", "not within a function", "not in a loop",
   "load within a function", "load of a bad name"}
Resolvers ==
  [env : Nat, blocks : Seq(BlockType), ids : Seq(IdType), globals : [Name -> Nat],
   moduleGlobals : Seq(Nat), loops : Int, errors : SUBSET Errors]

(***************************************************************************)
(* The blocks are a tree, and the constructs that are open a path in it.   *)
(***************************************************************************)
Tree(bs) ==
  /\ bs \in Seq(BlockType) /\ Module \in DOMAIN bs
  /\ bs[Module].kind = "module" /\ bs[Module].parent = 0
  /\ \A b \in DOMAIN bs \ {Module} : bs[b].kind \in {"function", "comp"} /\ bs[b].parent \in 1..(b - 1)

Opens(bs, kind, outer, inner) ==
  IF kind \in {"function", "lambda", "comp"}
  THEN /\ inner # Module /\ bs[inner].parent = outer
       /\ bs[inner].kind = (IF kind = "comp" THEN "comp" ELSE "function")
  ELSE inner = outer
Path(bs, env, o, e) ==
  /\ e \in [0..Len(o) -> DOMAIN bs] /\ e[0] = Module /\ e[Len(o)] = env
  /\ \A i \in 1..Len(o) : Opens(bs, o[i], e[i - 1], e[i])
Nested(bs, env, o) == \E e \in [0..Len(o) -> DOMAIN bs] : Path(bs, env, o, e)
Constructs == {"def", "lambda header", "function", "lambda", "comp", "for"}

(***************************************************************************)
(* Loops, and functions in functions.                                      *)
(***************************************************************************)
Functional == {"function", "lambda"}
HasFunction(o) == \E k \in DOMAIN o : o[k] \in Functional
Fors(o)        == {i \in DOMAIN o : o[i] = "for"}
ForsNested(o)  == \A i \in DOMAIN o : o[i] = "for" => \E k \in 1..(i - 1) : o[k] \in Functional
DefsFlat(o)    == \A i \in DOMAIN o : o[i] \in {"def", "function"} => \A k \in 1..(i - 1) : o[k] \notin Functional
LoopsOpen(q, o, a) ==
  /\ q.loops = Cardinality(Fors(o))
  /\ q.errors = {} => ForsNested(o)
  /\ q.errors = {} /\ "nestedDef" \notin a => DefsFlat(o)

(***************************************************************************)
(* What is bound.                                                          *)
(***************************************************************************)
BoundAt(q, b, x) ==
  LET v == q.blocks[b].bindings[x]
      locals == q.blocks[Container(q.blocks, b)].locals
  IN  v # NoBinding =>
        /\ v.scope = "local" /\ v.index \in DOMAIN locals /\ locals[v.index] \in DOMAIN q.ids
        /\ LET id == q.ids[locals[v.index]] IN id.name = x /\ id.env = b /\ id.binds
LocalsBound(q) ==
  \A b \in DOMAIN q.blocks, x \in Name :
    /\ b = Module => q.blocks[b].bindings[x] = NoBinding
    /\ BoundAt(q, b, x)
    /\ b # Module /\ Declares(q, b, x) => q.blocks[b].bindings[x] # NoBinding
GlobalsBound(q) ==
  \A x \in Name :
    /\ q.globals[x] # 0 <=> Declares(q, Module, x)
    /\ q.globals[x] # 0 =>
         /\ q.globals[x] \in DOMAIN q.moduleGlobals
         /\ q.moduleGlobals[q.globals[x]] \in DOMAIN q.ids
         /\ q.ids[q.moduleGlobals[q.globals[x]]].name = x

(***************************************************************************)
(* What is resolved.                                                       *)
(***************************************************************************)
TopLevel(q) ==
  \A i \in DOMAIN q.ids : LET id == q.ids[i] IN
    id.env = Module =>
      IF \E j \in 1..i : q.ids[j].binds /\ q.ids[j].env = Module /\ q.ids[j].name = id.name
      THEN id.scope = "global" /\ id.index = q.globals[id.name]
      ELSE id.scope = Outside(id.name)

IdsOf(q, c) == {i \in DOMAIN q.ids : q.ids[i].env # Module /\ Container(q.blocks, q.ids[i].env) = c}
Waiting(q, c) ==
  \A i \in IdsOf(q, c) : i \in ToSet(q.blocks[c].uses) /\ q.ids[i].scope = "unresolved"
Settled(q, c) ==
  \A i \in IdsOf(q, c) :
    LET id == q.ids[i]
        v  == LookupLocal(q.blocks, id.name, id.env)
    IN  IF v # NoBinding THEN i \notin ToSet(q.blocks[c].uses) /\ id.scope = "local" /\ id.index = v.index
        ELSE i \in ToSet(q.blocks[c].uses) /\ id.scope = "unresolved"
UsesKept(q) ==
  \A c \in DOMAIN q.blocks :
    /\ ToSet(q.blocks[c].uses) \subseteq IdsOf(q, c)
    /\ c \in Ancestors(q.blocks, q.env) => Waiting(q, c)
    /\ c \notin Ancestors(q.blocks, q.env) => Settled(q, c)
    /\ q.blocks[c].freevars = <<>>

(***************************************************************************)
(* Parameters.                                                             *)
(***************************************************************************)
Placed(q, f, n) ==
  LET ps == q.blocks[f].params
      locals == q.blocks[f].locals
  IN  /\ n <= Len(ps)
      /\ \A k \in 1..n : k \in DOMAIN locals /\ locals[k] \in DOMAIN q.ids /\ q.ids[locals[k]].name = ps[k].name
      /\ \A j, k \in 1..n : j < k => ps[j].name # ps[k].name
Ordered(ps) ==
  \A j, k \in DOMAIN ps : j < k =>
    Rank(ps[j]) <= Rank(ps[k]) /\ (Rank(ps[j]) = Rank(ps[k]) => Rank(ps[j]) <= 2)
ParamsPlaced(q) ==
  q.errors = {} => \A f \in DOMAIN q.blocks :
    Placed(q, f, Len(q.blocks[f].params)) /\ Ordered(q.blocks[f].params)

(***************************************************************************)
(* The invariant of the walk.                                              *)
(***************************************************************************)
WellFormed(q) ==
  /\ q \in Resolvers /\ Tree(q.blocks) /\ q.env \in DOMAIN q.blocks
  /\ \A i \in DOMAIN q.ids : q.ids[i].env \in DOMAIN q.blocks
Core(q)   == WellFormed(q) /\ LocalsBound(q) /\ GlobalsBound(q) /\ TopLevel(q) /\ UsesKept(q)
Walked(q, o, a) ==
  /\ o \in Seq(Constructs) /\ Nested(q.blocks, q.env, o) /\ LoopsOpen(q, o, a)
  /\ Core(q) /\ ParamsPlaced(q)
WalkInv == allow \in Dialects /\ stray \in BOOLEAN /\ done \in BOOLEAN /\ Walked(r, open, allow)

(***************************************************************************)
(* Recursions up the tree of blocks.                                       *)
(***************************************************************************)

\* What the tree says of one block.
LEMMA TreeFacts ==
  ASSUME NEW bs, Tree(bs)
  PROVE  /\ Len(bs) \in Nat /\ DOMAIN bs = 1..Len(bs) /\ Module \in DOMAIN bs /\ Module = 1
         /\ bs[Module].kind = "module" /\ bs[Module].parent = 0
         /\ \A b \in DOMAIN bs : bs[b] \in BlockType
         /\ \A b \in DOMAIN bs \ {Module} :
              bs[b].kind \in {"function", "comp"} /\ bs[b].parent \in 1..(b - 1) /\ bs[b].parent \in DOMAIN bs
<1>1. bs \in Seq(BlockType)
  BY DEF Tree
<1>2. Len(bs) \in Nat /\ DOMAIN bs = 1..Len(bs) /\ \A b \in 1..Len(bs) : bs[b] \in BlockType
  BY <1>1, LenProperties, ElementOfSeq
<1>3. \A b \in DOMAIN bs \ {Module} : bs[b].kind \in {"function", "comp"} /\ bs[b].parent \in 1..(b - 1)
  BY DEF Tree
<1> QED
  BY <1>2, <1>3 DEF Tree, Module

\* The container of a block: its own equation, and where it lies.
LEMMA ContainerIs ==
  ASSUME NEW bs, Tree(bs), NEW b \in DOMAIN bs
  PROVE  /\ Container(bs, b) = IF bs[b].kind = "comp" THEN Container(bs, bs[b].parent) ELSE b
         /\ Container(bs, b) \in 1..b /\ Container(bs, b) \in DOMAIN bs
         /\ bs[Container(bs, b)].kind # "comp"
<1> DEFINE n       == Len(bs)
           Step(u) == [c \in DOMAIN bs |-> IF bs[c].kind = "comp" THEN u[bs[c].parent] ELSE c]
           stop    == {c \in 1..n : bs[c].kind # "comp"}
           base    == [c \in 1..n |-> c]
           par     == [c \in 1..n |-> bs[c].parent]
           F       == [p \in (1..n) \X (1..n) |-> p[2]]
<1>1. /\ n \in Nat /\ DOMAIN bs = 1..n
      /\ \A c \in 1..n : bs[c].kind = "comp" => bs[c].parent \in 1..(c - 1) /\ bs[c].parent \in 1..n
  BY TreeFacts
<1>2. PICK f : Climbs(f, n, 1..n, stop, base, par, F)
  <2>1. /\ \A c \in (1..n) \cap stop : base[c] \in 1..n
        /\ \A c \in (1..n) \ stop : par[c] \in 1..(c - 1)
        /\ F \in [(1..n) \X (1..n) -> 1..n]
    BY <1>1
  <2> HIDE DEF stop, base, par, F, n
  <2> QED
    BY <1>1, <2>1, Climbing
<1>3. f = Step(f)
  <2>1. f \in [1..n -> 1..n] /\ \A c \in 1..n : f[c] = IF c \in stop THEN base[c] ELSE F[<<c, f[par[c]]>>]
    BY <1>2 DEF Climbs
  <2>2. ASSUME NEW c \in 1..n PROVE f[c] = IF bs[c].kind = "comp" THEN f[bs[c].parent] ELSE c
    <3>1. CASE bs[c].kind = "comp"
      <4>1. f[bs[c].parent] \in 1..n /\ c \notin stop /\ par[c] = bs[c].parent
        BY <1>1, <2>1, <3>1
      <4> QED
        BY <2>1, <3>1, <4>1
    <3>2. CASE bs[c].kind # "comp"
      BY <2>1, <3>2
    <3> QED
      BY <3>1, <3>2
  <2>3. f = [c \in 1..n |-> f[c]]
    BY <2>1
  <2> QED
    BY <1>1, <2>2, <2>3
<1>4. PICK u : u = Step(u) /\ \A c \in DOMAIN bs : Container(bs, c) = u[c]
  <2> HIDE DEF Step
  <2>1. (CHOOSE u : u = Step(u)) = Step(CHOOSE u : u = Step(u))
    BY <1>3
  <2>2. \A c \in DOMAIN bs : Container(bs, c) = (CHOOSE u : u = Step(u))[c]
    BY DEF Container, Step
  <2> QED
    BY <2>1, <2>2
<1>5. \A c \in 1..n : u[c] = IF bs[c].kind = "comp" THEN u[bs[c].parent] ELSE c
  <2>1. \A c \in 1..n : Step(u)[c] = IF bs[c].kind = "comp" THEN u[bs[c].parent] ELSE c
    BY <1>1
  <2> HIDE DEF Step
  <2> QED
    BY <1>4, <2>1
<1> HIDE DEF n, Step
<1> DEFINE T == {c \in 1..n : u[c] \in 1..c /\ bs[u[c]].kind # "comp"}
<1>6. ASSUME NEW c \in 1..n, \A d \in 1..(c - 1) : d \in T PROVE c \in T
  <2>1. CASE bs[c].kind = "comp"
    <3>1. bs[c].parent \in 1..(c - 1) /\ bs[c].parent \in T /\ u[c] = u[bs[c].parent]
      BY <1>1, <1>5, <1>6, <2>1
    <3> QED
      BY <1>1, <3>1
  <2>2. CASE bs[c].kind # "comp"
    BY <1>1, <1>5, <2>2
  <2> QED
    BY <2>1, <2>2
<1>7. 1..n \subseteq T
  <2> HIDE DEF T
  <2> QED
    BY <1>1, <1>6, StrongInduction
<1>8. b \in 1..n /\ u[b] \in 1..b /\ bs[u[b]].kind # "comp" /\ u[b] \in 1..n
  BY <1>1, <1>7
<1> QED
  BY <1>1, <1>4, <1>5, <1>8

\* The binding lookupLocal finds: its own equation.
LEMMA LookupLocalIs ==
  ASSUME NEW bs, Tree(bs), NEW x \in Name, NEW b \in DOMAIN bs
  PROVE  /\ LookupLocal(bs, x, b) =
              IF bs[b].bindings[x] # NoBinding THEN bs[b].bindings[x]
              ELSE IF bs[b].kind # "comp" THEN NoBinding ELSE LookupLocal(bs, x, bs[b].parent)
         /\ LookupLocal(bs, x, b) \in Bindings
<1> DEFINE n       == Len(bs)
           Step(u) == [c \in DOMAIN bs |-> IF bs[c].bindings[x] # NoBinding THEN bs[c].bindings[x]
                                           ELSE IF bs[c].kind # "comp" THEN NoBinding ELSE u[bs[c].parent]]
           stop    == {c \in 1..n : bs[c].bindings[x] # NoBinding \/ bs[c].kind # "comp"}
           base    == [c \in 1..n |-> bs[c].bindings[x]]
           par     == [c \in 1..n |-> bs[c].parent]
           F       == [p \in (1..n) \X Bindings |-> p[2]]
<1>1. /\ n \in Nat /\ DOMAIN bs = 1..n
      /\ \A c \in 1..n : bs[c].kind = "comp" => bs[c].parent \in 1..(c - 1) /\ bs[c].parent \in 1..n
  BY TreeFacts
<1>2. \A c \in 1..n : bs[c].bindings[x] \in Bindings
  <2>1. \A c \in 1..n : bs[c] \in BlockType
    BY TreeFacts
  <2>2. \A c \in 1..n : bs[c].bindings \in [Name -> Bindings]
    BY <2>1 DEF BlockType
  <2> QED
    BY <2>2
<1>3. PICK f : Climbs(f, n, Bindings, stop, base, par, F)
  <2>1. /\ \A c \in (1..n) \cap stop : base[c] \in Bindings
        /\ \A c \in (1..n) \ stop : par[c] \in 1..(c - 1)
        /\ F \in [(1..n) \X Bindings -> Bindings]
    BY <1>1, <1>2
  <2> HIDE DEF stop, base, par, F, n
  <2> QED
    BY <1>1, <2>1, Climbing
<1>4. f = Step(f)
  <2>1. f \in [1..n -> Bindings] /\ \A c \in 1..n : f[c] = IF c \in stop THEN base[c] ELSE F[<<c, f[par[c]]>>]
    BY <1>3 DEF Climbs
  <2>2. ASSUME NEW c \in 1..n
        PROVE  f[c] = IF bs[c].bindings[x] # NoBinding THEN bs[c].bindings[x]
                      ELSE IF bs[c].kind # "comp" THEN NoBinding ELSE f[bs[c].parent]
    <3>1. CASE c \notin stop
      <4>1. f[bs[c].parent] \in Bindings /\ par[c] = bs[c].parent /\ bs[c].parent \in 1..n
        BY <1>1, <2>1, <3>1
      <4>2. F[<<c, f[par[c]]>>] = f[bs[c].parent]
        BY <4>1
      <4> QED
        BY <2>1, <3>1, <4>2
    <3>2. CASE c \in stop
      BY <2>1, <3>2
    <3> QED
      BY <3>1, <3>2
  <2>3. f = [c \in 1..n |-> f[c]]
    BY <2>1
  <2> QED
    BY <1>1, <2>2, <2>3
<1>5. PICK u : u = Step(u) /\ \A c \in DOMAIN bs : LookupLocal(bs, x, c) = u[c]
  <2> HIDE DEF Step
  <2>1. (CHOOSE u : u = Step(u)) = Step(CHOOSE u : u = Step(u))
    BY <1>4
  <2>2. \A c \in DOMAIN bs : LookupLocal(bs, x, c) = (CHOOSE u : u = Step(u))[c]
    BY DEF LookupLocal, Step
  <2> QED
    BY <2>1, <2>2
<1>6. \A c \in 1..n : u[c] = IF bs[c].bindings[x] # NoBinding THEN bs[c].bindings[x]
                             ELSE IF bs[c].kind # "comp" THEN NoBinding ELSE u[bs[c].parent]
  <2>1. \A c \in 1..n : Step(u)[c] = IF bs[c].bindings[x] # NoBinding THEN bs[c].bindings[x]
                                     ELSE IF bs[c].kind # "comp" THEN NoBinding ELSE u[bs[c].parent]
    BY <1>1
  <2> HIDE DEF Step
  <2> QED
    BY <1>5, <2>1
<1> HIDE DEF n, Step
<1> DEFINE T == {c \in 1..n : u[c] \in Bindings}
<1>7. ASSUME NEW c \in 1..n, \A d \in 1..(c - 1) : d \in T PROVE c \in T
  <2>1. NoBinding \in Bindings
    BY DEF NoBinding, Bindings, Scopes
  <2> QED
    BY <1>1, <1>2, <1>6, <1>7, <2>1
<1>8. 1..n \subseteq T
  <2> HIDE DEF T
  <2> QED
    BY <1>1, <1>7, StrongInduction
<1> QED
  BY <1>1, <1>5, <1>6, <1>8

\* The blocks around a block: their own equation, and where they lie.
LEMMA AncestorsIs ==
  ASSUME NEW bs, Tree(bs), NEW b \in DOMAIN bs
  PROVE  /\ Ancestors(bs, b) = IF b = Module THEN {b} ELSE {b} \cup Ancestors(bs, bs[b].parent)
         /\ Ancestors(bs, b) \subseteq 1..b /\ Ancestors(bs, b) \subseteq DOMAIN bs
         /\ b \in Ancestors(bs, b) /\ Module \in Ancestors(bs, b)
<1> DEFINE n       == Len(bs)
           Step(u) == [c \in DOMAIN bs |-> IF c = Module THEN {c} ELSE {c} \cup u[bs[c].parent]]
           stop    == {Module}
           base    == [c \in 1..n |-> {c}]
           par     == [c \in 1..n |-> bs[c].parent]
           S       == SUBSET (1..n)
           F       == [p \in (1..n) \X S |-> {p[1]} \cup p[2]]
<1>1. /\ n \in Nat /\ DOMAIN bs = 1..n /\ Module = 1
      /\ \A c \in 1..n : c # Module => bs[c].parent \in 1..(c - 1) /\ bs[c].parent \in 1..n
  BY TreeFacts
<1>2. PICK f : Climbs(f, n, S, stop, base, par, F)
  <2>1. /\ \A c \in (1..n) \cap stop : base[c] \in S
        /\ \A c \in (1..n) \ stop : par[c] \in 1..(c - 1)
        /\ F \in [(1..n) \X S -> S]
    BY <1>1
  <2> HIDE DEF stop, base, par, F, n, S
  <2> QED
    BY <1>1, <2>1, Climbing
<1>3. f = Step(f)
  <2>1. f \in [1..n -> S] /\ \A c \in 1..n : f[c] = IF c \in stop THEN base[c] ELSE F[<<c, f[par[c]]>>]
    BY <1>2 DEF Climbs
  <2>2. ASSUME NEW c \in 1..n PROVE f[c] = IF c = Module THEN {c} ELSE {c} \cup f[bs[c].parent]
    <3>1. CASE c # Module
      <4>1. f[bs[c].parent] \in S /\ par[c] = bs[c].parent /\ bs[c].parent \in 1..n
        BY <1>1, <2>1, <3>1
      <4>2. F[<<c, f[par[c]]>>] = {c} \cup f[bs[c].parent]
        <5> HIDE DEF S
        <5> QED
          BY <4>1
      <4> QED
        BY <2>1, <3>1, <4>2
    <3>2. CASE c = Module
      BY <2>1, <3>2
    <3> QED
      BY <3>1, <3>2
  <2>3. f = [c \in 1..n |-> f[c]]
    <3> HIDE DEF S
    <3> QED
      BY <2>1
  <2> QED
    BY <1>1, <2>2, <2>3
<1>4. PICK u : u = Step(u) /\ \A c \in DOMAIN bs : Ancestors(bs, c) = u[c]
  <2> HIDE DEF Step
  <2>1. (CHOOSE u : u = Step(u)) = Step(CHOOSE u : u = Step(u))
    BY <1>3
  <2>2. \A c \in DOMAIN bs : Ancestors(bs, c) = (CHOOSE u : u = Step(u))[c]
    BY DEF Ancestors, Step
  <2> QED
    BY <2>1, <2>2
<1>5. \A c \in 1..n : u[c] = IF c = Module THEN {c} ELSE {c} \cup u[bs[c].parent]
  <2>1. \A c \in 1..n : Step(u)[c] = IF c = Module THEN {c} ELSE {c} \cup u[bs[c].parent]
    BY <1>1
  <2> HIDE DEF Step
  <2> QED
    BY <1>4, <2>1
<1> HIDE DEF n, Step
<1> DEFINE T == {c \in 1..n : u[c] \subseteq 1..c /\ c \in u[c] /\ Module \in u[c]}
<1>6. ASSUME NEW c \in 1..n, \A d \in 1..(c - 1) : d \in T PROVE c \in T
  <2>1. CASE c = Module
    <3>1. u[c] = {1} /\ c = 1
      BY <1>1, <1>5, <2>1
    <3> QED
      BY <1>1, <3>1
  <2>2. CASE c # Module
    <3>1. bs[c].parent \in T /\ u[c] = {c} \cup u[bs[c].parent] /\ bs[c].parent \in 1..(c - 1)
      BY <1>1, <1>5, <1>6, <2>2
    <3>2. u[bs[c].parent] \subseteq 1..c
      BY <3>1
    <3> QED
      BY <3>1, <3>2
  <2> QED
    BY <2>1, <2>2
<1>7. 1..n \subseteq T
  <2> HIDE DEF T
  <2> QED
    BY <1>1, <1>6, StrongInduction
<1>8. b \in 1..n /\ u[b] \subseteq 1..b /\ b \in u[b] /\ Module \in u[b] /\ 1..b \subseteq 1..n
  BY <1>1, <1>7
<1>9. Ancestors(bs, b) = u[b] /\ (b # Module => Ancestors(bs, bs[b].parent) = u[bs[b].parent])
  BY <1>1, <1>4
<1>10. u[b] = IF b = Module THEN {b} ELSE {b} \cup u[bs[b].parent]
  BY <1>5, <1>8
<1> QED
  BY <1>1, <1>8, <1>9, <1>10

\* The innermost block that declares a name: its own equation.
LEMMA HomeOfIs ==
  ASSUME NEW q, Tree(q.blocks), NEW x, NEW b \in DOMAIN q.blocks
  PROVE  /\ HomeOf(q, b, x) = IF b = Module \/ Declares(q, b, x) THEN b ELSE HomeOf(q, q.blocks[b].parent, x)
         /\ HomeOf(q, b, x) \in Ancestors(q.blocks, b)
         /\ HomeOf(q, b, x) = Module \/ Declares(q, HomeOf(q, b, x), x)
<1> DEFINE bs      == q.blocks
           n       == Len(bs)
           Step(u) == [c \in DOMAIN bs |-> IF c = Module \/ Declares(q, c, x) THEN c ELSE u[bs[c].parent]]
           stop    == {c \in 1..n : c = Module \/ Declares(q, c, x)}
           base    == [c \in 1..n |-> c]
           par     == [c \in 1..n |-> bs[c].parent]
           F       == [p \in (1..n) \X (1..n) |-> p[2]]
<1>1. /\ n \in Nat /\ DOMAIN bs = 1..n
      /\ \A c \in 1..n : c # Module => bs[c].parent \in 1..(c - 1) /\ bs[c].parent \in 1..n
  BY TreeFacts
<1>2. PICK f : Climbs(f, n, 1..n, stop, base, par, F)
  <2>1. /\ \A c \in (1..n) \cap stop : base[c] \in 1..n
        /\ \A c \in (1..n) \ stop : par[c] \in 1..(c - 1)
        /\ F \in [(1..n) \X (1..n) -> 1..n]
    BY <1>1
  <2> HIDE DEF stop, base, par, F, n
  <2> QED
    BY <1>1, <2>1, Climbing
<1>3. f = Step(f)
  <2>1. f \in [1..n -> 1..n] /\ \A c \in 1..n : f[c] = IF c \in stop THEN base[c] ELSE F[<<c, f[par[c]]>>]
    BY <1>2 DEF Climbs
  <2>2. ASSUME NEW c \in 1..n PROVE f[c] = IF c = Module \/ Declares(q, c, x) THEN c ELSE f[bs[c].parent]
    <3>1. CASE c \notin stop
      <4>1. f[bs[c].parent] \in 1..n /\ par[c] = bs[c].parent
        BY <1>1, <2>1, <3>1
      <4> QED
        BY <2>1, <3>1, <4>1
    <3>2. CASE c \in stop
      BY <2>1, <3>2
    <3> QED
      BY <3>1, <3>2
  <2>3. f = [c \in 1..n |-> f[c]]
    BY <2>1
  <2> QED
    BY <1>1, <2>2, <2>3
<1>4. PICK u : u = Step(u) /\ \A c \in DOMAIN bs : HomeOf(q, c, x) = u[c]
  <2> HIDE DEF Step
  <2>1. (CHOOSE u : u = Step(u)) = Step(CHOOSE u : u = Step(u))
    BY <1>3
  <2>2. \A c \in DOMAIN bs : HomeOf(q, c, x) = (CHOOSE u : u = Step(u))[c]
    BY DEF HomeOf, Step
  <2> QED
    BY <2>1, <2>2
<1>5. \A c \in 1..n : u[c] = IF c = Module \/ Declares(q, c, x) THEN c ELSE u[bs[c].parent]
  <2>1. \A c \in 1..n : Step(u)[c] = IF c = Module \/ Declares(q, c, x) THEN c ELSE u[bs[c].parent]
    BY <1>1
  <2> HIDE DEF Step
  <2> QED
    BY <1>4, <2>1
<1> HIDE DEF n, Step
<1> DEFINE T == {c \in 1..n : u[c] \in Ancestors(bs, c) /\ (u[c] = Module \/ Declares(q, u[c], x))}
<1>6. ASSUME NEW c \in 1..n, \A d \in 1..(c - 1) : d \in T PROVE c \in T
  <2>1. CASE c = Module \/ Declares(q, c, x)
    <3>1. c \in Ancestors(bs, c)
      BY <1>1, AncestorsIs
    <3> QED
      BY <1>5, <2>1, <3>1
  <2>2. CASE ~(c = Module \/ Declares(q, c, x))
    <3>1. bs[c].parent \in T /\ u[c] = u[bs[c].parent]
      BY <1>1, <1>5, <1>6, <2>2
    <3>2. Ancestors(bs, bs[c].parent) \subseteq Ancestors(bs, c)
      BY <1>1, <2>2, AncestorsIs
    <3> QED
      BY <3>1, <3>2
  <2> QED
    BY <2>1, <2>2
<1>7. 1..n \subseteq T
  <2> HIDE DEF T
  <2> QED
    BY <1>1, <1>6, StrongInduction
<1> QED
  BY <1>1, <1>4, <1>5, <1>7

\* The ancestors of an ancestor are ancestors.
LEMMA AncestorsNest ==
  ASSUME NEW bs, Tree(bs), NEW b \in DOMAIN bs, NEW c \in Ancestors(bs, b)
  PROVE  Ancestors(bs, c) \subseteq Ancestors(bs, b)
<1> DEFINE n == Len(bs)
           T == {d \in 1..n : \A e \in Ancestors(bs, d) : Ancestors(bs, e) \subseteq Ancestors(bs, d)}
<1>1. n \in Nat /\ DOMAIN bs = 1..n /\ \A d \in 1..n : d # Module => bs[d].parent \in 1..(d - 1)
  BY TreeFacts
<1>2. ASSUME NEW d \in 1..n, \A e \in 1..(d - 1) : e \in T PROVE d \in T
  <2>1. Ancestors(bs, d) = IF d = Module THEN {d} ELSE {d} \cup Ancestors(bs, bs[d].parent)
    BY <1>1, AncestorsIs
  <2>2. d # Module => bs[d].parent \in T
    BY <1>1, <1>2
  <2> QED
    BY <2>1, <2>2
<1>3. 1..n \subseteq T
  <2> HIDE DEF T
  <2> QED
    BY <1>1, <1>2, StrongInduction
<1> QED
  BY <1>1, <1>3

\* The container of a block is an ancestor, and the ancestors in between have the same one.
LEMMA ContainerAbove ==
  ASSUME NEW bs, Tree(bs), NEW b \in DOMAIN bs
  PROVE  /\ Container(bs, b) \in Ancestors(bs, b)
         /\ \A c \in Ancestors(bs, b) : c >= Container(bs, b) => Container(bs, c) = Container(bs, b)
         /\ \A c \in Ancestors(bs, b) : c < Container(bs, b) => c \in Ancestors(bs, Container(bs, b))
<1> DEFINE n == Len(bs)
           T == {d \in 1..n :
                   /\ Container(bs, d) \in Ancestors(bs, d)
                   /\ \A c \in Ancestors(bs, d) : c >= Container(bs, d) => Container(bs, c) = Container(bs, d)
                   /\ \A c \in Ancestors(bs, d) : c < Container(bs, d) => c \in Ancestors(bs, Container(bs, d))}
<1>1. /\ n \in Nat /\ DOMAIN bs = 1..n
      /\ \A d \in 1..n : d # Module => bs[d].parent \in 1..(d - 1)
      /\ bs[Module].kind = "module"
  BY TreeFacts
<1>2. ASSUME NEW d \in 1..n, \A e \in 1..(d - 1) : e \in T PROVE d \in T
  <2>1. /\ Ancestors(bs, d) = IF d = Module THEN {d} ELSE {d} \cup Ancestors(bs, bs[d].parent)
        /\ Ancestors(bs, d) \subseteq 1..d /\ d \in Ancestors(bs, d)
    BY <1>1, AncestorsIs
  <2>2. Container(bs, d) = IF bs[d].kind = "comp" THEN Container(bs, bs[d].parent) ELSE d
    BY <1>1, ContainerIs
  <2>3. CASE bs[d].kind = "comp"
    <3>1. d # Module /\ bs[d].parent \in T /\ Container(bs, d) = Container(bs, bs[d].parent)
      BY <1>1, <1>2, <2>2, <2>3
    <3>2. Ancestors(bs, d) = {d} \cup Ancestors(bs, bs[d].parent)
      BY <2>1, <3>1
    <3>3. Container(bs, d) \in 1..d /\ Container(bs, bs[d].parent) \in 1..bs[d].parent
      BY <1>1, <3>1, ContainerIs
    <3>4. d >= Container(bs, d) /\ ~(d < Container(bs, d))
      BY <3>3
    <3> QED
      BY <3>1, <3>2, <3>4
  <2>4. CASE bs[d].kind # "comp"
    <3>1. Container(bs, d) = d
      BY <2>2, <2>4
    <3>2. \A c \in Ancestors(bs, d) : c \in 1..d /\ (c >= d => c = d)
      BY <2>1
    <3> QED
      BY <2>1, <3>1, <3>2
  <2> QED
    BY <2>3, <2>4
<1>3. 1..n \subseteq T
  <2> HIDE DEF T
  <2> QED
    BY <1>1, <1>2, StrongInduction
<1> QED
  BY <1>1, <1>3

\* bs2 has the blocks of bs, in the same tree, and perhaps more.
Grows(bs, bs2) ==
  /\ Tree(bs) /\ Tree(bs2) /\ DOMAIN bs \subseteq DOMAIN bs2
  /\ \A b \in DOMAIN bs : bs2[b].parent = bs[b].parent /\ bs2[b].kind = bs[b].kind

\* The containers and ancestors of the old blocks stay what they were.
LEMMA GrowsKeeps ==
  ASSUME NEW bs, NEW bs2, Grows(bs, bs2), NEW b \in DOMAIN bs
  PROVE  Container(bs2, b) = Container(bs, b) /\ Ancestors(bs2, b) = Ancestors(bs, b)
<1> DEFINE n == Len(bs)
           T == {c \in 1..n : Container(bs2, c) = Container(bs, c) /\ Ancestors(bs2, c) = Ancestors(bs, c)}
<1>1. /\ n \in Nat /\ DOMAIN bs = 1..n
      /\ \A d \in 1..n : d # Module => bs[d].parent \in 1..(d - 1)
      /\ bs[Module].kind = "module"
  BY TreeFacts DEF Grows
<1>2. Tree(bs) /\ Tree(bs2) /\ \A c \in 1..n : c \in DOMAIN bs /\ c \in DOMAIN bs2
                                 /\ bs2[c].parent = bs[c].parent /\ bs2[c].kind = bs[c].kind
  BY <1>1 DEF Grows
<1>3. ASSUME NEW c \in 1..n, \A e \in 1..(c - 1) : e \in T PROVE c \in T
  <2>1. /\ Ancestors(bs, c) = IF c = Module THEN {c} ELSE {c} \cup Ancestors(bs, bs[c].parent)
        /\ Ancestors(bs2, c) = IF c = Module THEN {c} ELSE {c} \cup Ancestors(bs2, bs[c].parent)
    BY <1>2, AncestorsIs
  <2>2. /\ Container(bs, c) = IF bs[c].kind = "comp" THEN Container(bs, bs[c].parent) ELSE c
        /\ Container(bs2, c) = IF bs2[c].kind = "comp" THEN Container(bs2, bs2[c].parent) ELSE c
    BY <1>2, ContainerIs
  <2>3. c # Module => bs[c].parent \in T
    BY <1>1, <1>3
  <2> QED
    BY <1>1, <1>2, <2>1, <2>2, <2>3
<1>4. 1..n \subseteq T
  <2> HIDE DEF T
  <2> QED
    BY <1>1, <1>3, StrongInduction
<1> QED
  BY <1>1, <1>4

\* A tree is in the parents and kinds of its blocks.
LEMMA TreeSame ==
  ASSUME NEW bs, Tree(bs), NEW bs2 \in Seq(BlockType), DOMAIN bs2 = DOMAIN bs,
         \A b \in DOMAIN bs : bs2[b].parent = bs[b].parent /\ bs2[b].kind = bs[b].kind
  PROVE  Tree(bs2) /\ Grows(bs, bs2)
<1>1. Tree(bs2)
  BY DEF Tree
<1> QED
  BY <1>1 DEF Grows

\* lookupLocal reads the bindings of the blocks of one container.
LEMMA LookupLocalSame ==
  ASSUME NEW bs, NEW bs2, Grows(bs, bs2), NEW x \in Name, NEW b \in DOMAIN bs,
         \A d \in DOMAIN bs : Container(bs, d) = Container(bs, b) => bs2[d].bindings[x] = bs[d].bindings[x]
  PROVE  LookupLocal(bs2, x, b) = LookupLocal(bs, x, b)
<1> DEFINE n == Len(bs)
           T == {c \in 1..n : Container(bs, c) = Container(bs, b) => LookupLocal(bs2, x, c) = LookupLocal(bs, x, c)}
<1>1. /\ n \in Nat /\ DOMAIN bs = 1..n
      /\ \A d \in 1..n : d # Module => bs[d].parent \in 1..(d - 1)
      /\ bs[Module].kind = "module"
  BY TreeFacts DEF Grows
<1>2. Tree(bs) /\ Tree(bs2) /\ \A c \in 1..n : c \in DOMAIN bs /\ c \in DOMAIN bs2
                                 /\ bs2[c].parent = bs[c].parent /\ bs2[c].kind = bs[c].kind
  BY <1>1 DEF Grows
<1>3. ASSUME NEW c \in 1..n, \A e \in 1..(c - 1) : e \in T PROVE c \in T
  <2>1. SUFFICES ASSUME Container(bs, c) = Container(bs, b) PROVE LookupLocal(bs2, x, c) = LookupLocal(bs, x, c)
    OBVIOUS
  <2>2. /\ LookupLocal(bs, x, c) =
             IF bs[c].bindings[x] # NoBinding THEN bs[c].bindings[x]
             ELSE IF bs[c].kind # "comp" THEN NoBinding ELSE LookupLocal(bs, x, bs[c].parent)
        /\ LookupLocal(bs2, x, c) =
             IF bs2[c].bindings[x] # NoBinding THEN bs2[c].bindings[x]
             ELSE IF bs2[c].kind # "comp" THEN NoBinding ELSE LookupLocal(bs2, x, bs2[c].parent)
    BY <1>2, LookupLocalIs
  <2>3. Container(bs, c) = IF bs[c].kind = "comp" THEN Container(bs, bs[c].parent) ELSE c
    BY <1>2, ContainerIs
  <2>4. bs2[c].bindings[x] = bs[c].bindings[x]
    BY <1>2, <2>1
  <2>5. bs[c].kind = "comp" => bs[c].parent \in T
    BY <1>1, <1>3
  <2> QED
    BY <1>2, <2>1, <2>2, <2>3, <2>4, <2>5
<1>4. 1..n \subseteq T
  <2> HIDE DEF T
  <2> QED
    BY <1>1, <1>3, StrongInduction
<1> QED
  BY <1>1, <1>4

(***************************************************************************)
(* An occurrence of a name in a block other than the module's.             *)
(***************************************************************************)
OccursIn(q, q2, x, binds, fresh) ==
  LET m == Len(q.ids) + 1
      c == Container(q.blocks, q.env)
  IN  /\ q2 \in Resolvers /\ q.env # Module /\ x \in Name
      /\ q2.env = q.env /\ q2.globals = q.globals /\ q2.moduleGlobals = q.moduleGlobals
      /\ q2.loops = q.loops /\ q2.errors = q.errors
      /\ q2.ids = Append(q.ids, Occurrence(q, x, binds))
      /\ DOMAIN q2.blocks = DOMAIN q.blocks
      /\ \A b \in DOMAIN q.blocks :
           /\ q2.blocks[b].parent = q.blocks[b].parent /\ q2.blocks[b].kind = q.blocks[b].kind
           /\ q2.blocks[b].params = q.blocks[b].params /\ q2.blocks[b].freevars = q.blocks[b].freevars
           /\ q2.blocks[b].uses = IF b = c THEN Append(q.blocks[b].uses, m) ELSE q.blocks[b].uses
           /\ q2.blocks[b].locals = IF b = c /\ fresh THEN Append(q.blocks[b].locals, m) ELSE q.blocks[b].locals
           /\ \A y \in Name :
                q2.blocks[b].bindings[y] =
                  IF b = q.env /\ y = x /\ fresh THEN [scope |-> "local", index |-> Len(q.blocks[c].locals) + 1]
                  ELSE q.blocks[b].bindings[y]
      /\ fresh \in BOOLEAN /\ binds \in BOOLEAN /\ (fresh => binds)
      /\ binds => fresh \/ q.blocks[q.env].bindings[x] # NoBinding

\* What an occurrence leaves as it was, said of the tree and of the identifiers.
LEMMA OccursFrame ==
  ASSUME NEW q, WellFormed(q), NEW q2, NEW x, NEW binds, NEW fresh, OccursIn(q, q2, x, binds, fresh)
  PROVE  /\ Grows(q.blocks, q2.blocks) /\ WellFormed(q2)
         /\ Len(q.ids) \in Nat /\ DOMAIN q.ids = 1..Len(q.ids) /\ DOMAIN q2.ids = 1..(Len(q.ids) + 1)
         /\ \A i \in 1..Len(q.ids) : q2.ids[i] = q.ids[i] /\ q.ids[i] \in IdType
         /\ q2.ids[Len(q.ids) + 1] = Occurrence(q, x, binds)
         /\ \A b \in DOMAIN q.blocks : Container(q2.blocks, b) = Container(q.blocks, b)
                                       /\ Ancestors(q2.blocks, b) = Ancestors(q.blocks, b)
<1>1. q.ids \in Seq(IdType) /\ q.blocks \in Seq(BlockType) /\ Tree(q.blocks) /\ q2.blocks \in Seq(BlockType)
  BY DEF WellFormed, Resolvers, OccursIn
<1>2. Tree(q2.blocks) /\ DOMAIN q2.blocks = DOMAIN q.blocks
  <2>1. \A b \in DOMAIN q.blocks : q2.blocks[b].parent = q.blocks[b].parent /\ q2.blocks[b].kind = q.blocks[b].kind
    BY DEF OccursIn
  <2>2. DOMAIN q2.blocks = DOMAIN q.blocks
    BY DEF OccursIn
  <2> QED
    BY <1>1, <2>1, <2>2 DEF Tree
<1>3. Grows(q.blocks, q2.blocks)
  BY <1>1, <1>2 DEF Grows, OccursIn
<1>4. /\ Len(q.ids) \in Nat /\ DOMAIN q.ids = 1..Len(q.ids) /\ DOMAIN q2.ids = 1..(Len(q.ids) + 1)
      /\ \A i \in 1..Len(q.ids) : q2.ids[i] = q.ids[i] /\ q.ids[i] \in IdType
      /\ q2.ids[Len(q.ids) + 1] = Occurrence(q, x, binds)
  <2>1. q2.ids = Append(q.ids, Occurrence(q, x, binds)) /\ q2.ids \in Seq(IdType)
    BY DEF OccursIn, Resolvers
  <2>2. Len(q.ids) \in Nat /\ DOMAIN q.ids = 1..Len(q.ids) /\ \A i \in 1..Len(q.ids) : q.ids[i] \in IdType
    BY <1>1, LenProperties, ElementOfSeq
  <2>3. Len(q2.ids) = Len(q.ids) + 1 /\ DOMAIN q2.ids = 1..Len(q2.ids)
    BY <1>1, <2>1, AppendProperties, LenProperties
  <2> HIDE DEF Occurrence, IdType
  <2> QED
    BY <1>1, <2>1, <2>2, <2>3, AppendProperties
<1>5. WellFormed(q2)
  <2>1. \A i \in DOMAIN q.ids : q.ids[i].env \in DOMAIN q.blocks
    BY DEF WellFormed
  <2>2. q.env \in DOMAIN q.blocks /\ q2.env = q.env /\ q2 \in Resolvers
    BY DEF WellFormed, OccursIn
  <2>3. Occurrence(q, x, binds).env = q.env
    BY DEF Occurrence
  <2>4. \A i \in 1..(Len(q.ids) + 1) : i \in 1..Len(q.ids) \/ i = Len(q.ids) + 1
    BY <1>4
  <2> QED
    BY <1>2, <1>4, <2>1, <2>2, <2>3, <2>4 DEF WellFormed
<1>6. \A b \in DOMAIN q.blocks : Container(q2.blocks, b) = Container(q.blocks, b)
                                 /\ Ancestors(q2.blocks, b) = Ancestors(q.blocks, b)
  BY <1>3, GrowsKeeps
<1> QED
  BY <1>3, <1>4, <1>5, <1>6

\* It declares its name, if it binds, and nothing else.
LEMMA OccursDeclares ==
  ASSUME NEW q, WellFormed(q), NEW q2, NEW x, NEW binds, NEW fresh, OccursIn(q, q2, x, binds, fresh),
         NEW b, NEW y
  PROVE  Declares(q2, b, y) <=> Declares(q, b, y) \/ (binds /\ b = q.env /\ y = x)
<1>1. /\ Len(q.ids) \in Nat /\ DOMAIN q.ids = 1..Len(q.ids) /\ DOMAIN q2.ids = 1..(Len(q.ids) + 1)
      /\ \A i \in 1..Len(q.ids) : q2.ids[i] = q.ids[i]
      /\ q2.ids[Len(q.ids) + 1] = Occurrence(q, x, binds)
  BY OccursFrame
<1>2. Occurrence(q, x, binds).name = x /\ Occurrence(q, x, binds).env = q.env /\ Occurrence(q, x, binds).binds = binds
  BY DEF Occurrence
<1>3. /\ Len(q.ids) + 1 \in 1..(Len(q.ids) + 1) /\ 1..Len(q.ids) \subseteq 1..(Len(q.ids) + 1)
      /\ \A i \in 1..(Len(q.ids) + 1) : i \in 1..Len(q.ids) \/ i = Len(q.ids) + 1
  BY <1>1
<1> HIDE DEF Occurrence
<1> QED
  BY <1>1, <1>2, <1>3 DEF Declares

\* The bindings lead to their locals.
LEMMA OccursBound ==
  ASSUME NEW q, WellFormed(q), NEW q2, NEW x, NEW binds, NEW fresh, OccursIn(q, q2, x, binds, fresh),
         LocalsBound(q)
  PROVE  LocalsBound(q2)
<1> DEFINE m == Len(q.ids) + 1
           c == Container(q.blocks, q.env)
<1>1. /\ Len(q.ids) \in Nat /\ DOMAIN q.ids = 1..Len(q.ids) /\ DOMAIN q2.ids = 1..m
      /\ \A i \in 1..Len(q.ids) : q2.ids[i] = q.ids[i]
      /\ q2.ids[m] = Occurrence(q, x, binds)
      /\ \A b \in DOMAIN q.blocks : Container(q2.blocks, b) = Container(q.blocks, b)
  BY OccursFrame
<1>2. /\ q.env # Module /\ DOMAIN q2.blocks = DOMAIN q.blocks /\ (fresh => binds) /\ fresh \in BOOLEAN
      /\ binds => fresh \/ q.blocks[q.env].bindings[x] # NoBinding
      /\ \A b \in DOMAIN q.blocks :
           /\ q2.blocks[b].locals = IF b = c /\ fresh THEN Append(q.blocks[b].locals, m) ELSE q.blocks[b].locals
           /\ \A y \in Name :
                q2.blocks[b].bindings[y] =
                  IF b = q.env /\ y = x /\ fresh THEN [scope |-> "local", index |-> Len(q.blocks[c].locals) + 1]
                  ELSE q.blocks[b].bindings[y]
  BY DEF OccursIn
<1>3. Tree(q.blocks) /\ q.env \in DOMAIN q.blocks
  BY DEF WellFormed
<1>4. \A b \in DOMAIN q.blocks : q.blocks[b].locals \in Seq(Nat)
  BY <1>3, TreeFacts DEF BlockType
<1>5. ASSUME NEW b \in DOMAIN q.blocks
      PROVE  /\ Len(q.blocks[b].locals) \in Nat /\ DOMAIN q.blocks[b].locals = 1..Len(q.blocks[b].locals)
             /\ \A k \in DOMAIN q.blocks[b].locals :
                  k \in DOMAIN q2.blocks[b].locals /\ q2.blocks[b].locals[k] = q.blocks[b].locals[k]
             /\ b = c /\ fresh => /\ Len(q.blocks[b].locals) + 1 \in DOMAIN q2.blocks[b].locals
                                  /\ q2.blocks[b].locals[Len(q.blocks[b].locals) + 1] = m
  <2> DEFINE l == q.blocks[b].locals
  <2>1. l \in Seq(Nat) /\ m \in Nat
    BY <1>1, <1>4
  <2>2. q2.blocks[b].locals = IF b = c /\ fresh THEN Append(l, m) ELSE l
    BY <1>2
  <2> HIDE DEF l, m, c
  <2>3. /\ Len(l) \in Nat /\ DOMAIN l = 1..Len(l) /\ Len(Append(l, m)) = Len(l) + 1
        /\ DOMAIN Append(l, m) = 1..(Len(l) + 1)
        /\ \A k \in 1..Len(l) : Append(l, m)[k] = l[k]
        /\ Append(l, m)[Len(l) + 1] = m
    BY <2>1, LenProperties, AppendProperties
  <2>4. Len(l) + 1 \in 1..(Len(l) + 1) /\ 1..Len(l) \subseteq 1..(Len(l) + 1)
    BY <2>3
  <2> QED
    BY <2>2, <2>3, <2>4 DEF l
<1>6. Occurrence(q, x, binds).name = x /\ Occurrence(q, x, binds).env = q.env /\ Occurrence(q, x, binds).binds = binds
  BY DEF Occurrence
<1>7. \A b \in DOMAIN q.blocks : Container(q.blocks, b) \in DOMAIN q.blocks
  BY <1>3, ContainerIs
<1>8. m \in 1..m /\ 1..Len(q.ids) \subseteq 1..m
  BY <1>1
<1> SUFFICES ASSUME NEW b \in DOMAIN q.blocks, NEW y \in Name
             PROVE  /\ b = Module => q2.blocks[b].bindings[y] = NoBinding
                    /\ BoundAt(q2, b, y)
                    /\ b # Module /\ Declares(q2, b, y) => q2.blocks[b].bindings[y] # NoBinding
  BY <1>2 DEF LocalsBound
<1>9. /\ b = Module => q.blocks[b].bindings[y] = NoBinding
      /\ BoundAt(q, b, y)
      /\ b # Module /\ Declares(q, b, y) => q.blocks[b].bindings[y] # NoBinding
  BY DEF LocalsBound
<1>10. Declares(q2, b, y) <=> Declares(q, b, y) \/ (binds /\ b = q.env /\ y = x)
  BY OccursDeclares
<1> HIDE DEF m, c, Occurrence
<1>11. CASE b = q.env /\ y = x /\ fresh
  <2>1. q2.blocks[b].bindings[y] = [scope |-> "local", index |-> Len(q.blocks[c].locals) + 1]
    BY <1>2, <1>11
  <2>2. q2.blocks[b].bindings[y] # NoBinding
    BY <2>1 DEF NoBinding
  <2>3. Container(q2.blocks, b) = c /\ c \in DOMAIN q.blocks
    BY <1>1, <1>3, <1>7, <1>11 DEF c
  <2>4. BoundAt(q2, b, y)
    <3> DEFINE k == Len(q.blocks[c].locals) + 1
    <3>1. k \in DOMAIN q2.blocks[c].locals /\ q2.blocks[c].locals[k] = m
      BY <1>5, <1>11, <2>3
    <3>2. m \in DOMAIN q2.ids /\ q2.ids[m].name = y /\ q2.ids[m].env = b /\ q2.ids[m].binds
      BY <1>1, <1>2, <1>6, <1>8, <1>11
    <3>3. q2.blocks[b].bindings[y].scope = "local" /\ q2.blocks[b].bindings[y].index = k
      BY <2>1
    <3> HIDE DEF k
    <3> QED
      BY <2>3, <3>1, <3>2, <3>3 DEF BoundAt
  <2> QED
    BY <1>2, <1>11, <2>2, <2>4
<1>12. CASE ~(b = q.env /\ y = x /\ fresh)
  <2>1. q2.blocks[b].bindings[y] = q.blocks[b].bindings[y]
    BY <1>2, <1>12
  <2>2. BoundAt(q2, b, y)
    <3> DEFINE d == Container(q.blocks, b)
               k == q.blocks[b].bindings[y].index
               j == q.blocks[d].locals[k]
    <3>1. SUFFICES ASSUME q.blocks[b].bindings[y] # NoBinding PROVE BoundAt(q2, b, y)
      BY <2>1 DEF BoundAt
    <3>2. /\ q.blocks[b].bindings[y].scope = "local" /\ k \in DOMAIN q.blocks[d].locals /\ j \in DOMAIN q.ids
          /\ q.ids[j].name = y /\ q.ids[j].env = b /\ q.ids[j].binds
      BY <1>9, <3>1 DEF BoundAt
    <3>3. Container(q2.blocks, b) = d /\ d \in DOMAIN q.blocks
      BY <1>1, <1>7
    <3>4. k \in DOMAIN q2.blocks[d].locals /\ q2.blocks[d].locals[k] = j
      BY <1>5, <3>2, <3>3
    <3>5. j \in DOMAIN q2.ids /\ q2.ids[j] = q.ids[j]
      BY <1>1, <1>8, <3>2
    <3>6. q2.blocks[b].bindings[y].scope = "local" /\ q2.blocks[b].bindings[y].index = k
      BY <2>1, <3>2
    <3> HIDE DEF d, k, j
    <3> QED
      BY <3>2, <3>3, <3>4, <3>5, <3>6 DEF BoundAt
  <2>3. binds /\ b = q.env /\ y = x => q.blocks[b].bindings[y] # NoBinding
    BY <1>2, <1>12
  <2> QED
    BY <1>9, <1>10, <2>1, <2>2, <2>3
<1> QED
  BY <1>11, <1>12

\* The globals, and what the top level uses, do not change.
LEMMA OccursGlobals ==
  ASSUME NEW q, WellFormed(q), NEW q2, NEW x, NEW binds, NEW fresh, OccursIn(q, q2, x, binds, fresh),
         GlobalsBound(q), TopLevel(q)
  PROVE  GlobalsBound(q2) /\ TopLevel(q2)
<1> DEFINE m == Len(q.ids) + 1
<1>1. /\ Len(q.ids) \in Nat /\ DOMAIN q.ids = 1..Len(q.ids) /\ DOMAIN q2.ids = 1..m
      /\ \A i \in 1..Len(q.ids) : q2.ids[i] = q.ids[i]
      /\ q2.ids[m] = Occurrence(q, x, binds)
  BY OccursFrame
<1>2. q.env # Module /\ q2.globals = q.globals /\ q2.moduleGlobals = q.moduleGlobals
  BY DEF OccursIn
<1>3. /\ \A i \in 1..m : i \in 1..Len(q.ids) \/ i = m
      /\ \A i \in 1..Len(q.ids) : 1..i \subseteq 1..Len(q.ids)
      /\ 1..Len(q.ids) \subseteq 1..m
  BY <1>1
<1>4. Occurrence(q, x, binds).env # Module
  BY <1>2 DEF Occurrence
<1> HIDE DEF m, Occurrence
<1>5. \A y \in Name : Declares(q2, Module, y) <=> Declares(q, Module, y)
  BY <1>2, OccursDeclares
<1>6. GlobalsBound(q2)
  BY <1>1, <1>2, <1>3, <1>5 DEF GlobalsBound
<1>7. TopLevel(q2)
  <2> SUFFICES ASSUME NEW i \in DOMAIN q2.ids, q2.ids[i].env = Module
               PROVE  IF \E j \in 1..i : q2.ids[j].binds /\ q2.ids[j].env = Module /\ q2.ids[j].name = q2.ids[i].name
                      THEN q2.ids[i].scope = "global" /\ q2.ids[i].index = q2.globals[q2.ids[i].name]
                      ELSE q2.ids[i].scope = Outside(q2.ids[i].name)
    BY DEF TopLevel
  <2>1. i \in DOMAIN q.ids /\ q2.ids[i] = q.ids[i] /\ \A j \in 1..i : q2.ids[j] = q.ids[j]
    BY <1>1, <1>3, <1>4
  <2>2. IF \E j \in 1..i : q.ids[j].binds /\ q.ids[j].env = Module /\ q.ids[j].name = q.ids[i].name
        THEN q.ids[i].scope = "global" /\ q.ids[i].index = q.globals[q.ids[i].name]
        ELSE q.ids[i].scope = Outside(q.ids[i].name)
    BY <2>1 DEF TopLevel
  <2> QED
    BY <1>2, <2>1, <2>2
<1> QED
  BY <1>6, <1>7

\* The members of a sequence to which one is appended.
LEMMA AppendMembers ==
  ASSUME NEW S, NEW s \in Seq(S), NEW e \in S
  PROVE  ToSet(Append(s, e)) = ToSet(s) \cup {e}
<1>1. /\ Len(s) \in Nat /\ DOMAIN s = 1..Len(s) /\ DOMAIN Append(s, e) = 1..(Len(s) + 1)
      /\ \A k \in 1..Len(s) : Append(s, e)[k] = s[k]
      /\ Append(s, e)[Len(s) + 1] = e
  <2>1. Append(s, e) \in Seq(S) /\ Len(Append(s, e)) = Len(s) + 1 /\ Append(s, e)[Len(s) + 1] = e
        /\ \A k \in 1..Len(s) : Append(s, e)[k] = s[k]
    BY AppendProperties
  <2> QED
    BY <2>1, LenProperties
<1>2. \A k \in 1..(Len(s) + 1) : k \in 1..Len(s) \/ k = Len(s) + 1
  BY <1>1
<1>3. 1..Len(s) \subseteq 1..(Len(s) + 1) /\ Len(s) + 1 \in 1..(Len(s) + 1)
  BY <1>1
<1>4. ToSet(s) = {s[k] : k \in 1..Len(s)} /\ ToSet(Append(s, e)) = {Append(s, e)[k] : k \in 1..(Len(s) + 1)}
  BY <1>1 DEF ToSet
<1>5. \A v : v \in ToSet(Append(s, e)) => v \in ToSet(s) \cup {e}
  BY <1>1, <1>2, <1>4
<1>6. \A v : v \in ToSet(s) \cup {e} => v \in ToSet(Append(s, e))
  BY <1>1, <1>3, <1>4
<1> QED
  BY <1>5, <1>6

\* The uses of every block.
LEMMA OccursUses ==
  ASSUME NEW q, WellFormed(q), NEW q2, NEW x, NEW binds, NEW fresh, OccursIn(q, q2, x, binds, fresh),
         UsesKept(q)
  PROVE  UsesKept(q2)
<1> DEFINE m == Len(q.ids) + 1
           c == Container(q.blocks, q.env)
<1>1. /\ Len(q.ids) \in Nat /\ DOMAIN q.ids = 1..Len(q.ids) /\ DOMAIN q2.ids = 1..m
      /\ \A i \in 1..Len(q.ids) : q2.ids[i] = q.ids[i]
      /\ q2.ids[m] = Occurrence(q, x, binds)
      /\ \A b \in DOMAIN q.blocks : Container(q2.blocks, b) = Container(q.blocks, b)
                                    /\ Ancestors(q2.blocks, b) = Ancestors(q.blocks, b)
      /\ Grows(q.blocks, q2.blocks)
  BY OccursFrame
<1>2. /\ q.env # Module /\ DOMAIN q2.blocks = DOMAIN q.blocks /\ q2.env = q.env
      /\ \A b \in DOMAIN q.blocks :
           /\ q2.blocks[b].freevars = q.blocks[b].freevars
           /\ q2.blocks[b].uses = IF b = c THEN Append(q.blocks[b].uses, m) ELSE q.blocks[b].uses
           /\ b # q.env => \A y \in Name : q2.blocks[b].bindings[y] = q.blocks[b].bindings[y]
  BY DEF OccursIn
<1>3. Tree(q.blocks) /\ q.env \in DOMAIN q.blocks /\ \A i \in DOMAIN q.ids : q.ids[i].env \in DOMAIN q.blocks
  BY DEF WellFormed
<1>4. \A b \in DOMAIN q.blocks : q.blocks[b].uses \in Seq(Nat)
  BY <1>3, TreeFacts DEF BlockType
<1>5. \A b \in DOMAIN q.blocks :
        ToSet(q2.blocks[b].uses) = ToSet(q.blocks[b].uses) \cup (IF b = c THEN {m} ELSE {})
  <2> SUFFICES ASSUME NEW b \in DOMAIN q.blocks
               PROVE  ToSet(q2.blocks[b].uses) = ToSet(q.blocks[b].uses) \cup (IF b = c THEN {m} ELSE {})
    OBVIOUS
  <2> DEFINE u == q.blocks[b].uses
  <2>1. u \in Seq(Nat) /\ m \in Nat
    BY <1>1, <1>4
  <2> HIDE DEF m, u
  <2>2. ToSet(Append(u, m)) = ToSet(u) \cup {m}
    BY <2>1, AppendMembers
  <2> QED
    BY <1>2, <2>2 DEF u
<1>6. /\ \A i \in 1..m : i \in 1..Len(q.ids) \/ i = m
      /\ 1..Len(q.ids) \subseteq 1..m /\ m \in 1..m /\ m \notin 1..Len(q.ids)
  BY <1>1
<1>7. Occurrence(q, x, binds).env = q.env /\ Occurrence(q, x, binds).scope = "unresolved"
  BY DEF Occurrence
<1> HIDE DEF Occurrence
<1>8. c \in Ancestors(q.blocks, q.env)
  BY <1>3, ContainerAbove
<1> HIDE DEF m, c
<1>9. ASSUME NEW b \in DOMAIN q.blocks PROVE IdsOf(q2, b) = IdsOf(q, b) \cup (IF b = c THEN {m} ELSE {})
  <2>1. IdsOf(q, b) = {i \in 1..Len(q.ids) : q.ids[i].env # Module /\ Container(q.blocks, q.ids[i].env) = b}
    BY <1>1 DEF IdsOf
  <2>2. IdsOf(q2, b) = {i \in 1..m : q2.ids[i].env # Module /\ Container(q2.blocks, q2.ids[i].env) = b}
    BY <1>1 DEF IdsOf
  <2>3. \A i \in 1..Len(q.ids) : i \in IdsOf(q2, b) <=> i \in IdsOf(q, b)
    BY <1>1, <1>3, <1>6, <2>1, <2>2
  <2>4. m \in IdsOf(q2, b) <=> b = c
    BY <1>1, <1>2, <1>3, <1>6, <1>7, <2>2 DEF c
  <2>5. m \notin IdsOf(q, b) /\ IdsOf(q, b) \subseteq 1..Len(q.ids) /\ IdsOf(q2, b) \subseteq 1..m
    BY <1>6, <2>1, <2>2
  <2> QED
    BY <1>6, <2>3, <2>4, <2>5
<1> SUFFICES ASSUME NEW d \in DOMAIN q.blocks
             PROVE  /\ ToSet(q2.blocks[d].uses) \subseteq IdsOf(q2, d)
                    /\ d \in Ancestors(q.blocks, q.env) => Waiting(q2, d)
                    /\ d \notin Ancestors(q.blocks, q.env) => Settled(q2, d)
                    /\ q2.blocks[d].freevars = <<>>
  BY <1>1, <1>2, <1>3 DEF UsesKept
<1>10. /\ ToSet(q.blocks[d].uses) \subseteq IdsOf(q, d)
       /\ d \in Ancestors(q.blocks, q.env) => Waiting(q, d)
       /\ d \notin Ancestors(q.blocks, q.env) => Settled(q, d)
       /\ q.blocks[d].freevars = <<>>
  BY DEF UsesKept
<1>11. ASSUME d \in Ancestors(q.blocks, q.env) PROVE Waiting(q2, d)
  <2> SUFFICES ASSUME NEW i \in IdsOf(q2, d) PROVE i \in ToSet(q2.blocks[d].uses) /\ q2.ids[i].scope = "unresolved"
    BY DEF Waiting
  <2>1. CASE i \in IdsOf(q, d)
    <3>1. i \in ToSet(q.blocks[d].uses) /\ q.ids[i].scope = "unresolved" /\ i \in DOMAIN q.ids
      BY <1>10, <1>11, <2>1 DEF Waiting, IdsOf
    <3> QED
      BY <1>1, <1>5, <3>1
  <2>2. CASE i \notin IdsOf(q, d)
    <3>1. d = c /\ i = m
      BY <1>9, <2>2
    <3> QED
      BY <1>1, <1>5, <1>7, <3>1
  <2> QED
    BY <2>1, <2>2
<1>12. ASSUME d \notin Ancestors(q.blocks, q.env) PROVE Settled(q2, d)
  <2>1. d # c
    BY <1>8, <1>12
  <2>2. IdsOf(q2, d) = IdsOf(q, d) /\ ToSet(q2.blocks[d].uses) = ToSet(q.blocks[d].uses)
    BY <1>5, <1>9, <2>1
  <2>3. ASSUME NEW i \in IdsOf(q, d)
        PROVE  q2.ids[i] = q.ids[i] /\ LookupLocal(q2.blocks, q.ids[i].name, q.ids[i].env)
                                         = LookupLocal(q.blocks, q.ids[i].name, q.ids[i].env)
    <3>1. i \in 1..Len(q.ids) /\ Container(q.blocks, q.ids[i].env) = d /\ q.ids[i].env \in DOMAIN q.blocks
      BY <1>1, <1>3 DEF IdsOf
    <3>2. q.ids[i].name \in Name
      <4>1. q.ids \in Seq(IdType)
        BY DEF WellFormed, Resolvers
      <4>2. q.ids[i] \in IdType
        BY <3>1, <4>1, ElementOfSeq
      <4> QED
        BY <4>2 DEF IdType
    <3>3. \A b \in DOMAIN q.blocks : Container(q.blocks, b) = d => b # q.env
      BY <2>1 DEF c
    <3>4. \A b \in DOMAIN q.blocks : Container(q.blocks, b) = d =>
             q2.blocks[b].bindings[q.ids[i].name] = q.blocks[b].bindings[q.ids[i].name]
      BY <1>2, <3>2, <3>3
    <3> QED
      BY <1>1, <3>1, <3>2, <3>4, LookupLocalSame
  <2> QED
    BY <1>10, <1>12, <2>2, <2>3 DEF Settled
<1>13. ToSet(q2.blocks[d].uses) \subseteq IdsOf(q2, d)
  BY <1>5, <1>9, <1>10
<1> QED
  BY <1>2, <1>10, <1>11, <1>12, <1>13

\* All of it together.
LEMMA OccursKeeps ==
  ASSUME NEW q, Core(q), NEW q2, NEW x, NEW binds, NEW fresh, OccursIn(q, q2, x, binds, fresh)
  PROVE  Core(q2)
<1>1. WellFormed(q) /\ LocalsBound(q) /\ GlobalsBound(q) /\ TopLevel(q) /\ UsesKept(q)
  BY DEF Core
<1>2. WellFormed(q2) /\ LocalsBound(q2) /\ GlobalsBound(q2) /\ TopLevel(q2) /\ UsesKept(q2)
  BY <1>1, OccursFrame, OccursBound, OccursGlobals, OccursUses
<1> QED
  BY <1>2 DEF Core

\* A binding leads where it did if neither it, its container's locals, nor they change.
LEMMA BoundAtSame ==
  ASSUME NEW q, NEW q2, NEW b, NEW y, BoundAt(q, b, y),
         q2.blocks[b].bindings[y] = q.blocks[b].bindings[y],
         Container(q2.blocks, b) = Container(q.blocks, b),
         q2.blocks[Container(q.blocks, b)].locals = q.blocks[Container(q.blocks, b)].locals,
         DOMAIN q.ids \subseteq DOMAIN q2.ids,
         \A i \in DOMAIN q.ids :
           q2.ids[i].name = q.ids[i].name /\ q2.ids[i].env = q.ids[i].env /\ q2.ids[i].binds = q.ids[i].binds
  PROVE  BoundAt(q2, b, y)
<1> DEFINE d == Container(q.blocks, b)
           k == q.blocks[b].bindings[y].index
           j == q.blocks[d].locals[k]
<1>1. SUFFICES ASSUME q.blocks[b].bindings[y] # NoBinding PROVE BoundAt(q2, b, y)
  BY DEF BoundAt
<1>2. /\ q.blocks[b].bindings[y].scope = "local" /\ k \in DOMAIN q.blocks[d].locals /\ j \in DOMAIN q.ids
      /\ q.ids[j].name = y /\ q.ids[j].env = b /\ q.ids[j].binds
  BY <1>1 DEF BoundAt
<1>3. Container(q2.blocks, b) = d /\ k \in DOMAIN q2.blocks[d].locals /\ q2.blocks[d].locals[k] = j
  BY <1>2
<1>4. j \in DOMAIN q2.ids /\ q2.ids[j].name = y /\ q2.ids[j].env = b /\ q2.ids[j].binds
  BY <1>2
<1>5. q2.blocks[b].bindings[y].scope = "local" /\ q2.blocks[b].bindings[y].index = k
  BY <1>2
<1> HIDE DEF d, k, j
<1> QED
  BY <1>3, <1>4, <1>5 DEF BoundAt

(***************************************************************************)
(* An occurrence of a name at the top level.                               *)
(***************************************************************************)
OccursTop(q, q2, x, binds, fresh) ==
  LET m == Len(q.ids) + 1
  IN  /\ q2 \in Resolvers /\ q.env = Module /\ x \in Name /\ fresh \in BOOLEAN /\ binds \in BOOLEAN
      /\ q2.env = q.env /\ q2.blocks = q.blocks /\ q2.loops = q.loops /\ q.errors \subseteq q2.errors
      /\ \E id \in IdType :
           /\ q2.ids = Append(q.ids, id)
           /\ id.name = x /\ id.env = Module /\ id.binds = binds
           /\ IF q2.globals[x] # 0 THEN id.scope = "global" /\ id.index = q2.globals[x] ELSE id.scope = Outside(x)
      /\ \A y \in Name : q2.globals[y] = IF fresh /\ y = x THEN Len(q.moduleGlobals) + 1 ELSE q.globals[y]
      /\ q2.moduleGlobals = IF fresh THEN Append(q.moduleGlobals, m) ELSE q.moduleGlobals
      /\ fresh => binds /\ q.globals[x] = 0
      /\ binds => fresh \/ q.globals[x] # 0

\* It keeps all of the invariant.
LEMMA OccursTopKeeps ==
  ASSUME NEW q, Core(q), NEW q2, NEW x, NEW binds, NEW fresh, OccursTop(q, q2, x, binds, fresh)
  PROVE  Core(q2)
<1> DEFINE m == Len(q.ids) + 1
<1>1. WellFormed(q) /\ LocalsBound(q) /\ GlobalsBound(q) /\ TopLevel(q) /\ UsesKept(q)
  BY DEF Core
<1>2. /\ q2 \in Resolvers /\ q.env = Module /\ x \in Name /\ fresh \in BOOLEAN /\ binds \in BOOLEAN
      /\ q2.env = q.env /\ q2.blocks = q.blocks
      /\ \A y \in Name : q2.globals[y] = IF fresh /\ y = x THEN Len(q.moduleGlobals) + 1 ELSE q.globals[y]
      /\ q2.moduleGlobals = IF fresh THEN Append(q.moduleGlobals, m) ELSE q.moduleGlobals
      /\ fresh => binds /\ q.globals[x] = 0
      /\ binds => fresh \/ q.globals[x] # 0
  BY DEF OccursTop
<1>3. PICK id \in IdType :
           /\ q2.ids = Append(q.ids, id)
           /\ id.name = x /\ id.env = Module /\ id.binds = binds
           /\ IF q2.globals[x] # 0 THEN id.scope = "global" /\ id.index = q2.globals[x] ELSE id.scope = Outside(x)
  BY DEF OccursTop
<1>4. /\ q.ids \in Seq(IdType) /\ q.moduleGlobals \in Seq(Nat) /\ q.globals \in [Name -> Nat]
      /\ Tree(q.blocks) /\ q.env \in DOMAIN q.blocks /\ \A i \in DOMAIN q.ids : q.ids[i].env \in DOMAIN q.blocks
  BY <1>1 DEF WellFormed, Resolvers
<1>5. /\ Len(q.ids) \in Nat /\ DOMAIN q.ids = 1..Len(q.ids) /\ DOMAIN q2.ids = 1..m
      /\ \A i \in 1..Len(q.ids) : q2.ids[i] = q.ids[i] /\ q.ids[i].name \in Name
      /\ q2.ids[m] = id
  <2>1. Len(q.ids) \in Nat /\ DOMAIN q.ids = 1..Len(q.ids) /\ \A i \in 1..Len(q.ids) : q.ids[i] \in IdType
    BY <1>4, LenProperties, ElementOfSeq
  <2>2. /\ Len(q2.ids) = m /\ q2.ids[m] = id /\ q2.ids \in Seq(IdType)
        /\ \A i \in 1..Len(q.ids) : q2.ids[i] = q.ids[i]
    BY <1>3, <1>4, AppendProperties
  <2>3. \A i \in 1..Len(q.ids) : q.ids[i].name \in Name
    BY <2>1 DEF IdType
  <2> QED
    BY <2>1, <2>2, <2>3, LenProperties
<1>6. /\ \A i \in 1..m : i \in 1..Len(q.ids) \/ i = m
      /\ 1..Len(q.ids) \subseteq 1..m /\ m \in 1..m /\ m \notin 1..Len(q.ids)
      /\ \A i \in 1..Len(q.ids) : 1..i \subseteq 1..Len(q.ids)
  BY <1>5
<1>7. /\ Len(q.moduleGlobals) \in Nat /\ DOMAIN q.moduleGlobals = 1..Len(q.moduleGlobals)
      /\ \A k \in DOMAIN q.moduleGlobals :
           k \in DOMAIN q2.moduleGlobals /\ q2.moduleGlobals[k] = q.moduleGlobals[k]
      /\ fresh => /\ Len(q.moduleGlobals) + 1 \in DOMAIN q2.moduleGlobals
                  /\ q2.moduleGlobals[Len(q.moduleGlobals) + 1] = m
  <2> DEFINE l == q.moduleGlobals
  <2>1. l \in Seq(Nat) /\ m \in Nat
    BY <1>4, <1>5
  <2>2. q2.moduleGlobals = IF fresh THEN Append(l, m) ELSE l
    BY <1>2
  <2> HIDE DEF l, m
  <2>3. /\ Len(l) \in Nat /\ DOMAIN l = 1..Len(l) /\ Len(Append(l, m)) = Len(l) + 1
        /\ DOMAIN Append(l, m) = 1..(Len(l) + 1)
        /\ \A k \in 1..Len(l) : Append(l, m)[k] = l[k]
        /\ Append(l, m)[Len(l) + 1] = m
    BY <2>1, LenProperties, AppendProperties
  <2>4. Len(l) + 1 \in 1..(Len(l) + 1) /\ 1..Len(l) \subseteq 1..(Len(l) + 1)
    BY <2>3
  <2> QED
    BY <2>2, <2>3, <2>4 DEF l
<1> HIDE DEF m
<1>8. \A b, y : Declares(q2, b, y) <=> Declares(q, b, y) \/ (binds /\ b = Module /\ y = x)
  BY <1>3, <1>5, <1>6 DEF Declares
<1>9. WellFormed(q2)
  BY <1>2, <1>3, <1>4, <1>5, <1>6 DEF WellFormed
<1>10. LocalsBound(q2)
  <2> SUFFICES ASSUME NEW b \in DOMAIN q.blocks, NEW y \in Name
               PROVE  /\ b = Module => q.blocks[b].bindings[y] = NoBinding
                      /\ BoundAt(q2, b, y)
                      /\ b # Module /\ Declares(q2, b, y) => q.blocks[b].bindings[y] # NoBinding
    BY <1>2 DEF LocalsBound
  <2>1. /\ b = Module => q.blocks[b].bindings[y] = NoBinding
        /\ BoundAt(q, b, y)
        /\ b # Module /\ Declares(q, b, y) => q.blocks[b].bindings[y] # NoBinding
    BY <1>1 DEF LocalsBound
  <2>2. BoundAt(q2, b, y)
    BY <1>2, <1>5, <1>6, <2>1, BoundAtSame
  <2> QED
    BY <1>8, <2>1, <2>2
<1>11. GlobalsBound(q2)
  <2> SUFFICES ASSUME NEW y \in Name
               PROVE  /\ q2.globals[y] # 0 <=> Declares(q2, Module, y)
                      /\ q2.globals[y] # 0 =>
                           /\ q2.globals[y] \in DOMAIN q2.moduleGlobals
                           /\ q2.moduleGlobals[q2.globals[y]] \in DOMAIN q2.ids
                           /\ q2.ids[q2.moduleGlobals[q2.globals[y]]].name = y
    BY DEF GlobalsBound
  <2>1. /\ q.globals[y] # 0 <=> Declares(q, Module, y)
        /\ q.globals[y] # 0 =>
             /\ q.globals[y] \in DOMAIN q.moduleGlobals
             /\ q.moduleGlobals[q.globals[y]] \in DOMAIN q.ids
             /\ q.ids[q.moduleGlobals[q.globals[y]]].name = y
    BY <1>1 DEF GlobalsBound
  <2>2. CASE fresh /\ y = x
    <3>1. q2.globals[y] = Len(q.moduleGlobals) + 1 /\ Len(q.moduleGlobals) + 1 # 0
      BY <1>2, <1>7, <2>2
    <3>2. Len(q.moduleGlobals) + 1 \in DOMAIN q2.moduleGlobals /\ q2.moduleGlobals[Len(q.moduleGlobals) + 1] = m
      BY <1>7, <2>2
    <3>3. m \in DOMAIN q2.ids /\ q2.ids[m].name = y
      BY <1>3, <1>5, <1>6, <2>2
    <3>4. Declares(q2, Module, y)
      BY <1>2, <1>8, <2>2
    <3> QED
      BY ONLY <3>1, <3>2, <3>3, <3>4
  <2>3. CASE ~(fresh /\ y = x)
    <3>1. q2.globals[y] = q.globals[y]
      BY <1>2, <2>3
    <3>2. Declares(q2, Module, y) <=> Declares(q, Module, y)
      BY <1>2, <1>8, <2>1, <2>3
    <3>3. ASSUME q.globals[y] # 0
          PROVE  /\ q.globals[y] \in DOMAIN q2.moduleGlobals
                 /\ q2.moduleGlobals[q.globals[y]] \in DOMAIN q2.ids
                 /\ q2.ids[q2.moduleGlobals[q.globals[y]]].name = y
      <4>1. /\ q.globals[y] \in DOMAIN q2.moduleGlobals
            /\ q2.moduleGlobals[q.globals[y]] = q.moduleGlobals[q.globals[y]]
        BY <1>7, <2>1, <3>3
      <4>2. q.moduleGlobals[q.globals[y]] \in 1..Len(q.ids) /\ q.ids[q.moduleGlobals[q.globals[y]]].name = y
        BY <1>5, <2>1, <3>3
      <4> QED
        BY <1>5, <1>6, <4>1, <4>2
    <3> QED
      BY ONLY <2>1, <3>1, <3>2, <3>3
  <2> QED
    BY <2>2, <2>3
<1>12. TopLevel(q2)
  <2> DEFINE Before(p, i) == \E j \in 1..i : p.ids[j].binds /\ p.ids[j].env = Module /\ p.ids[j].name = p.ids[i].name
  <2> SUFFICES ASSUME NEW i \in DOMAIN q2.ids, q2.ids[i].env = Module
               PROVE  IF Before(q2, i)
                      THEN q2.ids[i].scope = "global" /\ q2.ids[i].index = q2.globals[q2.ids[i].name]
                      ELSE q2.ids[i].scope = Outside(q2.ids[i].name)
    BY DEF TopLevel
  <2>1. CASE i \in 1..Len(q.ids)
    <3>1. q2.ids[i] = q.ids[i] /\ q.ids[i].name \in Name /\ i \in DOMAIN q.ids /\ (Before(q2, i) <=> Before(q, i))
      BY <1>5, <1>6, <2>1
    <3>2. IF Before(q, i) THEN q.ids[i].scope = "global" /\ q.ids[i].index = q.globals[q.ids[i].name]
          ELSE q.ids[i].scope = Outside(q.ids[i].name)
      BY <1>1, <3>1 DEF TopLevel
    <3>3. Before(q, i) => Declares(q, Module, q.ids[i].name)
      BY <1>5, <1>6, <2>1 DEF Declares
    <3>4. Declares(q, Module, q.ids[i].name) => q.globals[q.ids[i].name] # 0
      BY <1>1, <3>1 DEF GlobalsBound
    <3>5. q.globals[q.ids[i].name] # 0 => q2.globals[q.ids[i].name] = q.globals[q.ids[i].name]
      BY <1>2, <3>1
    <3> HIDE DEF Before
    <3> QED
      BY <3>1, <3>2, <3>3, <3>4, <3>5
  <2>2. CASE i = m
    <3>1. Before(q2, m) <=> Declares(q2, Module, x)
      BY <1>3, <1>5 DEF Declares
    <3>2. Declares(q2, Module, x) <=> q2.globals[x] # 0
      BY <1>2, <1>11 DEF GlobalsBound
    <3> QED
      BY <1>3, <1>5, <2>2, <3>1, <3>2
  <2> QED
    BY <1>5, <1>6, <2>1, <2>2
<1>13. UsesKept(q2)
  <2>1. \A c : IdsOf(q2, c) = IdsOf(q, c)
    BY <1>2, <1>3, <1>5, <1>6 DEF IdsOf
  <2>2. \A c, i : i \in IdsOf(q, c) => q2.ids[i] = q.ids[i]
    BY <1>5 DEF IdsOf
  <2> SUFFICES ASSUME NEW c \in DOMAIN q.blocks
               PROVE  /\ ToSet(q.blocks[c].uses) \subseteq IdsOf(q2, c)
                      /\ c \in Ancestors(q.blocks, q.env) => Waiting(q2, c)
                      /\ c \notin Ancestors(q.blocks, q.env) => Settled(q2, c)
                      /\ q.blocks[c].freevars = <<>>
    BY <1>2 DEF UsesKept
  <2>3. /\ ToSet(q.blocks[c].uses) \subseteq IdsOf(q, c)
        /\ c \in Ancestors(q.blocks, q.env) => Waiting(q, c)
        /\ c \notin Ancestors(q.blocks, q.env) => Settled(q, c)
        /\ q.blocks[c].freevars = <<>>
    BY <1>1 DEF UsesKept
  <2>4. Waiting(q, c) => Waiting(q2, c)
    BY <1>2, <2>1, <2>2 DEF Waiting
  <2>5. Settled(q, c) => Settled(q2, c)
    BY <1>2, <2>1, <2>2 DEF Settled
  <2> QED
    BY <2>1, <2>3, <2>4, <2>5
<1> QED
  BY <1>9, <1>10, <1>11, <1>12, <1>13 DEF Core

(***************************************************************************)
(* Use and Bind.                                                           *)
(***************************************************************************)

\* A block of its type, with some of its fields replaced.
LEMMA BlockFields ==
  ASSUME NEW b \in BlockType
  PROVE  /\ b.parent \in Nat /\ b.kind \in {"module", "function", "comp"} /\ b.bindings \in [Name -> Bindings]
         /\ b.locals \in Seq(Nat) /\ b.freevars \in Seq(FreeVars) /\ b.uses \in Seq(Nat) /\ b.params \in Seq(Param)
         /\ \A u \in Seq(Nat) : [b EXCEPT !.uses = u] \in BlockType
         /\ \A l \in Seq(Nat) : [b EXCEPT !.locals = l] \in BlockType
         /\ \A g \in [Name -> Bindings] : [b EXCEPT !.bindings = g] \in BlockType
         /\ \A v \in Seq(FreeVars), g \in [Name -> Bindings] :
              [b EXCEPT !.freevars = v, !.bindings = g] \in BlockType
BY DEF BlockType

\* What a name is at the top level is a binding.
LEMMA UseGlobalIs ==
  ASSUME NEW q, q.globals \in [Name -> Nat], NEW x \in Name
  PROVE  /\ UseGlobal(q, x) \in Bindings /\ UseGlobal(q, x).index = q.globals[x]
         /\ UseGlobal(q, x).scope = IF q.globals[x] # 0 THEN "global" ELSE Outside(x)
         /\ UseGlobal(q, x).scope \in {"global", "predeclared", "universal", "undefined"}
         /\ GlobalErrors(UseGlobal(q, x), x) \subseteq Errors
<1>1. UseGlobal(q, x).scope = IF q.globals[x] # 0 THEN "global" ELSE Outside(x)
  BY DEF UseGlobal
<1>2. Outside(x) \in {"predeclared", "universal", "undefined"}
  BY DEF Outside
<1>3. UseGlobal(q, x) = [scope |-> UseGlobal(q, x).scope, index |-> q.globals[x]]
  BY DEF UseGlobal
<1>4. UseGlobal(q, x).index = q.globals[x] /\ q.globals[x] \in Nat
  BY DEF UseGlobal
<1>5. GlobalErrors(UseGlobal(q, x), x) \subseteq Errors
  BY DEF GlobalErrors, Errors
<1> HIDE DEF UseGlobal
<1> QED
  BY <1>1, <1>2, <1>3, <1>4, <1>5 DEF Bindings, Scopes

\* A new local.
LEMMA AddLocalIs ==
  ASSUME NEW q, Core(q), q.env # Module, NEW x \in Name
  PROVE  LET q1 == AddLocal(q, x)
             c  == Container(q.blocks, q.env)
         IN  /\ q1 \in Resolvers /\ q1.env = q.env /\ q1.ids = q.ids /\ q1.globals = q.globals
             /\ q1.moduleGlobals = q.moduleGlobals /\ q1.loops = q.loops /\ q1.errors = q.errors
             /\ DOMAIN q1.blocks = DOMAIN q.blocks /\ Tree(q1.blocks) /\ Container(q1.blocks, q.env) = c
             /\ \A b \in DOMAIN q.blocks :
                  /\ q1.blocks[b].parent = q.blocks[b].parent /\ q1.blocks[b].kind = q.blocks[b].kind
                  /\ q1.blocks[b].params = q.blocks[b].params /\ q1.blocks[b].freevars = q.blocks[b].freevars
                  /\ q1.blocks[b].uses = q.blocks[b].uses
                  /\ q1.blocks[b].locals =
                       IF b = c THEN Append(q.blocks[b].locals, Len(q.ids) + 1) ELSE q.blocks[b].locals
                  /\ \A y \in Name :
                       q1.blocks[b].bindings[y] =
                         IF b = q.env /\ y = x THEN [scope |-> "local", index |-> Len(q.blocks[c].locals) + 1]
                         ELSE q.blocks[b].bindings[y]
<1> DEFINE c  == Container(q.blocks, q.env)
           m  == Len(q.ids) + 1
           v  == [scope |-> "local", index |-> Len(q.blocks[c].locals) + 1]
           g  == [q.blocks[q.env].bindings EXCEPT ![x] = v]
           l  == Append(q.blocks[c].locals, m)
           B1 == [q.blocks EXCEPT ![q.env] = [q.blocks[q.env] EXCEPT !.bindings = g]]
           B2 == [B1 EXCEPT ![c] = [B1[c] EXCEPT !.locals = l]]
           q1 == AddLocal(q, x)
<1>1. q \in Resolvers /\ Tree(q.blocks) /\ q.env \in DOMAIN q.blocks
  BY DEF Core, WellFormed
<1>2. c \in DOMAIN q.blocks
  BY <1>1, ContainerIs
<1>3. q.ids \in Seq(IdType) /\ q.blocks \in Seq(BlockType) /\ m \in Nat
  BY <1>1, LenProperties DEF Resolvers
<1>4. \A b \in DOMAIN q.blocks : q.blocks[b] \in BlockType
  BY <1>1, TreeFacts
<1>5. q.blocks[c].locals \in Seq(Nat) /\ q.blocks[q.env].bindings \in [Name -> Bindings]
  BY <1>1, <1>2, <1>4, BlockFields
<1>6. v \in Bindings /\ l \in Seq(Nat)
  <2>1. Len(q.blocks[c].locals) \in Nat
    BY <1>5, LenProperties
  <2> QED
    BY <1>3, <1>5, <2>1, AppendProperties DEF Bindings, Scopes
<1>7. q1 = [q EXCEPT !.blocks = B2]
  <2>1. q1 = [q EXCEPT !.blocks[q.env].bindings[x] = v, !.blocks[c].locals = Append(@, m)]
    BY DEF AddLocal
  <2>2. B1[c].locals = q.blocks[c].locals
    <3>1. CASE c = q.env
      <4>1. B1[c] = [q.blocks[c] EXCEPT !.bindings = g]
        BY <1>1, <3>1
      <4> HIDE DEF g, c, B1
      <4> QED
        BY <1>2, <1>4, <4>1 DEF BlockType
    <3>2. CASE c # q.env
      BY <1>1, <1>2, <3>2
    <3> QED
      BY <3>1, <3>2
  <2> HIDE DEF c, m, v
  <2>3. [q EXCEPT !.blocks[q.env].bindings[x] = v, !.blocks[c].locals = Append(@, m)]
          = [q EXCEPT !.blocks = [B1 EXCEPT ![c] = [B1[c] EXCEPT !.locals = Append(B1[c].locals, m)]]]
    <3> DEFINE p == [q EXCEPT !.blocks = B1]
    <3>1. p.blocks = B1
      BY <1>1 DEF Resolvers
    <3>2. [q EXCEPT !.blocks[q.env].bindings[x] = v, !.blocks[c].locals = Append(@, m)]
            = [p EXCEPT !.blocks[c].locals = Append(@, m)]
      BY Zenon
    <3> HIDE DEF B1
    <3>3. \A B : [p EXCEPT !.blocks = B] = [q EXCEPT !.blocks = B]
      BY <1>1 DEF Resolvers
    <3> HIDE DEF p
    <3>4. [p EXCEPT !.blocks[c].locals = Append(@, m)]
            = [p EXCEPT !.blocks = [B1 EXCEPT ![c] = [B1[c] EXCEPT !.locals = Append(B1[c].locals, m)]]]
      BY <3>1, Zenon
    <3> QED
      BY ONLY <3>2, <3>3, <3>4
  <2> QED
    BY <2>1, <2>2, <2>3
<1>8. g \in [Name -> Bindings] /\ \A y \in Name : g[y] = IF y = x THEN v ELSE q.blocks[q.env].bindings[y]
  <2> HIDE DEF v
  <2> QED
    BY <1>5, <1>6
<1> HIDE DEF c, m, v, g, l, q1
<1>9. B1 \in Seq(BlockType) /\ DOMAIN B1 = DOMAIN q.blocks
  <2>1. [q.blocks[q.env] EXCEPT !.bindings = g] \in BlockType
    BY <1>1, <1>4, <1>8, BlockFields
  <2> QED
    BY <1>1, <1>3, <2>1
<1>10. ASSUME NEW b \in DOMAIN q.blocks
       PROVE /\ B1[b].parent = q.blocks[b].parent /\ B1[b].kind = q.blocks[b].kind
             /\ B1[b].params = q.blocks[b].params /\ B1[b].freevars = q.blocks[b].freevars
             /\ B1[b].uses = q.blocks[b].uses /\ B1[b].locals = q.blocks[b].locals
             /\ B1[b].bindings = IF b = q.env THEN g ELSE q.blocks[b].bindings
  <2>1. CASE b # q.env
    BY <1>1, <2>1
  <2>2. CASE b = q.env
    <3>1. B1[b] = [q.blocks[b] EXCEPT !.bindings = g] /\ q.blocks[b] \in BlockType
      BY <1>1, <1>4, <2>2
    <3> HIDE DEF B1
    <3> QED
      BY <2>2, <3>1 DEF BlockType
  <2> QED
    BY <2>1, <2>2
<1> HIDE DEF B1
<1>11. B2 \in Seq(BlockType) /\ DOMAIN B2 = DOMAIN q.blocks
  <2>1. B1[c] \in BlockType
    BY <1>2, <1>9, ElementOfSeq, LenProperties
  <2>2. [B1[c] EXCEPT !.locals = l] \in BlockType
    BY <1>6, <2>1, BlockFields
  <2> QED
    BY <1>2, <1>9, <2>2
<1>12. ASSUME NEW b \in DOMAIN q.blocks
       PROVE /\ B2[b].parent = B1[b].parent /\ B2[b].kind = B1[b].kind
             /\ B2[b].params = B1[b].params /\ B2[b].freevars = B1[b].freevars
             /\ B2[b].uses = B1[b].uses /\ B2[b].bindings = B1[b].bindings
             /\ B2[b].locals = IF b = c THEN l ELSE B1[b].locals
  <2>1. CASE b # c
    BY <1>2, <1>9, <2>1
  <2>2. CASE b = c
    <3>1. B2[b] = [B1[b] EXCEPT !.locals = l] /\ B1[b] \in BlockType
      BY <1>2, <1>9, <2>2, ElementOfSeq, LenProperties
    <3> HIDE DEF B2
    <3> QED
      BY <2>2, <3>1 DEF BlockType
  <2> QED
    BY <2>1, <2>2
<1> HIDE DEF B2
<1>13. /\ q1 \in Resolvers /\ q1.blocks = B2 /\ q1.env = q.env /\ q1.ids = q.ids /\ q1.globals = q.globals
       /\ q1.moduleGlobals = q.moduleGlobals /\ q1.loops = q.loops /\ q1.errors = q.errors
  BY <1>1, <1>7, <1>11 DEF Resolvers
<1>14. Tree(B2)
  <2>1. \A b \in DOMAIN q.blocks : B2[b].parent = q.blocks[b].parent /\ B2[b].kind = q.blocks[b].kind
    BY <1>10, <1>12
  <2> QED
    BY <1>1, <1>11, <2>1, TreeSame
<1>15. Container(B2, q.env) = c
  <2>1. Grows(q.blocks, B2)
    BY <1>1, <1>10, <1>11, <1>12, <1>14 DEF Grows
  <2> QED
    BY <1>1, <2>1, GrowsKeeps DEF c
<1>16. \A b \in DOMAIN q.blocks :
                  /\ q1.blocks[b].parent = q.blocks[b].parent /\ q1.blocks[b].kind = q.blocks[b].kind
                  /\ q1.blocks[b].params = q.blocks[b].params /\ q1.blocks[b].freevars = q.blocks[b].freevars
                  /\ q1.blocks[b].uses = q.blocks[b].uses
                  /\ q1.blocks[b].locals = IF b = c THEN l ELSE q.blocks[b].locals
                  /\ q1.blocks[b].bindings = IF b = q.env THEN g ELSE q.blocks[b].bindings
  BY <1>10, <1>12, <1>13
<1>17. ASSUME NEW b \in DOMAIN q.blocks
       PROVE /\ q1.blocks[b].locals =
                  IF b = c THEN Append(q.blocks[b].locals, Len(q.ids) + 1) ELSE q.blocks[b].locals
             /\ \A y \in Name :
                       q1.blocks[b].bindings[y] =
                         IF b = q.env /\ y = x THEN [scope |-> "local", index |-> Len(q.blocks[c].locals) + 1]
                         ELSE q.blocks[b].bindings[y]
  <2>1. q1.blocks[b].locals = IF b = c THEN Append(q.blocks[b].locals, Len(q.ids) + 1) ELSE q.blocks[b].locals
    BY <1>16 DEF l, m
  <2>2. \A y \in Name : q1.blocks[b].bindings[y] = IF b = q.env /\ y = x THEN v ELSE q.blocks[b].bindings[y]
    BY <1>8, <1>16
  <2> QED
    BY <2>1, <2>2 DEF v
<1> QED
  BY <1>11, <1>13, <1>14, <1>15, <1>16, <1>17 DEF c, q1

\* The identifier and the use that UseAs adds in an inner block.
LEMMA UseAsFields ==
  ASSUME NEW q \in Resolvers, Tree(q.blocks), q.env \in DOMAIN q.blocks, q.env # Module,
         NEW x \in Name, NEW binds \in BOOLEAN
  PROVE  LET q2 == UseAs(q, x, binds)
             m  == Len(q.ids) + 1
             c  == Container(q.blocks, q.env)
         IN  /\ q2 \in Resolvers /\ q2.env = q.env /\ q2.globals = q.globals
             /\ q2.moduleGlobals = q.moduleGlobals /\ q2.loops = q.loops /\ q2.errors = q.errors
             /\ q2.ids = Append(q.ids, Occurrence(q, x, binds)) /\ DOMAIN q2.blocks = DOMAIN q.blocks
             /\ \A b \in DOMAIN q.blocks :
                  /\ q2.blocks[b].parent = q.blocks[b].parent /\ q2.blocks[b].kind = q.blocks[b].kind
                  /\ q2.blocks[b].params = q.blocks[b].params /\ q2.blocks[b].freevars = q.blocks[b].freevars
                  /\ q2.blocks[b].uses = IF b = c THEN Append(q.blocks[b].uses, m) ELSE q.blocks[b].uses
                  /\ q2.blocks[b].locals = q.blocks[b].locals
                  /\ q2.blocks[b].bindings = q.blocks[b].bindings
<1> DEFINE c  == Container(q.blocks, q.env)
           m  == Len(q.ids) + 1
           id == Occurrence(q, x, binds)
           q2 == [q EXCEPT !.ids = Append(@, id), !.blocks[c].uses = Append(@, m)]
<1>2. UseAs(q, x, binds) = q2
  BY DEF UseAs
<1>3. c \in DOMAIN q.blocks
  BY ContainerIs
<1>4. /\ q.ids \in Seq(IdType) /\ q.blocks \in Seq(BlockType) /\ Len(q.ids) \in Nat /\ m \in Nat /\ q.env \in Nat
  BY DEF Resolvers
<1>5. id \in IdType
  BY <1>4 DEF Occurrence, IdType, Scopes
<1>6. DOMAIN q.blocks = 1..Len(q.blocks) /\ \A b \in DOMAIN q.blocks : q.blocks[b] \in BlockType
  BY TreeFacts
<1>7. Append(q.ids, id) \in Seq(IdType)
  BY <1>4, <1>5, AppendProperties
<1>8. Append(q.blocks[c].uses, m) \in Seq(Nat)
  BY <1>3, <1>4, <1>6, BlockFields, AppendProperties
<1>9. [q.blocks[c] EXCEPT !.uses = Append(q.blocks[c].uses, m)] \in BlockType
  BY <1>3, <1>6, <1>8, BlockFields
<1> HIDE DEF c, m, id
<1>10. q2.blocks = [q.blocks EXCEPT ![c] = [q.blocks[c] EXCEPT !.uses = Append(q.blocks[c].uses, m)]]
  BY <1>3 DEF Resolvers
<1>11. q2.blocks \in Seq(BlockType) /\ DOMAIN q2.blocks = DOMAIN q.blocks
  BY <1>3, <1>4, <1>9, <1>10
<1>12. q2 = [q EXCEPT !.ids = q2.ids, !.blocks = q2.blocks]
  BY DEF Resolvers
<1>13. q2.ids = Append(q.ids, id)
  BY DEF Resolvers
<1>14. q2 \in Resolvers
  <2> HIDE DEF q2
  <2> QED
    BY <1>7, <1>11, <1>12, <1>13 DEF Resolvers
<1>15. /\ q2.env = q.env /\ q2.globals = q.globals /\ q2.moduleGlobals = q.moduleGlobals
       /\ q2.loops = q.loops /\ q2.errors = q.errors
  BY DEF Resolvers
<1> HIDE DEF q2
<1>16. ASSUME NEW b \in DOMAIN q.blocks
       PROVE /\ q2.blocks[b].parent = q.blocks[b].parent /\ q2.blocks[b].kind = q.blocks[b].kind
             /\ q2.blocks[b].params = q.blocks[b].params /\ q2.blocks[b].freevars = q.blocks[b].freevars
             /\ q2.blocks[b].uses = IF b = c THEN Append(q.blocks[b].uses, m) ELSE q.blocks[b].uses
             /\ q2.blocks[b].locals = q.blocks[b].locals
             /\ q2.blocks[b].bindings = q.blocks[b].bindings
  <2>1. CASE b # c
    BY <1>10, <2>1
  <2>2. CASE b = c
    <3>1. q2.blocks[c] = [q.blocks[c] EXCEPT !.uses = Append(q.blocks[c].uses, m)]
      BY <1>3, <1>10
    <3>2. q.blocks[c] \in BlockType
      BY <1>3, <1>6
    <3> QED
      BY <2>2, <3>1, <3>2 DEF BlockType
  <2> QED
    BY <2>1, <2>2
<1> QED
  BY <1>2, <1>11, <1>13, <1>14, <1>15, <1>16 DEF c, m, id

\* A use in an inner block.
LEMMA UseInIs ==
  ASSUME NEW q, Core(q), q.env # Module, NEW x \in Name, NEW binds \in BOOLEAN,
         binds => q.blocks[q.env].bindings[x] # NoBinding
  PROVE  OccursIn(q, UseAs(q, x, binds), x, binds, FALSE)
<1>1. q \in Resolvers /\ Tree(q.blocks) /\ q.env \in DOMAIN q.blocks
  BY DEF Core, WellFormed
<1> QED
  BY <1>1, UseAsFields DEF OccursIn

\* A new local in an inner block.
LEMMA BindInIs ==
  ASSUME NEW q, Core(q), q.env # Module, NEW x \in Name
  PROVE  OccursIn(q, UseAs(AddLocal(q, x), x, TRUE), x, TRUE, TRUE)
<1> DEFINE q1 == AddLocal(q, x)
           q2 == UseAs(q1, x, TRUE)
           c  == Container(q.blocks, q.env)
           m  == Len(q.ids) + 1
<1>1. q \in Resolvers /\ Tree(q.blocks) /\ q.env \in DOMAIN q.blocks
  BY DEF Core, WellFormed
<1>2. /\ q1 \in Resolvers /\ q1.env = q.env /\ q1.ids = q.ids /\ q1.globals = q.globals
      /\ q1.moduleGlobals = q.moduleGlobals /\ q1.loops = q.loops /\ q1.errors = q.errors
      /\ DOMAIN q1.blocks = DOMAIN q.blocks /\ Tree(q1.blocks) /\ Container(q1.blocks, q.env) = c
      /\ \A b \in DOMAIN q.blocks :
           /\ q1.blocks[b].parent = q.blocks[b].parent /\ q1.blocks[b].kind = q.blocks[b].kind
           /\ q1.blocks[b].params = q.blocks[b].params /\ q1.blocks[b].freevars = q.blocks[b].freevars
           /\ q1.blocks[b].uses = q.blocks[b].uses
           /\ q1.blocks[b].locals = IF b = c THEN Append(q.blocks[b].locals, m) ELSE q.blocks[b].locals
           /\ \A y \in Name :
                q1.blocks[b].bindings[y] =
                  IF b = q.env /\ y = x THEN [scope |-> "local", index |-> Len(q.blocks[c].locals) + 1]
                  ELSE q.blocks[b].bindings[y]
  BY AddLocalIs
<1> HIDE DEF q1
<1>3. /\ q2 \in Resolvers /\ q2.env = q1.env /\ q2.globals = q1.globals
      /\ q2.moduleGlobals = q1.moduleGlobals /\ q2.loops = q1.loops /\ q2.errors = q1.errors
      /\ q2.ids = Append(q1.ids, Occurrence(q1, x, TRUE)) /\ DOMAIN q2.blocks = DOMAIN q1.blocks
      /\ \A b \in DOMAIN q1.blocks :
           /\ q2.blocks[b].parent = q1.blocks[b].parent /\ q2.blocks[b].kind = q1.blocks[b].kind
           /\ q2.blocks[b].params = q1.blocks[b].params /\ q2.blocks[b].freevars = q1.blocks[b].freevars
           /\ q2.blocks[b].uses = IF b = c THEN Append(q1.blocks[b].uses, m) ELSE q1.blocks[b].uses
           /\ q2.blocks[b].locals = q1.blocks[b].locals
           /\ q2.blocks[b].bindings = q1.blocks[b].bindings
  <2> DEFINE d == Container(q1.blocks, q1.env)
             n == Len(q1.ids) + 1
  <2>1. d = c /\ n = m /\ Tree(q1.blocks) /\ q1.env \in DOMAIN q1.blocks /\ q1.env # Module /\ q1 \in Resolvers
    BY <1>1, <1>2
  <2>2. /\ q2 \in Resolvers /\ q2.env = q1.env /\ q2.globals = q1.globals
        /\ q2.moduleGlobals = q1.moduleGlobals /\ q2.loops = q1.loops /\ q2.errors = q1.errors
        /\ q2.ids = Append(q1.ids, Occurrence(q1, x, TRUE)) /\ DOMAIN q2.blocks = DOMAIN q1.blocks
        /\ \A b \in DOMAIN q1.blocks :
             /\ q2.blocks[b].parent = q1.blocks[b].parent /\ q2.blocks[b].kind = q1.blocks[b].kind
             /\ q2.blocks[b].params = q1.blocks[b].params /\ q2.blocks[b].freevars = q1.blocks[b].freevars
             /\ q2.blocks[b].uses = IF b = d THEN Append(q1.blocks[b].uses, n) ELSE q1.blocks[b].uses
             /\ q2.blocks[b].locals = q1.blocks[b].locals
             /\ q2.blocks[b].bindings = q1.blocks[b].bindings
    BY ONLY <2>1, UseAsFields
  <2> HIDE DEF d, n, c, m, q2
  <2> QED
    BY <2>1, <2>2
<1>4. Occurrence(q1, x, TRUE) = Occurrence(q, x, TRUE)
  BY <1>2 DEF Occurrence
<1> HIDE DEF q2, c, m, Occurrence
<1>5. /\ q2 \in Resolvers /\ q2.env = q.env /\ q2.globals = q.globals
      /\ q2.moduleGlobals = q.moduleGlobals /\ q2.loops = q.loops /\ q2.errors = q.errors
      /\ q2.ids = Append(q.ids, Occurrence(q, x, TRUE)) /\ DOMAIN q2.blocks = DOMAIN q.blocks
  BY <1>2, <1>3, <1>4
<1>6. \A b \in DOMAIN q.blocks :
           /\ q2.blocks[b].parent = q.blocks[b].parent /\ q2.blocks[b].kind = q.blocks[b].kind
           /\ q2.blocks[b].params = q.blocks[b].params /\ q2.blocks[b].freevars = q.blocks[b].freevars
           /\ q2.blocks[b].uses = IF b = c THEN Append(q.blocks[b].uses, m) ELSE q.blocks[b].uses
           /\ q2.blocks[b].locals = IF b = c THEN Append(q.blocks[b].locals, m) ELSE q.blocks[b].locals
           /\ \A y \in Name :
                q2.blocks[b].bindings[y] =
                  IF b = q.env /\ y = x THEN [scope |-> "local", index |-> Len(q.blocks[c].locals) + 1]
                  ELSE q.blocks[b].bindings[y]
  BY <1>2, <1>3
<1>7. OccursIn(q, q2, x, TRUE, TRUE)
  BY <1>5, <1>6 DEF OccursIn, c, m
<1> QED
  BY <1>7 DEF q1, q2

\* A use at the top level.
LEMMA UseTopIs ==
  ASSUME NEW q, Core(q), q.env = Module, NEW x \in Name
  PROVE  OccursTop(q, Use(q, x), x, FALSE, FALSE)
<1> DEFINE bind == UseGlobal(q, x)
           id == [Occurrence(q, x, FALSE) EXCEPT !.scope = bind.scope, !.index = bind.index]
           q2 == [q EXCEPT !.ids = Append(@, id), !.errors = @ \cup GlobalErrors(bind, x)]
<1>1. q \in Resolvers /\ q.globals \in [Name -> Nat] /\ q.ids \in Seq(IdType) /\ q.env \in Nat
  BY DEF Core, WellFormed, Resolvers
<1>2. /\ bind \in Bindings /\ bind.index = q.globals[x] /\ bind.index \in Nat /\ bind.scope \in Scopes
      /\ bind.scope = IF q.globals[x] # 0 THEN "global" ELSE Outside(x)
      /\ GlobalErrors(bind, x) \subseteq Errors
  BY <1>1, UseGlobalIs DEF Bindings
<1> HIDE DEF bind
<1>3. LET o == Occurrence(q, x, FALSE) IN o \in IdType /\ o.name = x /\ o.env = Module /\ o.binds = FALSE
  BY <1>1 DEF Occurrence, IdType
<1>4. id \in IdType /\ id.name = x /\ id.env = Module /\ id.binds = FALSE /\ id.scope = bind.scope /\ id.index = bind.index
  <2> HIDE DEF Occurrence
  <2> QED
    BY <1>2, <1>3 DEF IdType
<1>5. Use(q, x) = q2
  BY DEF Use, UseAs, Errorf, bind
<1> HIDE DEF id
<1>6. Append(q.ids, id) \in Seq(IdType)
  BY <1>1, <1>4, AppendProperties
<1> DEFINE e == GlobalErrors(bind, x)
<1> HIDE DEF e
<1>7. q2 \in Resolvers /\ q2.ids = Append(q.ids, id) /\ q.errors \subseteq q2.errors
  BY <1>1, <1>2, <1>6 DEF Resolvers, e
<1>8. /\ q2.env = q.env /\ q2.blocks = q.blocks /\ q2.loops = q.loops /\ q2.globals = q.globals
      /\ q2.moduleGlobals = q.moduleGlobals
  BY <1>1 DEF Resolvers
<1> HIDE DEF q2
<1> QED
  BY <1>2, <1>4, <1>5, <1>7, <1>8 DEF OccursTop

\* A binding at the top level.
LEMMA BindTopIs ==
  ASSUME NEW q, Core(q), q.env = Module, NEW x \in Name, NEW again \in BOOLEAN
  PROVE  OccursTop(q, BindGlobal(q, x, again), x, TRUE, q.globals[x] = 0)
<1> DEFINE old == q.globals[x]
           id == [Occurrence(q, x, TRUE) EXCEPT
                    !.scope = "global", !.index = IF old # 0 THEN old ELSE Len(q.moduleGlobals) + 1]
           e  == IF again \/ "globalReassign" \in allow THEN {} ELSE {"cannot reassign global"}
           m  == Len(q.ids) + 1
           qa == [q EXCEPT !.ids = Append(@, id), !.errors = @ \cup e]
           qb == [q EXCEPT !.ids = Append(@, id), !.globals[x] = id.index, !.moduleGlobals = Append(@, m)]
<1>1. /\ q \in Resolvers /\ q.globals \in [Name -> Nat] /\ q.ids \in Seq(IdType) /\ q.env \in Nat
      /\ q.moduleGlobals \in Seq(Nat) /\ Len(q.moduleGlobals) \in Nat /\ m \in Nat
  BY LenProperties DEF Core, WellFormed, Resolvers
<1>2. /\ id \in IdType /\ id.name = x /\ id.env = Module /\ id.binds = TRUE /\ id.scope = "global"
      /\ id.index = IF old # 0 THEN old ELSE Len(q.moduleGlobals) + 1
  <2> DEFINE o == Occurrence(q, x, TRUE)
             k == IF old # 0 THEN old ELSE Len(q.moduleGlobals) + 1
  <2>1. o \in IdType /\ o.name = x /\ o.env = Module /\ o.binds = TRUE
    BY <1>1 DEF Occurrence, IdType
  <2>2. k \in Nat /\ id = [o EXCEPT !.scope = "global", !.index = k]
    BY <1>1
  <2> HIDE DEF id, k, o
  <2>3. id \in IdType /\ id.name = x /\ id.env = Module /\ id.binds = TRUE /\ id.scope = "global" /\ id.index = k
    BY <2>1, <2>2 DEF IdType, Scopes
  <2> QED
    BY <2>3 DEF k
<1>3. e \subseteq Errors
  BY DEF Errors
<1>4. BindGlobal(q, x, again) = IF old # 0 THEN qa ELSE qb
  BY DEF BindGlobal, Errorf
<1> HIDE DEF id, e, m
<1>5. Append(q.ids, id) \in Seq(IdType) /\ Append(q.moduleGlobals, m) \in Seq(Nat)
  BY <1>1, <1>2, AppendProperties
<1>6. CASE old # 0
  <2>1. qa \in Resolvers /\ qa.ids = Append(q.ids, id) /\ q.errors \subseteq qa.errors
    BY <1>1, <1>3, <1>5 DEF Resolvers
  <2>2. /\ qa.env = q.env /\ qa.blocks = q.blocks /\ qa.loops = q.loops /\ qa.globals = q.globals
        /\ qa.moduleGlobals = q.moduleGlobals
    BY <1>1 DEF Resolvers
  <2> HIDE DEF qa
  <2> QED
    BY <1>2, <1>4, <1>6, <2>1, <2>2 DEF OccursTop
<1>7. CASE old = 0
  <2>1. id.index \in Nat /\ id.index = Len(q.moduleGlobals) + 1 /\ id.index # 0
    BY <1>1, <1>2, <1>7
  <2>2. [q.globals EXCEPT ![x] = id.index] \in [Name -> Nat]
    BY <1>1, <2>1
  <2>3. qb \in Resolvers /\ qb.ids = Append(q.ids, id) /\ q.errors \subseteq qb.errors
    BY <1>1, <1>5, <2>2 DEF Resolvers
  <2>4. /\ qb.env = q.env /\ qb.blocks = q.blocks /\ qb.loops = q.loops
        /\ qb.globals = [q.globals EXCEPT ![x] = id.index]
        /\ qb.moduleGlobals = Append(q.moduleGlobals, m)
    BY <1>1 DEF Resolvers
  <2>5. \A y \in Name : qb.globals[y] = IF y = x THEN Len(q.moduleGlobals) + 1 ELSE q.globals[y]
    BY <1>1, <2>1, <2>4
  <2> HIDE DEF qb
  <2>6. qb.globals[x] = id.index
    BY <1>1, <2>4
  <2>7. \E d \in IdType :
           /\ qb.ids = Append(q.ids, d)
           /\ d.name = x /\ d.env = Module /\ d.binds = TRUE
           /\ IF qb.globals[x] # 0 THEN d.scope = "global" /\ d.index = qb.globals[x] ELSE d.scope = Outside(x)
    BY <1>2, <2>1, <2>3, <2>6
  <2>8. (q.globals[x] = 0) = TRUE /\ BindGlobal(q, x, again) = qb
    BY <1>4, <1>7
  <2> QED
    BY <2>3, <2>4, <2>5, <2>7, <2>8 DEF OccursTop, m
<1> QED
  BY <1>6, <1>7

(***************************************************************************)
(* What every operation leaves of what was there: the tree, the            *)
(* parameters, the names of the identifiers, the locals and their slots.   *)
(***************************************************************************)
Later(q, q2) ==
  /\ q.errors \subseteq q2.errors
  /\ DOMAIN q.ids \subseteq DOMAIN q2.ids /\ DOMAIN q.blocks \subseteq DOMAIN q2.blocks
  /\ \A i \in DOMAIN q.ids :
       q2.ids[i].name = q.ids[i].name /\ q2.ids[i].env = q.ids[i].env /\ q2.ids[i].binds = q.ids[i].binds
  /\ \A b \in DOMAIN q.blocks :
       /\ q2.blocks[b].parent = q.blocks[b].parent /\ q2.blocks[b].kind = q.blocks[b].kind
       /\ q2.blocks[b].params = q.blocks[b].params
       /\ DOMAIN q.blocks[b].locals \subseteq DOMAIN q2.blocks[b].locals
       /\ \A k \in DOMAIN q.blocks[b].locals : q2.blocks[b].locals[k] = q.blocks[b].locals[k]

\* One operation within the block the walk is in.
Steps(q, q2) ==
  /\ Core(q2) /\ Later(q, q2) /\ q2.env = q.env /\ q2.loops = q.loops /\ DOMAIN q2.blocks = DOMAIN q.blocks

\* Operations one after the other.
LEMMA LaterTransitive ==
  ASSUME NEW q1, NEW q2, NEW q3, Later(q1, q2), Later(q2, q3)
  PROVE  Later(q1, q3)
<1>1. /\ q1.errors \subseteq q3.errors
      /\ DOMAIN q1.ids \subseteq DOMAIN q3.ids /\ DOMAIN q1.blocks \subseteq DOMAIN q3.blocks
  BY DEF Later
<1>2. ASSUME NEW i \in DOMAIN q1.ids
      PROVE  q3.ids[i].name = q1.ids[i].name /\ q3.ids[i].env = q1.ids[i].env /\ q3.ids[i].binds = q1.ids[i].binds
  BY DEF Later
<1>3. ASSUME NEW b \in DOMAIN q1.blocks
      PROVE  /\ q3.blocks[b].parent = q1.blocks[b].parent /\ q3.blocks[b].kind = q1.blocks[b].kind
             /\ q3.blocks[b].params = q1.blocks[b].params
             /\ DOMAIN q1.blocks[b].locals \subseteq DOMAIN q3.blocks[b].locals
             /\ \A k \in DOMAIN q1.blocks[b].locals : q3.blocks[b].locals[k] = q1.blocks[b].locals[k]
  BY DEF Later
<1> QED
  BY <1>1, <1>2, <1>3 DEF Later

\* Steps one after the other.
LEMMA StepsTransitive ==
  ASSUME NEW q1, NEW q2, NEW q3, Steps(q1, q2), Steps(q2, q3)
  PROVE  Steps(q1, q3)
BY LaterTransitive DEF Steps

\* The parameters stay in their slots.
LEMMA LaterPlaced ==
  ASSUME NEW q, NEW q2, Later(q, q2), NEW f \in DOMAIN q.blocks, NEW n, Placed(q, f, n)
  PROVE  Placed(q2, f, n)
<1>1. q2.blocks[f].params = q.blocks[f].params
  BY DEF Later
<1>2. ASSUME NEW k \in 1..n
      PROVE  /\ k \in DOMAIN q2.blocks[f].locals /\ q2.blocks[f].locals[k] \in DOMAIN q2.ids
             /\ q2.ids[q2.blocks[f].locals[k]].name = q.blocks[f].params[k].name
  <2>1. /\ k \in DOMAIN q.blocks[f].locals /\ q.blocks[f].locals[k] \in DOMAIN q.ids
        /\ q.ids[q.blocks[f].locals[k]].name = q.blocks[f].params[k].name
    BY DEF Placed
  <2>2. k \in DOMAIN q2.blocks[f].locals /\ q2.blocks[f].locals[k] = q.blocks[f].locals[k]
    BY <2>1 DEF Later
  <2>3. \A i \in DOMAIN q.ids : i \in DOMAIN q2.ids /\ q2.ids[i].name = q.ids[i].name
    BY DEF Later
  <2> QED
    BY <2>1, <2>2, <2>3
<1>3. n <= Len(q.blocks[f].params) /\ \A j, k \in 1..n : j < k => q.blocks[f].params[j].name # q.blocks[f].params[k].name
  BY DEF Placed
<1> QED
  BY <1>1, <1>2, <1>3 DEF Placed

\* So that a step keeps what is said of them.
LEMMA LaterParams ==
  ASSUME NEW q, NEW q2, Later(q, q2), DOMAIN q2.blocks = DOMAIN q.blocks, ParamsPlaced(q)
  PROVE  ParamsPlaced(q2)
<1> SUFFICES ASSUME q2.errors = {}, NEW f \in DOMAIN q.blocks
             PROVE  Placed(q2, f, Len(q2.blocks[f].params)) /\ Ordered(q2.blocks[f].params)
  BY DEF ParamsPlaced
<1>1. q.errors = {} /\ q2.blocks[f].params = q.blocks[f].params
  BY DEF Later
<1>2. Placed(q, f, Len(q.blocks[f].params)) /\ Ordered(q.blocks[f].params)
  BY <1>1 DEF ParamsPlaced
<1>3. Placed(q2, f, Len(q.blocks[f].params))
  BY <1>2, LaterPlaced
<1> QED
  BY <1>1, <1>2, <1>3

\* The invariant does not read the errors and the loops.
LEMMA CoreReads ==
  ASSUME NEW q, Core(q), NEW q2 \in Resolvers, q2.env = q.env, q2.blocks = q.blocks, q2.ids = q.ids,
         q2.globals = q.globals, q2.moduleGlobals = q.moduleGlobals, q.errors \subseteq q2.errors
  PROVE  Core(q2) /\ Later(q, q2)
<1>1. WellFormed(q2)
  BY DEF Core, WellFormed
<1>2. \A b, x : Declares(q2, b, x) <=> Declares(q, b, x)
  BY DEF Declares
<1>3. \A b, x : BoundAt(q2, b, x) <=> BoundAt(q, b, x)
  BY DEF BoundAt
<1>4. LocalsBound(q2)
  BY <1>2, <1>3 DEF Core, LocalsBound
<1>5. GlobalsBound(q2) /\ TopLevel(q2)
  BY <1>2 DEF Core, GlobalsBound, TopLevel
<1>6. \A c : IdsOf(q2, c) = IdsOf(q, c)
  BY DEF IdsOf
<1>7. \A c : (Waiting(q2, c) <=> Waiting(q, c)) /\ (Settled(q2, c) <=> Settled(q, c))
  BY <1>6 DEF Waiting, Settled
<1>8. UsesKept(q2)
  BY <1>6, <1>7 DEF Core, UsesKept
<1>9. Later(q, q2)
  BY DEF Later
<1> QED
  BY <1>1, <1>4, <1>5, <1>8, <1>9 DEF Core

\* errorf.
LEMMA ErrorfSteps ==
  ASSUME NEW q, Core(q), NEW what \in SUBSET Errors
  PROVE  /\ Steps(q, Errorf(q, what)) /\ Errorf(q, what).blocks = q.blocks /\ Errorf(q, what).ids = q.ids
         /\ Errorf(q, what).errors = q.errors \cup what /\ Errorf(q, what).globals = q.globals
<1> DEFINE q2 == Errorf(q, what)
<1>1. q \in Resolvers
  BY DEF Core, WellFormed
<1>2. /\ q2 \in Resolvers /\ q2.env = q.env /\ q2.blocks = q.blocks /\ q2.ids = q.ids /\ q2.loops = q.loops
      /\ q2.globals = q.globals /\ q2.moduleGlobals = q.moduleGlobals /\ q2.errors = q.errors \cup what
  BY <1>1 DEF Errorf, Resolvers
<1> HIDE DEF q2
<1>3. Core(q2) /\ Later(q, q2)
  BY <1>2, CoreReads
<1>4. Steps(q, q2)
  BY <1>2, <1>3 DEF Steps
<1> QED
  BY <1>2, <1>4 DEF q2

\* An occurrence in an inner block is a step.
LEMMA OccursInSteps ==
  ASSUME NEW q, Core(q), NEW q2, NEW x, NEW binds, NEW fresh, OccursIn(q, q2, x, binds, fresh)
  PROVE  Steps(q, q2)
<1>1. WellFormed(q) /\ Tree(q.blocks)
  BY DEF Core, WellFormed
<1>2. Core(q2)
  BY OccursKeeps
<1>3. DOMAIN q.ids \subseteq DOMAIN q2.ids /\ \A i \in DOMAIN q.ids : q2.ids[i] = q.ids[i]
  <2>1. /\ Len(q.ids) \in Nat /\ DOMAIN q.ids = 1..Len(q.ids) /\ DOMAIN q2.ids = 1..(Len(q.ids) + 1)
        /\ \A i \in 1..Len(q.ids) : q2.ids[i] = q.ids[i]
    BY <1>1, OccursFrame
  <2>2. 1..Len(q.ids) \subseteq 1..(Len(q.ids) + 1)
    BY <2>1
  <2> QED
    BY <2>1, <2>2
<1>4. ASSUME NEW b \in DOMAIN q.blocks
      PROVE  /\ DOMAIN q.blocks[b].locals \subseteq DOMAIN q2.blocks[b].locals
             /\ \A k \in DOMAIN q.blocks[b].locals : q2.blocks[b].locals[k] = q.blocks[b].locals[k]
  <2> DEFINE l == q.blocks[b].locals
             m == Len(q.ids) + 1
  <2>1. l \in Seq(Nat) /\ m \in Nat
    <3>1. q.blocks[b] \in BlockType /\ q.ids \in Seq(IdType)
      BY <1>1, TreeFacts DEF WellFormed, Resolvers
    <3>2. Len(q.ids) \in Nat
      BY <3>1, LenProperties
    <3>3. l \in Seq(Nat)
      BY <3>1 DEF BlockType
    <3> HIDE DEF l
    <3> QED
      BY <3>2, <3>3
  <2>2. q2.blocks[b].locals = Append(l, m) \/ q2.blocks[b].locals = l
    BY DEF OccursIn
  <2> HIDE DEF l, m
  <2>3. /\ Len(l) \in Nat /\ DOMAIN l = 1..Len(l) /\ DOMAIN Append(l, m) = 1..(Len(l) + 1)
        /\ \A k \in 1..Len(l) : Append(l, m)[k] = l[k]
    BY <2>1, LenProperties, AppendProperties
  <2>4. 1..Len(l) \subseteq 1..(Len(l) + 1)
    BY <2>3
  <2> QED
    BY <2>2, <2>3, <2>4 DEF l
<1>5. /\ q2.env = q.env /\ q2.loops = q.loops /\ q2.errors = q.errors /\ DOMAIN q2.blocks = DOMAIN q.blocks
      /\ \A b \in DOMAIN q.blocks :
           /\ q2.blocks[b].parent = q.blocks[b].parent /\ q2.blocks[b].kind = q.blocks[b].kind
           /\ q2.blocks[b].params = q.blocks[b].params
  BY DEF OccursIn
<1>6. Later(q, q2)
  BY <1>3, <1>4, <1>5 DEF Later
<1> QED
  BY <1>2, <1>5, <1>6 DEF Steps

\* An occurrence at the top level is a step.
LEMMA OccursTopSteps ==
  ASSUME NEW q, Core(q), NEW q2, NEW x, NEW binds, NEW fresh, OccursTop(q, q2, x, binds, fresh)
  PROVE  Steps(q, q2)
<1>1. Core(q2)
  BY OccursTopKeeps
<1>2. q.ids \in Seq(IdType)
  BY DEF Core, WellFormed, Resolvers
<1>3. PICK id \in IdType : q2.ids = Append(q.ids, id)
  BY DEF OccursTop
<1>4. DOMAIN q.ids \subseteq DOMAIN q2.ids /\ \A i \in DOMAIN q.ids : q2.ids[i] = q.ids[i]
  <2>1. /\ Len(q.ids) \in Nat /\ DOMAIN q.ids = 1..Len(q.ids) /\ DOMAIN q2.ids = 1..(Len(q.ids) + 1)
        /\ \A i \in 1..Len(q.ids) : q2.ids[i] = q.ids[i]
    BY <1>2, <1>3, LenProperties, AppendProperties
  <2>2. 1..Len(q.ids) \subseteq 1..(Len(q.ids) + 1)
    BY <2>1
  <2> QED
    BY <2>1, <2>2
<1>5. q2.env = q.env /\ q2.loops = q.loops /\ q.errors \subseteq q2.errors /\ q2.blocks = q.blocks
  BY DEF OccursTop
<1>6. Later(q, q2)
  BY <1>4, <1>5 DEF Later
<1> QED
  BY <1>1, <1>5, <1>6 DEF Steps

\* use.
LEMMA UseSteps ==
  ASSUME NEW q, Core(q), NEW x \in Name
  PROVE  Steps(q, Use(q, x))
<1>1. CASE q.env = Module
  BY <1>1, UseTopIs, OccursTopSteps
<1>2. CASE q.env # Module
  <2>1. OccursIn(q, UseAs(q, x, FALSE), x, FALSE, FALSE)
    BY <1>2, UseInIs
  <2> QED
    BY <2>1, OccursInSteps DEF Use
<1> QED
  BY <1>1, <1>2

\* bind.
LEMMA BindSteps ==
  ASSUME NEW q, Core(q), NEW x \in Name, NEW again \in BOOLEAN
  PROVE  Steps(q, Bind(q, x, again))
<1>1. CASE q.env = Module
  BY <1>1, BindTopIs, OccursTopSteps DEF Bind
<1>2. CASE q.env # Module /\ IsBound(q, x)
  <2>1. OccursIn(q, UseAs(q, x, TRUE), x, TRUE, FALSE)
    BY <1>2, UseInIs DEF IsBound
  <2> QED
    BY <1>2, <2>1, OccursInSteps DEF Bind
<1>3. CASE q.env # Module /\ ~IsBound(q, x)
  <2>1. OccursIn(q, UseAs(AddLocal(q, x), x, TRUE), x, TRUE, TRUE)
    BY <1>3, BindInIs
  <2> QED
    BY <1>3, <2>1, OccursInSteps DEF Bind
<1> QED
  BY <1>1, <1>2, <1>3

(***************************************************************************)
(* Entering and leaving a block.                                           *)
(***************************************************************************)
Pushes(q, q2, kind, ps) ==
  LET n == Len(q.blocks) + 1
  IN  /\ q2 \in Resolvers /\ q2.env = n /\ DOMAIN q2.blocks = DOMAIN q.blocks \cup {n} /\ n \notin DOMAIN q.blocks
      /\ q2.ids = q.ids /\ q2.globals = q.globals /\ q2.moduleGlobals = q.moduleGlobals
      /\ q2.loops = q.loops /\ q2.errors = q.errors
      /\ \A b \in DOMAIN q.blocks : q2.blocks[b] = q.blocks[b]
      /\ q2.blocks[n] = NewBlock(q.env, kind, ps)

\* pushBlock.
LEMMA PushIs ==
  ASSUME NEW q, WellFormed(q), NEW kind \in {"function", "comp"}, NEW ps \in Seq(Param)
  PROVE  Pushes(q, PushBlock(q, kind, ps), kind, ps)
<1> DEFINE B  == NewBlock(q.env, kind, ps)
           n  == Len(q.blocks) + 1
           q2 == [q EXCEPT !.blocks = Append(@, B), !.env = n]
<1>1. q \in Resolvers /\ q.blocks \in Seq(BlockType) /\ q.env \in Nat
  BY DEF WellFormed, Resolvers
<1>2. B \in BlockType
  <2>1. [x \in Name |-> NoBinding] \in [Name -> Bindings]
    BY DEF NoBinding, Bindings, Scopes
  <2>2. <<>> \in Seq(Nat) /\ <<>> \in Seq(FreeVars)
    OBVIOUS
  <2> QED
    BY <1>1, <2>1, <2>2 DEF NewBlock, BlockType
<1> HIDE DEF B
<1>3. /\ Append(q.blocks, B) \in Seq(BlockType) /\ Len(Append(q.blocks, B)) = n
      /\ Append(q.blocks, B)[n] = B /\ \A b \in 1..Len(q.blocks) : Append(q.blocks, B)[b] = q.blocks[b]
      /\ Len(q.blocks) \in Nat /\ DOMAIN q.blocks = 1..Len(q.blocks) /\ DOMAIN Append(q.blocks, B) = 1..n
  BY <1>1, <1>2, AppendProperties, LenProperties
<1>4. PushBlock(q, kind, ps) = q2
  BY DEF PushBlock, B
<1>5. /\ q2 \in Resolvers /\ q2.env = n /\ q2.blocks = Append(q.blocks, B)
      /\ q2.ids = q.ids /\ q2.globals = q.globals /\ q2.moduleGlobals = q.moduleGlobals
      /\ q2.loops = q.loops /\ q2.errors = q.errors
  <2>1. n \in Nat
    BY <1>3
  <2> HIDE DEF n
  <2> QED
    BY <1>1, <1>3, <2>1 DEF Resolvers
<1>6. 1..n = 1..Len(q.blocks) \cup {n} /\ n \notin 1..Len(q.blocks)
  BY <1>3
<1> HIDE DEF q2, n
<1> QED
  BY <1>3, <1>4, <1>5, <1>6 DEF Pushes, B, n

\* The new block is empty; the others wait or are settled as before.
LEMMA PushKeeps ==
  ASSUME NEW q, Core(q), NEW kind \in {"function", "comp"}, NEW ps \in Seq(Param), NEW q2, Pushes(q, q2, kind, ps)
  PROVE  Core(q2) /\ Later(q, q2)
<1> DEFINE n == Len(q.blocks) + 1
<1>1. WellFormed(q) /\ LocalsBound(q) /\ GlobalsBound(q) /\ TopLevel(q) /\ UsesKept(q)
  BY DEF Core
<1>2. /\ q2 \in Resolvers /\ q2.env = n /\ DOMAIN q2.blocks = DOMAIN q.blocks \cup {n} /\ n \notin DOMAIN q.blocks
      /\ q2.ids = q.ids /\ q2.globals = q.globals /\ q2.moduleGlobals = q.moduleGlobals
      /\ q2.loops = q.loops /\ q2.errors = q.errors
      /\ \A b \in DOMAIN q.blocks : q2.blocks[b] = q.blocks[b]
      /\ q2.blocks[n].parent = q.env /\ q2.blocks[n].kind = kind
      /\ q2.blocks[n].uses = <<>> /\ q2.blocks[n].freevars = <<>>
      /\ \A x \in Name : q2.blocks[n].bindings[x] = NoBinding
  BY DEF Pushes, NewBlock
<1>3. /\ Tree(q.blocks) /\ q.env \in DOMAIN q.blocks /\ \A i \in DOMAIN q.ids : q.ids[i].env \in DOMAIN q.blocks
      /\ DOMAIN q.blocks = 1..Len(q.blocks) /\ Len(q.blocks) \in Nat /\ Module \in DOMAIN q.blocks
  BY <1>1, TreeFacts DEF WellFormed
<1>4. q2.blocks \in Seq(BlockType)
  BY <1>2 DEF Resolvers
<1>5. n - 1 = Len(q.blocks) /\ n \in Nat
  BY <1>3
<1> HIDE DEF n
<1>6. Tree(q2.blocks)
  <2>1. q.env \in 1..(n - 1) /\ n # Module
    BY <1>2, <1>3, <1>5
  <2>2. \A b \in DOMAIN q2.blocks \ {Module} :
          q2.blocks[b].kind \in {"function", "comp"} /\ q2.blocks[b].parent \in 1..(b - 1)
    BY <1>2, <1>3, <2>1 DEF Tree
  <2> QED
    BY <1>2, <1>3, <1>4, <2>2 DEF Tree
<1>7. Grows(q.blocks, q2.blocks)
  BY <1>2, <1>3, <1>6 DEF Grows
<1>8. WellFormed(q2)
  BY <1>2, <1>3, <1>6 DEF WellFormed
<1>9. \A b, x : Declares(q2, b, x) <=> Declares(q, b, x)
  BY <1>2 DEF Declares
<1>10. \A x : ~Declares(q, n, x)
  BY <1>2, <1>3 DEF Declares
<1>11. \A b \in DOMAIN q.blocks : /\ Container(q2.blocks, b) = Container(q.blocks, b)
                                  /\ Container(q.blocks, b) \in DOMAIN q.blocks
                                  /\ Ancestors(q2.blocks, b) = Ancestors(q.blocks, b)
  BY <1>3, <1>7, GrowsKeeps, ContainerIs
<1>12. LocalsBound(q2)
  <2> SUFFICES ASSUME NEW b \in DOMAIN q2.blocks, NEW x \in Name
               PROVE  /\ b = Module => q2.blocks[b].bindings[x] = NoBinding
                      /\ BoundAt(q2, b, x)
                      /\ b # Module /\ Declares(q2, b, x) => q2.blocks[b].bindings[x] # NoBinding
    BY DEF LocalsBound
  <2>1. CASE b = n
    <3>1. BoundAt(q2, b, x)
      BY <1>2, <2>1 DEF BoundAt
    <3> QED
      BY <1>2, <1>9, <1>10, <2>1, <3>1
  <2>2. CASE b \in DOMAIN q.blocks
    <3>1. /\ b = Module => q.blocks[b].bindings[x] = NoBinding
          /\ BoundAt(q, b, x)
          /\ b # Module /\ Declares(q, b, x) => q.blocks[b].bindings[x] # NoBinding
      BY <1>1, <2>2 DEF LocalsBound
    <3>2. BoundAt(q2, b, x)
      BY <1>2, <1>11, <2>2, <3>1, BoundAtSame
    <3> QED
      BY <1>2, <1>9, <2>2, <3>1, <3>2
  <2> QED
    BY <1>2, <2>1, <2>2
<1>13. GlobalsBound(q2)
  BY <1>1, <1>2, <1>9 DEF GlobalsBound
<1>14. TopLevel(q2)
  BY <1>1, <1>2 DEF TopLevel
<1>15. UsesKept(q2)
  <2>1. ASSUME NEW c PROVE IdsOf(q2, c) = IdsOf(q, c)
    <3>1. \A i \in DOMAIN q.ids : Container(q2.blocks, q.ids[i].env) = Container(q.blocks, q.ids[i].env)
      BY <1>3, <1>11
    <3>2. IdsOf(q2, c) = {i \in DOMAIN q.ids : q.ids[i].env # Module /\ Container(q2.blocks, q.ids[i].env) = c}
      BY <1>2 DEF IdsOf
    <3> QED
      BY <3>1, <3>2 DEF IdsOf
  <2>2. IdsOf(q, n) = {}
    BY <1>2, <1>3, <1>11 DEF IdsOf
  <2>3. Ancestors(q2.blocks, n) = {n} \cup Ancestors(q.blocks, q.env)
    <3>1. n \in DOMAIN q2.blocks /\ n # Module
      BY <1>2, <1>3
    <3>2. Ancestors(q2.blocks, n) = {n} \cup Ancestors(q2.blocks, q.env)
      BY <1>2, <1>6, <3>1, AncestorsIs
    <3> QED
      BY <1>3, <1>11, <3>2
  <2> SUFFICES ASSUME NEW c \in DOMAIN q2.blocks
               PROVE  /\ ToSet(q2.blocks[c].uses) \subseteq IdsOf(q2, c)
                      /\ c \in Ancestors(q2.blocks, q2.env) => Waiting(q2, c)
                      /\ c \notin Ancestors(q2.blocks, q2.env) => Settled(q2, c)
                      /\ q2.blocks[c].freevars = <<>>
    BY DEF UsesKept
  <2>4. CASE c = n
    <3>1. ToSet(q2.blocks[c].uses) = {}
      BY <1>2, <2>4 DEF ToSet
    <3>2. Waiting(q2, c) /\ Settled(q2, c)
      BY <2>1, <2>2, <2>4 DEF Waiting, Settled
    <3> QED
      BY <1>2, <2>4, <3>1, <3>2
  <2>5. CASE c \in DOMAIN q.blocks
    <3>1. /\ ToSet(q.blocks[c].uses) \subseteq IdsOf(q, c)
          /\ c \in Ancestors(q.blocks, q.env) => Waiting(q, c)
          /\ c \notin Ancestors(q.blocks, q.env) => Settled(q, c)
          /\ q.blocks[c].freevars = <<>>
      BY <1>1, <2>5 DEF UsesKept
    <3>2. Waiting(q, c) => Waiting(q2, c)
      BY <1>2, <2>1, <2>5 DEF Waiting
    <3>3. Settled(q, c) => Settled(q2, c)
      <4>1. ASSUME NEW i \in IdsOf(q, c)
            PROVE  LookupLocal(q2.blocks, q.ids[i].name, q.ids[i].env) = LookupLocal(q.blocks, q.ids[i].name, q.ids[i].env)
        <5>1. i \in DOMAIN q.ids /\ q.ids[i].env \in DOMAIN q.blocks
          BY <1>3 DEF IdsOf
        <5>2. q.ids[i].name \in Name
          <6>1. q.ids \in Seq(IdType)
            BY <1>1 DEF WellFormed, Resolvers
          <6>2. q.ids[i] \in IdType
            BY <5>1, <6>1, ElementOfSeq, LenProperties
          <6> QED
            BY <6>2 DEF IdType
        <5>3. \A d \in DOMAIN q.blocks : q2.blocks[d].bindings[q.ids[i].name] = q.blocks[d].bindings[q.ids[i].name]
          BY <1>2
        <5> QED
          BY <1>7, <5>1, <5>2, <5>3, LookupLocalSame
      <4> QED
        BY <1>2, <2>1, <2>5, <4>1 DEF Settled
    <3>4. c \in Ancestors(q2.blocks, q2.env) <=> c \in Ancestors(q.blocks, q.env)
      BY <1>2, <2>3, <2>5
    <3> QED
      BY <1>2, <2>1, <2>5, <3>1, <3>2, <3>3, <3>4
  <2> QED
    BY <1>2, <2>4, <2>5
<1>16. Later(q, q2)
  BY <1>2 DEF Later
<1> QED
  BY <1>8, <1>12, <1>13, <1>14, <1>15, <1>16 DEF Core

\* A binding that lookupLocal finds during the walk is of a local.
LEMMA LookupLocalScope ==
  ASSUME NEW q, Tree(q.blocks), LocalsBound(q), NEW x \in Name, NEW b \in DOMAIN q.blocks
  PROVE  LookupLocal(q.blocks, x, b) # NoBinding <=> LookupLocal(q.blocks, x, b).scope = "local"
<1> DEFINE bs == q.blocks
           n  == Len(bs)
           T  == {c \in 1..n : LookupLocal(bs, x, c) # NoBinding <=> LookupLocal(bs, x, c).scope = "local"}
<1>1. /\ n \in Nat /\ DOMAIN bs = 1..n
      /\ \A c \in 1..n : bs[c].kind = "comp" => bs[c].parent \in 1..(c - 1)
  BY TreeFacts
<1>2. NoBinding.scope # "local"
  BY DEF NoBinding
<1>3. ASSUME NEW c \in 1..n, \A d \in 1..(c - 1) : d \in T PROVE c \in T
  <2>1. LookupLocal(bs, x, c) =
          IF bs[c].bindings[x] # NoBinding THEN bs[c].bindings[x]
          ELSE IF bs[c].kind # "comp" THEN NoBinding ELSE LookupLocal(bs, x, bs[c].parent)
    BY <1>1, LookupLocalIs
  <2>2. bs[c].bindings[x] # NoBinding => bs[c].bindings[x].scope = "local"
    <3>1. BoundAt(q, c, x)
      BY <1>1 DEF LocalsBound
    <3> QED
      BY <3>1 DEF BoundAt
  <2>3. bs[c].kind = "comp" => bs[c].parent \in T
    BY <1>1, <1>3
  <2> QED
    BY <1>2, <2>1, <2>2, <2>3
<1>4. 1..n \subseteq T
  <2> HIDE DEF T
  <2> QED
    BY <1>1, <1>3, StrongInduction
<1> QED
  BY <1>1, <1>4

\* q2 is q with the uses of container c that lookupLocal finds resolved.
Resolves(q, q2, c) ==
  LET V(i) == LookupLocal(q.blocks, q.ids[i].name, q.ids[i].env)
  IN  /\ q2 \in Resolvers /\ q2.env = q.env /\ q2.globals = q.globals /\ q2.moduleGlobals = q.moduleGlobals
      /\ q2.loops = q.loops /\ q2.errors = q.errors
      /\ DOMAIN q2.ids = DOMAIN q.ids /\ DOMAIN q2.blocks = DOMAIN q.blocks
      /\ \A i \in DOMAIN q.ids :
           /\ q2.ids[i].name = q.ids[i].name /\ q2.ids[i].env = q.ids[i].env /\ q2.ids[i].binds = q.ids[i].binds
           /\ IF i \in ToSet(q.blocks[c].uses) /\ V(i).scope = "local"
              THEN q2.ids[i].scope = "local" /\ q2.ids[i].index = V(i).index
              ELSE q2.ids[i] = q.ids[i]
      /\ \A b \in DOMAIN q.blocks :
           /\ q2.blocks[b].parent = q.blocks[b].parent /\ q2.blocks[b].kind = q.blocks[b].kind
           /\ q2.blocks[b].params = q.blocks[b].params /\ q2.blocks[b].freevars = q.blocks[b].freevars
           /\ q2.blocks[b].locals = q.blocks[b].locals /\ q2.blocks[b].bindings = q.blocks[b].bindings
           /\ b # c => q2.blocks[b].uses = q.blocks[b].uses
      /\ ToSet(q2.blocks[c].uses) = {i \in ToSet(q.blocks[c].uses) : V(i).scope # "local"}

\* The members of a sequence, when some are kept and some are not.
LEMMA KeptMembers ==
  ASSUME NEW s \in Seq(Nat), NEW P, NEW kept,
         kept = [k \in 0..Len(s) |->
                   IF k = 0 THEN <<>> ELSE IF s[k] \in P THEN kept[k - 1] ELSE Append(kept[k - 1], s[k])]
  PROVE  kept[Len(s)] \in Seq(Nat) /\ ToSet(kept[Len(s)]) = ToSet(s) \ P
<1> DEFINE n == Len(s)
           T == {k \in 0..n : kept[k] \in Seq(Nat) /\ ToSet(kept[k]) = {s[j] : j \in 1..k} \ P}
<1>1. n \in Nat /\ DOMAIN s = 1..n /\ \A k \in 1..n : s[k] \in Nat
  BY LenProperties, ElementOfSeq
<1>2. kept[0] = <<>> /\ \A k \in 1..n : kept[k] = IF s[k] \in P THEN kept[k - 1] ELSE Append(kept[k - 1], s[k])
  <2>1. \A k \in 0..n : kept[k] = IF k = 0 THEN <<>> ELSE IF s[k] \in P THEN kept[k - 1] ELSE Append(kept[k - 1], s[k])
    OBVIOUS
  <2>2. 0 \in 0..n /\ \A k \in 1..n : k \in 0..n /\ k # 0
    BY <1>1
  <2> HIDE DEF n, T
  <2> QED
    BY ONLY <2>1, <2>2
<1> HIDE DEF n
<1>3. 0 \in T
  <2>1. ToSet(<<>>) = {} /\ <<>> \in Seq(Nat)
    BY DEF ToSet
  <2> QED
    BY <1>1, <1>2, <2>1
<1>4. ASSUME NEW k \in 1..n, k - 1 \in T PROVE k \in T
  <2> DEFINE S(i) == {s[j] : j \in 1..i}
             u    == kept[k - 1]
             e    == s[k]
  <2>1. u \in Seq(Nat) /\ ToSet(u) = S(k - 1) \ P
    BY ONLY <1>4 DEF T, S, u
  <2>2. 1..k = 1..(k - 1) \cup {k} /\ k \in 0..n
    BY <1>1
  <2>3. S(k) = S(k - 1) \cup {e}
    BY ONLY <2>2
  <2>4. kept[k] = (IF e \in P THEN u ELSE Append(u, e)) /\ e \in Nat
    BY ONLY <1>1, <1>2
  <2> HIDE DEF S, u, e
  <2>5. ToSet(Append(u, e)) = ToSet(u) \cup {e} /\ Append(u, e) \in Seq(Nat)
    <3>1. u \in Seq(Nat) /\ e \in Nat
      BY ONLY <2>1, <2>4
    <3>2. ToSet(Append(u, e)) = ToSet(u) \cup {e}
      BY ONLY <3>1, AppendMembers
    <3>3. Append(u, e) \in Seq(Nat)
      BY ONLY <3>1, AppendProperties
    <3> QED
      BY ONLY <3>2, <3>3
  <2>6. kept[k] \in Seq(Nat) /\ ToSet(kept[k]) = S(k) \ P
    BY ONLY <2>1, <2>3, <2>4, <2>5
  <2> QED
    BY ONLY <2>2, <2>6 DEF T, S
<1>5. 0..n \subseteq T
  <2> HIDE DEF T
  <2> QED
    BY <1>1, <1>3, <1>4, BoundedInduction
<1>6. kept[n] \in Seq(Nat) /\ ToSet(kept[n]) = {s[j] : j \in 1..n} \ P
  <2>1. n \in 0..n
    BY <1>1
  <2>2. n \in T
    BY ONLY <2>1, <1>5
  <2> QED
    BY ONLY <2>2
<1> QED
  BY <1>1, <1>6 DEF n, ToSet

\* resolveLocalUses.
LEMMA ResolveIs ==
  ASSUME NEW q, Core(q), NEW c \in DOMAIN q.blocks
  PROVE  Resolves(q, ResolveLocalUses(q, c), c)
<1> DEFINE uses == q.blocks[c].uses
           V(i) == LookupLocal(q.blocks, q.ids[i].name, q.ids[i].env)
           P    == {i \in Nat : V(i).scope = "local"}
           n    == Len(uses)
           Step(u) == [k \in 0..n |-> IF k = 0 THEN <<>> ELSE IF V(uses[k]).scope = "local" THEN u[k - 1]
                                      ELSE Append(u[k - 1], uses[k])]
           F    == [p \in (1..n) \X Seq(Nat) |->
                      IF V(uses[p[1]]).scope = "local" THEN p[2] ELSE Append(p[2], uses[p[1]])]
           New(i) == IF i \in ToSet(uses) /\ V(i).scope = "local"
                     THEN [q.ids[i] EXCEPT !.scope = "local", !.index = V(i).index] ELSE q.ids[i]
           I    == [i \in DOMAIN q.ids |-> New(i)]
           w    == (CHOOSE u : u = Step(u))[n]
           q2   == [q EXCEPT !.ids = I, !.blocks[c].uses = w]
<1>1. /\ q \in Resolvers /\ Tree(q.blocks) /\ \A i \in DOMAIN q.ids : q.ids[i].env \in DOMAIN q.blocks
      /\ q.ids \in Seq(IdType) /\ q.blocks \in Seq(BlockType)
  BY DEF Core, WellFormed, Resolvers
<1>2. \A b \in DOMAIN q.blocks : q.blocks[b] \in BlockType
  BY <1>1, TreeFacts
<1>3. uses \in Seq(Nat) /\ n \in Nat /\ \A k \in 1..n : uses[k] \in Nat
  <2>1. uses \in Seq(Nat)
    BY <1>2, BlockFields
  <2> HIDE DEF uses
  <2> QED
    BY <2>1, LenProperties, ElementOfSeq
<1>4. ResolveLocalUses(q, c) = q2
  BY DEF ResolveLocalUses
<1> HIDE DEF V, uses, n
<1>5. \A k \in 1..n, s \in Seq(Nat) : Append(s, uses[k]) \in Seq(Nat)
  BY <1>3, AppendProperties
<1>6. F \in [(1..n) \X Seq(Nat) -> Seq(Nat)]
  BY <1>5
<1>7. PICK f \in [0..n -> Seq(Nat)] : f[0] = <<>> /\ \A i \in 1..n : f[i] = F[<<i, f[i - 1]>>]
  <2> DEFINE S == Seq(Nat)
             e == <<>>
  <2>1. n \in Nat /\ e \in S /\ F \in [(1..n) \X S -> S]
    BY <1>3, <1>6
  <2> HIDE DEF F, S, e
  <2>2. \E f : Counts(f, n, S, e, F)
    BY ONLY <2>1, Counting
  <2> QED
    BY <2>2 DEF S, e, Counts
<1>8. f = Step(f)
  <2>1. ASSUME NEW k \in 1..n
        PROVE f[k] = IF V(uses[k]).scope = "local" THEN f[k - 1] ELSE Append(f[k - 1], uses[k])
    <3>1. f[k - 1] \in Seq(Nat)
      BY <1>3, <1>7
    <3>2. F[<<k, f[k - 1]>>] = IF V(uses[k]).scope = "local" THEN f[k - 1] ELSE Append(f[k - 1], uses[k])
      BY <3>1
    <3> HIDE DEF F
    <3> QED
      BY <1>7, <3>2
  <2>2. \A k \in 0..n : k = 0 \/ k \in 1..n
    BY <1>3
  <2>3. f = [k \in 0..n |-> f[k]]
    BY <1>7
  <2> HIDE DEF F
  <2> QED
    BY <1>7, <2>1, <2>2, <2>3
<1>9. PICK u : u = Step(u) /\ w = u[n]
  <2> HIDE DEF Step
  <2>1. (CHOOSE u : u = Step(u)) = Step(CHOOSE u : u = Step(u))
    BY <1>8
  <2> QED
    BY <2>1
<1>10. u = [k \in 0..n |-> IF k = 0 THEN <<>> ELSE IF uses[k] \in P THEN u[k - 1] ELSE Append(u[k - 1], uses[k])]
  <2>1. \A k \in 0..n : Step(u)[k] = IF k = 0 THEN <<>> ELSE IF uses[k] \in P THEN u[k - 1]
                                     ELSE Append(u[k - 1], uses[k])
    <3>1. \A k \in 0..n : k = 0 \/ k \in 1..n
      BY <1>3
    <3> QED
      BY <1>3, <3>1
  <2>2. Step(u) = [k \in 0..n |-> Step(u)[k]]
    OBVIOUS
  <2> HIDE DEF Step, P
  <2> QED
    BY <1>9, <2>1, <2>2
<1> HIDE DEF w, Step, P, F
<1>11. w \in Seq(Nat) /\ ToSet(w) = ToSet(uses) \ P
  BY <1>3, <1>9, <1>10, KeptMembers DEF n
<1>12. \A i \in ToSet(uses) : i \in Nat
  BY <1>3, LenProperties DEF ToSet, n
<1>13. /\ I \in Seq(IdType) /\ DOMAIN I = DOMAIN q.ids
       /\ \A i \in DOMAIN q.ids :
            /\ I[i].name = q.ids[i].name /\ I[i].env = q.ids[i].env /\ I[i].binds = q.ids[i].binds
            /\ IF i \in ToSet(uses) /\ V(i).scope = "local" THEN I[i].scope = "local" /\ I[i].index = V(i).index
               ELSE I[i] = q.ids[i]
  <2>1. /\ DOMAIN q.ids = 1..Len(q.ids) /\ Len(q.ids) \in Nat /\ \A i \in DOMAIN q.ids : q.ids[i] \in IdType
    BY <1>1, LenProperties, ElementOfSeq
  <2>2. ASSUME NEW i \in DOMAIN q.ids
        PROVE  /\ New(i) \in IdType
               /\ New(i).name = q.ids[i].name /\ New(i).env = q.ids[i].env /\ New(i).binds = q.ids[i].binds
               /\ IF i \in ToSet(uses) /\ V(i).scope = "local" THEN New(i).scope = "local" /\ New(i).index = V(i).index
                  ELSE New(i) = q.ids[i]
    <3>1. q.ids[i] \in IdType /\ q.ids[i].name \in Name /\ q.ids[i].env \in DOMAIN q.blocks
      BY <1>1, <2>1 DEF IdType
    <3>2. V(i) \in Bindings
      BY <1>1, <3>1, LookupLocalIs DEF V
    <3> DEFINE t == q.ids[i]
               v == V(i)
    <3>3. t \in IdType /\ v.index \in Nat
      BY <3>1, <3>2 DEF Bindings
    <3>4. LET d == [t EXCEPT !.scope = "local", !.index = v.index] IN
            /\ d \in IdType /\ d.name = t.name /\ d.env = t.env /\ d.binds = t.binds
            /\ d.scope = "local" /\ d.index = v.index
      <4> HIDE DEF t, v
      <4> QED
        BY <3>3 DEF IdType, Scopes
    <3> QED
      BY <3>3, <3>4
  <2>3. \A i \in DOMAIN q.ids : I[i] = New(i)
    OBVIOUS
  <2> HIDE DEF New
  <2>4. I \in [1..Len(q.ids) -> IdType]
    BY <2>1, <2>2
  <2> QED
    BY <2>1, <2>2, <2>3, <2>4
<1>14. [q.blocks[c] EXCEPT !.uses = w] \in BlockType
  BY <1>2, <1>11, BlockFields
<1> HIDE DEF I
<1>15. /\ q2 \in Resolvers /\ q2.env = q.env /\ q2.globals = q.globals /\ q2.moduleGlobals = q.moduleGlobals
       /\ q2.loops = q.loops /\ q2.errors = q.errors /\ q2.ids = I
       /\ q2.blocks = [q.blocks EXCEPT ![c] = [q.blocks[c] EXCEPT !.uses = w]]
  <2>1. [q.blocks EXCEPT ![c] = [q.blocks[c] EXCEPT !.uses = w]] \in Seq(BlockType)
    BY <1>1, <1>14
  <2>2. q2 = [q EXCEPT !.ids = I, !.blocks = [q.blocks EXCEPT ![c] = [q.blocks[c] EXCEPT !.uses = w]]]
    BY <1>1 DEF Resolvers
  <2> HIDE DEF q2
  <2> QED
    BY <1>1, <1>13, <2>1, <2>2 DEF Resolvers
<1> HIDE DEF q2
<1>16. ASSUME NEW b \in DOMAIN q.blocks
       PROVE  /\ q2.blocks[b].parent = q.blocks[b].parent /\ q2.blocks[b].kind = q.blocks[b].kind
              /\ q2.blocks[b].params = q.blocks[b].params /\ q2.blocks[b].freevars = q.blocks[b].freevars
              /\ q2.blocks[b].locals = q.blocks[b].locals /\ q2.blocks[b].bindings = q.blocks[b].bindings
              /\ b # c => q2.blocks[b].uses = q.blocks[b].uses
              /\ b = c => q2.blocks[b].uses = w
  <2>1. CASE b # c
    BY <1>15, <2>1
  <2>2. CASE b = c
    <3>1. q2.blocks[b] = [q.blocks[b] EXCEPT !.uses = w] /\ q.blocks[b] \in BlockType
      BY <1>2, <1>15, <2>2
    <3> QED
      BY <2>2, <3>1 DEF BlockType
  <2> QED
    BY <2>1, <2>2
<1>17. DOMAIN q2.blocks = DOMAIN q.blocks
  BY <1>15
<1>18. ToSet(q2.blocks[c].uses) = {i \in ToSet(uses) : V(i).scope # "local"}
  <2>1. ToSet(q2.blocks[c].uses) = ToSet(uses) \ P
    BY <1>11, <1>16
  <2> QED
    BY <1>12, <2>1 DEF P
<1> QED
  BY <1>4, <1>13, <1>15, <1>16, <1>17, <1>18 DEF Resolves, V, uses

\* Its container is settled, the others are as they were.
LEMMA ResolvesKeeps ==
  ASSUME NEW q, Core(q), NEW c \in DOMAIN q.blocks, Waiting(q, c), NEW q2, Resolves(q, q2, c)
  PROVE  /\ WellFormed(q2) /\ LocalsBound(q2) /\ GlobalsBound(q2) /\ TopLevel(q2)
         /\ Later(q, q2) /\ Grows(q.blocks, q2.blocks) /\ DOMAIN q2.blocks = DOMAIN q.blocks
         /\ Settled(q2, c)
         /\ \A d \in DOMAIN q.blocks :
              /\ ToSet(q2.blocks[d].uses) \subseteq IdsOf(q2, d) /\ q2.blocks[d].freevars = <<>>
              /\ IdsOf(q2, d) = IdsOf(q, d)
              /\ d # c => (Settled(q, d) => Settled(q2, d)) /\ (Waiting(q, d) => Waiting(q2, d))
<1> DEFINE V(i) == LookupLocal(q.blocks, q.ids[i].name, q.ids[i].env)
<1>1. WellFormed(q) /\ LocalsBound(q) /\ GlobalsBound(q) /\ TopLevel(q) /\ UsesKept(q)
  BY DEF Core
<1>2. /\ q2 \in Resolvers /\ q2.env = q.env /\ q2.globals = q.globals /\ q2.moduleGlobals = q.moduleGlobals
      /\ q2.loops = q.loops /\ q2.errors = q.errors
      /\ DOMAIN q2.ids = DOMAIN q.ids /\ DOMAIN q2.blocks = DOMAIN q.blocks
      /\ ToSet(q2.blocks[c].uses) = {i \in ToSet(q.blocks[c].uses) : V(i).scope # "local"}
  BY DEF Resolves
<1>3. \A i \in DOMAIN q.ids :
           /\ q2.ids[i].name = q.ids[i].name /\ q2.ids[i].env = q.ids[i].env /\ q2.ids[i].binds = q.ids[i].binds
           /\ IF i \in ToSet(q.blocks[c].uses) /\ V(i).scope = "local"
              THEN q2.ids[i].scope = "local" /\ q2.ids[i].index = V(i).index
              ELSE q2.ids[i] = q.ids[i]
  BY DEF Resolves
<1>4. \A b \in DOMAIN q.blocks :
           /\ q2.blocks[b].parent = q.blocks[b].parent /\ q2.blocks[b].kind = q.blocks[b].kind
           /\ q2.blocks[b].params = q.blocks[b].params /\ q2.blocks[b].freevars = q.blocks[b].freevars
           /\ q2.blocks[b].locals = q.blocks[b].locals /\ q2.blocks[b].bindings = q.blocks[b].bindings
           /\ b # c => q2.blocks[b].uses = q.blocks[b].uses
  BY DEF Resolves
<1> HIDE DEF V
<1>5. Tree(q.blocks) /\ q.env \in DOMAIN q.blocks /\ \A i \in DOMAIN q.ids : q.ids[i].env \in DOMAIN q.blocks
  BY <1>1 DEF WellFormed
<1>6. Tree(q2.blocks) /\ Grows(q.blocks, q2.blocks)
  <2>1. q2.blocks \in Seq(BlockType)
    BY <1>2 DEF Resolvers
  <2> QED
    BY <1>2, <1>4, <1>5, <2>1, TreeSame
<1>7. WellFormed(q2)
  BY <1>2, <1>3, <1>5, <1>6 DEF WellFormed
<1>8. \A b, x : Declares(q2, b, x) <=> Declares(q, b, x)
  BY <1>2, <1>3 DEF Declares
<1>9. \A b \in DOMAIN q.blocks : Container(q2.blocks, b) = Container(q.blocks, b) /\ Container(q.blocks, b) \in DOMAIN q.blocks
  BY <1>5, <1>6, GrowsKeeps, ContainerIs
<1>10. LocalsBound(q2)
  <2> SUFFICES ASSUME NEW b \in DOMAIN q.blocks, NEW x \in Name
               PROVE  /\ b = Module => q2.blocks[b].bindings[x] = NoBinding
                      /\ BoundAt(q2, b, x)
                      /\ b # Module /\ Declares(q2, b, x) => q2.blocks[b].bindings[x] # NoBinding
    BY <1>2 DEF LocalsBound
  <2>1. /\ b = Module => q.blocks[b].bindings[x] = NoBinding
        /\ BoundAt(q, b, x)
        /\ b # Module /\ Declares(q, b, x) => q.blocks[b].bindings[x] # NoBinding
    BY <1>1 DEF LocalsBound
  <2>2. BoundAt(q2, b, x)
    <3> DEFINE cb == Container(q.blocks, b)
    <3>1. BoundAt(q, b, x) /\ Container(q2.blocks, b) = cb
      BY <1>9, <2>1
    <3>2. q2.blocks[b].bindings[x] = q.blocks[b].bindings[x] /\ q2.blocks[cb].locals = q.blocks[cb].locals
      BY <1>2, <1>4, <1>9
    <3>3. /\ DOMAIN q.ids \subseteq DOMAIN q2.ids
          /\ \A i \in DOMAIN q.ids :
               q2.ids[i].name = q.ids[i].name /\ q2.ids[i].env = q.ids[i].env /\ q2.ids[i].binds = q.ids[i].binds
      BY <1>2, <1>3
    <3> QED
      BY ONLY <3>1, <3>2, <3>3, BoundAtSame
  <2> QED
    BY <1>4, <1>8, <2>1, <2>2
<1>11. GlobalsBound(q2)
  <2> SUFFICES ASSUME NEW y \in Name
               PROVE  /\ q2.globals[y] # 0 <=> Declares(q2, Module, y)
                      /\ q2.globals[y] # 0 =>
                           /\ q2.globals[y] \in DOMAIN q2.moduleGlobals
                           /\ q2.moduleGlobals[q2.globals[y]] \in DOMAIN q2.ids
                           /\ q2.ids[q2.moduleGlobals[q2.globals[y]]].name = y
    BY DEF GlobalsBound
  <2>1. /\ q.globals[y] # 0 <=> Declares(q, Module, y)
        /\ q.globals[y] # 0 =>
             /\ q.globals[y] \in DOMAIN q.moduleGlobals
             /\ q.moduleGlobals[q.globals[y]] \in DOMAIN q.ids
             /\ q.ids[q.moduleGlobals[q.globals[y]]].name = y
    BY <1>1 DEF GlobalsBound
  <2> QED
    BY <1>2, <1>3, <1>8, <2>1
<1>12. \A d : IdsOf(q2, d) = IdsOf(q, d)
  <2>1. \A i \in DOMAIN q.ids : Container(q2.blocks, q2.ids[i].env) = Container(q.blocks, q.ids[i].env)
                                /\ q2.ids[i].env = q.ids[i].env
    BY <1>3, <1>5, <1>9
  <2>2. \A d, i : i \in IdsOf(q2, d) <=> i \in IdsOf(q, d)
    BY <1>2, <2>1 DEF IdsOf
  <2> QED
    BY <2>2 DEF IdsOf
<1>13. \A d \in DOMAIN q.blocks : ToSet(q.blocks[d].uses) \subseteq IdsOf(q, d) /\ q.blocks[d].freevars = <<>>
  BY <1>1 DEF UsesKept
<1>14. TopLevel(q2)
  <2>1. ASSUME NEW i \in DOMAIN q.ids, q.ids[i].env = Module PROVE q2.ids[i] = q.ids[i]
    <3>1. i \notin IdsOf(q, c)
      BY <2>1 DEF IdsOf
    <3> QED
      BY <1>3, <1>13, <3>1
  <2> SUFFICES ASSUME NEW i \in DOMAIN q.ids, q.ids[i].env = Module
               PROVE  IF \E j \in 1..i : q2.ids[j].binds /\ q2.ids[j].env = Module /\ q2.ids[j].name = q.ids[i].name
                      THEN q.ids[i].scope = "global" /\ q.ids[i].index = q.globals[q.ids[i].name]
                      ELSE q.ids[i].scope = Outside(q.ids[i].name)
    BY <1>2, <1>3, <2>1 DEF TopLevel
  <2>2. \A j \in 1..i : j \in DOMAIN q.ids
    <3>1. DOMAIN q.ids = 1..Len(q.ids) /\ Len(q.ids) \in Nat
      <4>1. q.ids \in Seq(IdType)
        BY <1>1 DEF WellFormed, Resolvers
      <4> QED
        BY <4>1, LenProperties
    <3> QED
      BY <3>1
  <2>3. IF \E j \in 1..i : q.ids[j].binds /\ q.ids[j].env = Module /\ q.ids[j].name = q.ids[i].name
        THEN q.ids[i].scope = "global" /\ q.ids[i].index = q.globals[q.ids[i].name]
        ELSE q.ids[i].scope = Outside(q.ids[i].name)
    BY <1>1 DEF TopLevel
  <2> QED
    BY <1>3, <2>2, <2>3
<1>15. \A i \in DOMAIN q.ids : q.ids[i].name \in Name
  <2>1. q.ids \in Seq(IdType)
    BY <1>1 DEF WellFormed, Resolvers
  <2>2. \A i \in DOMAIN q.ids : q.ids[i] \in IdType
    BY <2>1, ElementOfSeq, LenProperties
  <2> QED
    BY <2>2 DEF IdType
<1>16. ASSUME NEW i \in DOMAIN q.ids
       PROVE  /\ LookupLocal(q2.blocks, q2.ids[i].name, q2.ids[i].env) = V(i)
              /\ V(i) # NoBinding <=> V(i).scope = "local"
  <2>1. q.ids[i].name \in Name /\ q.ids[i].env \in DOMAIN q.blocks
    BY <1>5, <1>15
  <2>2. LookupLocal(q2.blocks, q.ids[i].name, q.ids[i].env) = V(i)
    BY <1>4, <1>6, <2>1, LookupLocalSame DEF V
  <2> QED
    BY <1>1, <1>3, <1>5, <2>1, <2>2, LookupLocalScope DEF V
<1>17. Settled(q2, c)
  <2> SUFFICES ASSUME NEW i \in IdsOf(q, c)
               PROVE  IF V(i) # NoBinding
                      THEN i \notin ToSet(q2.blocks[c].uses) /\ q2.ids[i].scope = "local" /\ q2.ids[i].index = V(i).index
                      ELSE i \in ToSet(q2.blocks[c].uses) /\ q2.ids[i].scope = "unresolved"
    <3>1. \A i \in IdsOf(q, c) : i \in DOMAIN q.ids
      BY DEF IdsOf
    <3> QED
      BY <1>12, <1>16, <3>1 DEF Settled
  <2>1. i \in DOMAIN q.ids /\ i \in ToSet(q.blocks[c].uses) /\ q.ids[i].scope = "unresolved"
    BY DEF IdsOf, Waiting
  <2> QED
    BY <1>2, <1>3, <1>16, <2>1
<1>18. ASSUME NEW d \in DOMAIN q.blocks, d # c
       PROVE  (Settled(q, d) => Settled(q2, d)) /\ (Waiting(q, d) => Waiting(q2, d))
  <2>1. ASSUME NEW i \in IdsOf(q, d) PROVE i \in DOMAIN q.ids /\ q2.ids[i] = q.ids[i]
    <3>1. i \in DOMAIN q.ids /\ i \notin IdsOf(q, c)
      BY <1>18 DEF IdsOf
    <3> QED
      BY <1>3, <1>13, <3>1
  <2>2. q2.blocks[d].uses = q.blocks[d].uses
    BY <1>4, <1>18
  <2>3. Waiting(q, d) => Waiting(q2, d)
    BY <1>12, <2>1, <2>2 DEF Waiting
  <2>4. Settled(q, d) => Settled(q2, d)
    BY <1>12, <1>16, <2>1, <2>2 DEF Settled, V
  <2> QED
    BY <2>3, <2>4
<1>19. Later(q, q2)
  BY <1>2, <1>3, <1>4 DEF Later
<1>20. \A d \in DOMAIN q.blocks : ToSet(q2.blocks[d].uses) \subseteq IdsOf(q2, d) /\ q2.blocks[d].freevars = <<>>
  BY <1>2, <1>4, <1>12, <1>13
<1> QED
  BY <1>2, <1>6, <1>7, <1>10, <1>11, <1>12, <1>14, <1>17, <1>18, <1>19, <1>20

(***************************************************************************)
(* Leaving a block.                                                        *)
(***************************************************************************)

\* The parent becomes the block the walk is in.
LEMMA PopIs ==
  ASSUME NEW q, WellFormed(q), q.env # Module
  PROVE  LET q2 == PopBlock(q)
         IN  /\ WellFormed(q2) /\ q2.env = q.blocks[q.env].parent /\ q2.blocks = q.blocks /\ q2.ids = q.ids
             /\ q2.globals = q.globals /\ q2.moduleGlobals = q.moduleGlobals /\ q2.loops = q.loops /\ q2.errors = q.errors
<1>1. q \in Resolvers /\ Tree(q.blocks) /\ q.env \in DOMAIN q.blocks /\ \A i \in DOMAIN q.ids : q.ids[i].env \in DOMAIN q.blocks
  BY DEF WellFormed
<1>2. q.blocks[q.env].parent \in DOMAIN q.blocks /\ q.blocks[q.env].parent \in Nat
  <2>1. q.blocks[q.env].parent \in DOMAIN q.blocks /\ q.blocks[q.env] \in BlockType
    BY <1>1, TreeFacts
  <2> QED
    BY <2>1, BlockFields
<1>3. /\ PopBlock(q) \in Resolvers
      /\ PopBlock(q).env = q.blocks[q.env].parent /\ PopBlock(q).blocks = q.blocks /\ PopBlock(q).ids = q.ids
      /\ PopBlock(q).globals = q.globals /\ PopBlock(q).moduleGlobals = q.moduleGlobals
      /\ PopBlock(q).loops = q.loops /\ PopBlock(q).errors = q.errors
  BY <1>1, <1>2 DEF PopBlock, Resolvers
<1> QED
  BY <1>1, <1>2, <1>3 DEF WellFormed

\* A comprehension is left: nothing waits in it.
LEMMA LeaveCompKeeps ==
  ASSUME NEW q, Core(q), q.env # Module, q.blocks[q.env].kind = "comp"
  PROVE  Core(PopBlock(q)) /\ Later(q, PopBlock(q))
<1> DEFINE q2 == PopBlock(q)
<1>1. WellFormed(q) /\ LocalsBound(q) /\ GlobalsBound(q) /\ TopLevel(q) /\ UsesKept(q)
  BY DEF Core
<1>2. /\ WellFormed(q2) /\ q2.env = q.blocks[q.env].parent /\ q2.blocks = q.blocks /\ q2.ids = q.ids
      /\ q2.globals = q.globals /\ q2.moduleGlobals = q.moduleGlobals /\ q2.errors = q.errors
  BY <1>1, PopIs
<1> HIDE DEF q2
<1>3. \A b, x : (Declares(q2, b, x) <=> Declares(q, b, x)) /\ (BoundAt(q2, b, x) <=> BoundAt(q, b, x))
  BY <1>2 DEF Declares, BoundAt
<1>4. LocalsBound(q2) /\ GlobalsBound(q2)
  BY <1>1, <1>2, <1>3 DEF LocalsBound, GlobalsBound
<1>5. TopLevel(q2)
  BY <1>1, <1>2 DEF TopLevel
<1>6. \A c : IdsOf(q2, c) = IdsOf(q, c)
  BY <1>2 DEF IdsOf
<1>7. \A c : (Waiting(q2, c) <=> Waiting(q, c)) /\ (Settled(q2, c) <=> Settled(q, c))
  BY <1>2, <1>6 DEF Waiting, Settled
<1>8. Tree(q.blocks) /\ q.env \in DOMAIN q.blocks /\ \A i \in DOMAIN q.ids : q.ids[i].env \in DOMAIN q.blocks
  BY <1>1 DEF WellFormed
<1>9. Ancestors(q.blocks, q.env) = {q.env} \cup Ancestors(q2.blocks, q2.env)
  BY <1>2, <1>8, AncestorsIs
<1>10. IdsOf(q, q.env) = {}
  <2>1. \A i \in DOMAIN q.ids : Container(q.blocks, q.ids[i].env) # q.env
    BY <1>8, ContainerIs
  <2> QED
    BY <2>1 DEF IdsOf
<1>11. Settled(q, q.env)
  BY <1>10 DEF Settled
<1>12. UsesKept(q2)
  <2> SUFFICES ASSUME NEW c \in DOMAIN q.blocks
               PROVE  /\ ToSet(q.blocks[c].uses) \subseteq IdsOf(q2, c)
                      /\ c \in Ancestors(q2.blocks, q2.env) => Waiting(q2, c)
                      /\ c \notin Ancestors(q2.blocks, q2.env) => Settled(q2, c)
                      /\ q.blocks[c].freevars = <<>>
    BY <1>2 DEF UsesKept
  <2>1. /\ ToSet(q.blocks[c].uses) \subseteq IdsOf(q, c)
        /\ c \in Ancestors(q.blocks, q.env) => Waiting(q, c)
        /\ c \notin Ancestors(q.blocks, q.env) => Settled(q, c)
        /\ q.blocks[c].freevars = <<>>
    BY <1>1 DEF UsesKept
  <2> QED
    BY <1>6, <1>7, <1>9, <1>11, <2>1
<1>13. Later(q, q2)
  BY <1>2 DEF Later
<1> QED
  BY <1>2, <1>4, <1>5, <1>12, <1>13 DEF Core, q2

\* A function is left: its locals are resolved.
LEMMA LeaveFunctionKeeps ==
  ASSUME NEW q, Core(q), q.env # Module, q.blocks[q.env].kind = "function"
  PROVE  LET q3 == PopBlock(ResolveLocalUses(q, q.env))
         IN  Core(q3) /\ Later(q, q3) /\ DOMAIN q3.blocks = DOMAIN q.blocks /\ q3.loops = q.loops
             /\ q3.env = q.blocks[q.env].parent /\ q3.errors = q.errors
<1> DEFINE q2 == ResolveLocalUses(q, q.env)
           q3 == PopBlock(q2)
<1>1. WellFormed(q) /\ UsesKept(q) /\ Tree(q.blocks) /\ q.env \in DOMAIN q.blocks
  BY DEF Core, WellFormed
<1>2. Resolves(q, q2, q.env)
  BY <1>1, ResolveIs
<1>3. q.env \in Ancestors(q.blocks, q.env)
  BY <1>1, AncestorsIs
<1>4. Waiting(q, q.env)
  BY <1>1, <1>3 DEF UsesKept
<1> HIDE DEF q2
<1>5. /\ WellFormed(q2) /\ LocalsBound(q2) /\ GlobalsBound(q2) /\ TopLevel(q2)
      /\ Later(q, q2) /\ Grows(q.blocks, q2.blocks) /\ DOMAIN q2.blocks = DOMAIN q.blocks
      /\ Settled(q2, q.env)
      /\ \A d \in DOMAIN q.blocks :
           /\ ToSet(q2.blocks[d].uses) \subseteq IdsOf(q2, d) /\ q2.blocks[d].freevars = <<>>
           /\ d # q.env => (Settled(q, d) => Settled(q2, d)) /\ (Waiting(q, d) => Waiting(q2, d))
  BY <1>1, <1>2, <1>4, ResolvesKeeps
<1>6. q2.env = q.env /\ q2.loops = q.loops /\ q2.errors = q.errors /\ q2.blocks[q.env].parent = q.blocks[q.env].parent
  BY <1>1, <1>2 DEF Resolves
<1>7. /\ WellFormed(q3) /\ q3.env = q2.blocks[q2.env].parent /\ q3.blocks = q2.blocks /\ q3.ids = q2.ids
      /\ q3.globals = q2.globals /\ q3.moduleGlobals = q2.moduleGlobals
      /\ q3.loops = q2.loops /\ q3.errors = q2.errors
  BY <1>5, <1>6, PopIs
<1> HIDE DEF q3
<1>8. \A b, x : (Declares(q3, b, x) <=> Declares(q2, b, x)) /\ (BoundAt(q3, b, x) <=> BoundAt(q2, b, x))
  BY <1>7 DEF Declares, BoundAt
<1>9. LocalsBound(q3) /\ GlobalsBound(q3)
  BY <1>5, <1>7, <1>8 DEF LocalsBound, GlobalsBound
<1>10. TopLevel(q3)
  BY <1>5, <1>7 DEF TopLevel
<1>11. \A c : IdsOf(q3, c) = IdsOf(q2, c)
  BY <1>7 DEF IdsOf
<1>12. \A c : (Waiting(q3, c) <=> Waiting(q2, c)) /\ (Settled(q3, c) <=> Settled(q2, c))
  BY <1>7, <1>11 DEF Waiting, Settled
<1>13. /\ Ancestors(q.blocks, q.env) = {q.env} \cup Ancestors(q.blocks, q3.env)
       /\ q.env \notin Ancestors(q.blocks, q3.env)
       /\ Ancestors(q3.blocks, q3.env) = Ancestors(q.blocks, q3.env)
  <2>1. q3.env \in 1..(q.env - 1) /\ q3.env \in DOMAIN q.blocks /\ q3.env = q.blocks[q.env].parent
    BY <1>1, <1>6, <1>7, TreeFacts
  <2>2. Ancestors(q.blocks, q.env) = {q.env} \cup Ancestors(q.blocks, q3.env) /\ Ancestors(q.blocks, q3.env) \subseteq 1..q3.env
    BY <1>1, <2>1, AncestorsIs
  <2>3. q.env \notin 1..q3.env
    BY <2>1
  <2>4. Ancestors(q2.blocks, q3.env) = Ancestors(q.blocks, q3.env)
    BY <1>5, <2>1, GrowsKeeps
  <2> QED
    BY <1>7, <2>2, <2>3, <2>4
<1>14. UsesKept(q3)
  <2> SUFFICES ASSUME NEW c \in DOMAIN q.blocks
               PROVE  /\ ToSet(q2.blocks[c].uses) \subseteq IdsOf(q3, c)
                      /\ c \in Ancestors(q3.blocks, q3.env) => Waiting(q3, c)
                      /\ c \notin Ancestors(q3.blocks, q3.env) => Settled(q3, c)
                      /\ q2.blocks[c].freevars = <<>>
    BY <1>5, <1>7 DEF UsesKept
  <2>1. /\ c \in Ancestors(q.blocks, q.env) => Waiting(q, c)
        /\ c \notin Ancestors(q.blocks, q.env) => Settled(q, c)
    BY <1>1 DEF UsesKept
  <2> QED
    BY <1>5, <1>11, <1>12, <1>13, <2>1
<1>15. Later(q, q3)
  BY <1>5, <1>7 DEF Later
<1> QED
  BY <1>5, <1>6, <1>7, <1>9, <1>10, <1>14, <1>15 DEF Core, q2, q3

(***************************************************************************)
(* Parameters.                                                             *)
(***************************************************************************)

\* Parameters none of which is misplaced are in the order of their kinds.
LEMMA OrderedIs ==
  ASSUME NEW ps \in Seq(Param), \A i \in DOMAIN ps : ~MisplacedParam(ps, i)
  PROVE  Ordered(ps)
<1>1. DOMAIN ps = 1..Len(ps) /\ Len(ps) \in Nat
  BY LenProperties
<1>2. \A i \in DOMAIN ps : ps[i] \in Param
  BY <1>1, ElementOfSeq
<1> SUFFICES ASSUME NEW j \in DOMAIN ps, NEW k \in DOMAIN ps, j < k
             PROVE  Rank(ps[j]) <= Rank(ps[k]) /\ (Rank(ps[j]) = Rank(ps[k]) => Rank(ps[j]) <= 2)
  BY DEF Ordered
<1> DEFINE a == ps[j].kind
           b == ps[k].kind
<1>3. /\ a \in {"required", "optional", "varargs", "kwargs"} /\ b \in {"required", "optional", "varargs", "kwargs"}
  BY <1>2 DEF Param
<1>4. ~MisplacedParam(ps, k) /\ j \in 1..(k - 1)
  BY <1>1
<1>5. /\ b = "required" => a # "kwargs" /\ a # "varargs" /\ a # "optional"
      /\ b = "optional" => a # "kwargs" /\ a # "varargs"
      /\ b = "varargs"  => a # "kwargs" /\ a # "varargs"
      /\ b = "kwargs"   => a # "kwargs"
  BY <1>3, <1>4 DEF MisplacedParam
<1>6. /\ Rank(ps[j]) = IF a = "required" THEN 1 ELSE IF a = "optional" THEN 2 ELSE IF a = "varargs" THEN 3 ELSE 4
      /\ Rank(ps[k]) = IF b = "required" THEN 1 ELSE IF b = "optional" THEN 2 ELSE IF b = "varargs" THEN 3 ELSE 4
  BY <1>3 DEF Rank
<1> HIDE DEF a, b
<1> QED
  BY <1>3, <1>5, <1>6

\* The parameter of a function is bound.
LEMMA BindParamSteps ==
  ASSUME NEW s, Core(s), NEW p \in Param
  PROVE  Steps(s, BindParam(s, p))
<1> DEFINE what == IF IsBound(s, p.name) THEN {"duplicate parameter"} ELSE {}
<1>1. what \in SUBSET Errors /\ p.name \in Name
  BY DEF Errors, Param
<1> HIDE DEF what
<1>2. Steps(s, Errorf(s, what))
  BY <1>1, ErrorfSteps
<1>3. Core(Errorf(s, what))
  BY <1>2 DEF Steps
<1>4. Steps(Errorf(s, what), Bind(Errorf(s, what), p.name, FALSE))
  BY <1>1, <1>3, BindSteps
<1>5. BindParam(s, p) = Bind(Errorf(s, what), p.name, FALSE)
  BY DEF BindParam, what
<1> QED
  BY <1>2, <1>4, <1>5, StepsTransitive

\* The first n parameters of the function the walk is in are its locals.
Bound(q, f, ps, n) ==
  /\ q.env = f /\ f # Module /\ f \in DOMAIN q.blocks /\ q.blocks[f].kind = "function" /\ q.blocks[f].params = ps
  /\ q.errors = {} =>
       /\ Placed(q, f, n) /\ Len(q.blocks[f].locals) = n
       /\ \A j \in 1..n : q.blocks[f].bindings[ps[j].name] # NoBinding

AddsLocal(e, t, f, x) ==
  LET l == e.blocks[f].locals
      m == Len(e.ids) + 1
  IN  /\ t.blocks[f].locals = Append(l, m) /\ l \in Seq(Nat) /\ m \in Nat
      /\ m \in DOMAIN t.ids /\ t.ids[m].name = x
      /\ \A y \in Name : t.blocks[f].bindings[y] =
           IF y = x THEN [scope |-> "local", index |-> Len(l) + 1] ELSE e.blocks[f].bindings[y]

\* What a new local adds to a function.
LEMMA LocalAdded ==
  ASSUME NEW e, Core(e), e.env \in DOMAIN e.blocks, e.blocks[e.env].kind # "comp",
         NEW t, NEW x, OccursIn(e, t, x, TRUE, TRUE)
  PROVE  AddsLocal(e, t, e.env, x)
<1> DEFINE f  == e.env
           l  == e.blocks[f].locals
           m  == Len(e.ids) + 1
           id == Occurrence(e, x, TRUE)
<1>1. WellFormed(e) /\ Tree(e.blocks) /\ e.ids \in Seq(IdType) /\ f \in Nat
  BY DEF Core, WellFormed, Resolvers
<1>2. Container(e.blocks, f) = f
  BY <1>1, ContainerIs
<1>3. /\ t.blocks[f].locals = Append(l, m) /\ t.ids = Append(e.ids, id) /\ x \in Name
      /\ \A y \in Name : t.blocks[f].bindings[y] =
           IF y = x THEN [scope |-> "local", index |-> Len(l) + 1] ELSE e.blocks[f].bindings[y]
  <2>1. t.ids = Append(e.ids, id) /\ x \in Name
    BY DEF OccursIn
  <2>2. t.blocks[f].locals = Append(l, m)
    BY <1>2 DEF OccursIn
  <2>3. \A y \in Name : t.blocks[f].bindings[y] =
          IF y = x THEN [scope |-> "local", index |-> Len(l) + 1] ELSE e.blocks[f].bindings[y]
    BY <1>2 DEF OccursIn
  <2> HIDE DEF id, m, l, f
  <2> QED
    BY <2>1, <2>2, <2>3
<1>4. id \in IdType /\ id.name = x
  BY <1>1, <1>3 DEF Occurrence, IdType
<1> HIDE DEF id
<1>5. Len(e.ids) \in Nat /\ DOMAIN t.ids = 1..m /\ t.ids[m] = id
  <2>1. e.ids \in Seq(IdType) /\ id \in IdType
    BY <1>1, <1>4
  <2>2. /\ Append(e.ids, id) \in Seq(IdType)
        /\ Len(Append(e.ids, id)) = Len(e.ids) + 1
        /\ Append(e.ids, id)[Len(e.ids) + 1] = id
    BY ONLY <2>1, AppendProperties
  <2>3. Len(t.ids) = m /\ t.ids[m] = id /\ t.ids \in Seq(IdType)
    BY <1>3, <2>2
  <2> QED
    BY <1>1, <2>3, LenProperties
<1>6. m \in 1..m /\ m \in Nat
  BY <1>5
<1>7. l \in Seq(Nat)
  BY <1>1, TreeFacts DEF BlockType
<1> HIDE DEF l, m, f
<1> QED
  BY <1>3, <1>4, <1>5, <1>6, <1>7 DEF l, m, f, AddsLocal

\* The next one goes to the next slot.
LEMMA BindParamPlaces ==
  ASSUME NEW s, Core(s), NEW f, NEW ps \in Seq(Param), NEW k \in 1..Len(ps), Bound(s, f, ps, k - 1)
  PROVE  Bound(BindParam(s, ps[k]), f, ps, k)
<1> DEFINE x    == ps[k].name
           what == IF IsBound(s, x) THEN {"duplicate parameter"} ELSE {}
           e    == Errorf(s, what)
           t    == BindParam(s, ps[k])
<1>1. ps[k] \in Param /\ x \in Name /\ Len(ps) \in Nat /\ \A j \in 1..Len(ps) : ps[j].name \in Name
  <2>1. Len(ps) \in Nat /\ \A j \in 1..Len(ps) : ps[j] \in Param
    BY ElementOfSeq, LenProperties
  <2> QED
    BY <2>1 DEF Param
<1>2. Steps(s, t)
  BY <1>1, BindParamSteps
<1>3. /\ s.env = f /\ f # Module /\ f \in DOMAIN s.blocks /\ s.blocks[f].kind = "function" /\ s.blocks[f].params = ps
      /\ s.errors = {} =>
           /\ Placed(s, f, k - 1) /\ Len(s.blocks[f].locals) = k - 1
           /\ \A j \in 1..(k - 1) : s.blocks[f].bindings[ps[j].name] # NoBinding
  BY DEF Bound
<1>4. t.env = f /\ f \in DOMAIN t.blocks /\ t.blocks[f].kind = "function" /\ t.blocks[f].params = ps
  BY <1>2, <1>3 DEF Steps, Later
<1>5. ASSUME t.errors = {}
      PROVE  /\ Placed(t, f, k) /\ Len(t.blocks[f].locals) = k
             /\ \A j \in 1..k : t.blocks[f].bindings[ps[j].name] # NoBinding
  <2>1. what \in SUBSET Errors
    BY DEF Errors
  <2>2. t = Bind(e, x, FALSE)
    BY DEF BindParam
  <2> HIDE DEF what, t
  <2>3. /\ Steps(s, e) /\ e.blocks = s.blocks /\ e.ids = s.ids /\ e.errors = s.errors \cup what
    BY <2>1, ErrorfSteps
  <2> HIDE DEF e, x
  <2>4. Core(e) /\ e.env = f
    BY <1>3, <2>3 DEF Steps
  <2>5. Steps(e, t)
    BY <1>1, <2>2, <2>4, BindSteps
  <2>6. e.errors = {}
    BY <1>5, <2>5 DEF Steps, Later
  <2>7. s.errors = {} /\ what = {}
    BY <2>3, <2>6
  <2>8. ~IsBound(s, x)
    BY <2>7 DEF what
  <2>9. s.blocks[f].bindings[x] = NoBinding /\ ~IsBound(e, x)
    BY <1>3, <2>3, <2>4, <2>8 DEF IsBound
  <2>10. OccursIn(e, t, x, TRUE, TRUE)
    BY <1>1, <1>3, <2>2, <2>4, <2>9, BindInIs DEF Bind
  <2>11. WellFormed(e) /\ Tree(e.blocks)
    BY <2>4 DEF Core, WellFormed
  <2> DEFINE m == Len(e.ids) + 1
             l == s.blocks[f].locals
  <2>13. /\ t.blocks[f].locals = Append(l, m) /\ l \in Seq(Nat) /\ m \in Nat
         /\ m \in DOMAIN t.ids /\ t.ids[m].name = x
         /\ \A y \in Name : t.blocks[f].bindings[y] =
              IF y = x THEN [scope |-> "local", index |-> Len(l) + 1] ELSE s.blocks[f].bindings[y]
    <3>1. e.blocks[f].kind # "comp" /\ f \in DOMAIN e.blocks
      BY <1>3, <2>3
    <3> DEFINE le == e.blocks[f].locals
    <3>2. /\ t.blocks[f].locals = Append(le, m) /\ le \in Seq(Nat) /\ m \in Nat
          /\ m \in DOMAIN t.ids /\ t.ids[m].name = x
          /\ \A y \in Name : t.blocks[f].bindings[y] =
               IF y = x THEN [scope |-> "local", index |-> Len(le) + 1] ELSE e.blocks[f].bindings[y]
      <4>1. AddsLocal(e, t, e.env, x)
        BY <2>4, <2>10, <3>1, LocalAdded
      <4> QED
        BY <2>4, <4>1 DEF AddsLocal
    <3> QED
      BY ONLY <2>3, <3>2
  <2> HIDE DEF m, l
  <2>14. Len(l) = k - 1
    BY <1>3, <2>7 DEF l
  <2>16. Len(Append(l, m)) = k /\ DOMAIN Append(l, m) = 1..k /\ Append(l, m)[k] = m
    BY <2>13, <2>14, AppendProperties, LenProperties
  <2>17. /\ k - 1 <= Len(ps) /\ Placed(t, f, k - 1)
         /\ \A j, i \in 1..(k - 1) : j < i => ps[j].name # ps[i].name
    <3>1. Later(s, t)
      BY <1>2 DEF Steps
    <3>2. Placed(s, f, k - 1)
      BY <1>3, <2>7
    <3>3. Placed(t, f, k - 1)
      BY <1>3, <3>1, <3>2, LaterPlaced
    <3> QED
      BY <1>4, <3>3 DEF Placed
  <2>18. \A j \in 1..k : j \in 1..(k - 1) \/ j = k
    OBVIOUS
  <2>19. \A j \in 1..(k - 1) : ps[j].name # x /\ ps[j].name \in Name /\ s.blocks[f].bindings[ps[j].name] # NoBinding
    BY <1>1, <1>3, <2>7, <2>9
  <2>20. Placed(t, f, k)
    <3>1. \A j \in 1..(k - 1) : j \in DOMAIN t.blocks[f].locals /\ t.blocks[f].locals[j] \in DOMAIN t.ids
                                /\ t.ids[t.blocks[f].locals[j]].name = ps[j].name
      BY <1>4, <2>17 DEF Placed
    <3>2. k \in DOMAIN t.blocks[f].locals /\ t.blocks[f].locals[k] \in DOMAIN t.ids
          /\ t.ids[t.blocks[f].locals[k]].name = ps[k].name
      BY <2>13, <2>16 DEF x
    <3>3. ASSUME NEW j \in 1..k, NEW i \in 1..k, j < i PROVE ps[j].name # ps[i].name
      <4>1. j \in 1..(k - 1)
        BY <3>3
      <4>2. CASE i = k
        BY <2>19, <4>1, <4>2 DEF x
      <4>3. CASE i # k
        <5>1. i \in 1..(k - 1)
          BY <4>3
        <5> QED
          BY <2>17, <3>3, <4>1, <5>1
      <4> QED
        BY <4>2, <4>3
    <3>4. t.blocks[f].params = ps /\ k <= Len(ps)
      BY <1>1, <1>4
    <3>5. \A j \in 1..k : j \in DOMAIN t.blocks[f].locals /\ t.blocks[f].locals[j] \in DOMAIN t.ids
                          /\ t.ids[t.blocks[f].locals[j]].name = ps[j].name
      BY ONLY <2>18, <3>1, <3>2
    <3> QED
      BY ONLY <3>3, <3>4, <3>5 DEF Placed
  <2>21. ASSUME NEW j \in 1..k PROVE t.blocks[f].bindings[ps[j].name] # NoBinding
    <3>1. CASE j = k
      <4>1. t.blocks[f].bindings[ps[j].name].scope = "local"
        BY <1>1, <2>13, <3>1 DEF x
      <4> QED
        BY <4>1 DEF NoBinding
    <3>2. CASE j # k
      <4>1. j \in 1..(k - 1)
        BY <3>2
      <4> QED
        BY <2>13, <2>19, <4>1
    <3> QED
      BY <3>1, <3>2
  <2> QED
    BY <2>13, <2>16, <2>20, <2>21
<1> QED
  BY <1>3, <1>4, <1>5 DEF Bound

\* function, up to its body.
LEMMA EnterFunctionKeeps ==
  ASSUME NEW q, Core(q), ParamsPlaced(q), NEW ps \in Seq(Param)
  PROVE  LET q3 == BindParams(PushBlock(q, "function", ps), ps)
         IN  /\ Core(q3) /\ ParamsPlaced(q3) /\ Later(q, q3) /\ q3.loops = q.loops
             /\ q3.env \in DOMAIN q3.blocks /\ q3.env # Module
             /\ q3.blocks[q3.env].parent = q.env /\ q3.blocks[q3.env].kind = "function"
<1> DEFINE q1      == PushBlock(q, "function", ps)
           n       == Len(ps)
           f       == Len(q.blocks) + 1
           Step(u) == [k \in 0..n |-> IF k = 0 THEN q1 ELSE BindParam(u[k - 1], ps[k])]
           S       == {s \in {t \in Resolvers : Core(t)} : Steps(q1, s)}
           F       == [p \in (1..n) \X S |-> BindParam(p[2], ps[p[1]])]
           q2      == BindEach(q1, ps)
           what    == IF \E i \in DOMAIN ps : MisplacedParam(ps, i) THEN {"misplaced parameter"} ELSE {}
           q3      == Errorf(q2, what)
<1>1. n \in Nat /\ DOMAIN ps = 1..n /\ \A k \in 1..n : ps[k] \in Param
  BY LenProperties, ElementOfSeq
<1>2. Pushes(q, q1, "function", ps)
  BY PushIs DEF Core
<1>3. Core(q1) /\ Later(q, q1)
  BY <1>2, PushKeeps
<1>4. /\ q1.env = f /\ f \in DOMAIN q1.blocks /\ DOMAIN q1.blocks = DOMAIN q.blocks \cup {f} /\ f \notin DOMAIN q.blocks
      /\ q1.blocks[f].parent = q.env /\ q1.blocks[f].kind = "function" /\ q1.blocks[f].params = ps
      /\ q1.blocks[f].locals = <<>> /\ q1.loops = q.loops
  BY <1>2 DEF Pushes, NewBlock
<1>5. f # Module /\ Module \in DOMAIN q.blocks
  <2>1. Module \in DOMAIN q.blocks
    BY DEF Core, WellFormed, Tree
  <2> QED
    BY <1>4, <2>1
<1> HIDE DEF q1, f, n
<1>6. q1 \in S
  BY <1>3 DEF Steps, Later, Core, WellFormed
<1>7. ASSUME NEW k \in 1..n, NEW s \in S PROVE BindParam(s, ps[k]) \in S
  <2>1. Steps(q1, s) /\ Core(s)
    OBVIOUS
  <2>2. Steps(s, BindParam(s, ps[k]))
    BY <1>1, <2>1, BindParamSteps
  <2>3. Steps(q1, BindParam(s, ps[k]))
    BY <2>1, <2>2, StepsTransitive
  <2> QED
    BY <2>3 DEF Steps, Core, WellFormed
<1> HIDE DEF S
<1>8. F \in [(1..n) \X S -> S]
  BY <1>7
<1>9. PICK g : Counts(g, n, S, q1, F)
  <2> HIDE DEF F
  <2> QED
    BY <1>1, <1>6, <1>8, Counting
<1>10. g \in [0..n -> S] /\ g[0] = q1 /\ \A k \in 1..n : g[k - 1] \in S /\ g[k] = BindParam(g[k - 1], ps[k])
  <2>1. g \in [0..n -> S] /\ g[0] = q1 /\ \A k \in 1..n : g[k] = F[<<k, g[k - 1]>>]
    BY <1>9 DEF Counts
  <2>2. \A k \in 1..n : k - 1 \in 0..n
    BY <1>1
  <2>3. \A k \in 1..n : g[k - 1] \in S
    BY <2>1, <2>2
  <2> QED
    BY <2>1, <2>3
<1>11. g = Step(g)
  <2>1. \A k \in 0..n : k = 0 \/ k \in 1..n
    BY <1>1
  <2>2. g = [k \in 0..n |-> g[k]]
    BY <1>10
  <2> QED
    BY <1>10, <2>1, <2>2
<1>12. PICK u : u = Step(u) /\ q2 = u[n]
  <2> HIDE DEF Step
  <2>1. (CHOOSE u : u = Step(u)) = Step(CHOOSE u : u = Step(u))
    BY <1>11
  <2>2. q2 = (CHOOSE u : u = Step(u))[n]
    BY DEF BindEach, Step, n
  <2> QED
    BY <2>1, <2>2
<1>13. u[0] = q1 /\ \A k \in 1..n : u[k] = BindParam(u[k - 1], ps[k])
  <2>1. \A k \in 0..n : Step(u)[k] = IF k = 0 THEN q1 ELSE BindParam(u[k - 1], ps[k])
    OBVIOUS
  <2>2. 0 \in 0..n /\ \A k \in 1..n : k \in 0..n /\ k # 0
    BY <1>1
  <2> HIDE DEF Step
  <2> QED
    BY <1>12, <2>1, <2>2
<1> HIDE DEF F, Step, q2
<1> DEFINE T == {k \in 0..n : u[k] \in S /\ Bound(u[k], f, ps, k)}
<1>14. 0 \in T
  <2>1. Placed(q1, f, 0)
    BY <1>1, <1>4 DEF Placed, n
  <2>2. Len(q1.blocks[f].locals) = 0
    BY <1>4
  <2>3. Bound(q1, f, ps, 0)
    BY <1>4, <1>5, <2>1, <2>2 DEF Bound
  <2> QED
    BY <1>1, <1>6, <1>13, <2>3
<1>15. ASSUME NEW k \in 1..n, k - 1 \in T PROVE k \in T
  <2> DEFINE s == u[k - 1]
  <2>1. s \in S /\ Bound(s, f, ps, k - 1) /\ u[k] = BindParam(s, ps[k])
    BY <1>13, <1>15
  <2>2. Core(s)
    BY <2>1 DEF S
  <2> HIDE DEF s
  <2>3. Bound(BindParam(s, ps[k]), f, ps, k)
    BY <2>1, <2>2, BindParamPlaces DEF n
  <2>4. k \in 0..n
    BY <1>1
  <2> QED
    BY <1>7, <2>1, <2>3, <2>4
<1>16. 0..n \subseteq T
  <2> HIDE DEF T
  <2> QED
    BY <1>1, <1>14, <1>15, BoundedInduction
<1>17. Core(q2) /\ Steps(q1, q2) /\ Bound(q2, f, ps, n)
  <2>1. n \in 0..n
    BY <1>1
  <2>2. q2 \in S /\ Bound(q2, f, ps, n)
    BY <1>12, <1>16, <2>1
  <2> QED
    BY <2>2 DEF S
<1>18. what \in SUBSET Errors
  BY DEF Errors
<1> HIDE DEF what
<1>19. Steps(q2, q3) /\ q3.errors = q2.errors \cup what
  BY <1>17, <1>18, ErrorfSteps
<1>20. Steps(q1, q3)
  BY <1>17, <1>19, StepsTransitive
<1>21. BindParams(q1, ps) = q3
  BY DEF BindParams, q2, what
<1> HIDE DEF q3
<1>22. Later(q, q3)
  BY <1>3, <1>20, LaterTransitive DEF Steps
<1>23. /\ Core(q3) /\ q3.loops = q.loops /\ q3.env = f /\ f \in DOMAIN q3.blocks
       /\ q3.blocks[f].parent = q.env /\ q3.blocks[f].kind = "function" /\ q3.blocks[f].params = ps
       /\ DOMAIN q3.blocks = DOMAIN q.blocks \cup {f}
  BY <1>4, <1>20 DEF Steps, Later
<1>24. ParamsPlaced(q3)
  <2> SUFFICES ASSUME q3.errors = {}, NEW b \in DOMAIN q3.blocks
               PROVE  Placed(q3, b, Len(q3.blocks[b].params)) /\ Ordered(q3.blocks[b].params)
    BY DEF ParamsPlaced
  <2>1. q.errors = {} /\ q2.errors = {} /\ what = {}
    BY <1>19, <1>22 DEF Later
  <2>2. CASE b = f
    <3>1. Placed(q2, f, n) /\ f \in DOMAIN q2.blocks
      BY <1>17, <2>1 DEF Bound
    <3>2. Placed(q3, f, n)
      BY <1>19, <3>1, LaterPlaced DEF Steps
    <3>3. Ordered(ps)
      BY <2>1, OrderedIs DEF what
    <3> QED
      BY <1>23, <2>2, <3>2, <3>3 DEF n
  <2>3. CASE b # f
    <3>1. b \in DOMAIN q.blocks
      BY <1>23, <2>3
    <3>2. Placed(q, b, Len(q.blocks[b].params)) /\ Ordered(q.blocks[b].params)
      BY <2>1, <3>1 DEF ParamsPlaced
    <3>3. q3.blocks[b].params = q.blocks[b].params
      BY <1>22, <3>1 DEF Later
    <3> QED
      BY <1>22, <3>1, <3>2, <3>3, LaterPlaced
  <2> QED
    BY <2>2, <2>3
<1> QED
  BY <1>5, <1>21, <1>22, <1>23, <1>24 DEF q1

(***************************************************************************)
(* What is open.                                                           *)
(***************************************************************************)

\* A sequence without its last element.
LEMMA FrontIs ==
  ASSUME NEW S, NEW o \in Seq(S), o # <<>>
  PROVE  /\ Len(o) \in Nat /\ Len(o) >= 1 /\ DOMAIN o = 1..Len(o)
         /\ Last(o) = o[Len(o)] /\ Last(o) \in S
         /\ Front(o) \in Seq(S) /\ Len(Front(o)) = Len(o) - 1 /\ DOMAIN Front(o) = 1..(Len(o) - 1)
         /\ \A i \in 1..(Len(o) - 1) : Front(o)[i] = o[i]
<1>1. Len(o) \in Nat /\ DOMAIN o = 1..Len(o) /\ Len(o) # 0
  BY LenProperties, EmptySeq
<1>2. Len(o) >= 1 /\ Len(o) - 1 \in 0..Len(o) /\ Len(o) \in 1..Len(o)
  BY <1>1
<1>3. o[Len(o)] \in S
  BY <1>2, ElementOfSeq
<1> DEFINE n == Len(o) - 1
<1>4. n \in Nat /\ n <= Len(o) /\ 1 \in 1..(Len(o) + 1)
  BY <1>1, <1>2
<1>5. SubSeq(o, 1, n) \in Seq(S) /\ Len(SubSeq(o, 1, n)) = n /\ \A i \in 1..n : SubSeq(o, 1, n)[i] = o[i]
  BY <1>1, <1>2
<1>6. Front(o) = SubSeq(o, 1, n)
  BY DEF Front
<1>7. DOMAIN Front(o) = 1..n
  BY <1>4, <1>5, <1>6, LenProperties
<1> QED
  BY <1>1, <1>2, <1>3, <1>5, <1>6, <1>7 DEF Last

\* The construct that is opened extends the path.
LEMMA NestedAppend ==
  ASSUME NEW bs, NEW env, NEW o \in Seq(Constructs), Nested(bs, env, o),
         NEW kind \in Constructs, NEW inner \in DOMAIN bs, Opens(bs, kind, env, inner)
  PROVE  Nested(bs, inner, Append(o, kind))
<1>1. PICK e \in [0..Len(o) -> DOMAIN bs] : Path(bs, env, o, e)
  BY DEF Nested
<1> DEFINE o2 == Append(o, kind)
           n  == Len(o)
           e2 == [i \in 0..(n + 1) |-> IF i = n + 1 THEN inner ELSE e[i]]
<1>2. n \in Nat /\ Len(o2) = n + 1 /\ o2[n + 1] = kind /\ \A i \in 1..n : o2[i] = o[i]
  BY LenProperties, AppendProperties
<1>3. e[0] = Module /\ e[n] = env /\ \A i \in 1..n : Opens(bs, o[i], e[i - 1], e[i])
  BY <1>1 DEF Path
<1> HIDE DEF o2, n
<1>4. \A i \in 0..(n + 1) : i = n + 1 \/ (i \in 0..n /\ i # n + 1)
  BY <1>2
<1>5. e \in [0..n -> DOMAIN bs]
  BY DEF n
<1>6. e2 \in [0..(n + 1) -> DOMAIN bs]
  BY <1>4, <1>5
<1>7. 0 \in 0..(n + 1) /\ n + 1 \in 0..(n + 1) /\ n \in 0..(n + 1) /\ n # n + 1 /\ 0 # n + 1
  BY <1>2
<1>8. e2[0] = Module /\ e2[n + 1] = inner /\ e2[n] = env
  BY <1>3, <1>7
<1>9. ASSUME NEW i \in 1..(n + 1) PROVE Opens(bs, o2[i], e2[i - 1], e2[i])
  <2>1. CASE i = n + 1
    <3>1. i - 1 = n
      BY <1>2, <2>1
    <3> QED
      BY <1>2, <1>8, <2>1, <3>1
  <2>2. CASE i # n + 1
    <3>1. /\ i \in 1..n /\ i - 1 \in 0..(n + 1) /\ i - 1 # n + 1 /\ i \in 0..(n + 1)
      BY <1>2, <2>2
    <3>2. e2[i] = e[i] /\ e2[i - 1] = e[i - 1] /\ o2[i] = o[i]
      BY <1>2, <2>2, <3>1
    <3> QED
      BY <1>3, <3>1, <3>2
  <2> QED
    BY <2>1, <2>2
<1> HIDE DEF e2
<1>10. e2 \in [0..Len(o2) -> DOMAIN bs] /\ Path(bs, inner, o2, e2)
  BY <1>2, <1>6, <1>8, <1>9 DEF Path
<1> QED
  BY <1>10 DEF Nested, o2

\* The construct that is closed goes back to the block it was opened in.
LEMMA NestedFront ==
  ASSUME NEW bs, NEW env, NEW o \in Seq(Constructs), o # <<>>, Nested(bs, env, o)
  PROVE  \E outer \in DOMAIN bs : Nested(bs, outer, Front(o)) /\ Opens(bs, Last(o), outer, env)
<1>1. PICK e \in [0..Len(o) -> DOMAIN bs] : Path(bs, env, o, e)
  BY DEF Nested
<1> DEFINE o2 == Front(o)
           n  == Len(o) - 1
           e2 == [i \in 0..n |-> e[i]]
<1>2. /\ n \in Nat /\ Len(o) = n + 1 /\ Last(o) = o[n + 1] /\ Len(o2) = n /\ \A i \in 1..n : o2[i] = o[i]
  BY FrontIs
<1>3. e[0] = Module /\ e[n + 1] = env /\ \A i \in 1..(n + 1) : Opens(bs, o[i], e[i - 1], e[i])
  BY <1>1, <1>2 DEF Path
<1>4. e \in [0..(n + 1) -> DOMAIN bs]
  BY <1>2
<1> HIDE DEF o2, n
<1>5. \A i \in 0..n : i \in 0..(n + 1)
  BY <1>2
<1>6. e2 \in [0..n -> DOMAIN bs] /\ 0 \in 0..n /\ n \in 0..n
  BY <1>2, <1>4, <1>5
<1>7. ASSUME NEW i \in 1..n PROVE Opens(bs, o2[i], e2[i - 1], e2[i])
  <2>1. i \in 1..(n + 1) /\ i \in 0..n /\ i - 1 \in 0..n
    BY <1>2
  <2>2. e2[i] = e[i] /\ e2[i - 1] = e[i - 1] /\ o2[i] = o[i]
    BY <1>2, <2>1
  <2> QED
    BY <1>3, <2>1, <2>2
<1>8. e2[0] = Module /\ e2[n] = e[n]
  BY <1>3, <1>6
<1> HIDE DEF e2
<1>9. Path(bs, e[n], o2, e2)
  BY <1>2, <1>6, <1>7, <1>8 DEF Path
<1>10. e2 \in [0..Len(o2) -> DOMAIN bs] /\ e[n] \in DOMAIN bs
  BY <1>2, <1>4, <1>6
<1>11. Nested(bs, e[n], o2)
  BY <1>9, <1>10 DEF Nested
<1>12. Opens(bs, Last(o), e[n], env)
  <2>1. n + 1 \in 1..(n + 1) /\ (n + 1) - 1 = n
    BY <1>2
  <2> QED
    BY <1>2, <1>3, <2>1
<1> QED
  BY <1>10, <1>11, <1>12 DEF o2

\* Blocks that are added, or filled, leave the path.
LEMMA NestedGrows ==
  ASSUME NEW bs, NEW bs2, Grows(bs, bs2), NEW env, NEW o, Nested(bs, env, o)
  PROVE  Nested(bs2, env, o)
<1>1. PICK e \in [0..Len(o) -> DOMAIN bs] : Path(bs, env, o, e)
  BY DEF Nested
<1>2. DOMAIN bs \subseteq DOMAIN bs2 /\ \A b \in DOMAIN bs : bs2[b].parent = bs[b].parent /\ bs2[b].kind = bs[b].kind
  BY DEF Grows
<1>3. e \in [0..Len(o) -> DOMAIN bs2]
  BY <1>2
<1>4. e[0] = Module /\ e[Len(o)] = env /\ \A i \in 1..Len(o) : Opens(bs, o[i], e[i - 1], e[i])
  BY <1>1 DEF Path
<1>5. ASSUME NEW i \in 1..Len(o) PROVE Opens(bs2, o[i], e[i - 1], e[i])
  <2>1. i \in 0..Len(o)
    OBVIOUS
  <2>2. e[i] \in DOMAIN bs
    BY <2>1
  <2> QED
    BY <1>2, <1>4, <2>2 DEF Opens
<1> QED
  BY <1>3, <1>4, <1>5 DEF Nested, Path

\* The walk is in a function when a function or a lambda is open.
LEMMA InFunctionOpen ==
  ASSUME NEW bs, Tree(bs), NEW env, NEW o \in Seq(Constructs), Nested(bs, env, o)
  PROVE  bs[Container(bs, env)].kind = "function" <=> HasFunction(o)
<1>1. PICK e \in [0..Len(o) -> DOMAIN bs] : Path(bs, env, o, e)
  BY DEF Nested
<1> DEFINE n == Len(o)
           T == {i \in 0..n : bs[Container(bs, e[i])].kind = "function" <=> \E k \in 1..i : o[k] \in Functional}
<1>2. n \in Nat /\ DOMAIN o = 1..n /\ \A i \in 1..n : o[i] \in Constructs
  BY LenProperties, ElementOfSeq
<1>3. e[0] = Module /\ e[n] = env /\ e \in [0..n -> DOMAIN bs] /\ \A i \in 1..n : Opens(bs, o[i], e[i - 1], e[i])
  BY <1>1 DEF Path
<1>4. \A b \in DOMAIN bs : Container(bs, b) = IF bs[b].kind = "comp" THEN Container(bs, bs[b].parent) ELSE b
  BY ContainerIs
<1> HIDE DEF n
<1>5. 0 \in T
  <2>1. Module \in DOMAIN bs /\ bs[Module].kind = "module"
    BY TreeFacts
  <2>2. bs[Container(bs, e[0])].kind = "module"
    BY <1>3, <1>4, <2>1
  <2> QED
    BY <1>2, <2>2
<1>6. ASSUME NEW i \in 1..n, i - 1 \in T PROVE i \in T
  <2>1. i \in 0..n /\ i - 1 \in 0..n /\ e[i] \in DOMAIN bs /\ e[i - 1] \in DOMAIN bs
    BY <1>2, <1>3
  <2>2. 1..i = 1..(i - 1) \cup {i}
    BY <1>2
  <2>3. Opens(bs, o[i], e[i - 1], e[i])
    BY <1>3
  <2>4. bs[Container(bs, e[i - 1])].kind = "function" <=> \E k \in 1..(i - 1) : o[k] \in Functional
    BY <1>6
  <2>5. CASE o[i] \in Functional
    <3>1. bs[e[i]].kind = "function"
      BY <2>3, <2>5 DEF Opens, Functional
    <3>2. bs[Container(bs, e[i])].kind = "function"
      BY <1>4, <2>1, <3>1
    <3> QED
      BY <2>1, <2>2, <2>5, <3>2
  <2>6. CASE o[i] = "comp"
    <3>1. bs[e[i]].kind = "comp" /\ bs[e[i]].parent = e[i - 1]
      BY <2>3, <2>6 DEF Opens
    <3>2. Container(bs, e[i]) = Container(bs, e[i - 1])
      BY <1>4, <2>1, <3>1
    <3>3. o[i] \notin Functional
      BY <2>6 DEF Functional
    <3> QED
      BY <2>1, <2>2, <2>4, <3>2, <3>3
  <2>7. CASE o[i] \notin Functional /\ o[i] # "comp"
    <3>1. e[i] = e[i - 1]
      BY <2>3, <2>7 DEF Opens, Functional
    <3> QED
      BY <2>1, <2>2, <2>4, <2>7, <3>1
  <2> QED
    BY <2>5, <2>6, <2>7
<1>7. 0..n \subseteq T
  <2> HIDE DEF T
  <2> QED
    BY <1>2, <1>5, <1>6, BoundedInduction
<1>8. n \in T
  <2>1. n \in 0..n
    BY <1>2
  <2> QED
    BY <1>7, <2>1
<1> QED
  BY <1>2, <1>3, <1>8 DEF HasFunction

\* o2 is o and one construct more.
Extends(o, o2, kind) ==
  /\ o \in Seq(Constructs) /\ o2 \in Seq(Constructs) /\ kind \in Constructs
  /\ Len(o2) = Len(o) + 1 /\ o2[Len(o) + 1] = kind /\ \A i \in 1..Len(o) : o2[i] = o[i]

\* Opening a construct.
LEMMA AppendExtends ==
  ASSUME NEW o \in Seq(Constructs), NEW kind \in Constructs
  PROVE  Extends(o, Append(o, kind), kind)
BY AppendProperties DEF Extends

\* The same, from the end.
LEMMA FrontExtends ==
  ASSUME NEW o \in Seq(Constructs), o # <<>>
  PROVE  Extends(Front(o), o, Last(o))
<1>1. /\ Len(o) \in Nat /\ Len(o) >= 1 /\ Last(o) = o[Len(o)] /\ Last(o) \in Constructs
      /\ Front(o) \in Seq(Constructs) /\ Len(Front(o)) = Len(o) - 1
      /\ \A i \in 1..(Len(o) - 1) : Front(o)[i] = o[i]
  BY FrontIs
<1>2. (Len(o) - 1) + 1 = Len(o)
  BY <1>1
<1> QED
  BY <1>1, <1>2 DEF Extends

\* The loops that are open, and what is said of loops and functions.
LEMMA ExtendsOpen ==
  ASSUME NEW o, NEW o2, NEW kind, Extends(o, o2, kind)
  PROVE  /\ Cardinality(Fors(o)) \in Nat
         /\ Cardinality(Fors(o2)) = Cardinality(Fors(o)) + (IF kind = "for" THEN 1 ELSE 0)
         /\ ForsNested(o2) <=> (ForsNested(o) /\ (kind = "for" => HasFunction(o)))
         /\ DefsFlat(o2) <=> (DefsFlat(o) /\ (kind \in {"def", "function"} => ~HasFunction(o)))
<1> DEFINE n == Len(o)
<1>1. /\ n \in Nat /\ DOMAIN o = 1..n /\ DOMAIN o2 = 1..(n + 1) /\ o2[n + 1] = kind
      /\ \A i \in 1..n : o2[i] = o[i]
  BY LenProperties DEF Extends
<1> HIDE DEF n
<1>2. 1..(n + 1) = 1..n \cup {n + 1} /\ n + 1 \notin 1..n /\ (n + 1) - 1 = n
  BY <1>1
<1>3. \A i \in 1..n : \A k \in 1..(i - 1) : k \in 1..n
  BY <1>1
<1>4. IsFiniteSet(Fors(o)) /\ Cardinality(Fors(o)) \in Nat
  <2>1. IsFiniteSet(1..n)
    BY <1>1, FS_Interval
  <2>2. Fors(o) \subseteq 1..n
    BY <1>1 DEF Fors
  <2> QED
    BY <2>1, <2>2, FS_Subset, FS_CardinalityType
<1>5. CASE kind = "for"
  <2>1. Fors(o2) = Fors(o) \cup {n + 1} /\ n + 1 \notin Fors(o)
    BY <1>1, <1>2, <1>5 DEF Fors
  <2> QED
    <3>1. Cardinality(Fors(o2)) = Cardinality(Fors(o)) + 1
      BY <1>4, <2>1, FS_AddElement
    <3>2. ForsNested(o2) <=> (ForsNested(o) /\ HasFunction(o))
      BY <1>1, <1>2, <1>3, <1>5 DEF ForsNested, HasFunction
    <3>3. DefsFlat(o2) <=> DefsFlat(o)
      BY <1>1, <1>2, <1>3, <1>5 DEF DefsFlat
    <3> QED
      BY <1>4, <1>5, <3>1, <3>2, <3>3
<1>6. CASE kind # "for"
  <2>1. Fors(o2) = Fors(o)
    BY <1>1, <1>2, <1>6 DEF Fors
  <2>2. ForsNested(o2) <=> ForsNested(o)
    BY <1>1, <1>2, <1>3, <1>6 DEF ForsNested
  <2>3. DefsFlat(o2) <=> (DefsFlat(o) /\ (kind \in {"def", "function"} => ~HasFunction(o)))
    BY <1>1, <1>2, <1>3 DEF DefsFlat, HasFunction
  <2> QED
    BY <1>4, <1>6, <2>1, <2>2, <2>3
<1> QED
  BY <1>5, <1>6

(***************************************************************************)
(* The steps of the walk.                                                  *)
(***************************************************************************)

\* Some programs have nothing new.
LEMMA LaterReflexive ==
  ASSUME NEW q
  PROVE  Later(q, q)
BY DEF Later

\* What a step leaves keeps the tree.
LEMMA LaterGrows ==
  ASSUME NEW q, Core(q), NEW q2, Core(q2), Later(q, q2)
  PROVE  Grows(q.blocks, q2.blocks)
BY DEF Core, WellFormed, Later, Grows

\* A step within the block opens and closes nothing.
LEMMA WalkedSteps ==
  ASSUME NEW q, NEW o, NEW a, Walked(q, o, a), NEW q2, Steps(q, q2)
  PROVE  Walked(q2, o, a)
<1>1. Core(q2) /\ Later(q, q2) /\ q2.env = q.env /\ q2.loops = q.loops /\ DOMAIN q2.blocks = DOMAIN q.blocks
  BY DEF Steps
<1>2. o \in Seq(Constructs) /\ Nested(q.blocks, q.env, o) /\ LoopsOpen(q, o, a) /\ Core(q) /\ ParamsPlaced(q)
  BY DEF Walked
<1>3. Nested(q2.blocks, q2.env, o)
  BY <1>1, <1>2, LaterGrows, NestedGrows
<1>4. LoopsOpen(q2, o, a)
  <2>1. q2.errors = {} => q.errors = {}
    BY <1>1 DEF Later
  <2> QED
    BY <1>1, <1>2, <2>1 DEF LoopsOpen
<1>5. ParamsPlaced(q2)
  BY <1>1, <1>2, LaterParams
<1> QED
  BY <1>1, <1>2, <1>3, <1>4, <1>5 DEF Walked

\* A construct is opened.
LEMMA WalkedOpens ==
  ASSUME NEW q, NEW o, NEW a, Walked(q, o, a), NEW kind \in Constructs, NEW q2, Core(q2), ParamsPlaced(q2),
         Later(q, q2), Opens(q2.blocks, kind, q.env, q2.env),
         q2.loops = q.loops + (IF kind = "for" THEN 1 ELSE 0),
         q2.errors = {} => (kind = "for" => HasFunction(o)),
         q2.errors = {} /\ "nestedDef" \notin a => (kind \in {"def", "function"} => ~HasFunction(o))
  PROVE  Walked(q2, Append(o, kind), a)
<1> DEFINE o2 == Append(o, kind)
<1>1. o \in Seq(Constructs) /\ Nested(q.blocks, q.env, o) /\ LoopsOpen(q, o, a) /\ Core(q)
  BY DEF Walked
<1>2. Extends(o, o2, kind)
  BY <1>1, AppendExtends
<1>3. Nested(q2.blocks, q2.env, o2)
  <2>1. Nested(q2.blocks, q.env, o)
    BY <1>1, LaterGrows, NestedGrows
  <2>2. q2.env \in DOMAIN q2.blocks
    BY DEF Core, WellFormed
  <2> QED
    BY <1>1, <2>1, <2>2, NestedAppend
<1> HIDE DEF o2
<1>4. LoopsOpen(q2, o2, a)
  <2>1. q2.errors = {} => q.errors = {}
    BY DEF Later
  <2>2. /\ Cardinality(Fors(o2)) = Cardinality(Fors(o)) + (IF kind = "for" THEN 1 ELSE 0)
        /\ ForsNested(o2) <=> (ForsNested(o) /\ (kind = "for" => HasFunction(o)))
        /\ DefsFlat(o2) <=> (DefsFlat(o) /\ (kind \in {"def", "function"} => ~HasFunction(o)))
    BY <1>2, ExtendsOpen
  <2>3. /\ q.loops = Cardinality(Fors(o))
        /\ q.errors = {} => ForsNested(o)
        /\ q.errors = {} /\ "nestedDef" \notin a => DefsFlat(o)
    BY <1>1 DEF LoopsOpen
  <2>4. q2.loops = Cardinality(Fors(o2))
    BY <2>2, <2>3
  <2>5. q2.errors = {} => ForsNested(o2)
    BY <2>1, <2>2, <2>3
  <2>6. q2.errors = {} /\ "nestedDef" \notin a => DefsFlat(o2)
    BY <2>1, <2>2, <2>3
  <2> QED
    BY <2>4, <2>5, <2>6 DEF LoopsOpen
<1>5. o2 \in Seq(Constructs)
  BY <1>2 DEF Extends
<1> QED
  BY <1>3, <1>4, <1>5 DEF Walked, o2

\* A construct is closed, and the walk is back in the block it was opened in.
LEMMA WalkedCloses ==
  ASSUME NEW q, NEW o, NEW a, Walked(q, o, a), o # <<>>, NEW q2, Core(q2), Later(q, q2),
         DOMAIN q2.blocks = DOMAIN q.blocks, Opens(q.blocks, Last(o), q2.env, q.env),
         q2.loops = q.loops - (IF Last(o) = "for" THEN 1 ELSE 0)
  PROVE  Walked(q2, Front(o), a)
<1> DEFINE o2 == Front(o)
<1>1. o \in Seq(Constructs) /\ Nested(q.blocks, q.env, o) /\ LoopsOpen(q, o, a) /\ Core(q) /\ ParamsPlaced(q)
  BY DEF Walked
<1>2. Extends(o2, o, Last(o))
  BY <1>1, FrontExtends
<1>3. PICK outer \in DOMAIN q.blocks : Nested(q.blocks, outer, o2) /\ Opens(q.blocks, Last(o), outer, q.env)
  BY <1>1, NestedFront
<1> HIDE DEF o2
<1>4. outer = q2.env
  BY <1>3 DEF Opens
<1>5. Nested(q2.blocks, q2.env, o2)
  BY <1>1, <1>3, <1>4, LaterGrows, NestedGrows
<1>6. LoopsOpen(q2, o2, a)
  <2>1. q2.errors = {} => q.errors = {}
    BY DEF Later
  <2>2. /\ Cardinality(Fors(o2)) \in Nat
        /\ Cardinality(Fors(o)) = Cardinality(Fors(o2)) + (IF Last(o) = "for" THEN 1 ELSE 0)
        /\ ForsNested(o) => ForsNested(o2)
        /\ DefsFlat(o) => DefsFlat(o2)
    BY <1>2, ExtendsOpen
  <2>3. /\ q.loops = Cardinality(Fors(o))
        /\ q.errors = {} => ForsNested(o)
        /\ q.errors = {} /\ "nestedDef" \notin a => DefsFlat(o)
    BY <1>1 DEF LoopsOpen
  <2>4. q2.loops = Cardinality(Fors(o2))
    BY <2>2, <2>3
  <2> QED
    BY <2>1, <2>2, <2>3, <2>4 DEF LoopsOpen
<1>7. ParamsPlaced(q2) /\ o2 \in Seq(Constructs)
  BY <1>1, <1>2, LaterParams DEF Extends
<1> QED
  BY <1>5, <1>6, <1>7 DEF Walked, o2

\* Where the walk is, seen from what is open.
LEMMA InFunctionWalked ==
  ASSUME Walked(r, open, allow)
  PROVE  InFunction <=> HasFunction(open)
BY InFunctionOpen DEF InFunction, Walked, Core, WellFormed

\* Errors and a binding: def, for and load.
LEMMA BindAfterErrors ==
  ASSUME NEW q, Core(q), NEW what \in SUBSET Errors, NEW x \in Name, NEW again \in BOOLEAN
  PROVE  Steps(q, Bind(Errorf(q, what), x, again)) /\ what \subseteq Bind(Errorf(q, what), x, again).errors
<1>1. Steps(q, Errorf(q, what)) /\ Errorf(q, what).errors = q.errors \cup what
  BY ErrorfSteps
<1>2. Steps(Errorf(q, what), Bind(Errorf(q, what), x, again))
  BY <1>1, BindSteps DEF Steps
<1>3. what \subseteq Bind(Errorf(q, what), x, again).errors
  BY <1>1, <1>2 DEF Steps, Later
<1> QED
  BY <1>1, <1>2, <1>3, StepsTransitive

\* The first block is the module's.
LEMMA StartWalked ==
  ASSUME NEW a
  PROVE  Walked(NewResolver, <<>>, a)
<1> DEFINE q == NewResolver
           B == NewBlock(0, "module", <<>>)
<1>1. /\ q.env = 1 /\ q.blocks = <<B>> /\ q.ids = <<>> /\ q.globals = [x \in Name |-> 0] /\ q.moduleGlobals = <<>>
      /\ q.loops = 0 /\ q.errors = {}
      /\ DOMAIN q.blocks = {1} /\ q.blocks[1] = B /\ DOMAIN q.ids = {}
  BY DEF NewResolver, Module
<1>2. /\ B.parent = 0 /\ B.kind = "module" /\ B.params = <<>> /\ B.uses = <<>> /\ B.freevars = <<>>
      /\ \A x \in Name : B.bindings[x] = NoBinding
  BY DEF NewBlock
<1>3. B \in BlockType
  <2>1. [x \in Name |-> NoBinding] \in [Name -> Bindings]
    BY DEF NoBinding, Bindings, Scopes
  <2>2. <<>> \in Seq(Nat) /\ <<>> \in Seq(FreeVars) /\ <<>> \in Seq(Param)
    OBVIOUS
  <2> QED
    BY <2>1, <2>2 DEF NewBlock, BlockType
<1>4. q \in Resolvers
  <2>1. <<B>> \in Seq(BlockType) /\ <<>> \in Seq(IdType) /\ <<>> \in Seq(Nat) /\ {} \in SUBSET Errors
    BY <1>3
  <2>2. NewResolver = [env |-> 1, blocks |-> <<B>>, ids |-> <<>>, globals |-> [x \in Name |-> 0],
                       moduleGlobals |-> <<>>, loops |-> 0, errors |-> {}]
    BY DEF NewResolver, Module
  <2> HIDE DEF B
  <2> QED
    BY <2>1, <2>2 DEF Resolvers
<1> HIDE DEF q, B
<1>5. Tree(q.blocks)
  <2>1. q.blocks \in Seq(BlockType)
    BY <1>4 DEF Resolvers
  <2> QED
    BY <1>1, <1>2, <2>1 DEF Tree, Module
<1>6. WellFormed(q)
  BY <1>1, <1>4, <1>5 DEF WellFormed
<1>7. LocalsBound(q) /\ GlobalsBound(q) /\ TopLevel(q)
  BY <1>1, <1>2 DEF LocalsBound, BoundAt, Declares, GlobalsBound, TopLevel, Module
<1>8. UsesKept(q)
  <2>1. \A c : IdsOf(q, c) = {}
    BY <1>1 DEF IdsOf
  <2>2. \A c : Waiting(q, c) /\ Settled(q, c)
    BY <2>1 DEF Waiting, Settled
  <2>3. ToSet(q.blocks[1].uses) = {}
    BY <1>1, <1>2 DEF ToSet
  <2> QED
    BY <1>1, <1>2, <2>1, <2>2, <2>3 DEF UsesKept
<1>9. ParamsPlaced(q)
  <2>1. Placed(q, 1, 0) /\ Ordered(<<>>)
    BY <1>1, <1>2 DEF Placed, Ordered
  <2> QED
    BY <1>1, <1>2, <2>1 DEF ParamsPlaced
<1>10. Nested(q.blocks, q.env, <<>>)
  <2> DEFINE e == [i \in 0..0 |-> 1]
  <2>1. e \in [0..Len(<<>>) -> DOMAIN q.blocks] /\ e[0] = 1
    BY <1>1
  <2>2. 1..Len(<<>>) = {} /\ Len(<<>>) = 0
    OBVIOUS
  <2> HIDE DEF e
  <2>3. Path(q.blocks, q.env, <<>>, e)
    BY <1>1, <2>1, <2>2 DEF Path, Module
  <2> QED
    BY <2>1, <2>3 DEF Nested
<1>11. LoopsOpen(q, <<>>, a)
  <2>1. Fors(<<>>) = {} /\ ForsNested(<<>>) /\ DefsFlat(<<>>)
    BY DEF Fors, ForsNested, DefsFlat
  <2> QED
    BY <1>1, <2>1, FS_EmptySet DEF LoopsOpen
<1>12. <<>> \in Seq(Constructs)
  OBVIOUS
<1> QED
  BY <1>6, <1>7, <1>8, <1>9, <1>10, <1>11, <1>12 DEF Walked, Core, q

\* for clauses open a block without parameters.
LEMMA EnterCompKeeps ==
  ASSUME NEW q, Core(q), ParamsPlaced(q), NEW x \in Name
  PROVE  LET q3 == Bind(PushBlock(q, "comp", <<>>), x, FALSE)
         IN  /\ Core(q3) /\ ParamsPlaced(q3) /\ Later(q, q3) /\ q3.loops = q.loops
             /\ q3.env \in DOMAIN q3.blocks /\ q3.env # Module
             /\ q3.blocks[q3.env].parent = q.env /\ q3.blocks[q3.env].kind = "comp"
<1> DEFINE q1 == PushBlock(q, "comp", <<>>)
           f  == Len(q.blocks) + 1
           q3 == Bind(q1, x, FALSE)
<1>0. <<>> \in Seq(Param) /\ WellFormed(q)
  BY DEF Core
<1>1. Pushes(q, q1, "comp", <<>>)
  BY <1>0, PushIs
<1>2. Core(q1) /\ Later(q, q1)
  BY <1>0, <1>1, PushKeeps
<1>3. /\ q1.env = f /\ DOMAIN q1.blocks = DOMAIN q.blocks \cup {f} /\ f \notin DOMAIN q.blocks
      /\ q1.blocks[f].parent = q.env /\ q1.blocks[f].kind = "comp" /\ q1.blocks[f].params = <<>>
      /\ q1.loops = q.loops /\ q1.errors = q.errors
  BY <1>1 DEF Pushes, NewBlock
<1>4. Module \in DOMAIN q.blocks
  BY DEF Core, WellFormed, Tree
<1> HIDE DEF q1, f
<1>5. Steps(q1, q3)
  BY <1>2, BindSteps
<1> HIDE DEF q3
<1>6. ParamsPlaced(q1)
  <2> SUFFICES ASSUME q1.errors = {}, NEW b \in DOMAIN q1.blocks
               PROVE  Placed(q1, b, Len(q1.blocks[b].params)) /\ Ordered(q1.blocks[b].params)
    BY DEF ParamsPlaced
  <2>1. CASE b = f
    BY <1>3, <2>1 DEF Placed, Ordered
  <2>2. CASE b \in DOMAIN q.blocks
    <3>1. Placed(q, b, Len(q.blocks[b].params)) /\ Ordered(q.blocks[b].params)
      BY <1>3, <2>2 DEF ParamsPlaced
    <3>2. q1.blocks[b].params = q.blocks[b].params
      BY <1>2, <2>2 DEF Later
    <3> QED
      BY <1>2, <2>2, <3>1, <3>2, LaterPlaced
  <2> QED
    BY <1>3, <2>1, <2>2
<1>7. ParamsPlaced(q3) /\ Later(q, q3)
  BY <1>2, <1>5, <1>6, LaterParams, LaterTransitive DEF Steps
<1>8. /\ Core(q3) /\ q3.loops = q.loops /\ q3.env = f /\ f \in DOMAIN q3.blocks
      /\ q3.blocks[f].parent = q.env /\ q3.blocks[f].kind = "comp"
  BY <1>3, <1>5 DEF Steps, Later
<1>9. f # Module
  BY <1>3, <1>4
<1> QED
  BY <1>7, <1>8, <1>9 DEF q1, q3

\* The count of loops is set.
LEMMA LoopsSet ==
  ASSUME NEW q \in Resolvers
  PROVE  /\ [q EXCEPT !.loops = @ + 1] \in Resolvers /\ [q EXCEPT !.loops = @ - 1] \in Resolvers
         /\ \A s \in {[q EXCEPT !.loops = @ + 1], [q EXCEPT !.loops = @ - 1]} :
              /\ s.env = q.env /\ s.blocks = q.blocks /\ s.ids = q.ids /\ s.globals = q.globals
              /\ s.moduleGlobals = q.moduleGlobals /\ s.errors = q.errors
         /\ [q EXCEPT !.loops = @ + 1].loops = q.loops + 1 /\ [q EXCEPT !.loops = @ - 1].loops = q.loops - 1
<1>1. q.loops \in Int
  BY DEF Resolvers
<1>2. ASSUME NEW n \in Int
      PROVE  /\ [q EXCEPT !.loops = n] \in Resolvers /\ [q EXCEPT !.loops = n].env = q.env
             /\ [q EXCEPT !.loops = n].blocks = q.blocks /\ [q EXCEPT !.loops = n].ids = q.ids
             /\ [q EXCEPT !.loops = n].globals = q.globals /\ [q EXCEPT !.loops = n].loops = n
             /\ [q EXCEPT !.loops = n].moduleGlobals = q.moduleGlobals /\ [q EXCEPT !.loops = n].errors = q.errors
  BY DEF Resolvers
<1>3. q.loops + 1 \in Int /\ q.loops - 1 \in Int
  BY <1>1
<1> QED
  BY <1>2, <1>3

\* Every step of the walk keeps its invariant, and adds to what is there.
LEMMA WalkKeeps ==
  ASSUME Walked(r, open, allow), ~done, ResolverNext, ~Finish
  PROVE  Walked(r', open', allow') /\ Later(r, r') /\ done' = done /\ allow' = allow
<1>1. /\ Core(r) /\ ParamsPlaced(r) /\ open \in Seq(Constructs) /\ Nested(r.blocks, r.env, open) /\ Tree(r.blocks)
  BY DEF Walked, Core, WellFormed
<1>2. InFunction <=> HasFunction(open)
  BY InFunctionWalked
<1>3. open # <<>> => \E outer \in DOMAIN r.blocks : Opens(r.blocks, Last(open), outer, r.env)
  BY <1>1, NestedFront
<1>4. ASSUME Steps(r, r'), UNCHANGED <<open, allow>> PROVE Walked(r', open', allow') /\ Later(r, r')
  BY <1>4, WalkedSteps DEF Steps
<1>5. \A what \in SUBSET Errors : Steps(r, Errorf(r, what)) /\ Errorf(r, what).errors = r.errors \cup what
  BY <1>1, ErrorfSteps
<1>6. NotInFunction \in SUBSET Errors
  BY DEF NotInFunction, Errors
<1>7. ASSUME NEW x \in Name, Ident(x) PROVE Steps(r, r') /\ UNCHANGED <<open, allow, done>>
  BY <1>1, <1>7, UseSteps DEF Ident
<1>8. ASSUME NEW x \in Name, NEW aug \in BOOLEAN, Assign(x, aug) PROVE Steps(r, r') /\ UNCHANGED <<open, allow, done>>
  BY <1>1, <1>8, BindSteps DEF Assign
<1>9. ASSUME IllFormed PROVE Steps(r, r') /\ UNCHANGED <<open, allow, done>>
  BY <1>5, <1>9 DEF IllFormed, Errors
<1>10. ASSUME NEW x \in Name, Def(x)
       PROVE  Walked(r', open', allow') /\ Later(r, r') /\ UNCHANGED <<allow, done>>
  <2> DEFINE what == IF InFunction /\ "nestedDef" \notin allow THEN {"nested def"} ELSE {}
  <2>1. what \in SUBSET Errors
    BY DEF Errors
  <2>2. r' = Bind(Errorf(r, what), x, FALSE) /\ open' = Append(open, "def") /\ UNCHANGED <<allow, done>>
    BY <1>10 DEF Def
  <2> HIDE DEF what
  <2>3. Steps(r, r') /\ what \subseteq r'.errors
    BY <1>1, <2>1, <2>2, BindAfterErrors
  <2>4. Walked(r', open, allow)
    BY <2>3, WalkedSteps
  <2>5. Core(r') /\ ParamsPlaced(r') /\ Later(r, r') /\ r'.env = r.env /\ r'.loops = r.loops
    BY <2>3, <2>4 DEF Steps, Walked
  <2>6. r'.loops \in Int
    BY <2>5 DEF Core, WellFormed, Resolvers
  <2>7. r'.errors = {} /\ "nestedDef" \notin allow => ~HasFunction(open)
    BY <1>2, <2>3 DEF what
  <2>8. Opens(r'.blocks, "def", r.env, r'.env) /\ r'.loops = r.loops + 0
    BY <2>5, <2>6 DEF Opens
  <2>9. Walked(r', Append(open, "def"), allow)
    BY <2>5, <2>7, <2>8, WalkedOpens DEF Constructs
  <2> QED
    BY <2>2, <2>5, <2>9
<1>11. ASSUME Lambda
       PROVE  Walked(r', open', allow') /\ Later(r, r') /\ UNCHANGED <<allow, done>>
  <2> DEFINE what == IF "lambda" \in allow THEN {} ELSE {"lambda"}
  <2>1. what \in SUBSET Errors
    BY DEF Errors
  <2>2. r' = Errorf(r, what) /\ open' = Append(open, "lambda header") /\ UNCHANGED <<allow, done>>
    BY <1>11 DEF Lambda
  <2> HIDE DEF what
  <2>3. Steps(r, r')
    BY <1>5, <2>1, <2>2
  <2>4. Walked(r', open, allow)
    BY <2>3, WalkedSteps
  <2>5. Core(r') /\ ParamsPlaced(r') /\ Later(r, r') /\ r'.env = r.env /\ r'.loops = r.loops
    BY <2>3, <2>4 DEF Steps, Walked
  <2>6. r'.loops \in Int
    BY <2>5 DEF Core, WellFormed, Resolvers
  <2>7. Opens(r'.blocks, "lambda header", r.env, r'.env) /\ r'.loops = r.loops + 0
    BY <2>5, <2>6 DEF Opens
  <2>8. Walked(r', Append(open, "lambda header"), allow)
    BY <2>5, <2>7, WalkedOpens DEF Constructs
  <2> QED
    BY <2>2, <2>5, <2>8
<1>12. ASSUME NEW ps \in Signatures, EnterFunction(ps)
       PROVE  Walked(r', open', allow') /\ Later(r, r') /\ UNCHANGED <<allow, done>>
  <2> DEFINE kind  == IF Last(open) = "def" THEN "function" ELSE "lambda"
             outer == Front(open)
  <2>1. /\ r' = BindParams(PushBlock(r, "function", ps), ps) /\ open' = Append(outer, kind)
        /\ UNCHANGED <<allow, done>> /\ open # <<>> /\ Last(open) \in {"def", "lambda header"}
    BY <1>12 DEF EnterFunction, Inside
  <2>2. ps \in Seq(Param)
    BY ResolverAssumption
  <2>3. /\ Core(r') /\ ParamsPlaced(r') /\ Later(r, r') /\ r'.loops = r.loops
        /\ r'.env \in DOMAIN r'.blocks /\ r'.env # Module
        /\ r'.blocks[r'.env].parent = r.env /\ r'.blocks[r'.env].kind = "function"
    BY <1>1, <2>1, <2>2, EnterFunctionKeeps
  <2>4. r.loops \in Int
    BY <1>1 DEF Core, WellFormed, Resolvers
  <2>5. Walked(r, outer, allow)
    <3>1. Last(open) \notin {"function", "lambda", "comp"} /\ Last(open) # "for"
      BY <2>1
    <3>2. Opens(r.blocks, Last(open), r.env, r.env)
      BY <3>1 DEF Opens
    <3>3. r.loops = r.loops - (IF Last(open) = "for" THEN 1 ELSE 0)
      BY <2>4, <3>1
    <3> QED
      BY <1>1, <2>1, <3>2, <3>3, LaterReflexive, WalkedCloses
  <2>6. r'.errors = {} /\ "nestedDef" \notin allow => (kind \in {"def", "function"} => ~HasFunction(outer))
    <3> SUFFICES ASSUME r'.errors = {}, "nestedDef" \notin allow, kind \in {"def", "function"}
                 PROVE  ~HasFunction(outer)
      OBVIOUS
    <3>1. r.errors = {}
      BY <2>3 DEF Later
    <3>2. DefsFlat(open)
      BY <3>1 DEF Walked, LoopsOpen
    <3>3. Last(open) = "def"
      OBVIOUS
    <3>4. Extends(outer, open, Last(open))
      BY <1>1, <2>1, FrontExtends
    <3> HIDE DEF outer
    <3> QED
      BY <3>2, <3>3, <3>4, ExtendsOpen
  <2>7. kind \in Functional /\ kind \in Constructs /\ kind # "for"
    BY DEF Functional, Constructs
  <2>8. Opens(r'.blocks, kind, r.env, r'.env) /\ r'.loops = r.loops + (IF kind = "for" THEN 1 ELSE 0)
    BY <2>3, <2>4, <2>7 DEF Opens, Functional
  <2> HIDE DEF kind, outer
  <2>9. Walked(r', Append(outer, kind), allow)
    BY <2>3, <2>5, <2>6, <2>7, <2>8, WalkedOpens
  <2> QED
    BY <2>1, <2>3, <2>9
<1>13. ASSUME LeaveFunction
       PROVE  Walked(r', open', allow') /\ Later(r, r') /\ UNCHANGED <<allow, done>>
  <2>1. /\ r' = PopBlock(ResolveLocalUses(r, r.env)) /\ open' = Front(open)
        /\ UNCHANGED <<allow, done>> /\ open # <<>> /\ Last(open) \in Functional
    BY <1>13 DEF LeaveFunction, Inside, Functional
  <2>2. PICK outer \in DOMAIN r.blocks : Opens(r.blocks, Last(open), outer, r.env)
    BY <1>3, <2>1
  <2>3. r.env # Module /\ r.blocks[r.env].parent = outer /\ r.blocks[r.env].kind = "function"
    BY <2>1, <2>2 DEF Opens, Functional
  <2>4. /\ Core(r') /\ Later(r, r') /\ DOMAIN r'.blocks = DOMAIN r.blocks /\ r'.loops = r.loops
        /\ r'.env = outer
    BY <1>1, <2>1, <2>3, LeaveFunctionKeeps
  <2>5. r'.loops = r.loops - (IF Last(open) = "for" THEN 1 ELSE 0)
    <3>1. r.loops \in Int
      BY <1>1 DEF Core, WellFormed, Resolvers
    <3> QED
      BY <2>1, <2>4, <3>1 DEF Functional
  <2>6. Walked(r', Front(open), allow)
    BY <2>1, <2>2, <2>4, <2>5, WalkedCloses
  <2> QED
    BY <2>1, <2>4, <2>6
<1>14. ASSUME NEW x \in Name, EnterComprehension(x)
       PROVE  Walked(r', open', allow') /\ Later(r, r') /\ UNCHANGED <<allow, done>>
  <2>1. /\ r' = Bind(PushBlock(r, "comp", <<>>), x, FALSE) /\ open' = Append(open, "comp") /\ UNCHANGED <<allow, done>>
    BY <1>14 DEF EnterComprehension
  <2>2. /\ Core(r') /\ ParamsPlaced(r') /\ Later(r, r') /\ r'.loops = r.loops
        /\ r'.env \in DOMAIN r'.blocks /\ r'.env # Module
        /\ r'.blocks[r'.env].parent = r.env /\ r'.blocks[r'.env].kind = "comp"
    BY <1>1, <2>1, EnterCompKeeps
  <2>3. Opens(r'.blocks, "comp", r.env, r'.env) /\ r'.loops = r.loops + 0
    <3>1. r.loops \in Int
      BY <1>1 DEF Core, WellFormed, Resolvers
    <3> QED
      BY <2>2, <3>1 DEF Opens
  <2>4. Walked(r', Append(open, "comp"), allow)
    BY <2>2, <2>3, WalkedOpens DEF Constructs
  <2> QED
    BY <2>1, <2>2, <2>4
<1>15. ASSUME NEW x \in Name, ForClause(x) PROVE Steps(r, r') /\ UNCHANGED <<open, allow, done>>
  BY <1>1, <1>15, BindSteps DEF ForClause
<1>16. ASSUME LeaveComprehension
       PROVE  Walked(r', open', allow') /\ Later(r, r') /\ UNCHANGED <<allow, done>>
  <2>1. /\ r' = PopBlock(r) /\ open' = Front(open) /\ UNCHANGED <<allow, done>> /\ open # <<>> /\ Last(open) = "comp"
    BY <1>16 DEF LeaveComprehension, Inside
  <2>2. PICK outer \in DOMAIN r.blocks : Opens(r.blocks, Last(open), outer, r.env)
    BY <1>3, <2>1
  <2>3. r.env # Module /\ r.blocks[r.env].parent = outer /\ r.blocks[r.env].kind = "comp"
    BY <2>1, <2>2 DEF Opens
  <2>4. Core(r') /\ Later(r, r')
    BY <1>1, <2>1, <2>3, LeaveCompKeeps
  <2>5. r'.blocks = r.blocks /\ r'.env = outer /\ r'.loops = r.loops
    BY <1>1, <2>1, <2>3, PopIs DEF Core
  <2>6. r'.loops = r.loops - (IF Last(open) = "for" THEN 1 ELSE 0)
    <3>1. r.loops \in Int
      BY <1>1 DEF Core, WellFormed, Resolvers
    <3> QED
      BY <2>1, <2>5, <3>1
  <2>7. Walked(r', Front(open), allow)
    BY <2>1, <2>2, <2>4, <2>5, <2>6, WalkedCloses
  <2> QED
    BY <2>1, <2>4, <2>7
<1>17. ASSUME NEW x \in Name, EnterFor(x)
       PROVE  Walked(r', open', allow') /\ Later(r, r') /\ UNCHANGED <<allow, done>>
  <2> DEFINE q == Bind(Errorf(r, NotInFunction), x, FALSE)
  <2>1. r' = [q EXCEPT !.loops = @ + 1] /\ open' = Append(open, "for") /\ UNCHANGED <<allow, done>>
    BY <1>17 DEF EnterFor
  <2>2. Steps(r, q) /\ NotInFunction \subseteq q.errors
    BY <1>1, <1>6, BindAfterErrors
  <2> HIDE DEF q
  <2>3. Walked(q, open, allow)
    BY <2>2, WalkedSteps
  <2>4. Core(q) /\ ParamsPlaced(q) /\ q \in Resolvers /\ Later(r, q) /\ q.env = r.env /\ q.loops = r.loops
    BY <2>2, <2>3 DEF Steps, Walked, Core, WellFormed
  <2>5. /\ r' \in Resolvers /\ r'.env = q.env /\ r'.blocks = q.blocks /\ r'.ids = q.ids /\ r'.globals = q.globals
        /\ r'.moduleGlobals = q.moduleGlobals /\ r'.errors = q.errors /\ r'.loops = q.loops + 1
    BY <2>1, <2>4, LoopsSet
  <2>6. Core(r') /\ Later(q, r')
    BY <2>4, <2>5, CoreReads
  <2>7. ParamsPlaced(r') /\ Later(r, r')
    BY <2>4, <2>5, <2>6, LaterParams, LaterTransitive
  <2>8. r'.errors = {} => HasFunction(open)
    BY <1>2, <2>2, <2>5 DEF NotInFunction
  <2>9. Opens(r'.blocks, "for", r.env, r'.env) /\ r'.loops = r.loops + 1
    BY <2>4, <2>5 DEF Opens
  <2>10. Walked(r', Append(open, "for"), allow)
    BY <2>6, <2>7, <2>8, <2>9, WalkedOpens DEF Constructs
  <2> QED
    BY <2>1, <2>7, <2>10
<1>18. ASSUME LeaveFor
       PROVE  Walked(r', open', allow') /\ Later(r, r') /\ UNCHANGED <<allow, done>>
  <2>1. /\ r' = [r EXCEPT !.loops = @ - 1] /\ open' = Front(open) /\ UNCHANGED <<allow, done>>
        /\ open # <<>> /\ Last(open) = "for"
    BY <1>18 DEF LeaveFor, Inside
  <2>2. /\ r' \in Resolvers /\ r'.env = r.env /\ r'.blocks = r.blocks /\ r'.ids = r.ids /\ r'.globals = r.globals
        /\ r'.moduleGlobals = r.moduleGlobals /\ r'.errors = r.errors /\ r'.loops = r.loops - 1
    <3>1. r \in Resolvers
      BY <1>1 DEF Core, WellFormed
    <3> QED
      BY <2>1, <3>1, LoopsSet
  <2>3. Core(r') /\ Later(r, r')
    BY <1>1, <2>2, CoreReads
  <2>4. Opens(r.blocks, Last(open), r'.env, r.env) /\ r'.loops = r.loops - (IF Last(open) = "for" THEN 1 ELSE 0)
    BY <2>1, <2>2 DEF Opens
  <2>5. Walked(r', Front(open), allow)
    BY <2>1, <2>2, <2>3, <2>4, WalkedCloses
  <2> QED
    BY <2>1, <2>3, <2>5
<1>19. ASSUME Branch PROVE Steps(r, r') /\ UNCHANGED <<open, allow, done>>
  <2> DEFINE what == IF r.loops = 0 THEN {"not in a loop"} ELSE {}
  <2>1. what \in SUBSET Errors
    BY DEF Errors
  <2>2. r' = Errorf(r, what) /\ UNCHANGED <<open, allow, done>>
    BY <1>19 DEF Branch
  <2> HIDE DEF what
  <2> QED
    BY <1>5, <2>1, <2>2
<1>20. ASSUME IfOrReturn PROVE Steps(r, r') /\ UNCHANGED <<open, allow, done>>
  BY <1>5, <1>6, <1>20 DEF IfOrReturn
<1>21. ASSUME NEW x \in Name, NEW from, Load(x, from) PROVE Steps(r, r') /\ UNCHANGED <<open, allow, done>>
  <2> DEFINE what == (IF InFunction THEN {"load within a function"} ELSE {}) \cup
                     (IF from = "fine" THEN {} ELSE {"load of a bad name"})
  <2>1. what \in SUBSET Errors
    BY DEF Errors
  <2>2. /\ r' = IF from = "empty" THEN Errorf(r, what) ELSE Bind(Errorf(r, what), x, FALSE)
        /\ UNCHANGED <<open, allow, done>>
    BY <1>21 DEF Load
  <2> HIDE DEF what
  <2>3. Steps(r, Errorf(r, what)) /\ Steps(r, Bind(Errorf(r, what), x, FALSE))
    BY <1>1, <1>5, <2>1, BindAfterErrors
  <2> QED
    BY <2>2, <2>3
<1> QED
  BY <1>4, <1>7, <1>8, <1>9, <1>10, <1>11, <1>12, <1>13, <1>14, <1>15, <1>16, <1>17, <1>18, <1>19, <1>20, <1>21
  DEF ResolverNext

(***************************************************************************)
(* The end of the module.  p is the resolver when its local uses are       *)
(* resolved, q what the loop over the pending uses has made of it.         *)
(***************************************************************************)

\* What the loop leaves alone.
Fixed(p, q) ==
  /\ q \in Resolvers /\ q.env = p.env /\ q.globals = p.globals /\ q.moduleGlobals = p.moduleGlobals
  /\ q.loops = p.loops /\ p.errors \subseteq q.errors
  /\ DOMAIN q.ids = DOMAIN p.ids /\ DOMAIN q.blocks = DOMAIN p.blocks
  /\ \A i \in DOMAIN p.ids :
       q.ids[i].name = p.ids[i].name /\ q.ids[i].env = p.ids[i].env /\ q.ids[i].binds = p.ids[i].binds
  /\ \A b \in DOMAIN p.blocks :
       /\ q.blocks[b].parent = p.blocks[b].parent /\ q.blocks[b].kind = p.blocks[b].kind
       /\ q.blocks[b].params = p.blocks[b].params /\ q.blocks[b].locals = p.blocks[b].locals

\* v leads from block b to the variable x denotes there: to a global or what is outside the
\* module, to a local of the same frame, or to the free variable of that name.
Reach(p, q, b, x, v) ==
  LET h == HomeOf(p, b, x)
      c == Container(p.blocks, b)
  IN  IF h = Module THEN v = UseGlobal(p, x)
      ELSE IF Container(p.blocks, h) = c THEN v = p.blocks[h].bindings[x]
      ELSE /\ v.scope = "free" /\ v.index \in DOMAIN q.blocks[c].freevars
           /\ q.blocks[c].freevars[v.index].name = x

\* An occurrence of x in block f or below it denotes the same as one in f would.
Needed(p, f, x) ==
  \E i \in DOMAIN p.ids : /\ p.ids[i].name = x /\ f \in Ancestors(p.blocks, p.ids[i].env)
                          /\ HomeOf(p, p.ids[i].env, x) = HomeOf(p, f, x)

\* The k-th free variable of block f: it is needed, it is the binding of its name there, and
\* the maker of the function finds in its own frame what it stands for.
Captures(p, q, f, k) ==
  LET fv == q.blocks[f].freevars[k]
      x  == fv.name
  IN  /\ p.blocks[f].kind = "function" /\ x \in Name /\ ~Declares(p, f, x) /\ HomeOf(p, f, x) # Module
      /\ q.blocks[f].bindings[x] = [scope |-> "free", index |-> k]
      /\ Reach(p, q, p.blocks[f].parent, x, [scope |-> fv.scope, index |-> fv.index])
      /\ Needed(p, f, x)

Linked(p, q) ==
  /\ Fixed(p, q)
  /\ \A b \in DOMAIN p.blocks, x \in Name :
       /\ p.blocks[b].bindings[x] # NoBinding => q.blocks[b].bindings[x] = p.blocks[b].bindings[x]
       /\ q.blocks[b].bindings[x] # NoBinding => b # Module /\ Reach(p, q, b, x, q.blocks[b].bindings[x])
  /\ \A f \in DOMAIN p.blocks : \A k \in DOMAIN q.blocks[f].freevars : Captures(p, q, f, k)

\* The loop only adds bindings and free variables.
Adds(q, q2) ==
  \A b \in DOMAIN q.blocks :
    /\ \A x \in Name : q.blocks[b].bindings[x] # NoBinding => q2.blocks[b].bindings[x] = q.blocks[b].bindings[x]
    /\ DOMAIN q.blocks[b].freevars \subseteq DOMAIN q2.blocks[b].freevars
    /\ \A k \in DOMAIN q.blocks[b].freevars : q2.blocks[b].freevars[k] = q.blocks[b].freevars[k]

\* What the walk leaves for the loop.
Ready(p) ==
  /\ WellFormed(p) /\ LocalsBound(p) /\ GlobalsBound(p) /\ TopLevel(p)
  /\ \A c \in DOMAIN p.blocks :
       Settled(p, c) /\ ToSet(p.blocks[c].uses) \subseteq IdsOf(p, c) /\ p.blocks[c].freevars = <<>>

\* What is added does not change where an address leads.
LEMMA AddsReach ==
  ASSUME NEW p, NEW q, NEW q2, Fixed(p, q), Adds(q, q2), Tree(p.blocks), NEW b \in DOMAIN p.blocks, NEW x, NEW v,
         Reach(p, q, b, x, v)
  PROVE  Reach(p, q2, b, x, v)
<1>1. Container(p.blocks, b) \in DOMAIN q.blocks
  BY ContainerIs DEF Fixed
<1>2. /\ DOMAIN q.blocks[Container(p.blocks, b)].freevars \subseteq DOMAIN q2.blocks[Container(p.blocks, b)].freevars
      /\ \A k \in DOMAIN q.blocks[Container(p.blocks, b)].freevars :
           q2.blocks[Container(p.blocks, b)].freevars[k] = q.blocks[Container(p.blocks, b)].freevars[k]
  BY <1>1 DEF Adds
<1> QED
  BY <1>2 DEF Reach

\* Additions one after the other.
LEMMA AddsTransitive ==
  ASSUME NEW q1, NEW q2, NEW q3, Adds(q1, q2), Adds(q2, q3), DOMAIN q2.blocks = DOMAIN q1.blocks
  PROVE  Adds(q1, q3)
<1> SUFFICES ASSUME NEW b \in DOMAIN q1.blocks
             PROVE  /\ \A x \in Name : q1.blocks[b].bindings[x] # NoBinding =>
                                         q3.blocks[b].bindings[x] = q1.blocks[b].bindings[x]
                    /\ DOMAIN q1.blocks[b].freevars \subseteq DOMAIN q3.blocks[b].freevars
                    /\ \A k \in DOMAIN q1.blocks[b].freevars : q3.blocks[b].freevars[k] = q1.blocks[b].freevars[k]
  BY DEF Adds
<1>1. /\ \A x \in Name : q1.blocks[b].bindings[x] # NoBinding => q2.blocks[b].bindings[x] = q1.blocks[b].bindings[x]
      /\ DOMAIN q1.blocks[b].freevars \subseteq DOMAIN q2.blocks[b].freevars
      /\ \A k \in DOMAIN q1.blocks[b].freevars : q2.blocks[b].freevars[k] = q1.blocks[b].freevars[k]
  BY DEF Adds
<1>2. /\ \A x \in Name : q2.blocks[b].bindings[x] # NoBinding => q3.blocks[b].bindings[x] = q2.blocks[b].bindings[x]
      /\ DOMAIN q2.blocks[b].freevars \subseteq DOMAIN q3.blocks[b].freevars
      /\ \A k \in DOMAIN q2.blocks[b].freevars : q3.blocks[b].freevars[k] = q2.blocks[b].freevars[k]
  BY DEF Adds
<1> QED
  BY <1>1, <1>2

\* What is bound in a block is declared in it, and the other way round.
LEMMA BoundDeclares ==
  ASSUME NEW p, LocalsBound(p), NEW b \in DOMAIN p.blocks, b # Module, NEW x \in Name
  PROVE  /\ p.blocks[b].bindings[x] # NoBinding <=> Declares(p, b, x)
         /\ Declares(p, b, x) => p.blocks[b].bindings[x].scope = "local"
<1>1. BoundAt(p, b, x) /\ (Declares(p, b, x) => p.blocks[b].bindings[x] # NoBinding)
  BY DEF LocalsBound
<1>2. ASSUME p.blocks[b].bindings[x] # NoBinding PROVE Declares(p, b, x) /\ p.blocks[b].bindings[x].scope = "local"
  BY <1>1, <1>2 DEF BoundAt, Declares
<1> QED
  BY <1>1, <1>2

\* At the start nothing is captured, and what is bound is the local of its own block.
LEMMA ReadyLinked ==
  ASSUME NEW p, Ready(p)
  PROVE  Linked(p, p)
<1>1. WellFormed(p) /\ LocalsBound(p) /\ Tree(p.blocks) /\ \A c \in DOMAIN p.blocks : p.blocks[c].freevars = <<>>
  BY DEF Ready, WellFormed
<1>2. Fixed(p, p)
  BY <1>1 DEF Fixed, WellFormed
<1>3. ASSUME NEW b \in DOMAIN p.blocks, NEW x \in Name, p.blocks[b].bindings[x] # NoBinding
      PROVE  b # Module /\ Reach(p, p, b, x, p.blocks[b].bindings[x])
  <2>1. b # Module
    BY <1>1, <1>3 DEF LocalsBound
  <2>2. Declares(p, b, x)
    BY <1>1, <1>3, <2>1, BoundDeclares
  <2>3. HomeOf(p, b, x) = b
    BY <1>1, <2>1, <2>2, HomeOfIs
  <2> QED
    BY <2>1, <2>3 DEF Reach
<1>4. \A f \in DOMAIN p.blocks : DOMAIN p.blocks[f].freevars = {}
  BY <1>1
<1> QED
  BY <1>2, <1>3, <1>4 DEF Linked

\* One block of the way back.
Memoizes(s, b, x, t) ==
  LET f == s.q.blocks[b].freevars
      captured == s.q.blocks[b].kind = "function" /\ s.bind.scope \in {"local", "free"}
  IN  /\ t.q \in Resolvers /\ t.bind \in Bindings
      /\ t.q.env = s.q.env /\ t.q.ids = s.q.ids /\ t.q.globals = s.q.globals
      /\ t.q.moduleGlobals = s.q.moduleGlobals /\ t.q.loops = s.q.loops /\ t.q.errors = s.q.errors
      /\ DOMAIN t.q.blocks = DOMAIN s.q.blocks
      /\ \A c \in DOMAIN s.q.blocks \ {b} : t.q.blocks[c] = s.q.blocks[c]
      /\ LET v == t.q.blocks[b]
             w == s.q.blocks[b]
         IN  /\ v.parent = w.parent /\ v.kind = w.kind /\ v.params = w.params /\ v.locals = w.locals /\ v.uses = w.uses
             /\ \A y \in Name : v.bindings[y] = IF y = x THEN t.bind ELSE w.bindings[y]
             /\ v.freevars = IF captured
                             THEN Append(f, [name |-> x, scope |-> s.bind.scope, index |-> s.bind.index]) ELSE f
      /\ t.bind = IF captured THEN [scope |-> "free", index |-> Len(f) + 1] ELSE s.bind

\* memoization, as its fields.
LEMMA MemoizeIs ==
  ASSUME NEW s, s.q \in Resolvers, s.bind \in Bindings, NEW b \in DOMAIN s.q.blocks, NEW x \in Name
  PROVE  Memoizes(s, b, x, Memoize(s, b, x)) /\ Memoize(s, b, x) = [q |-> Memoize(s, b, x).q, bind |-> Memoize(s, b, x).bind]
<1> DEFINE q  == s.q
           w  == q.blocks[b]
           f  == w.freevars
           captured == w.kind = "function" /\ s.bind.scope \in {"local", "free"}
           fv   == [name |-> x, scope |-> s.bind.scope, index |-> s.bind.index]
           bind == IF captured THEN [scope |-> "free", index |-> Len(f) + 1] ELSE s.bind
           fs   == IF captured THEN Append(f, fv) ELSE f
           B    == [w.bindings EXCEPT ![x] = bind]
           v    == [w EXCEPT !.freevars = fs, !.bindings = B]
           q2   == [q EXCEPT !.blocks = [q.blocks EXCEPT ![b] = v]]
<1>2. q.blocks \in Seq(BlockType) /\ w \in BlockType
  <2>1. q.blocks \in Seq(BlockType)
    BY DEF Resolvers
  <2> QED
    BY <2>1, ElementOfSeq, LenProperties
<1>1. Memoize(s, b, x) = [q |-> q2, bind |-> bind]
  <2>1. Memoize(s, b, x) = [q |-> [q EXCEPT !.blocks[b] = [w EXCEPT !.freevars = fs, !.bindings[x] = bind]], bind |-> bind]
    BY DEF Memoize
  <2> HIDE DEF w, fs, bind
  <2>2. [w EXCEPT !.freevars = fs, !.bindings[x] = bind] = v
    BY <1>2 DEF BlockType
  <2> HIDE DEF v
  <2>3. [q EXCEPT !.blocks[b] = v] = q2
    BY DEF Resolvers
  <2> QED
    BY <2>1, <2>2, <2>3
<1>3. w.bindings \in [Name -> Bindings] /\ f \in Seq(FreeVars) /\ Len(f) \in Nat
  BY <1>2, BlockFields, LenProperties
<1>4. fv \in FreeVars /\ bind \in Bindings
  BY <1>3 DEF FreeVars, Bindings, Scopes
<1>5. fs \in Seq(FreeVars)
  BY <1>3, <1>4, AppendProperties
<1> HIDE DEF bind, fs
<1>6. B \in [Name -> Bindings] /\ \A y \in Name : B[y] = IF y = x THEN bind ELSE w.bindings[y]
  BY <1>3, <1>4
<1> HIDE DEF B
<1>7. /\ v \in BlockType /\ v.parent = w.parent /\ v.kind = w.kind /\ v.params = w.params /\ v.locals = w.locals
      /\ v.uses = w.uses /\ v.bindings = B /\ v.freevars = fs
  <2>1. v \in BlockType
    BY <1>2, <1>5, <1>6, BlockFields
  <2> HIDE DEF w
  <2> QED
    BY <1>2, <2>1 DEF BlockType
<1> HIDE DEF v
<1>8. /\ [q.blocks EXCEPT ![b] = v] \in Seq(BlockType) /\ DOMAIN [q.blocks EXCEPT ![b] = v] = DOMAIN q.blocks
      /\ [q.blocks EXCEPT ![b] = v][b] = v /\ \A c \in DOMAIN q.blocks \ {b} : [q.blocks EXCEPT ![b] = v][c] = q.blocks[c]
  BY <1>2, <1>7, ExceptSeq
<1>9. /\ q2 \in Resolvers /\ q2.env = q.env /\ q2.ids = q.ids /\ q2.globals = q.globals
      /\ q2.moduleGlobals = q.moduleGlobals /\ q2.loops = q.loops /\ q2.errors = q.errors
      /\ q2.blocks = [q.blocks EXCEPT ![b] = v]
  BY <1>8 DEF Resolvers
<1> HIDE DEF q2
<1> QED
  BY <1>1, <1>4, <1>6, <1>7, <1>8, <1>9 DEF Memoizes, bind, fs

\* What is captured stays.
LEMMA CapturesKept ==
  ASSUME NEW p, NEW q, NEW q2, Fixed(p, q), Adds(q, q2), Tree(p.blocks),
         NEW f \in DOMAIN p.blocks, NEW k \in DOMAIN q.blocks[f].freevars, Captures(p, q, f, k)
  PROVE  Captures(p, q2, f, k)
<1> DEFINE fv == q.blocks[f].freevars[k]
           x  == fv.name
           v  == [scope |-> fv.scope, index |-> fv.index]
<1>1. /\ p.blocks[f].kind = "function" /\ x \in Name /\ ~Declares(p, f, x) /\ HomeOf(p, f, x) # Module
      /\ q.blocks[f].bindings[x] = [scope |-> "free", index |-> k]
      /\ Reach(p, q, p.blocks[f].parent, x, v) /\ Needed(p, f, x)
  BY DEF Captures
<1>2. f \in DOMAIN q.blocks
  BY DEF Fixed
<1>3. q2.blocks[f].freevars[k] = fv
  BY <1>2 DEF Adds
<1>4. q2.blocks[f].bindings[x] = [scope |-> "free", index |-> k]
  <2>1. q.blocks[f].bindings[x] # NoBinding
    <3>1. [scope |-> "free", index |-> k].scope # NoBinding.scope
      BY DEF NoBinding
    <3> QED
      BY <1>1, <3>1
  <2> HIDE DEF fv, x, v
  <2> QED
    BY <1>1, <1>2, <2>1 DEF Adds
<1>5. f # Module /\ p.blocks[f].parent \in DOMAIN p.blocks
  <2>1. f # Module
    BY <1>1, TreeFacts
  <2> QED
    BY <2>1, TreeFacts
<1> HIDE DEF v, x, fv
<1>6. Reach(p, q2, p.blocks[f].parent, x, v)
  BY <1>1, <1>5, AddsReach
<1> QED
  BY <1>1, <1>3, <1>4, <1>6 DEF Captures, v, x, fv

\* One block of the way back: what is captured is needed, and once only.
LEMMA MemoizeKeeps ==
  ASSUME NEW p, Ready(p), NEW s, Linked(p, s.q), s.bind \in Bindings,
         NEW b \in DOMAIN p.blocks, b # Module, NEW x \in Name, s.q.blocks[b].bindings[x] = NoBinding,
         Reach(p, s.q, p.blocks[b].parent, x, s.bind), Needed(p, b, x), NEW t, Memoizes(s, b, x, t)
  PROVE  Linked(p, t.q) /\ Adds(s.q, t.q) /\ Reach(p, t.q, b, x, t.bind)
<1> DEFINE q  == s.q
           q2 == t.q
           d  == p.blocks[b].parent
           h  == HomeOf(p, b, x)
           F  == q.blocks[b].freevars
           fv == [name |-> x, scope |-> s.bind.scope, index |-> s.bind.index]
           captured == q.blocks[b].kind = "function" /\ s.bind.scope \in {"local", "free"}
<1>1. /\ Tree(p.blocks) /\ LocalsBound(p) /\ p \in Resolvers /\ Fixed(p, q)
      /\ d \in DOMAIN p.blocks /\ d \in 1..(b - 1) /\ p.blocks[b].kind \in {"function", "comp"}
      /\ q.blocks[b].kind = p.blocks[b].kind /\ b \in DOMAIN q.blocks
  <2>1. Tree(p.blocks) /\ LocalsBound(p) /\ p \in Resolvers /\ Fixed(p, q)
    BY DEF Ready, WellFormed, Linked
  <2>2. q.blocks[b].kind = p.blocks[b].kind /\ b \in DOMAIN q.blocks
    BY <2>1 DEF Fixed
  <2> QED
    BY <2>1, <2>2, TreeFacts
<1>2. ~Declares(p, b, x)
  <2>1. p.blocks[b].bindings[x] = NoBinding
    BY DEF Linked
  <2> QED
    BY <1>1, <2>1, BoundDeclares
<1>3. h = HomeOf(p, d, x) /\ h \in Ancestors(p.blocks, d) /\ h \in 1..d /\ h \in DOMAIN p.blocks
  <2>1. h = HomeOf(p, d, x)
    BY <1>1, <1>2, HomeOfIs
  <2>2. HomeOf(p, d, x) \in Ancestors(p.blocks, d)
    BY <1>1, HomeOfIs
  <2> QED
    BY <1>1, <2>1, <2>2, AncestorsIs
<1>4. h # Module => p.blocks[h].bindings[x].scope = "local"
  <2>1. h # Module => Declares(p, h, x)
    BY <1>1, HomeOfIs
  <2> QED
    BY <1>1, <1>3, <2>1, BoundDeclares
<1>5. s.bind.scope \in {"local", "free"} <=> h # Module
  <2>1. CASE h = Module
    <3>1. s.bind = UseGlobal(p, x)
      BY <1>3, <2>1 DEF Reach
    <3>2. UseGlobal(p, x).scope \in {"global", "predeclared", "universal", "undefined"}
      BY <1>1, UseGlobalIs DEF Resolvers
    <3> QED
      BY <2>1, <3>1, <3>2
  <2>2. CASE h # Module
    BY <1>3, <1>4, <2>2 DEF Reach
  <2> QED
    BY <2>1, <2>2
<1>6. F \in Seq(FreeVars) /\ Len(F) \in Nat /\ DOMAIN F = 1..Len(F) /\ fv \in FreeVars
  <2>1. F \in Seq(FreeVars)
    <3>1. q.blocks \in Seq(BlockType)
      BY <1>1 DEF Fixed, Resolvers
    <3>2. q.blocks[b] \in BlockType
      BY <1>1, <3>1, ElementOfSeq, LenProperties
    <3> QED
      BY <3>2, BlockFields
  <2> QED
    BY <2>1, LenProperties DEF FreeVars, Bindings
<1>7. /\ q2 \in Resolvers /\ q2.env = q.env /\ q2.ids = q.ids /\ q2.globals = q.globals
      /\ q2.moduleGlobals = q.moduleGlobals /\ q2.loops = q.loops /\ q2.errors = q.errors
      /\ DOMAIN q2.blocks = DOMAIN q.blocks
      /\ \A c \in DOMAIN q.blocks \ {b} : q2.blocks[c] = q.blocks[c]
      /\ q2.blocks[b].parent = q.blocks[b].parent /\ q2.blocks[b].kind = q.blocks[b].kind
      /\ q2.blocks[b].params = q.blocks[b].params /\ q2.blocks[b].locals = q.blocks[b].locals
      /\ \A y \in Name : q2.blocks[b].bindings[y] = IF y = x THEN t.bind ELSE q.blocks[b].bindings[y]
      /\ q2.blocks[b].freevars = IF captured THEN Append(F, fv) ELSE F
      /\ t.bind = IF captured THEN [scope |-> "free", index |-> Len(F) + 1] ELSE s.bind
  BY DEF Memoizes
<1> HIDE DEF q, q2, d, h, F, fv
<1>8. /\ DOMAIN F \subseteq DOMAIN q2.blocks[b].freevars /\ \A k \in DOMAIN F : q2.blocks[b].freevars[k] = F[k]
      /\ captured => /\ DOMAIN q2.blocks[b].freevars = 1..(Len(F) + 1)
                     /\ q2.blocks[b].freevars[Len(F) + 1] = fv
      /\ ~captured => q2.blocks[b].freevars = F
  <2>1. CASE captured
    <3>1. /\ DOMAIN Append(F, fv) = 1..(Len(F) + 1) /\ Append(F, fv)[Len(F) + 1] = fv
          /\ \A k \in 1..Len(F) : Append(F, fv)[k] = F[k]
      BY <1>6, AppendProperties, LenProperties
    <3>2. 1..Len(F) \subseteq 1..(Len(F) + 1)
      BY <1>6
    <3> QED
      BY <1>6, <1>7, <2>1, <3>1, <3>2
  <2>2. CASE ~captured
    BY <1>7, <2>2
  <2> QED
    BY <2>1, <2>2
<1>9. Adds(q, q2)
  <2> SUFFICES ASSUME NEW c \in DOMAIN q.blocks
               PROVE  /\ \A y \in Name : q.blocks[c].bindings[y] # NoBinding =>
                                           q2.blocks[c].bindings[y] = q.blocks[c].bindings[y]
                      /\ DOMAIN q.blocks[c].freevars \subseteq DOMAIN q2.blocks[c].freevars
                      /\ \A k \in DOMAIN q.blocks[c].freevars : q2.blocks[c].freevars[k] = q.blocks[c].freevars[k]
    BY DEF Adds
  <2>1. CASE c = b
    BY <1>7, <1>8, <2>1 DEF q, F
  <2>2. CASE c # b
    BY <1>7, <2>2
  <2> QED
    BY <2>1, <2>2
<1>10. Fixed(p, q2)
  <2>1. ASSUME NEW c \in DOMAIN p.blocks
        PROVE  /\ q2.blocks[c].parent = p.blocks[c].parent /\ q2.blocks[c].kind = p.blocks[c].kind
               /\ q2.blocks[c].params = p.blocks[c].params /\ q2.blocks[c].locals = p.blocks[c].locals
    <3>1. c \in DOMAIN q.blocks /\ q.blocks[c].parent = p.blocks[c].parent /\ q.blocks[c].kind = p.blocks[c].kind
          /\ q.blocks[c].params = p.blocks[c].params /\ q.blocks[c].locals = p.blocks[c].locals
      BY <1>1 DEF Fixed
    <3>2. CASE c = b
      BY <1>7, <3>1, <3>2
    <3>3. CASE c # b
      BY <1>7, <3>1, <3>3
    <3> QED
      BY <3>2, <3>3
  <2> QED
    BY <1>1, <1>7, <2>1 DEF Fixed
<1>11. Reach(p, q, d, x, s.bind)
  BY DEF d, q
<1>12. Reach(p, q2, b, x, t.bind)
  <2>1. Container(p.blocks, b) = IF p.blocks[b].kind = "comp" THEN Container(p.blocks, d) ELSE b
    BY <1>1, ContainerIs DEF d
  <2>2. CASE p.blocks[b].kind = "comp"
    <3>1. t.bind = s.bind /\ Container(p.blocks, b) = Container(p.blocks, d)
      BY <1>1, <1>7, <2>1, <2>2
    <3>2. Reach(p, q2, d, x, s.bind)
      BY <1>1, <1>9, <1>11, AddsReach
    <3>3. HomeOf(p, b, x) = HomeOf(p, d, x)
      BY <1>3 DEF h
    <3> QED
      BY <3>1, <3>2, <3>3 DEF Reach
  <2>3. CASE p.blocks[b].kind = "function" /\ h # Module
    <3>1. captured /\ Container(p.blocks, b) = b
      BY <1>1, <1>5, <2>1, <2>3
    <3>2. t.bind = [scope |-> "free", index |-> Len(F) + 1]
      BY <1>7, <3>1
    <3>3. Container(p.blocks, h) # b
      <4>1. Container(p.blocks, h) \in 1..h
        BY <1>1, <1>3, ContainerIs
      <4> QED
        BY <1>1, <1>3, <4>1
    <3>4. Len(F) + 1 \in DOMAIN q2.blocks[b].freevars /\ q2.blocks[b].freevars[Len(F) + 1].name = x
      <4>1. Len(F) + 1 \in 1..(Len(F) + 1)
        BY <1>6
      <4> QED
        BY <1>8, <3>1, <4>1 DEF fv
    <3>5. t.bind.scope = "free" /\ t.bind.index = Len(F) + 1
      BY <3>2
    <3> QED
      BY <2>3, <3>1, <3>3, <3>4, <3>5 DEF Reach, h
  <2>4. CASE p.blocks[b].kind = "function" /\ h = Module
    <3>1. t.bind = s.bind
      BY <1>5, <1>7, <2>4
    <3>2. s.bind = UseGlobal(p, x)
      BY <1>3, <1>11, <2>4 DEF Reach
    <3> QED
      BY <2>4, <3>1, <3>2 DEF Reach, h
  <2> QED
    BY <1>1, <2>2, <2>3, <2>4
<1>13. ASSUME NEW c \in DOMAIN p.blocks, NEW y \in Name
       PROVE  /\ p.blocks[c].bindings[y] # NoBinding => q2.blocks[c].bindings[y] = p.blocks[c].bindings[y]
              /\ q2.blocks[c].bindings[y] # NoBinding => c # Module /\ Reach(p, q2, c, y, q2.blocks[c].bindings[y])
  <2>1. /\ p.blocks[c].bindings[y] # NoBinding => q.blocks[c].bindings[y] = p.blocks[c].bindings[y]
        /\ q.blocks[c].bindings[y] # NoBinding => c # Module /\ Reach(p, q, c, y, q.blocks[c].bindings[y])
        /\ c \in DOMAIN q.blocks
    BY <1>1 DEF Linked, q, Fixed
  <2>2. CASE c = b /\ y = x
    <3>1. q2.blocks[c].bindings[y] = t.bind
      BY <1>7, <2>2
    <3>2. p.blocks[c].bindings[y] = NoBinding
      BY <2>1, <2>2 DEF q
    <3> QED
      BY <1>12, <2>2, <3>1, <3>2
  <2>3. CASE ~(c = b /\ y = x)
    <3>1. q2.blocks[c].bindings[y] = q.blocks[c].bindings[y]
      BY <1>7, <2>1, <2>3
    <3> QED
      BY <1>1, <1>9, <2>1, <3>1, AddsReach
  <2> QED
    BY <2>2, <2>3
<1>14. ASSUME NEW f \in DOMAIN p.blocks, NEW k \in DOMAIN q2.blocks[f].freevars
       PROVE  Captures(p, q2, f, k)
  <2>1. CASE k \in DOMAIN q.blocks[f].freevars
    <3>1. Captures(p, q, f, k)
      BY <2>1 DEF Linked, q
    <3> QED
      BY <1>1, <1>9, <2>1, <3>1, CapturesKept
  <2>2. CASE k \notin DOMAIN q.blocks[f].freevars
    <3>1. f = b /\ captured /\ k = Len(F) + 1
      <4>1. f \in DOMAIN q.blocks
        BY <1>1 DEF Fixed
      <4>2. f = b
        BY <1>7, <2>2, <4>1
      <4>3. captured
        BY <1>8, <2>2, <4>2 DEF F, q
      <4>4. k \in 1..(Len(F) + 1) /\ k \notin 1..Len(F)
        BY <1>6, <1>8, <2>2, <4>2, <4>3 DEF F, q
      <4> QED
        BY <1>6, <4>2, <4>3, <4>4
    <3>2. q2.blocks[b].freevars[k] = fv /\ fv.name = x /\ fv.scope = s.bind.scope /\ fv.index = s.bind.index
      BY <1>8, <3>1 DEF fv
    <3>3. q2.blocks[b].bindings[x] = [scope |-> "free", index |-> k]
      BY <1>7, <3>1
    <3>4. [scope |-> s.bind.scope, index |-> s.bind.index] = s.bind
      BY DEF Bindings
    <3>5. Reach(p, q2, d, x, s.bind)
      BY <1>1, <1>9, <1>11, AddsReach
    <3>6. p.blocks[b].kind = "function" /\ HomeOf(p, b, x) # Module
      BY <1>1, <1>5, <3>1 DEF h
    <3> QED
      BY <1>2, <3>1, <3>2, <3>3, <3>4, <3>5, <3>6 DEF Captures, d
  <2> QED
    BY <2>1, <2>2
<1> QED
  BY <1>9, <1>10, <1>12, <1>13, <1>14 DEF Linked, q, q2

\* What lookupLexical finds at each block, by what it finds at its parent.
Looks(q, x, u) ==
  \A b \in DOMAIN q.blocks :
    u[b] = IF b = Module THEN [q |-> Errorf(q, GlobalErrors(UseGlobal(q, x), x)), bind |-> UseGlobal(q, x)]
           ELSE IF q.blocks[b].bindings[x] # NoBinding THEN [q |-> q, bind |-> q.blocks[b].bindings[x]]
           ELSE Memoize(u[q.blocks[b].parent], b, x)
Entered(s, i) == [s.q EXCEPT !.ids[i] = [@ EXCEPT !.scope = s.bind.scope, !.index = s.bind.index]]

\* errorf, on a resolver of its type.
LEMMA ErrorfIs ==
  ASSUME NEW q \in Resolvers, NEW what \in SUBSET Errors
  PROVE  LET q2 == Errorf(q, what)
         IN  /\ q2 \in Resolvers /\ q2.env = q.env /\ q2.blocks = q.blocks /\ q2.ids = q.ids /\ q2.loops = q.loops
             /\ q2.globals = q.globals /\ q2.moduleGlobals = q.moduleGlobals /\ q2.errors = q.errors \cup what
BY DEF Errorf, Resolvers

\* lookupLexical is such a recursion.
LEMMA LookIs ==
  ASSUME NEW q \in Resolvers, Tree(q.blocks), NEW i \in DOMAIN q.ids, q.ids[i].env \in DOMAIN q.blocks
  PROVE  \E u : Looks(q, q.ids[i].name, u) /\ LookupLexical(q, i) = Entered(u[q.ids[i].env], i)
<1> DEFINE x       == q.ids[i].name
           n       == Len(q.blocks)
           top     == [q |-> Errorf(q, GlobalErrors(UseGlobal(q, x), x)), bind |-> UseGlobal(q, x)]
           Step(u) == [b \in DOMAIN q.blocks |->
                         IF b = Module THEN top
                         ELSE IF q.blocks[b].bindings[x] # NoBinding THEN [q |-> q, bind |-> q.blocks[b].bindings[x]]
                         ELSE Memoize(u[q.blocks[b].parent], b, x)]
           S       == {s \in [q : Resolvers, bind : Bindings] : DOMAIN s.q.blocks = DOMAIN q.blocks}
           stop    == {b \in 1..n : b = Module \/ q.blocks[b].bindings[x] # NoBinding}
           base    == [b \in 1..n |-> IF b = Module THEN top ELSE [q |-> q, bind |-> q.blocks[b].bindings[x]]]
           par     == [b \in 1..n |-> q.blocks[b].parent]
           F       == [p \in (1..n) \X S |-> Memoize(p[2], p[1], x)]
<1>1. /\ n \in Nat /\ DOMAIN q.blocks = 1..n /\ \A b \in 1..n : q.blocks[b] \in BlockType
      /\ \A b \in 1..n : b # Module => q.blocks[b].parent \in 1..(b - 1) /\ q.blocks[b].parent \in 1..n
  BY TreeFacts
<1>2. x \in Name
  <2>1. q.ids \in Seq(IdType)
    BY DEF Resolvers
  <2>2. q.ids[i] \in IdType
    BY <2>1, ElementOfSeq, LenProperties
  <2> QED
    BY <2>2 DEF IdType
<1>3. UseGlobal(q, x) \in Bindings /\ GlobalErrors(UseGlobal(q, x), x) \in SUBSET Errors
  BY <1>2, UseGlobalIs DEF Resolvers
<1>4. top \in S
  BY <1>3, ErrorfIs
<1> HIDE DEF top, x
<1>5. \A b \in 1..n : base[b] \in S
  <2>1. \A b \in 1..n : q.blocks[b].bindings[x] \in Bindings
    BY <1>1, <1>2, BlockFields
  <2> QED
    BY <1>4, <2>1
<1>6. ASSUME NEW b \in 1..n, NEW s \in S PROVE Memoize(s, b, x) \in S
  <2>1. s.q \in Resolvers /\ s.bind \in Bindings /\ b \in DOMAIN s.q.blocks
    BY <1>1
  <2>2. /\ Memoizes(s, b, x, Memoize(s, b, x))
        /\ Memoize(s, b, x) = [q |-> Memoize(s, b, x).q, bind |-> Memoize(s, b, x).bind]
    BY <1>2, <2>1, MemoizeIs
  <2>3. /\ Memoize(s, b, x).q \in Resolvers /\ Memoize(s, b, x).bind \in Bindings
        /\ DOMAIN Memoize(s, b, x).q.blocks = DOMAIN q.blocks
    BY <2>2 DEF Memoizes
  <2> DEFINE t == Memoize(s, b, x)
  <2> HIDE DEF t
  <2>4. t = [q |-> t.q, bind |-> t.bind] /\ t.q \in Resolvers /\ t.bind \in Bindings
        /\ DOMAIN t.q.blocks = DOMAIN q.blocks
    BY <2>2, <2>3 DEF t
  <2>5. t \in S
    BY <2>4
  <2> QED
    BY <2>5 DEF t
<1> HIDE DEF S
<1>7. F \in [(1..n) \X S -> S]
  BY <1>6
<1>8. PICK f : Climbs(f, n, S, stop, base, par, F)
  <2>1. /\ \A b \in (1..n) \cap stop : base[b] \in S
        /\ \A b \in (1..n) \ stop : par[b] \in 1..(b - 1)
    BY <1>1, <1>5
  <2> HIDE DEF stop, base, par, F, n
  <2> QED
    BY <1>1, <1>7, <2>1, Climbing
<1>9. f = Step(f)
  <2>1. f \in [1..n -> S] /\ \A b \in 1..n : f[b] = IF b \in stop THEN base[b] ELSE F[<<b, f[par[b]]>>]
    BY <1>8 DEF Climbs
  <2>2. ASSUME NEW b \in 1..n
        PROVE  f[b] = IF b = Module THEN top
                      ELSE IF q.blocks[b].bindings[x] # NoBinding THEN [q |-> q, bind |-> q.blocks[b].bindings[x]]
                      ELSE Memoize(f[q.blocks[b].parent], b, x)
    <3>1. CASE b \in stop
      <4>1. f[b] = base[b]
        BY <2>1, <3>1
      <4>2. b = Module \/ q.blocks[b].bindings[x] # NoBinding
        BY <3>1
      <4>3. base[b] = IF b = Module THEN top ELSE [q |-> q, bind |-> q.blocks[b].bindings[x]]
        OBVIOUS
      <4> QED
        BY <4>1, <4>2, <4>3
    <3>2. CASE b \notin stop
      <4>1. f[b] = F[<<b, f[par[b]]>>]
        BY <2>1, <3>2
      <4>2. b # Module /\ q.blocks[b].bindings[x] = NoBinding
        BY <3>2
      <4>3. par[b] = q.blocks[b].parent /\ f[q.blocks[b].parent] \in S
        BY <1>1, <2>1, <4>2
      <4>4. F[<<b, f[q.blocks[b].parent]>>] = Memoize(f[q.blocks[b].parent], b, x)
        BY <4>3
      <4> QED
        BY <4>1, <4>2, <4>3, <4>4
    <3> QED
      BY <3>1, <3>2
  <2>3. f = [b \in 1..n |-> f[b]]
    BY <2>1
  <2> QED
    BY <1>1, <2>2, <2>3
<1>10. PICK u : u = Step(u) /\ LookupLexical(q, i) = Entered(u[q.ids[i].env], i)
  <2> HIDE DEF Step
  <2>1. (CHOOSE u : u = Step(u)) = Step(CHOOSE u : u = Step(u))
    BY <1>9
  <2>2. LookupLexical(q, i) = Entered((CHOOSE u : u = Step(u))[q.ids[i].env], i)
    BY DEF LookupLexical, Entered, Step, top, x
  <2> QED
    BY <2>1, <2>2
<1>11. Looks(q, x, u)
  <2>1. \A b \in DOMAIN q.blocks :
          Step(u)[b] = IF b = Module THEN top
                       ELSE IF q.blocks[b].bindings[x] # NoBinding THEN [q |-> q, bind |-> q.blocks[b].bindings[x]]
                       ELSE Memoize(u[q.blocks[b].parent], b, x)
    OBVIOUS
  <2> HIDE DEF Step
  <2> QED
    BY <1>10, <2>1 DEF Looks, top
<1> QED
  BY <1>10, <1>11 DEF x

\* The links are in the blocks, and in what does not change.
LEMMA LinkedReads ==
  ASSUME NEW p, NEW q, Linked(p, q), NEW q2 \in Resolvers, q2.env = q.env, q2.blocks = q.blocks,
         q2.globals = q.globals, q2.moduleGlobals = q.moduleGlobals, q2.loops = q.loops, q.errors \subseteq q2.errors,
         DOMAIN q2.ids = DOMAIN q.ids,
         \A i \in DOMAIN q.ids :
           q2.ids[i].name = q.ids[i].name /\ q2.ids[i].env = q.ids[i].env /\ q2.ids[i].binds = q.ids[i].binds
  PROVE  Linked(p, q2) /\ Adds(q, q2)
<1>1. Fixed(p, q)
  BY DEF Linked
<1>2. Fixed(p, q2)
  <2>1. p.errors \subseteq q2.errors
    BY <1>1 DEF Fixed
  <2>2. \A i \in DOMAIN p.ids :
           q2.ids[i].name = p.ids[i].name /\ q2.ids[i].env = p.ids[i].env /\ q2.ids[i].binds = p.ids[i].binds
    BY <1>1 DEF Fixed
  <2> QED
    BY <1>1, <2>1, <2>2 DEF Fixed
<1>3. \A b, x, v : Reach(p, q2, b, x, v) <=> Reach(p, q, b, x, v)
  BY DEF Reach
<1>4. \A f, k : Captures(p, q2, f, k) <=> Captures(p, q, f, k)
  BY <1>3 DEF Captures
<1>5. Adds(q, q2)
  BY DEF Adds
<1> QED
  BY <1>2, <1>3, <1>4, <1>5 DEF Linked

\* The tree is that of the start.
LEMMA FixedTree ==
  ASSUME NEW p, Tree(p.blocks), NEW q, Fixed(p, q)
  PROVE  Tree(q.blocks) /\ Grows(p.blocks, q.blocks)
<1>1. /\ q.blocks \in Seq(BlockType) /\ DOMAIN q.blocks = DOMAIN p.blocks
      /\ \A b \in DOMAIN p.blocks : q.blocks[b].parent = p.blocks[b].parent /\ q.blocks[b].kind = p.blocks[b].kind
  BY DEF Fixed, Resolvers
<1> QED
  BY <1>1, TreeSame

\* An identifier gets its address.
LEMMA EnteredIs ==
  ASSUME NEW s, s.q \in Resolvers, s.bind \in Bindings, NEW i \in DOMAIN s.q.ids
  PROVE  LET q2 == Entered(s, i)
         IN  /\ q2 \in Resolvers /\ q2.env = s.q.env /\ q2.blocks = s.q.blocks /\ q2.globals = s.q.globals
             /\ q2.moduleGlobals = s.q.moduleGlobals /\ q2.loops = s.q.loops /\ q2.errors = s.q.errors
             /\ DOMAIN q2.ids = DOMAIN s.q.ids
             /\ \A j \in DOMAIN s.q.ids \ {i} : q2.ids[j] = s.q.ids[j]
             /\ q2.ids[i].name = s.q.ids[i].name /\ q2.ids[i].env = s.q.ids[i].env
             /\ q2.ids[i].binds = s.q.ids[i].binds
             /\ q2.ids[i].scope = s.bind.scope /\ q2.ids[i].index = s.bind.index
<1> DEFINE q  == s.q
           id == q.ids[i]
           jd == [id EXCEPT !.scope = s.bind.scope, !.index = s.bind.index]
           q2 == [q EXCEPT !.ids = [q.ids EXCEPT ![i] = jd]]
<1>1. q.ids \in Seq(IdType) /\ id \in IdType
  <2>1. q.ids \in Seq(IdType)
    BY DEF Resolvers
  <2> QED
    BY <2>1, ElementOfSeq, LenProperties
<1>2. Entered(s, i) = q2
  <2>1. Entered(s, i) = [q EXCEPT !.ids[i] = jd]
    BY DEF Entered
  <2> HIDE DEF jd
  <2>2. [q EXCEPT !.ids[i] = jd] = q2
    BY DEF Resolvers
  <2> QED
    BY <2>1, <2>2
<1>3. s.bind.scope \in Scopes \cup {"unresolved"} /\ s.bind.index \in Nat
  BY DEF Bindings
<1> DEFINE a == s.bind.scope
           z == s.bind.index
<1> HIDE DEF id, a, z
<1>4. LET w == [id EXCEPT !.scope = a, !.index = z]
      IN  /\ w \in IdType /\ w.name = id.name /\ w.env = id.env /\ w.binds = id.binds
          /\ w.scope = a /\ w.index = z
  BY <1>1, <1>3 DEF IdType, a, z
<1>5. jd \in IdType /\ jd.name = id.name /\ jd.env = id.env /\ jd.binds = id.binds
      /\ jd.scope = s.bind.scope /\ jd.index = s.bind.index
  BY <1>4 DEF a, z
<1> HIDE DEF jd
<1>6. /\ [q.ids EXCEPT ![i] = jd] \in Seq(IdType) /\ DOMAIN [q.ids EXCEPT ![i] = jd] = DOMAIN q.ids
      /\ [q.ids EXCEPT ![i] = jd][i] = jd /\ \A j \in DOMAIN q.ids \ {i} : [q.ids EXCEPT ![i] = jd][j] = q.ids[j]
  BY <1>1, <1>5, ExceptSeq
<1>7. /\ q2 \in Resolvers /\ q2.env = q.env /\ q2.blocks = q.blocks /\ q2.globals = q.globals
      /\ q2.moduleGlobals = q.moduleGlobals /\ q2.loops = q.loops /\ q2.errors = q.errors
      /\ q2.ids = [q.ids EXCEPT ![i] = jd]
  BY <1>6 DEF Resolvers
<1> HIDE DEF q2
<1> QED
  BY <1>2, <1>5, <1>6, <1>7 DEF id

\* Identifier i has the address of what it denotes.
Found(p, q, i) ==
  Reach(p, q, p.ids[i].env, p.ids[i].name, [scope |-> q.ids[i].scope, index |-> q.ids[i].index])
FoundBy(p, q, q2, i) ==
  /\ Linked(p, q2) /\ Adds(q, q2) /\ Found(p, q2, i)
  /\ \A j \in DOMAIN p.ids \ {i} : q2.ids[j] = q.ids[j]

\* On the way from block e up to where x is declared.
Towards(p, e, x) == {b \in Ancestors(p.blocks, e) : HomeOf(p, b, x) = HomeOf(p, e, x)}

\* The way goes on at the parent of a block that does not declare the name.
LEMMA TowardsParent ==
  ASSUME NEW p, Tree(p.blocks), NEW e \in DOMAIN p.blocks, NEW x, NEW b \in Towards(p, e, x),
         b # Module, ~Declares(p, b, x)
  PROVE  p.blocks[b].parent \in Towards(p, e, x)
<1>1. b \in Ancestors(p.blocks, e) /\ b \in DOMAIN p.blocks /\ HomeOf(p, b, x) = HomeOf(p, e, x)
  BY AncestorsIs DEF Towards
<1>2. p.blocks[b].parent \in DOMAIN p.blocks /\ HomeOf(p, b, x) = HomeOf(p, p.blocks[b].parent, x)
  BY <1>1, TreeFacts, HomeOfIs
<1>3. p.blocks[b].parent \in Ancestors(p.blocks, b)
  BY <1>1, <1>2, AncestorsIs
<1>4. p.blocks[b].parent \in Ancestors(p.blocks, e)
  BY <1>1, <1>3, AncestorsNest
<1> QED
  BY <1>1, <1>2, <1>4 DEF Towards

\* One iteration of resolveNonLocalUses.
LEMMA LookupKeeps ==
  ASSUME NEW p, Ready(p), NEW q, Linked(p, q), NEW i \in DOMAIN p.ids
  PROVE  FoundBy(p, q, LookupLexical(q, i), i)
<1> DEFINE x == p.ids[i].name
           e == p.ids[i].env
           n == Len(p.blocks)
<1>1. /\ Tree(p.blocks) /\ LocalsBound(p) /\ p \in Resolvers /\ e \in DOMAIN p.blocks
      /\ n \in Nat /\ DOMAIN p.blocks = 1..n
      /\ \A b \in 1..n : b # Module => p.blocks[b].parent \in 1..(b - 1) /\ p.blocks[b].parent \in 1..n
  <2>1. Tree(p.blocks) /\ LocalsBound(p) /\ p \in Resolvers /\ e \in DOMAIN p.blocks
    BY DEF Ready, WellFormed
  <2> QED
    BY <2>1, TreeFacts
<1>2. x \in Name
  <2>1. p.ids \in Seq(IdType)
    BY <1>1 DEF Resolvers
  <2>2. p.ids[i] \in IdType
    BY <2>1, ElementOfSeq, LenProperties
  <2> QED
    BY <2>2 DEF IdType
<1>3. /\ Fixed(p, q) /\ q \in Resolvers /\ DOMAIN q.blocks = DOMAIN p.blocks /\ DOMAIN q.ids = DOMAIN p.ids
      /\ q.ids[i].name = x /\ q.ids[i].env = e /\ q.globals = p.globals
      /\ \A b \in DOMAIN p.blocks : q.blocks[b].parent = p.blocks[b].parent
  BY DEF Linked, Fixed
<1>4. Tree(q.blocks)
  BY <1>1, <1>3, FixedTree
<1>5. PICK u : Looks(q, x, u) /\ LookupLexical(q, i) = Entered(u[e], i)
  BY <1>1, <1>3, <1>4, LookIs
<1>6. \A b \in 1..n :
        u[b] = IF b = Module THEN [q |-> Errorf(q, GlobalErrors(UseGlobal(q, x), x)), bind |-> UseGlobal(q, x)]
               ELSE IF q.blocks[b].bindings[x] # NoBinding THEN [q |-> q, bind |-> q.blocks[b].bindings[x]]
               ELSE Memoize(u[p.blocks[b].parent], b, x)
  BY <1>1, <1>3, <1>5 DEF Looks
<1> HIDE DEF n, x, e
<1> DEFINE W(b) == /\ Linked(p, u[b].q) /\ Adds(q, u[b].q) /\ u[b].bind \in Bindings /\ u[b].q.ids = q.ids
                   /\ Reach(p, u[b].q, b, x, u[b].bind)
                   /\ \A c \in (b + 1)..n : u[b].q.blocks[c] = q.blocks[c]
           T == {b \in 1..n : b \in Towards(p, e, x) => W(b)}
<1>7. ASSUME NEW b \in 1..n, \A c \in 1..(b - 1) : c \in T PROVE b \in T
  <2> SUFFICES ASSUME b \in Towards(p, e, x) PROVE W(b)
    OBVIOUS
  <2>1. CASE b = Module
    <3>1. u[b].q = Errorf(q, GlobalErrors(UseGlobal(q, x), x)) /\ u[b].bind = UseGlobal(q, x)
      <4>1. u[b] = [q |-> Errorf(q, GlobalErrors(UseGlobal(q, x), x)), bind |-> UseGlobal(q, x)]
        BY <1>6, <2>1
      <4> QED
        BY <4>1
    <3>2. UseGlobal(q, x) \in Bindings /\ GlobalErrors(UseGlobal(q, x), x) \in SUBSET Errors
      BY <1>2, <1>3, UseGlobalIs DEF Resolvers
    <3>3. /\ u[b].q \in Resolvers /\ u[b].q.env = q.env /\ u[b].q.blocks = q.blocks /\ u[b].q.ids = q.ids
          /\ u[b].q.loops = q.loops /\ u[b].q.globals = q.globals /\ u[b].q.moduleGlobals = q.moduleGlobals
          /\ q.errors \subseteq u[b].q.errors
      BY <1>3, <3>1, <3>2, ErrorfIs
    <3>4. Linked(p, u[b].q) /\ Adds(q, u[b].q)
      <4> DEFINE q2 == u[b].q
      <4> HIDE DEF q2
      <4>1. /\ q2 \in Resolvers /\ q2.env = q.env /\ q2.blocks = q.blocks /\ q2.ids = q.ids
            /\ q2.loops = q.loops /\ q2.globals = q.globals /\ q2.moduleGlobals = q.moduleGlobals
            /\ q.errors \subseteq q2.errors
        BY <3>3 DEF q2
      <4>2. Linked(p, q2) /\ Adds(q, q2)
        BY <4>1, LinkedReads
      <4> QED
        BY <4>2 DEF q2
    <3>5. Reach(p, u[b].q, b, x, u[b].bind)
      <4>1. HomeOf(p, Module, x) = Module
        BY <1>1, <2>1, HomeOfIs
      <4>2. UseGlobal(q, x) = UseGlobal(p, x)
        BY <1>3 DEF UseGlobal
      <4> QED
        BY <2>1, <3>1, <4>1, <4>2 DEF Reach
    <3> QED
      BY <3>1, <3>2, <3>3, <3>4, <3>5
  <2>2. CASE b # Module /\ q.blocks[b].bindings[x] # NoBinding
    <3>1. u[b].q = q /\ u[b].bind = q.blocks[b].bindings[x]
      <4>1. u[b] = [q |-> q, bind |-> q.blocks[b].bindings[x]]
        BY <1>6, <2>2
      <4> QED
        BY <4>1
    <3>2. Reach(p, q, b, x, q.blocks[b].bindings[x])
      BY <1>1, <1>2, <2>2 DEF Linked
    <3>3. q.blocks[b].bindings[x] \in Bindings
      <4>1. b \in DOMAIN q.blocks
        BY <1>1, <1>3
      <4>2. q.blocks[b] \in BlockType
        BY <1>4, <4>1, TreeFacts
      <4> QED
        BY <1>2, <4>2, BlockFields
    <3>4. Adds(q, q)
      BY DEF Adds
    <3> QED
      BY <3>1, <3>2, <3>3, <3>4
  <2>3. CASE b # Module /\ q.blocks[b].bindings[x] = NoBinding
    <3> DEFINE d == p.blocks[b].parent
               s == u[d]
               t == Memoize(s, b, x)
    <3>1. u[b] = t /\ d \in 1..(b - 1) /\ d \in 1..n
      BY <1>1, <1>6, <2>3
    <3>2. ~Declares(p, b, x)
      <4>1. p.blocks[b].bindings[x] = NoBinding
        BY <1>1, <1>2, <2>3 DEF Linked
      <4> QED
        BY <1>1, <1>2, <2>3, <4>1, BoundDeclares
    <3>3. d \in Towards(p, e, x)
      BY <1>1, <2>3, <3>2, TowardsParent
    <3>4. W(d)
      BY <1>7, <3>1, <3>3
    <3>5. Linked(p, s.q) /\ Adds(q, s.q) /\ s.bind \in Bindings /\ s.q.ids = q.ids
          /\ Reach(p, s.q, d, x, s.bind) /\ \A c \in (d + 1)..n : s.q.blocks[c] = q.blocks[c]
      BY <3>4
    <3> HIDE DEF s
    <3>6. s.q.blocks[b] = q.blocks[b] /\ s.q \in Resolvers /\ DOMAIN s.q.blocks = 1..n
      <4>1. b \in (d + 1)..n
        BY <1>1, <3>1
      <4> QED
        BY <1>1, <3>5, <4>1 DEF Linked, Fixed
    <3>7. Memoizes(s, b, x, t)
      BY <1>2, <3>5, <3>6, MemoizeIs
    <3> HIDE DEF t
    <3>8. Needed(p, b, x)
      BY DEF Needed, Towards, x, e
    <3>9. Linked(p, t.q) /\ Adds(s.q, t.q) /\ Reach(p, t.q, b, x, t.bind)
      <4>1. s.q.blocks[b].bindings[x] = NoBinding /\ b \in DOMAIN p.blocks
        BY <1>1, <2>3, <3>6
      <4>2. Reach(p, s.q, p.blocks[b].parent, x, s.bind)
        BY <3>5
      <4> QED
        BY <1>2, <2>3, <3>5, <3>7, <3>8, <4>1, <4>2, MemoizeKeeps
    <3>10. Adds(q, t.q)
      BY <1>1, <1>3, <3>5, <3>6, <3>9, AddsTransitive
    <3>11. t.bind \in Bindings /\ t.q.ids = q.ids
      BY <3>5, <3>7 DEF Memoizes
    <3>12. ASSUME NEW c \in (b + 1)..n PROVE t.q.blocks[c] = q.blocks[c]
      <4>1. c \in (d + 1)..n /\ c # b /\ c \in 1..n
        BY <1>1, <3>1
      <4>2. t.q.blocks[c] = s.q.blocks[c]
        BY <3>6, <3>7, <4>1 DEF Memoizes
      <4> QED
        BY <3>5, <4>1, <4>2
    <3> QED
      BY <3>1, <3>9, <3>10, <3>11, <3>12
  <2> QED
    BY <2>1, <2>2, <2>3
<1>8. 1..n \subseteq T
  <2> HIDE DEF T
  <2> QED
    BY <1>1, <1>7, StrongInduction
<1>9. e \in Towards(p, e, x) /\ e \in 1..n
  BY <1>1, AncestorsIs DEF Towards
<1>10. W(e)
  BY <1>8, <1>9
<1> DEFINE s  == u[e]
           q2 == Entered(s, i)
<1>11. /\ Linked(p, s.q) /\ Adds(q, s.q) /\ s.bind \in Bindings /\ s.q.ids = q.ids /\ Reach(p, s.q, e, x, s.bind)
       /\ s.q \in Resolvers /\ DOMAIN s.q.ids = DOMAIN p.ids /\ DOMAIN s.q.blocks = DOMAIN q.blocks
  <2>1. Linked(p, s.q) /\ Adds(q, s.q) /\ s.bind \in Bindings /\ s.q.ids = q.ids /\ Reach(p, s.q, e, x, s.bind)
    BY <1>10
  <2> QED
    BY <1>3, <2>1 DEF Linked, Fixed
<1> HIDE DEF s, W, T
<1>12. /\ q2 \in Resolvers /\ q2.env = s.q.env /\ q2.blocks = s.q.blocks /\ q2.globals = s.q.globals
       /\ q2.moduleGlobals = s.q.moduleGlobals /\ q2.loops = s.q.loops /\ q2.errors = s.q.errors
       /\ DOMAIN q2.ids = DOMAIN s.q.ids
       /\ \A j \in DOMAIN s.q.ids \ {i} : q2.ids[j] = s.q.ids[j]
       /\ q2.ids[i].name = s.q.ids[i].name /\ q2.ids[i].env = s.q.ids[i].env
       /\ q2.ids[i].binds = s.q.ids[i].binds
       /\ q2.ids[i].scope = s.bind.scope /\ q2.ids[i].index = s.bind.index
  BY <1>11, EnteredIs
<1> HIDE DEF q2
<1>13. Linked(p, q2) /\ Adds(s.q, q2)
  <2>1. \A j \in DOMAIN s.q.ids : /\ q2.ids[j].name = s.q.ids[j].name /\ q2.ids[j].env = s.q.ids[j].env
                                  /\ q2.ids[j].binds = s.q.ids[j].binds
    BY <1>12
  <2> DEFINE q1 == s.q
  <2> HIDE DEF q1
  <2>2. /\ Linked(p, q1) /\ q2 \in Resolvers /\ q2.env = q1.env /\ q2.blocks = q1.blocks /\ q2.globals = q1.globals
        /\ q2.moduleGlobals = q1.moduleGlobals /\ q2.loops = q1.loops /\ q1.errors \subseteq q2.errors
        /\ DOMAIN q2.ids = DOMAIN q1.ids
        /\ \A j \in DOMAIN q1.ids : /\ q2.ids[j].name = q1.ids[j].name /\ q2.ids[j].env = q1.ids[j].env
                                    /\ q2.ids[j].binds = q1.ids[j].binds
    BY <1>11, <1>12, <2>1 DEF q1
  <2>3. Linked(p, q2) /\ Adds(q1, q2)
    BY <2>2, LinkedReads
  <2> QED
    BY <2>3 DEF q1
<1>14. Adds(q, q2)
  BY <1>11, <1>13, AddsTransitive
<1>15. Found(p, q2, i)
  <2>1. [scope |-> s.bind.scope, index |-> s.bind.index] = s.bind
    BY <1>11 DEF Bindings
  <2>2. Reach(p, q2, e, x, s.bind)
    BY <1>11, <1>12 DEF Reach
  <2> QED
    BY <1>12, <2>1, <2>2 DEF Found, e, x
<1>16. \A j \in DOMAIN p.ids \ {i} : q2.ids[j] = q.ids[j]
  BY <1>11, <1>12
<1> QED
  BY <1>5, <1>13, <1>14, <1>15, <1>16 DEF FoundBy, q2, s

(***************************************************************************)
(* The uses that are pending.                                              *)
(***************************************************************************)

\* F takes a node and values of all nodes, and reads those of the later ones only.
ReadsLater(n, S, F) ==
  /\ F \in [(1..n) \X [1..n -> S] -> S]
  /\ \A b \in 1..n : \A f, g \in [1..n -> S] :
       (\A c \in (b + 1)..n : f[c] = g[c]) => F[<<b, f>>] = F[<<b, g>>]
Descends(f, n, S, F) == f \in [1..n -> S] /\ \A b \in 1..n : f[b] = F[<<b, f>>]

\* Such a recursion down from n exists.
LEMMA Descending ==
  ASSUME NEW n \in Nat, NEW S, NEW z \in S, NEW F, ReadsLater(n, S, F)
  PROVE  \E f : Descends(f, n, S, F)
<1>0. /\ F \in [(1..n) \X [1..n -> S] -> S]
      /\ \A b \in 1..n : \A f, g \in [1..n -> S] :
           (\A c \in (b + 1)..n : f[c] = g[c]) => F[<<b, f>>] = F[<<b, g>>]
  BY DEF ReadsLater
<1> DEFINE T == {m \in 0..n : \E f \in [1..n -> S] : \A b \in ((n - m) + 1)..n : f[b] = F[<<b, f>>]}
<1>1. 0 \in T
  <2>1. [b \in 1..n |-> z] \in [1..n -> S]
    OBVIOUS
  <2>2. ((n - 0) + 1)..n = {} /\ 0 \in 0..n
    OBVIOUS
  <2>3. \E f \in [1..n -> S] : \A b \in {} : f[b] = F[<<b, f>>]
    BY <2>1
  <2> QED
    BY <2>2, <2>3
<1>2. ASSUME NEW m \in 1..n, m - 1 \in T PROVE m \in T
  <2> DEFINE a == (n - m) + 1
  <2>1. a \in 1..n /\ (n - (m - 1)) + 1 = a + 1
    OBVIOUS
  <2>2. PICK f \in [1..n -> S] : \A b \in (a + 1)..n : f[b] = F[<<b, f>>]
    BY <1>2, <2>1
  <2> HIDE DEF a
  <2> DEFINE g == [f EXCEPT ![a] = F[<<a, f>>]]
  <2>3. F[<<a, f>>] \in S
    BY <1>0, <2>1
  <2>4. g \in [1..n -> S] /\ g[a] = F[<<a, f>>] /\ \A c \in 1..n : c # a => g[c] = f[c]
    BY <2>1, <2>3
  <2> HIDE DEF g
  <2>5. ASSUME NEW b \in a..n PROVE g[b] = F[<<b, g>>]
    <3>1. b \in 1..n /\ \A c \in (b + 1)..n : c \in 1..n /\ c # a
      BY <2>1
    <3>2. \A c \in (b + 1)..n : f[c] = g[c]
      BY <2>4, <3>1
    <3>3. F[<<b, f>>] = F[<<b, g>>]
      BY <1>0, <2>4, <3>1, <3>2
    <3>4. CASE b = a
      BY <2>4, <3>3, <3>4
    <3>5. CASE b # a
      <4>1. b \in (a + 1)..n
        BY <2>1, <3>5
      <4>2. f[b] = F[<<b, f>>]
        BY <2>2, <4>1
      <4> QED
        BY <2>4, <3>1, <3>3, <3>5, <4>2
    <3> QED
      BY <3>4, <3>5
  <2>6. \E f2 \in [1..n -> S] : \A b \in a..n : f2[b] = F[<<b, f2>>]
    BY <2>4, <2>5
  <2>7. m \in 0..n
    OBVIOUS
  <2> QED
    BY <2>6, <2>7 DEF a
<1>3. 0..n \subseteq T
  <2> HIDE DEF T
  <2> QED
    BY <1>1, <1>2, BoundedInduction
<1>4. n \in T
  <2>1. n \in 0..n
    OBVIOUS
  <2> QED
    BY <1>3, <2>1
<1>5. PICK f \in [1..n -> S] : \A b \in ((n - n) + 1)..n : f[b] = F[<<b, f>>]
  BY <1>4
<1>6. (n - n) + 1 = 1
  OBVIOUS
<1> QED
  BY <1>5, <1>6 DEF Descends

\* The members of two sequences one after the other.
LEMMA ConcatMembers ==
  ASSUME NEW s \in Seq(Nat), NEW t \in Seq(Nat)
  PROVE  s \o t \in Seq(Nat) /\ ToSet(s \o t) = ToSet(s) \cup ToSet(t)
<1>1. /\ s \o t \in Seq(Nat) /\ Len(s \o t) = Len(s) + Len(t) /\ Len(s) \in Nat /\ Len(t) \in Nat
      /\ DOMAIN s = 1..Len(s) /\ DOMAIN t = 1..Len(t) /\ DOMAIN (s \o t) = 1..(Len(s) + Len(t))
      /\ \A i \in 1..(Len(s) + Len(t)) : (s \o t)[i] = IF i <= Len(s) THEN s[i] ELSE t[i - Len(s)]
  BY ConcatProperties, LenProperties
<1> DEFINE m == Len(s)
           k == Len(t)
           w == s \o t
<1> HIDE DEF m, k, w
<1>2. /\ m \in Nat /\ k \in Nat /\ DOMAIN s = 1..m /\ DOMAIN t = 1..k /\ DOMAIN w = 1..(m + k)
      /\ \A i \in 1..(m + k) : w[i] = IF i <= m THEN s[i] ELSE t[i - m]
  BY <1>1 DEF m, k, w
<1>3. ASSUME NEW i \in 1..(m + k) PROVE w[i] \in ToSet(s) \cup ToSet(t)
  <2>1. CASE i <= m
    <3>1. i \in 1..m /\ w[i] = s[i]
      BY <1>2, <2>1
    <3> QED
      BY <1>2, <3>1 DEF ToSet
  <2>2. CASE ~(i <= m)
    <3>1. i - m \in 1..k /\ w[i] = t[i - m]
      BY <1>2, <2>2
    <3> QED
      BY <1>2, <3>1 DEF ToSet
  <2> QED
    BY <2>1, <2>2
<1>4. ASSUME NEW i \in 1..m PROVE s[i] \in ToSet(w)
  <2>1. i \in 1..(m + k) /\ w[i] = s[i]
    BY <1>2
  <2> QED
    BY <1>2, <2>1 DEF ToSet
<1>5. ASSUME NEW i \in 1..k PROVE t[i] \in ToSet(w)
  <2>1. m + i \in 1..(m + k) /\ w[m + i] = t[i]
    <3>1. m + i \in 1..(m + k) /\ ~(m + i <= m) /\ (m + i) - m = i
      BY <1>2
    <3> QED
      BY <1>2, <3>1
  <2> QED
    BY <1>2, <2>1 DEF ToSet
<1>6. ToSet(w) = ToSet(s) \cup ToSet(t)
  BY <1>2, <1>3, <1>4, <1>5 DEF ToSet
<1> QED
  BY <1>1, <1>6 DEF w

\* The members of a sequence of sequences in one.
LEMMA FlattenMembers ==
  ASSUME NEW n \in Nat, n >= 1, NEW ss \in [1..n -> Seq(Nat)]
  PROVE  FlattenSeq(ss) \in Seq(Nat) /\ ToSet(FlattenSeq(ss)) = UNION {ToSet(ss[c]) : c \in 1..n}
<1> DEFINE Step(u) == [i \in 1..n |-> IF i = 1 THEN ss[i] ELSE u[i - 1] \o ss[i]]
           stop    == {1}
           par     == [i \in 1..n |-> i - 1]
           F       == [p \in (1..n) \X Seq(Nat) |-> p[2] \o ss[p[1]]]
<1>1. Len(ss) = n /\ n # 0
  OBVIOUS
<1>2. F \in [(1..n) \X Seq(Nat) -> Seq(Nat)]
  <2>1. \A p \in (1..n) \X Seq(Nat) : p[2] \o ss[p[1]] \in Seq(Nat)
    BY ConcatMembers
  <2> QED
    BY <2>1
<1>3. PICK f : Climbs(f, n, Seq(Nat), stop, ss, par, F)
  <2>1. /\ \A c \in (1..n) \cap stop : ss[c] \in Seq(Nat)
        /\ \A c \in (1..n) \ stop : par[c] \in 1..(c - 1)
    OBVIOUS
  <2> HIDE DEF stop, par, F
  <2> QED
    BY <1>2, <2>1, Climbing
<1>4. f = Step(f)
  <2>1. f \in [1..n -> Seq(Nat)] /\ \A i \in 1..n : f[i] = IF i \in stop THEN ss[i] ELSE F[<<i, f[par[i]]>>]
    BY <1>3 DEF Climbs
  <2>2. ASSUME NEW i \in 1..n PROVE f[i] = IF i = 1 THEN ss[i] ELSE f[i - 1] \o ss[i]
    <3>1. CASE i = 1
      BY <2>1, <3>1
    <3>2. CASE i # 1
      <4>1. f[i] = F[<<i, f[i - 1]>>]
        BY <2>1, <3>2
      <4>2. i - 1 \in 1..n
        BY <3>2
      <4>3. f[i - 1] \in Seq(Nat)
        BY <2>1, <4>2
      <4>4. F[<<i, f[i - 1]>>] = f[i - 1] \o ss[i]
        BY <4>3
      <4> QED
        BY <3>2, <4>1, <4>4
    <3> QED
      BY <3>1, <3>2
  <2>3. f = [i \in 1..n |-> f[i]]
    BY <2>1
  <2> QED
    BY <2>2, <2>3
<1>5. PICK u : u = Step(u) /\ FlattenSeq(ss) = u[n]
  <2> HIDE DEF Step
  <2>1. (CHOOSE u : u = Step(u)) = Step(CHOOSE u : u = Step(u))
    BY <1>4
  <2>2. FlattenSeq(ss) = (CHOOSE u : u = Step(u))[n]
    BY <1>1 DEF FlattenSeq, Step
  <2> QED
    BY <2>1, <2>2
<1>6. \A i \in 1..n : u[i] = IF i = 1 THEN ss[i] ELSE u[i - 1] \o ss[i]
  <2>1. \A i \in 1..n : Step(u)[i] = IF i = 1 THEN ss[i] ELSE u[i - 1] \o ss[i]
    OBVIOUS
  <2> HIDE DEF Step
  <2> QED
    BY <1>5, <2>1
<1> HIDE DEF Step
<1> DEFINE T == {i \in 1..n : u[i] \in Seq(Nat) /\ ToSet(u[i]) = UNION {ToSet(ss[c]) : c \in 1..i}}
<1>7. ASSUME NEW i \in 1..n, \A c \in 1..(i - 1) : c \in T PROVE i \in T
  <2>1. CASE i = 1
    BY <1>6, <2>1
  <2>2. CASE i # 1
    <3>1. i - 1 \in T /\ 1..i = 1..(i - 1) \cup {i}
      <4>1. i - 1 \in 1..(i - 1) /\ 1..i = 1..(i - 1) \cup {i}
        BY <2>2
      <4> HIDE DEF T
      <4> QED
        BY <1>7, <4>1
    <3>2. u[i] = u[i - 1] \o ss[i] /\ u[i - 1] \in Seq(Nat) /\ ToSet(u[i - 1]) = UNION {ToSet(ss[c]) : c \in 1..(i - 1)}
      BY <1>6, <2>2, <3>1
    <3>3. u[i] \in Seq(Nat) /\ ToSet(u[i]) = ToSet(u[i - 1]) \cup ToSet(ss[i])
      BY <3>2, ConcatMembers
    <3> QED
      BY <3>1, <3>2, <3>3
  <2> QED
    BY <2>1, <2>2
<1>8. 1..n \subseteq T
  <2> HIDE DEF T
  <2> QED
    BY <1>7, StrongInduction
<1>9. n \in 1..n
  OBVIOUS
<1>10. u[n] \in Seq(Nat) /\ ToSet(u[n]) = UNION {ToSet(ss[c]) : c \in 1..n}
  BY <1>8, <1>9
<1> QED
  BY <1>5, <1>10

\* What resolveNonLocalUses meets in block b, by what it meets in the blocks within it.
Inner(bs, u, b) == FlattenSeq([c \in DOMAIN bs |-> IF bs[c].parent = b THEN u[c] ELSE <<>>]) \o bs[b].uses

\* Its members.
LEMMA InnerMembers ==
  ASSUME NEW bs, Tree(bs), NEW u, \A c \in DOMAIN bs : u[c] \in Seq(Nat), NEW b \in DOMAIN bs
  PROVE  /\ Inner(bs, u, b) \in Seq(Nat)
         /\ ToSet(Inner(bs, u, b)) = (UNION {ToSet(u[c]) : c \in {d \in DOMAIN bs : bs[d].parent = b}}) \cup ToSet(bs[b].uses)
<1> DEFINE n  == Len(bs)
           ss == [c \in DOMAIN bs |-> IF bs[c].parent = b THEN u[c] ELSE <<>>]
<1>1. n \in Nat /\ DOMAIN bs = 1..n /\ n >= 1 /\ bs[b] \in BlockType
  <2>1. n \in Nat /\ DOMAIN bs = 1..n /\ Module \in DOMAIN bs /\ bs[b] \in BlockType
    BY TreeFacts
  <2> QED
    BY <2>1
<1> HIDE DEF n
<1>2. ss \in [1..n -> Seq(Nat)]
  BY <1>1
<1>3. bs[b].uses \in Seq(Nat)
  BY <1>1, BlockFields
<1>4. ToSet(<<>>) = {}
  BY DEF ToSet
<1>5. \A c \in 1..n : ToSet(ss[c]) = IF bs[c].parent = b THEN ToSet(u[c]) ELSE {}
  BY <1>1, <1>4
<1> HIDE DEF ss
<1>6. FlattenSeq(ss) \in Seq(Nat) /\ ToSet(FlattenSeq(ss)) = UNION {ToSet(ss[c]) : c \in 1..n}
  BY <1>1, <1>2, FlattenMembers
<1>7. /\ FlattenSeq(ss) \o bs[b].uses \in Seq(Nat)
      /\ ToSet(FlattenSeq(ss) \o bs[b].uses) = ToSet(FlattenSeq(ss)) \cup ToSet(bs[b].uses)
  BY <1>3, <1>6, ConcatMembers
<1>8. UNION {ToSet(ss[c]) : c \in 1..n} = UNION {ToSet(u[c]) : c \in {d \in 1..n : bs[d].parent = b}}
  BY <1>5
<1>9. Inner(bs, u, b) = FlattenSeq(ss) \o bs[b].uses
  BY DEF Inner, ss
<1>10. {d \in DOMAIN bs : bs[d].parent = b} = {d \in 1..n : bs[d].parent = b}
  BY <1>1
<1>11. Inner(bs, u, b) \in Seq(Nat) /\ ToSet(Inner(bs, u, b)) = ToSet(FlattenSeq(ss)) \cup ToSet(bs[b].uses)
  BY <1>7, <1>9
<1>12. ToSet(FlattenSeq(ss)) = UNION {ToSet(u[c]) : c \in {d \in DOMAIN bs : bs[d].parent = b}}
  BY <1>6, <1>8, <1>10
<1> QED
  BY <1>11, <1>12

\* All uses that are left are pending.
LEMMA PendingIs ==
  ASSUME NEW bs, Tree(bs)
  PROVE  Pending(bs) \in Seq(Nat) /\ ToSet(Pending(bs)) = UNION {ToSet(bs[c].uses) : c \in DOMAIN bs}
<1> DEFINE n       == Len(bs)
           Step(u) == [b \in DOMAIN bs |->
                         FlattenSeq([c \in DOMAIN bs |-> IF bs[c].parent = b THEN u[c] ELSE <<>>]) \o bs[b].uses]
           S       == Seq(Nat)
           F       == [p \in (1..n) \X [1..n -> S] |-> Inner(bs, p[2], p[1])]
<1>1. /\ n \in Nat /\ DOMAIN bs = 1..n /\ 1 \in 1..n /\ Module = 1 /\ bs[1].parent = 0
      /\ \A b \in 1..n : b # 1 => bs[b].parent \in 1..(b - 1) /\ bs[b].parent \in 1..n
  BY TreeFacts
<1> HIDE DEF n
<1>0. \A b \in 1..n : \A c \in 1..n : bs[c].parent = b => c \in (b + 1)..n
  BY <1>1
<1>2. ASSUME NEW b \in 1..n, NEW u \in [1..n -> S] PROVE Inner(bs, u, b) \in S
  BY <1>1, InnerMembers
<1>3. F \in [(1..n) \X [1..n -> S] -> S]
  BY <1>2
<1>4. ASSUME NEW b \in 1..n, NEW f \in [1..n -> S], NEW g \in [1..n -> S], \A c \in (b + 1)..n : f[c] = g[c]
      PROVE  F[<<b, f>>] = F[<<b, g>>]
  <2>1. \A c \in 1..n : bs[c].parent = b => c \in (b + 1)..n
    BY <1>1, <1>0
  <2>2. [c \in DOMAIN bs |-> IF bs[c].parent = b THEN f[c] ELSE <<>>]
          = [c \in DOMAIN bs |-> IF bs[c].parent = b THEN g[c] ELSE <<>>]
    BY <1>1, <1>4, <2>1
  <2>3. Inner(bs, f, b) = Inner(bs, g, b)
    BY <2>2 DEF Inner
  <2> QED
    BY <2>3
<1>5. PICK f : Descends(f, n, S, F)
  <2>1. <<>> \in S
    OBVIOUS
  <2>2. ReadsLater(n, S, F)
    <3> HIDE DEF F, S
    <3> QED
      BY <1>3, <1>4 DEF ReadsLater
  <2> HIDE DEF F, S, Step
  <2> QED
    BY <1>1, <2>1, <2>2, Descending
<1>6. f = Step(f)
  <2>1. \A b \in 1..n : f[b] = Inner(bs, f, b)
    BY <1>5 DEF Descends
  <2>2. f = [b \in 1..n |-> Inner(bs, f, b)]
    BY <1>5, <2>1 DEF Descends
  <2> QED
    BY <1>1, <2>2 DEF Inner
<1>7. PICK u : u = Step(u) /\ Pending(bs) = u[1]
  <2> HIDE DEF Step
  <2>1. (CHOOSE u : u = Step(u)) = Step(CHOOSE u : u = Step(u))
    BY <1>6
  <2>2. Pending(bs) = (CHOOSE u : u = Step(u))[1]
    BY <1>1 DEF Pending, Step
  <2> QED
    BY <2>1, <2>2
<1>8. \A b \in 1..n : u[b] = Inner(bs, u, b)
  <2>1. \A b \in 1..n : Step(u)[b] = Inner(bs, u, b)
    BY <1>1 DEF Inner
  <2> HIDE DEF Step
  <2> QED
    BY <1>7, <2>1
<1> HIDE DEF Step, F
<1> DEFINE all == UNION {ToSet(bs[c].uses) : c \in DOMAIN bs}
           T   == {b \in 1..n : u[b] \in Seq(Nat) /\ ToSet(u[b]) \subseteq all}
<1>9. ASSUME NEW b \in 1..n, \A c \in (b + 1)..n : c \in T PROVE b \in T
  <2> DEFINE g == [c \in 1..n |-> IF c \in (b + 1)..n THEN u[c] ELSE <<>>]
  <2>1. \A c \in 1..n : bs[c].parent = b => c \in (b + 1)..n
    BY <1>1, <1>0
  <2>2. \A c \in 1..n : g[c] \in Seq(Nat)
    BY <1>9
  <2>3. [c \in DOMAIN bs |-> IF bs[c].parent = b THEN u[c] ELSE <<>>]
          = [c \in DOMAIN bs |-> IF bs[c].parent = b THEN g[c] ELSE <<>>]
    BY <1>1, <2>1
  <2>4. u[b] = Inner(bs, g, b)
    BY <1>8, <2>3 DEF Inner
  <2>5. \A c \in 1..n : bs[c].parent = b => ToSet(g[c]) \subseteq all
    BY <1>9, <2>1
  <2> HIDE DEF g
  <2>6. /\ Inner(bs, g, b) \in Seq(Nat)
        /\ ToSet(Inner(bs, g, b)) = (UNION {ToSet(g[c]) : c \in {d \in DOMAIN bs : bs[d].parent = b}}) \cup ToSet(bs[b].uses)
    BY <1>1, <2>2, InnerMembers
  <2>7. ToSet(bs[b].uses) \subseteq all
    <3>1. b \in DOMAIN bs
      BY <1>1
    <3> QED
      BY <3>1
  <2>8. UNION {ToSet(g[c]) : c \in {d \in DOMAIN bs : bs[d].parent = b}} \subseteq all
    BY <1>1, <2>5
  <2>9. u[b] \in Seq(Nat) /\ ToSet(u[b]) \subseteq all
    <3> HIDE DEF all
    <3>1. ToSet(Inner(bs, g, b)) \subseteq all
      BY <2>6, <2>7, <2>8
    <3> QED
      BY <2>4, <2>6, <3>1
  <2> QED
    BY <2>9
<1>10. 1..n \subseteq T
  <2> HIDE DEF T
  <2> QED
    BY <1>1, <1>9, DownwardInduction
<1>11. \A c \in DOMAIN bs : u[c] \in Seq(Nat)
  BY <1>1, <1>10
<1>12. ASSUME NEW b \in 1..n
       PROVE  /\ ToSet(bs[b].uses) \subseteq ToSet(u[b])
              /\ \A c \in 1..n : bs[c].parent = b => ToSet(u[c]) \subseteq ToSet(u[b])
  <2>1. b \in DOMAIN bs
    BY <1>1
  <2>2. ToSet(Inner(bs, u, b)) = (UNION {ToSet(u[c]) : c \in {d \in DOMAIN bs : bs[d].parent = b}}) \cup ToSet(bs[b].uses)
    BY <1>11, <2>1, InnerMembers
  <2>3. ToSet(u[b]) = (UNION {ToSet(u[c]) : c \in {d \in DOMAIN bs : bs[d].parent = b}}) \cup ToSet(bs[b].uses)
    BY <1>8, <2>2
  <2>4. ASSUME NEW c \in 1..n, bs[c].parent = b PROVE ToSet(u[c]) \subseteq ToSet(u[b])
    <3>1. c \in {d \in DOMAIN bs : bs[d].parent = b}
      BY <1>1, <2>4
    <3> QED
      BY <2>3, <3>1
  <2> QED
    BY <2>3, <2>4
<1> DEFINE R == {b \in 1..n : ToSet(u[b]) \subseteq ToSet(u[1])}
<1>13. ASSUME NEW b \in 1..n, \A c \in 1..(b - 1) : c \in R PROVE b \in R
  <2>1. CASE b = 1
    BY <2>1
  <2>2. CASE b # 1
    <3>1. bs[b].parent \in R /\ bs[b].parent \in 1..n
      BY <1>1, <1>13, <2>2
    <3>2. ToSet(u[b]) \subseteq ToSet(u[bs[b].parent])
      BY <1>1, <1>12, <3>1
    <3> QED
      BY <3>1, <3>2
  <2> QED
    BY <2>1, <2>2
<1>14. 1..n \subseteq R
  <2> HIDE DEF R
  <2> QED
    BY <1>1, <1>13, StrongInduction
<1>15. all \subseteq ToSet(u[1])
  <2>1. ASSUME NEW c \in DOMAIN bs PROVE ToSet(bs[c].uses) \subseteq ToSet(u[1])
    <3>1. c \in 1..n /\ c \in R
      BY <1>1, <1>14
    <3> QED
      BY <1>12, <3>1
  <2> QED
    BY <2>1
<1>16. u[1] \in Seq(Nat) /\ ToSet(u[1]) \subseteq all
  BY <1>1, <1>10
<1> QED
  BY <1>7, <1>15, <1>16

(***************************************************************************)
(* The loop over them.                                                     *)
(***************************************************************************)
Looped(p, q, D) ==
  /\ Linked(p, q)
  /\ \A i \in DOMAIN p.ids : IF i \in D THEN Found(p, q, i) ELSE q.ids[i] = p.ids[i]

\* One iteration more.
LEMMA LoopedStep ==
  ASSUME NEW p, Ready(p), NEW q, NEW D, Looped(p, q, D), NEW i \in DOMAIN p.ids
  PROVE  Looped(p, LookupLexical(q, i), D \cup {i})
<1> DEFINE q2 == LookupLexical(q, i)
<1>1. FoundBy(p, q, q2, i)
  BY LookupKeeps DEF Looped
<1> HIDE DEF q2
<1>2. Linked(p, q2) /\ Adds(q, q2) /\ Found(p, q2, i) /\ \A j \in DOMAIN p.ids \ {i} : q2.ids[j] = q.ids[j]
  BY <1>1 DEF FoundBy
<1>3. Fixed(p, q) /\ Tree(p.blocks) /\ \A j \in DOMAIN p.ids : p.ids[j].env \in DOMAIN p.blocks
  BY DEF Looped, Linked, Ready, WellFormed
<1>4. ASSUME NEW j \in DOMAIN p.ids
      PROVE  IF j \in D \cup {i} THEN Found(p, q2, j) ELSE q2.ids[j] = p.ids[j]
  <2>1. CASE j = i
    BY <1>2, <2>1
  <2>2. CASE j # i /\ j \in D
    <3>1. Found(p, q, j)
      BY <2>2 DEF Looped
    <3>2. Reach(p, q, p.ids[j].env, p.ids[j].name, [scope |-> q.ids[j].scope, index |-> q.ids[j].index])
      BY <3>1 DEF Found
    <3>3. Reach(p, q2, p.ids[j].env, p.ids[j].name, [scope |-> q.ids[j].scope, index |-> q.ids[j].index])
      BY <1>2, <1>3, <3>2, AddsReach
    <3>4. q2.ids[j] = q.ids[j]
      BY <1>2, <2>2
    <3>5. Found(p, q2, j)
      BY <3>3, <3>4 DEF Found
    <3> QED
      BY <2>2, <3>5
  <2>3. CASE j # i /\ j \notin D
    BY <1>2, <2>3 DEF Looped
  <2> QED
    BY <2>1, <2>2, <2>3
<1> QED
  BY <1>2, <1>4 DEF Looped, q2

\* resolveNonLocalUses: the uses that are pending are found, the others are as they were.
LEMMA NonLocalKeeps ==
  ASSUME NEW p, Ready(p)
  PROVE  Looped(p, ResolveNonLocalUses(p), ToSet(Pending(p.blocks)))
<1> DEFINE uses    == Pending(p.blocks)
           m       == Len(uses)
           Step(u) == [k \in 0..Len(uses) |-> IF k = 0 THEN p ELSE LookupLexical(u[k - 1], uses[k])]
           S       == {s \in Resolvers : Linked(p, s)}
           F       == [c \in (1..m) \X S |-> LookupLexical(c[2], uses[c[1]])]
<1>1. p \in Resolvers /\ Tree(p.blocks) /\ p \in S
  BY ReadyLinked DEF Ready, WellFormed
<1>2. uses \in Seq(Nat) /\ m \in Nat
  BY <1>1, PendingIs
<1>3. ASSUME NEW k \in 1..m PROVE uses[k] \in DOMAIN p.ids
  <2>1. uses[k] \in ToSet(uses)
    BY <1>2 DEF ToSet
  <2>2. ToSet(uses) = UNION {ToSet(p.blocks[c].uses) : c \in DOMAIN p.blocks}
    BY <1>1, PendingIs
  <2>3. \A c \in DOMAIN p.blocks : ToSet(p.blocks[c].uses) \subseteq DOMAIN p.ids
    BY DEF Ready, IdsOf
  <2> HIDE DEF uses
  <2> QED
    BY <2>1, <2>2, <2>3
<1> HIDE DEF uses, m
<1>4. ASSUME NEW k \in 1..m, NEW s \in S PROVE LookupLexical(s, uses[k]) \in S
  <2>1. FoundBy(p, s, LookupLexical(s, uses[k]), uses[k])
    BY <1>3, LookupKeeps
  <2> QED
    BY <2>1 DEF FoundBy, Linked, Fixed
<1>5. F \in [(1..m) \X S -> S]
  BY <1>4
<1>6. PICK f : Counts(f, m, S, p, F)
  <2> HIDE DEF F, S, Step
  <2> QED
    BY <1>1, <1>2, <1>5, Counting
<1>7. f = Step(f)
  <2>1. \A k \in 1..m : f[k] = LookupLexical(f[k - 1], uses[k])
    <3> TAKE k \in 1..m
    <3>1. k - 1 \in 0..m
      BY <1>2
    <3>2. f[k - 1] \in S /\ f[k] = F[<<k, f[k - 1]>>]
      BY <1>6, <3>1 DEF Counts
    <3> QED
      BY <3>2
  <2>2. f = [k \in 0..m |-> f[k]] /\ f[0] = p
    BY <1>6 DEF Counts
  <2>3. \A k \in 0..m : f[k] = IF k = 0 THEN p ELSE LookupLexical(f[k - 1], uses[k])
    BY <1>2, <2>1, <2>2
  <2> QED
    BY <2>2, <2>3 DEF m
<1>8. PICK u : u = Step(u) /\ ResolveNonLocalUses(p) = u[m]
  <2> HIDE DEF Step
  <2>1. (CHOOSE u : u = Step(u)) = Step(CHOOSE u : u = Step(u))
    BY <1>7
  <2>2. ResolveNonLocalUses(p) = (CHOOSE u : u = Step(u))[m]
    BY DEF ResolveNonLocalUses, Step, uses, m
  <2> QED
    BY <2>1, <2>2
<1>9. u[0] = p /\ \A k \in 1..m : u[k] = LookupLexical(u[k - 1], uses[k])
  <2>1. \A k \in 0..m : Step(u)[k] = IF k = 0 THEN p ELSE LookupLexical(u[k - 1], uses[k])
    BY DEF m
  <2> HIDE DEF Step
  <2>2. \A k \in 0..m : u[k] = IF k = 0 THEN p ELSE LookupLexical(u[k - 1], uses[k])
    BY <1>8, <2>1
  <2> QED
    BY <1>2, <2>2
<1> HIDE DEF Step, F
<1> DEFINE seen(k) == {uses[j] : j \in 1..k}
           T       == {k \in 0..m : Looped(p, u[k], seen(k))}
<1>10. 0 \in T
  <2>1. seen(0) = {}
    OBVIOUS
  <2>2. Looped(p, p, {})
    BY <1>1 DEF Looped
  <2> HIDE DEF seen
  <2>3. Looped(p, u[0], seen(0))
    BY <1>9, <2>1, <2>2
  <2>4. 0 \in 0..m
    BY <1>2
  <2> QED
    BY <2>3, <2>4
<1>11. ASSUME NEW k \in 1..m, k - 1 \in T PROVE k \in T
  <2>1. seen(k) = seen(k - 1) \cup {uses[k]}
    <3>1. 1..k = (1..(k - 1)) \cup {k}
      BY <1>2
    <3> QED
      BY <3>1
  <2>2. Looped(p, u[k - 1], seen(k - 1))
    BY <1>11
  <2> HIDE DEF seen
  <2>3. Looped(p, LookupLexical(u[k - 1], uses[k]), seen(k - 1) \cup {uses[k]})
    BY <1>3, <2>2, LoopedStep
  <2>4. k \in 0..m
    BY <1>2
  <2> QED
    BY <1>9, <2>1, <2>3, <2>4
<1>12. m \in T
  <2>1. 0..m \subseteq T
    <3> HIDE DEF T
    <3> QED
      BY <1>2, <1>10, <1>11, BoundedInduction
  <2>2. m \in 0..m
    BY <1>2
  <2> HIDE DEF T
  <2> QED
    BY <2>1, <2>2
<1>13. seen(m) = ToSet(uses)
  BY <1>2 DEF ToSet, m
<1>14. Looped(p, u[m], ToSet(uses))
  <2> HIDE DEF seen
  <2> QED
    BY <1>12, <1>13
<1> QED
  BY <1>8, <1>14 DEF uses

(***************************************************************************)
(* The invariant of the specification.                                     *)
(***************************************************************************)
Ended(q) == \E p : Ready(p) /\ Looped(p, q, ToSet(Pending(p.blocks)))
ResolverInv ==
  /\ allow \in Dialects /\ stray \in BOOLEAN /\ done \in BOOLEAN
  /\ IF done THEN Ended(r) /\ ParamsPlaced(r) ELSE Walked(r, open, allow)
  /\ StrayNeedsNestedDef

\* resolveLocalUses of the module leaves all blocks settled.
LEMMA LocalsReady ==
  ASSUME NEW q, Core(q), q.env = Module
  PROVE  LET p == ResolveLocalUses(q, Module)
         IN  Ready(p) /\ Later(q, p) /\ DOMAIN p.blocks = DOMAIN q.blocks
<1> DEFINE p == ResolveLocalUses(q, Module)
<1>1. Tree(q.blocks) /\ Module \in DOMAIN q.blocks /\ UsesKept(q)
  BY DEF Core, WellFormed, Tree
<1>2. Ancestors(q.blocks, Module) = {Module}
  BY <1>1, AncestorsIs
<1>3. Waiting(q, Module)
  BY <1>1, <1>2 DEF UsesKept
<1>4. \A c \in DOMAIN q.blocks : c # Module => Settled(q, c)
  BY <1>1, <1>2 DEF UsesKept
<1>5. Resolves(q, p, Module)
  BY <1>1, ResolveIs
<1> HIDE DEF p
<1>6. /\ WellFormed(p) /\ LocalsBound(p) /\ GlobalsBound(p) /\ TopLevel(p)
      /\ Later(q, p) /\ DOMAIN p.blocks = DOMAIN q.blocks /\ Settled(p, Module)
      /\ \A d \in DOMAIN q.blocks :
           /\ ToSet(p.blocks[d].uses) \subseteq IdsOf(p, d) /\ p.blocks[d].freevars = <<>>
           /\ d # Module => (Settled(q, d) => Settled(p, d))
  BY <1>1, <1>3, <1>5, ResolvesKeeps
<1>7. \A c \in DOMAIN p.blocks : Settled(p, c)
  BY <1>4, <1>6
<1>8. Ready(p)
  BY <1>6, <1>7 DEF Ready
<1> QED
  BY <1>6, <1>8 DEF p

\* The loop leaves the tree, the parameters, the names, the locals.
LEMMA FixedLater ==
  ASSUME NEW p, NEW q, Fixed(p, q)
  PROVE  Later(p, q) /\ DOMAIN q.blocks = DOMAIN p.blocks
BY DEF Fixed, Later

\* The end of the walk.
LEMMA FinishKeeps ==
  ASSUME Walked(r, open, allow), Finish
  PROVE  Ended(r') /\ ParamsPlaced(r') /\ Later(r, r')
<1> DEFINE p == ResolveLocalUses(r, Module)
<1>1. Core(r) /\ ParamsPlaced(r) /\ Nested(r.blocks, r.env, open) /\ open = <<>>
  BY DEF Walked, Finish
<1>2. r.env = Module
  <2>1. PICK e : Path(r.blocks, r.env, open, e)
    BY <1>1 DEF Nested
  <2> QED
    BY <1>1, <2>1 DEF Path
<1>3. Ready(p) /\ Later(r, p) /\ DOMAIN p.blocks = DOMAIN r.blocks
  BY <1>1, <1>2, LocalsReady
<1>4. r' = ResolveNonLocalUses(p)
  BY DEF Finish
<1> HIDE DEF p
<1>5. Looped(p, r', ToSet(Pending(p.blocks)))
  BY <1>3, <1>4, NonLocalKeeps
<1>6. Later(p, r') /\ DOMAIN r'.blocks = DOMAIN p.blocks
  BY <1>5, FixedLater DEF Looped, Linked
<1>7. Later(r, r')
  BY <1>3, <1>6, LaterTransitive
<1>8. ParamsPlaced(r')
  BY <1>1, <1>3, <1>6, <1>7, LaterParams
<1> QED
  BY <1>3, <1>5, <1>7, <1>8 DEF Ended

\* A break or continue that passes outside the loops of its function is in a nested one.
LEMMA StrayStep ==
  ASSUME Walked(r, open, allow), Branch, StrayNeedsNestedDef
  PROVE  StrayNeedsNestedDef'
<1>1. /\ r' = Errorf(r, IF r.loops = 0 THEN {"not in a loop"} ELSE {}) /\ allow' = allow
      /\ stray' = (stray \/ (r.loops > 0 /\ ~ \E i \in DOMAIN open :
                     open[i] = "for" /\ \A j \in (i + 1)..Len(open) : open[j] # "function"))
  BY DEF Branch
<1>2. Core(r) /\ LoopsOpen(r, open, allow) /\ open \in Seq(Constructs)
  BY DEF Walked
<1>3. r.errors \subseteq r'.errors
  <2>1. r \in Resolvers
    BY <1>2 DEF Core, WellFormed
  <2>2. (IF r.loops = 0 THEN {"not in a loop"} ELSE {}) \in SUBSET Errors
    BY DEF Errors
  <2> QED
    BY <1>1, <2>1, <2>2, ErrorfIs
<1> SUFFICES ASSUME stray', r'.errors = {}, "nestedDef" \notin allow PROVE FALSE
  BY <1>1 DEF StrayNeedsNestedDef
<1>4. r.errors = {}
  BY <1>3
<1>5. ~stray
  BY <1>4 DEF StrayNeedsNestedDef
<1>6. r.loops > 0 /\ ~ \E i \in DOMAIN open : open[i] = "for" /\ \A j \in (i + 1)..Len(open) : open[j] # "function"
  BY <1>1, <1>5
<1>7. ForsNested(open) /\ DefsFlat(open) /\ r.loops = Cardinality(Fors(open))
  BY <1>2, <1>4 DEF LoopsOpen
<1>8. PICK i \in DOMAIN open : open[i] = "for"
  <2>1. Cardinality({}) = 0
    BY FS_EmptySet
  <2>2. ASSUME Fors(open) = {} PROVE FALSE
    <3>1. r.loops = 0
      BY <1>7, <2>1, <2>2
    <3> QED
      BY <1>6, <3>1
  <2> QED
    BY <2>2 DEF Fors
<1>9. PICK j \in (i + 1)..Len(open) : open[j] = "function"
  BY <1>6, <1>8
<1>10. PICK k \in 1..(i - 1) : open[k] \in Functional
  BY <1>7, <1>8 DEF ForsNested
<1>11. i \in Nat /\ Len(open) \in Nat /\ DOMAIN open = 1..Len(open)
  BY <1>2
<1>12. j \in DOMAIN open /\ k \in 1..(j - 1)
  BY <1>9, <1>10, <1>11
<1> QED
  BY <1>7, <1>9, <1>10, <1>12 DEF DefsFlat

\* The invariant holds of every behaviour.
LEMMA ResolverInvInductive ==
  ResolverSpec => []ResolverInv
<1>1. ResolverInit => ResolverInv
  <2> SUFFICES ASSUME ResolverInit PROVE ResolverInv
    OBVIOUS
  <2>1. allow \in Dialects /\ r = NewResolver /\ open = <<>> /\ stray = FALSE /\ done = FALSE
    BY DEF ResolverInit
  <2>2. Walked(r, open, allow)
    BY <2>1, StartWalked
  <2> QED
    BY <2>1, <2>2 DEF ResolverInv, StrayNeedsNestedDef
<1>2. ResolverInv /\ [ResolverNext]_resolverVars => ResolverInv'
  <2> SUFFICES ASSUME ResolverInv, [ResolverNext]_resolverVars PROVE ResolverInv'
    OBVIOUS
  <2>1. CASE UNCHANGED resolverVars
    <3>1. allow' = allow /\ r' = r /\ open' = open /\ stray' = stray /\ done' = done
      BY <2>1 DEF resolverVars
    <3> QED
      BY <3>1 DEF ResolverInv, StrayNeedsNestedDef
  <2>2. CASE ResolverNext
    <3>1. ~done
      BY <2>2 DEF ResolverNext, Ident, Assign, IllFormed, Def, Lambda, EnterFunction, LeaveFunction,
                  EnterComprehension, ForClause, LeaveComprehension, EnterFor, LeaveFor, Branch, IfOrReturn,
                  Load, Finish, Stmt, Expr
    <3>2. Walked(r, open, allow) /\ allow \in Dialects /\ stray \in BOOLEAN /\ StrayNeedsNestedDef
      BY <3>1 DEF ResolverInv
    <3>3. CASE Finish
      <4>1. Ended(r') /\ ParamsPlaced(r') /\ Later(r, r')
        BY <3>2, <3>3, FinishKeeps
      <4>2. done' = TRUE /\ allow' = allow /\ stray' = stray
        BY <3>3 DEF Finish
      <4>3. StrayNeedsNestedDef'
        BY <3>2, <4>1, <4>2 DEF StrayNeedsNestedDef, Later
      <4> QED
        BY <3>2, <4>1, <4>2, <4>3 DEF ResolverInv
    <3>4. CASE ~Finish
      <4>1. Walked(r', open', allow') /\ Later(r, r') /\ done' = done /\ allow' = allow
        BY <2>2, <3>1, <3>2, <3>4, WalkKeeps
      <4>2. CASE Branch
        <5>1. StrayNeedsNestedDef'
          BY <3>2, <4>2, StrayStep
        <5>2. stray' \in BOOLEAN
          BY <3>2, <4>2 DEF Branch
        <5> QED
          BY <3>1, <3>2, <4>1, <5>1, <5>2 DEF ResolverInv
      <4>3. CASE ~Branch
        <5>1. stray' = stray
          BY <2>2, <3>4, <4>3 DEF ResolverNext, Ident, Assign, IllFormed, Def, Lambda, EnterFunction,
                  LeaveFunction, EnterComprehension, ForClause, LeaveComprehension, EnterFor, LeaveFor,
                  IfOrReturn, Load
        <5>2. StrayNeedsNestedDef'
          BY <3>2, <4>1, <5>1 DEF StrayNeedsNestedDef, Later
        <5> QED
          BY <3>1, <3>2, <4>1, <5>1, <5>2 DEF ResolverInv
      <4> QED
        BY <4>2, <4>3
    <3> QED
      BY <3>3, <3>4
  <2> QED
    BY <2>1, <2>2
<1> QED
  BY <1>1, <1>2, PTL DEF ResolverSpec

\* ResolverInvariant: while the walk goes on, the constructs open are a path of the tree of
\* blocks, every binding leads to a local of its own, the uses of the containers around are
\* pending and those of the others settled; after it every pending use is found.
THEOREM ResolverInvariant == ResolverSpec => []ResolverInv
BY ResolverInvInductive

\* A break or continue outside the loops of its function passes only where a function may
\* be nested (File, stmt).
THEOREM BranchesNeedNestedDef == ResolverSpec => []StrayNeedsNestedDef
<1>1. ResolverInv => StrayNeedsNestedDef
  BY DEF ResolverInv
<1> QED
  BY <1>1, ResolverInvInductive, PTL

\* When the walk is over, the parameters of a function are its first locals (function).
THEOREM ParamsAreFirst == ResolverSpec => []ParamsFirst
<1>1. ResolverInv => ParamsFirst
  <2> SUFFICES ASSUME ResolverInv, done, r.errors = {}, NEW f \in DOMAIN r.blocks
               PROVE  LET ps == r.blocks[f].params
                      IN  /\ \A k \in DOMAIN ps : r.ids[r.blocks[f].locals[k]].name = ps[k].name
                          /\ \A j, k \in DOMAIN ps : j < k =>
                               /\ ps[j].name # ps[k].name
                               /\ Rank(ps[j]) <= Rank(ps[k])
                               /\ Rank(ps[j]) = Rank(ps[k]) => Rank(ps[j]) <= 2
    BY DEF ParamsFirst, Blocks
  <2>1. Placed(r, f, Len(r.blocks[f].params)) /\ Ordered(r.blocks[f].params)
    BY DEF ResolverInv, ParamsPlaced
  <2>2. r.blocks[f].params \in Seq(Param)
    <3>1. PICK p : Ready(p) /\ Fixed(p, r)
      BY DEF ResolverInv, Ended, Looped, Linked
    <3>2. r \in Resolvers
      BY <3>1 DEF Fixed
    <3>3. r.blocks \in Seq(BlockType)
      BY <3>2 DEF Resolvers
    <3>4. r.blocks[f] \in BlockType
      BY <3>3
    <3> QED
      BY <3>4, BlockFields
  <2>3. DOMAIN r.blocks[f].params = 1..Len(r.blocks[f].params)
    BY <2>2
  <2> QED
    BY <2>1, <2>3 DEF Placed, Ordered
<1> QED
  BY <1>1, ResolverInvInductive, PTL

(***************************************************************************)
(* Homes and containers at the end.                                        *)
(***************************************************************************)

\* The blocks between an occurrence and its home have the same home.
LEMMA HomeThrough ==
  ASSUME NEW p, Tree(p.blocks), NEW x, NEW b \in DOMAIN p.blocks, NEW c \in Ancestors(p.blocks, b),
         HomeOf(p, b, x) \in Ancestors(p.blocks, c)
  PROVE  HomeOf(p, c, x) = HomeOf(p, b, x)
<1> DEFINE n == Len(p.blocks)
           T == {a \in 1..n : \A d \in Ancestors(p.blocks, a) :
                   HomeOf(p, a, x) \in Ancestors(p.blocks, d) => HomeOf(p, d, x) = HomeOf(p, a, x)}
<1>1. n \in Nat /\ DOMAIN p.blocks = 1..n /\ \A a \in 1..n : a # Module => p.blocks[a].parent \in 1..(a - 1) /\ p.blocks[a].parent \in 1..n
  BY TreeFacts
<1> HIDE DEF n
<1>2. ASSUME NEW a \in 1..n, \A d \in 1..(a - 1) : d \in T PROVE a \in T
  <2> SUFFICES ASSUME NEW d \in Ancestors(p.blocks, a), HomeOf(p, a, x) \in Ancestors(p.blocks, d), d # a
               PROVE  HomeOf(p, d, x) = HomeOf(p, a, x)
    OBVIOUS
  <2>1. /\ Ancestors(p.blocks, a) = IF a = Module THEN {a} ELSE {a} \cup Ancestors(p.blocks, p.blocks[a].parent)
        /\ Ancestors(p.blocks, a) \subseteq DOMAIN p.blocks
    BY <1>1, AncestorsIs
  <2>2. a # Module /\ d \in Ancestors(p.blocks, p.blocks[a].parent)
    BY <2>1
  <2>3. p.blocks[a].parent \in T /\ p.blocks[a].parent \in 1..(a - 1) /\ p.blocks[a].parent \in DOMAIN p.blocks
    BY <1>1, <1>2, <2>2
  <2>4. Ancestors(p.blocks, p.blocks[a].parent) \subseteq 1..p.blocks[a].parent /\ Ancestors(p.blocks, d) \subseteq 1..d
    BY <2>1, <2>3, AncestorsIs
  <2>5. a \notin Ancestors(p.blocks, d)
    BY <2>2, <2>3, <2>4
  <2>6. HomeOf(p, a, x) = IF a = Module \/ Declares(p, a, x) THEN a ELSE HomeOf(p, p.blocks[a].parent, x)
    BY <1>1, HomeOfIs
  <2>7. HomeOf(p, a, x) = HomeOf(p, p.blocks[a].parent, x)
    BY <2>2, <2>5, <2>6
  <2> QED
    BY <2>2, <2>3, <2>7
<1>3. 1..n \subseteq T
  <2> HIDE DEF T
  <2> QED
    BY <1>1, <1>2, StrongInduction
<1> QED
  BY <1>1, <1>3

\* A home in another container is the home of the container, too.
LEMMA HomeOutside ==
  ASSUME NEW p, Tree(p.blocks), NEW x, NEW b \in DOMAIN p.blocks,
         Container(p.blocks, HomeOf(p, b, x)) # Container(p.blocks, b)
  PROVE  HomeOf(p, Container(p.blocks, b), x) = HomeOf(p, b, x)
<1> DEFINE c == Container(p.blocks, b)
           h == HomeOf(p, b, x)
<1>1. /\ c \in Ancestors(p.blocks, b) /\ c \in Nat
      /\ \A d \in Ancestors(p.blocks, b) : d >= c => Container(p.blocks, d) = c
      /\ \A d \in Ancestors(p.blocks, b) : d < c => d \in Ancestors(p.blocks, c)
  BY ContainerIs, ContainerAbove
<1>2. h \in Ancestors(p.blocks, b) /\ h \in Nat
  BY HomeOfIs, AncestorsIs
<1> HIDE DEF c, h
<1>3. h \in Ancestors(p.blocks, c)
  BY <1>1, <1>2 DEF c, h
<1> QED
  BY <1>1, <1>3, HomeThrough DEF c, h

\* The homes are in the tree, and in the names, blocks and kinds of the occurrences.
LEMMA HomeSame ==
  ASSUME NEW p, NEW q, Tree(p.blocks), Fixed(p, q), NEW x, NEW b \in DOMAIN p.blocks
  PROVE  /\ HomeOf(q, b, x) = HomeOf(p, b, x)
         /\ Container(q.blocks, b) = Container(p.blocks, b) /\ Ancestors(q.blocks, b) = Ancestors(p.blocks, b)
<1> DEFINE n == Len(p.blocks)
           T == {a \in 1..n : HomeOf(q, a, x) = HomeOf(p, a, x)}
<1>1. Tree(q.blocks) /\ Grows(p.blocks, q.blocks)
  BY FixedTree
<1>2. /\ n \in Nat /\ DOMAIN p.blocks = 1..n /\ DOMAIN q.blocks = 1..n
      /\ \A a \in 1..n : a # Module => p.blocks[a].parent \in 1..(a - 1)
      /\ \A a \in 1..n : q.blocks[a].parent = p.blocks[a].parent
  BY TreeFacts DEF Fixed
<1>3. \A a : Declares(q, a, x) <=> Declares(p, a, x)
  BY DEF Fixed, Declares
<1> HIDE DEF n
<1>4. ASSUME NEW a \in 1..n, \A d \in 1..(a - 1) : d \in T PROVE a \in T
  <2>1. HomeOf(p, a, x) = IF a = Module \/ Declares(p, a, x) THEN a ELSE HomeOf(p, p.blocks[a].parent, x)
    BY <1>2, HomeOfIs
  <2>2. HomeOf(q, a, x) = IF a = Module \/ Declares(q, a, x) THEN a ELSE HomeOf(q, q.blocks[a].parent, x)
    BY <1>1, <1>2, HomeOfIs
  <2>3. a # Module => p.blocks[a].parent \in T /\ q.blocks[a].parent = p.blocks[a].parent
    BY <1>2, <1>4
  <2> QED
    BY <1>3, <2>1, <2>2, <2>3
<1>5. 1..n \subseteq T
  <2> HIDE DEF T
  <2> QED
    BY <1>2, <1>4, StrongInduction
<1>6. HomeOf(q, b, x) = HomeOf(p, b, x)
  BY <1>2, <1>5
<1> QED
  BY <1>1, <1>6, GrowsKeeps

\* What lookupLocal finds is the binding of the home, in the same frame.
LEMMA LookupLocalHome ==
  ASSUME NEW p, Tree(p.blocks), LocalsBound(p), NEW x \in Name, NEW b \in DOMAIN p.blocks,
         LookupLocal(p.blocks, x, b) # NoBinding
  PROVE  LET h == HomeOf(p, b, x)
         IN  /\ h # Module /\ Container(p.blocks, h) = Container(p.blocks, b)
             /\ LookupLocal(p.blocks, x, b) = p.blocks[h].bindings[x]
<1> DEFINE n     == Len(p.blocks)
           Is(a) == LET h == HomeOf(p, a, x)
                    IN  /\ h # Module /\ Container(p.blocks, h) = Container(p.blocks, a)
                        /\ LookupLocal(p.blocks, x, a) = p.blocks[h].bindings[x]
           T     == {a \in 1..n : LookupLocal(p.blocks, x, a) # NoBinding => Is(a)}
<1>1. /\ n \in Nat /\ DOMAIN p.blocks = 1..n /\ p.blocks[Module].kind = "module"
      /\ \A a \in 1..n : a # Module => p.blocks[a].parent \in 1..(a - 1)
  BY TreeFacts
<1> HIDE DEF n
<1>2. ASSUME NEW a \in 1..n, \A d \in 1..(a - 1) : d \in T PROVE a \in T
  <2> SUFFICES ASSUME LookupLocal(p.blocks, x, a) # NoBinding PROVE Is(a)
    OBVIOUS
  <2>1. LookupLocal(p.blocks, x, a) = IF p.blocks[a].bindings[x] # NoBinding THEN p.blocks[a].bindings[x]
          ELSE IF p.blocks[a].kind # "comp" THEN NoBinding ELSE LookupLocal(p.blocks, x, p.blocks[a].parent)
    BY <1>1, LookupLocalIs
  <2>2. HomeOf(p, a, x) = IF a = Module \/ Declares(p, a, x) THEN a ELSE HomeOf(p, p.blocks[a].parent, x)
    BY <1>1, HomeOfIs
  <2>3. Container(p.blocks, a) = IF p.blocks[a].kind = "comp" THEN Container(p.blocks, p.blocks[a].parent) ELSE a
    BY <1>1, ContainerIs
  <2>4. CASE p.blocks[a].bindings[x] # NoBinding
    <3>1. a # Module
      BY <1>1, <2>4 DEF LocalsBound
    <3>2. Declares(p, a, x)
      BY <1>1, <2>4, <3>1, BoundDeclares
    <3> QED
      BY <2>1, <2>2, <2>4, <3>1, <3>2
  <2>5. CASE p.blocks[a].bindings[x] = NoBinding
    <3>1. p.blocks[a].kind = "comp" /\ a # Module
      BY <1>1, <2>1, <2>5
    <3>2. ~Declares(p, a, x)
      BY <1>1, <2>5, <3>1, BoundDeclares
    <3>3. LookupLocal(p.blocks, x, a) = LookupLocal(p.blocks, x, p.blocks[a].parent)
      BY <2>1, <2>5, <3>1
    <3>4. HomeOf(p, a, x) = HomeOf(p, p.blocks[a].parent, x)
      BY <2>2, <3>1, <3>2
    <3>5. Container(p.blocks, a) = Container(p.blocks, p.blocks[a].parent)
      BY <2>3, <3>1
    <3>6. p.blocks[a].parent \in T
      BY <1>1, <1>2, <3>1
    <3>7. Is(p.blocks[a].parent)
      BY <3>3, <3>6
    <3> QED
      BY <3>3, <3>4, <3>5, <3>7
  <2> QED
    BY <2>4, <2>5
<1>3. 1..n \subseteq T
  <2> HIDE DEF T
  <2> QED
    BY <1>1, <1>2, StrongInduction
<1> QED
  BY <1>1, <1>3

\* At the end every occurrence in an inner block has the address of what it denotes.
LEMMA EndsFound ==
  ASSUME NEW p, Ready(p), NEW q, Looped(p, q, ToSet(Pending(p.blocks))), NEW i \in DOMAIN p.ids
  PROVE  IF p.ids[i].env = Module THEN q.ids[i] = p.ids[i] ELSE Found(p, q, i)
<1> DEFINE id == p.ids[i]
           c  == Container(p.blocks, id.env)
           v  == LookupLocal(p.blocks, id.name, id.env)
<1>1. /\ Tree(p.blocks) /\ LocalsBound(p) /\ id \in IdType /\ id.env \in DOMAIN p.blocks
      /\ \A d \in DOMAIN p.blocks : Settled(p, d) /\ ToSet(p.blocks[d].uses) \subseteq IdsOf(p, d)
  <2>1. p \in Resolvers /\ Tree(p.blocks) /\ LocalsBound(p) /\ id.env \in DOMAIN p.blocks
    BY DEF Ready, WellFormed
  <2>2. p.ids \in Seq(IdType)
    BY <2>1 DEF Resolvers
  <2>3. id \in IdType
    BY <2>2
  <2> QED
    BY <2>1, <2>3 DEF Ready
<1>2. ToSet(Pending(p.blocks)) = UNION {ToSet(p.blocks[d].uses) : d \in DOMAIN p.blocks}
  BY <1>1, PendingIs
<1>3. /\ i \in ToSet(Pending(p.blocks)) => Found(p, q, i)
      /\ i \notin ToSet(Pending(p.blocks)) => q.ids[i] = p.ids[i]
  BY DEF Looped
<1>4. c \in DOMAIN p.blocks /\ id.name \in Name
  BY <1>1, ContainerIs DEF IdType
<1>5. CASE id.env = Module
  <2>1. \A d \in DOMAIN p.blocks : i \notin ToSet(p.blocks[d].uses)
    BY <1>1, <1>5 DEF IdsOf
  <2> QED
    BY <1>2, <1>3, <1>5, <2>1
<1>6. CASE id.env # Module /\ v = NoBinding
  <2>1. i \in IdsOf(p, c)
    BY <1>6 DEF IdsOf
  <2>2. i \in ToSet(p.blocks[c].uses)
    BY <1>1, <1>4, <1>6, <2>1 DEF Settled
  <2>3. i \in ToSet(Pending(p.blocks))
    <3>1. ToSet(p.blocks[c].uses) \in {ToSet(p.blocks[d].uses) : d \in DOMAIN p.blocks}
      BY <1>4
    <3> HIDE DEF c
    <3> QED
      BY <1>2, <2>2, <3>1
  <2> QED
    BY <1>3, <1>6, <2>3
<1>7. CASE id.env # Module /\ v # NoBinding
  <2>1. i \in IdsOf(p, c)
    BY <1>7 DEF IdsOf
  <2>2. i \notin ToSet(p.blocks[c].uses) /\ id.scope = "local" /\ id.index = v.index
    BY <1>1, <1>4, <1>7, <2>1 DEF Settled
  <2>3. \A d \in DOMAIN p.blocks : d # c => i \notin ToSet(p.blocks[d].uses)
    BY <1>1 DEF IdsOf
  <2>4. i \notin ToSet(Pending(p.blocks))
    BY <1>2, <2>2, <2>3
  <2>5. q.ids[i] = p.ids[i]
    BY <1>3, <2>4
  <2>6. v \in Bindings /\ v.scope = "local"
    BY <1>1, <1>4, <1>7, LookupLocalIs, LookupLocalScope
  <2>7. [scope |-> q.ids[i].scope, index |-> q.ids[i].index] = v
    <3>1. v = [scope |-> v.scope, index |-> v.index]
      BY <2>6 DEF Bindings
    <3> HIDE DEF v
    <3> QED
      BY <2>2, <2>5, <2>6, <3>1
  <2> DEFINE h == HomeOf(p, id.env, id.name)
  <2>8. h # Module /\ Container(p.blocks, h) = c /\ v = p.blocks[h].bindings[id.name]
    BY <1>1, <1>4, <1>7, LookupLocalHome
  <2>9. Reach(p, q, id.env, id.name, v)
    BY <2>8 DEF Reach
  <2> QED
    BY <1>7, <2>7, <2>9 DEF Found
<1> QED
  BY <1>5, <1>6, <1>7

(***************************************************************************)
(* The cells of the frames and closures.                                   *)
(***************************************************************************)
Slots  == UNION {[D -> Nat] : D \in SUBSET Nat}
Frames == [local : Slots, free : Slots]

\* The frame of a function of block c whose maker has frame v.
Slot(cells, index) == IF index \in DOMAIN cells THEN cells[index] ELSE 0
FreeOf(bs, c, v) ==
  [k \in DOMAIN bs[c].freevars |-> Slot(v[bs[c].freevars[k].scope], bs[c].freevars[k].index)]
FrameOf(bs, c, v) == [local |-> bs[c].locals, free |-> FreeOf(bs, c, v)]

\* What a frame has at an address.
Entry(u, c, scope, index) == Slot(u[c][scope], index)

\* u are frames, and Cell reads them.
Framed(p, q, u) ==
  /\ \A c \in DOMAIN p.blocks :
       /\ u[c]["local"] = p.blocks[c].locals
       /\ DOMAIN u[c]["free"] = DOMAIN q.blocks[c].freevars
       /\ \A k \in DOMAIN q.blocks[c].freevars :
            u[c]["free"][k] = Entry(u, Container(p.blocks, p.blocks[c].parent),
                                    q.blocks[c].freevars[k].scope, q.blocks[c].freevars[k].index)
CellReads(p, u) ==
  \A b \in DOMAIN p.blocks, scope \in {"local", "free"}, index \in Nat :
    Cell(scope, index, b) = Entry(u, Container(p.blocks, b), scope, index)

\* A sequence of naturals is such a frame.
LEMMA SlotsSeq ==
  ASSUME NEW s \in Seq(Nat)
  PROVE  s \in Slots
<1>1. s \in [1..Len(s) -> Nat] /\ 1..Len(s) \in SUBSET Nat
  OBVIOUS
<1> QED
  BY <1>1 DEF Slots

\* What is in it is a natural.
LEMMA SlotIs ==
  ASSUME NEW s \in Slots, NEW k
  PROVE  Slot(s, k) \in Nat
BY DEF Slots, Slot

\* What is captured is of a local or a free variable.
LEMMA CapturedScope ==
  ASSUME NEW p, Ready(p), NEW q, Linked(p, q), NEW f \in DOMAIN p.blocks, NEW k \in DOMAIN q.blocks[f].freevars
  PROVE  /\ f # Module /\ q.blocks[f].freevars[k] \in FreeVars
         /\ q.blocks[f].freevars[k].scope \in {"local", "free"}
<1> DEFINE fv == q.blocks[f].freevars[k]
           x  == fv.name
           a  == p.blocks[f].parent
           h  == HomeOf(p, a, x)
           v  == [scope |-> fv.scope, index |-> fv.index]
<1>1. Captures(p, q, f, k)
  BY DEF Linked
<1>2. Tree(p.blocks) /\ LocalsBound(p) /\ q.blocks \in Seq(BlockType) /\ DOMAIN q.blocks = DOMAIN p.blocks
  BY DEF Ready, WellFormed, Linked, Fixed, Resolvers
<1>3. fv \in FreeVars
  <2>1. q.blocks[f].freevars \in Seq(FreeVars)
    <3>1. q.blocks[f] \in BlockType
      BY <1>2
    <3> QED
      BY <3>1, BlockFields
  <2> QED
    BY <2>1
<1>4. /\ p.blocks[f].kind = "function" /\ x \in Name /\ ~Declares(p, f, x) /\ HomeOf(p, f, x) # Module
      /\ Reach(p, q, a, x, v)
  BY <1>1 DEF Captures
<1>5. f # Module /\ a \in DOMAIN p.blocks
  BY <1>2, <1>4, TreeFacts
<1>6. h = HomeOf(p, f, x) /\ h # Module
  BY <1>2, <1>4, <1>5, HomeOfIs
<1>7. Declares(p, h, x) /\ h \in DOMAIN p.blocks
  BY <1>2, <1>5, <1>6, HomeOfIs, AncestorsIs
<1>8. p.blocks[h].bindings[x].scope = "local"
  BY <1>2, <1>4, <1>6, <1>7, BoundDeclares
<1> HIDE DEF h
<1>9. v = p.blocks[h].bindings[x] \/ v.scope = "free"
  BY <1>4, <1>6 DEF Reach, h
<1>10. v.scope = fv.scope
  OBVIOUS
<1> HIDE DEF v, fv
<1>11. fv.scope \in {"local", "free"}
  BY <1>8, <1>9, <1>10
<1> QED
  BY <1>3, <1>5, <1>11 DEF fv

\* Cell is a recursion up the tree of containers.
LEMMA CellIs ==
  ASSUME NEW p, Ready(p), Linked(p, r)
  PROVE  \E u : Framed(p, r, u) /\ CellReads(p, u)
<1> DEFINE bs      == r.blocks
           n       == Len(bs)
           par     == [c \in 1..n |-> Container(bs, bs[c].parent)]
           base    == [c \in {1} |-> [local |-> bs[c].locals, free |-> [k \in {} |-> 0]]]
           F       == [d \in (1..n) \X Frames |-> FrameOf(bs, d[1], d[2])]
           Step(u) == [c \in DOMAIN Blocks |->
                         [local |-> Blocks[c].locals,
                          free  |-> [k \in DOMAIN Blocks[c].freevars |->
                                       LET fv    == Blocks[c].freevars[k]
                                           cells == u[Container(Blocks, Blocks[c].parent)][fv.scope]
                                       IN  IF fv.index \in DOMAIN cells THEN cells[fv.index] ELSE 0]]]
<1>1. /\ Tree(p.blocks) /\ Fixed(p, r) /\ Tree(bs) /\ Grows(p.blocks, bs)
      /\ DOMAIN bs = DOMAIN p.blocks
      /\ \A c \in DOMAIN bs : bs[c].parent = p.blocks[c].parent /\ bs[c].locals = p.blocks[c].locals
  <2>1. Tree(p.blocks) /\ Fixed(p, r)
    BY DEF Ready, WellFormed, Linked
  <2> QED
    BY <2>1, FixedTree DEF Fixed
<1>2. /\ n \in Nat /\ DOMAIN bs = 1..n /\ Module = 1 /\ 1 \in 1..n
      /\ \A c \in 1..n : bs[c] \in BlockType
      /\ \A c \in 1..n : c # 1 => bs[c].parent \in 1..(c - 1) /\ bs[c].parent \in 1..n
  BY <1>1, TreeFacts
<1> HIDE DEF n
<1>3. \A c \in (1..n) \ {1} : par[c] \in 1..(c - 1)
  <2> TAKE c \in (1..n) \ {1}
  <2>1. Container(bs, bs[c].parent) \in 1..bs[c].parent
    BY <1>1, <1>2, ContainerIs
  <2> QED
    BY <1>2, <2>1
<1>4. ASSUME NEW c \in 1..n, NEW v \in Frames PROVE FrameOf(bs, c, v) \in Frames
  <2>1. bs[c].locals \in Seq(Nat) /\ bs[c].freevars \in Seq(FreeVars)
    BY <1>2, BlockFields
  <2>2. bs[c].locals \in Slots
    BY <2>1, SlotsSeq
  <2>3. ASSUME NEW k \in DOMAIN bs[c].freevars
        PROVE  FreeOf(bs, c, v)[k] \in Nat
    <3>1. bs[c].freevars[k].scope \in {"local", "free"}
      BY <1>1, <1>2, CapturedScope
    <3>2. v[bs[c].freevars[k].scope] \in Slots
      BY <3>1 DEF Frames
    <3> QED
      BY <3>2, SlotIs DEF FreeOf
  <2>4. FreeOf(bs, c, v) \in [DOMAIN bs[c].freevars -> Nat]
    BY <2>3 DEF FreeOf
  <2>5. DOMAIN bs[c].freevars \in SUBSET Nat
    BY <2>1
  <2>6. FreeOf(bs, c, v) \in Slots
    BY <2>4, <2>5 DEF Slots
  <2> QED
    BY <2>2, <2>6 DEF FrameOf, Frames
<1>5. F \in [(1..n) \X Frames -> Frames]
  BY <1>4
<1>6. base[1] \in Frames
  <2>1. [k \in {} |-> 0] \in [{} -> Nat] /\ {} \in SUBSET Nat
    OBVIOUS
  <2>2. [k \in {} |-> 0] \in Slots
    BY <2>1 DEF Slots
  <2>3. bs[1].locals \in Seq(Nat)
    BY <1>2, BlockFields
  <2>5. bs[1].locals \in Slots
    BY <2>3, SlotsSeq
  <2> QED
    BY <2>2, <2>5 DEF Frames
<1>7. PICK f : Climbs(f, n, Frames, {1}, base, par, F)
  <2> HIDE DEF F, par, base
  <2>1. \A c \in (1..n) \cap {1} : base[c] \in Frames
    BY <1>6
  <2> QED
    BY <1>2, <1>3, <1>5, <2>1, Climbing
<1>8. \A c \in 1..n : f[c] = FrameOf(bs, c, f[Container(bs, bs[c].parent)])
  <2>1. ASSUME NEW c \in 1..n, c # 1 PROVE f[c] = FrameOf(bs, c, f[Container(bs, bs[c].parent)])
    <3>1. f[c] = F[<<c, f[par[c]]>>]
      BY <1>7, <2>1 DEF Climbs
    <3>2. par[c] \in 1..n
      BY <1>2, <1>3, <2>1
    <3>3. f[par[c]] \in Frames
      BY <1>7, <3>2 DEF Climbs
    <3> QED
      BY <3>1, <3>3
  <2>2. f[1] = FrameOf(bs, 1, f[Container(bs, bs[1].parent)])
    <3>1. f[1] = base[1]
      BY <1>2, <1>7 DEF Climbs
    <3>2. \A k \in DOMAIN bs[1].freevars : FALSE
      BY <1>1, <1>2, CapturedScope
    <3>3. DOMAIN bs[1].freevars = {}
      BY <3>2
    <3>4. base[1] = [local |-> bs[1].locals, free |-> [k \in {} |-> 0]]
      OBVIOUS
    <3> HIDE DEF base
    <3> QED
      BY <3>1, <3>3, <3>4 DEF FrameOf, FreeOf
  <2> QED
    BY <2>1, <2>2
<1>9. f = Step(f)
  <2>1. f = [c \in 1..n |-> f[c]]
    BY <1>7 DEF Climbs
  <2>2. f = [c \in 1..n |-> FrameOf(bs, c, f[Container(bs, bs[c].parent)])]
    BY <1>8, <2>1
  <2> QED
    BY <1>2, <2>2 DEF FrameOf, FreeOf, Slot, Blocks
<1>10. PICK u : u = Step(u) /\ \A b, scope, index :
                  Cell(scope, index, b) = Entry(u, Container(bs, b), scope, index)
  <2> HIDE DEF Step
  <2>1. (CHOOSE u : u = Step(u)) = Step(CHOOSE u : u = Step(u))
    BY <1>9
  <2> DEFINE w == CHOOSE u : u = Step(u)
  <2>2. \A b, scope, index : Cell(scope, index, b) = Entry(w, Container(bs, b), scope, index)
    BY DEF Cell, Step, Entry, Slot, Blocks
  <2> HIDE DEF w
  <2>3. w = Step(w)
    BY <2>1 DEF w
  <2> QED
    BY <2>2, <2>3
<1>11. \A c \in 1..n : u[c] = FrameOf(bs, c, u[Container(bs, bs[c].parent)])
  <2>1. \A c \in 1..n : Step(u)[c] = FrameOf(bs, c, u[Container(bs, bs[c].parent)])
    BY <1>2 DEF FrameOf, FreeOf, Slot, Blocks
  <2> HIDE DEF Step
  <2> QED
    BY <1>10, <2>1
<1> HIDE DEF Step, F, par, base
<1>12. \A b \in DOMAIN p.blocks : Container(bs, b) = Container(p.blocks, b)
  BY <1>1, GrowsKeeps
<1>13. CellReads(p, u)
  BY <1>10, <1>12 DEF CellReads
<1>14. ASSUME NEW c \in DOMAIN p.blocks
       PROVE  /\ u[c]["local"] = p.blocks[c].locals
              /\ DOMAIN u[c]["free"] = DOMAIN r.blocks[c].freevars
  <2>1. u[c] = FrameOf(bs, c, u[Container(bs, bs[c].parent)])
    BY <1>1, <1>2, <1>11
  <2>2. u[c]["local"] = bs[c].locals /\ u[c]["free"] = FreeOf(bs, c, u[Container(bs, bs[c].parent)])
    BY <2>1 DEF FrameOf
  <2> QED
    BY <1>1, <2>2 DEF FreeOf
<1>15. ASSUME NEW c \in DOMAIN p.blocks, NEW k \in DOMAIN r.blocks[c].freevars
       PROVE  u[c]["free"][k] = Entry(u, Container(p.blocks, p.blocks[c].parent),
                                      r.blocks[c].freevars[k].scope, r.blocks[c].freevars[k].index)
  <2>1. u[c] = FrameOf(bs, c, u[Container(bs, bs[c].parent)])
    BY <1>1, <1>2, <1>11
  <2>2. c # Module
    BY CapturedScope
  <2>3. bs[c].parent = p.blocks[c].parent /\ p.blocks[c].parent \in DOMAIN p.blocks
    BY <1>1, <2>2, TreeFacts
  <2>4. Container(bs, bs[c].parent) = Container(p.blocks, p.blocks[c].parent)
    BY <1>12, <2>3
  <2>5. u[c]["free"] = FreeOf(bs, c, u[Container(bs, bs[c].parent)])
    BY <2>1 DEF FrameOf
  <2> QED
    BY <2>4, <2>5 DEF FreeOf, Entry
<1>16. Framed(p, r, u)
  BY <1>14, <1>15 DEF Framed
<1> QED
  BY <1>13, <1>16

\* The occurrence that binds x in its home h.
CellOf(p, h, x) == p.blocks[Container(p.blocks, h)].locals[p.blocks[h].bindings[x].index]
HasCell(p, h, x) ==
  /\ h \in DOMAIN p.blocks /\ Declares(p, h, x) /\ p.blocks[h].bindings[x].scope = "local"
  /\ p.blocks[h].bindings[x].index \in DOMAIN p.blocks[Container(p.blocks, h)].locals
  /\ CellOf(p, h, x) \in DOMAIN p.ids /\ p.ids[CellOf(p, h, x)].name = x
  /\ p.ids[CellOf(p, h, x)].env = h /\ p.ids[CellOf(p, h, x)].binds

\* A home outside the module has a local for the name.
LEMMA HomeBound ==
  ASSUME NEW p, Ready(p), NEW b \in DOMAIN p.blocks, NEW x \in Name, HomeOf(p, b, x) # Module
  PROVE  HasCell(p, HomeOf(p, b, x), x)
<1> DEFINE h == HomeOf(p, b, x)
<1>1. Tree(p.blocks) /\ LocalsBound(p)
  BY DEF Ready, WellFormed
<1>2. h \in DOMAIN p.blocks /\ Declares(p, h, x) /\ h # Module
  BY <1>1, HomeOfIs, AncestorsIs
<1> HIDE DEF h
<1>3. p.blocks[h].bindings[x] # NoBinding /\ p.blocks[h].bindings[x].scope = "local"
  BY <1>1, <1>2, BoundDeclares
<1>4. BoundAt(p, h, x)
  BY <1>1, <1>2 DEF LocalsBound
<1> QED
  BY <1>2, <1>3, <1>4 DEF BoundAt, CellOf, HasCell, h

\* The address of an occurrence leads to the cell of its home.
LEMMA CellReach ==
  ASSUME NEW p, Ready(p), Linked(p, r), NEW b \in DOMAIN p.blocks, NEW x \in Name, HomeOf(p, b, x) # Module,
         NEW v \in Bindings, Reach(p, r, b, x, v)
  PROVE  v.scope \in {"local", "free"} /\ Cell(v.scope, v.index, b) = CellOf(p, HomeOf(p, b, x), x)
<1> DEFINE n        == Len(p.blocks)
           In(u, d, w, y) == LET c == Container(p.blocks, d)
                             IN  w.scope \in {"local", "free"} /\ Entry(u, c, w.scope, w.index) = CellOf(p, HomeOf(p, d, y), y)
<1>1. Tree(p.blocks) /\ LocalsBound(p) /\ n \in Nat /\ DOMAIN p.blocks = 1..n
  BY TreeFacts DEF Ready, WellFormed
<1> HIDE DEF n
<1>2. PICK u : Framed(p, r, u) /\ CellReads(p, u)
  BY CellIs
<1> DEFINE T == {c \in 1..n : \A d \in DOMAIN p.blocks, y \in Name, w \in Bindings :
                   Container(p.blocks, d) = c /\ HomeOf(p, d, y) # Module /\ Reach(p, r, d, y, w) => In(u, d, w, y)}
<1>3. ASSUME NEW c \in 1..n, \A d \in 1..(c - 1) : d \in T PROVE c \in T
  <2> SUFFICES ASSUME NEW d \in DOMAIN p.blocks, NEW y \in Name, NEW w \in Bindings,
                      Container(p.blocks, d) = c, HomeOf(p, d, y) # Module, Reach(p, r, d, y, w)
               PROVE  In(u, d, w, y)
    OBVIOUS
  <2> DEFINE h == HomeOf(p, d, y)
  <2>1. /\ h \in DOMAIN p.blocks /\ p.blocks[h].bindings[y].scope = "local"
        /\ p.blocks[h].bindings[y].index \in DOMAIN p.blocks[Container(p.blocks, h)].locals
    <3>1. HasCell(p, h, y)
      BY HomeBound
    <3> HIDE DEF h
    <3> QED
      BY <3>1 DEF HasCell
  <2>2. CASE Container(p.blocks, h) = c
    <3>1. w = p.blocks[h].bindings[y]
      BY <2>2 DEF Reach
    <3>2. u[c]["local"] = p.blocks[c].locals
      BY <1>1, <1>2 DEF Framed
    <3> HIDE DEF h
    <3>3. Entry(u, c, "local", w.index) = p.blocks[c].locals[w.index]
      BY <2>1, <2>2, <3>1, <3>2 DEF Entry, Slot
    <3>4. CellOf(p, h, y) = p.blocks[c].locals[w.index]
      BY <2>2, <3>1 DEF CellOf
    <3>5. w.scope = "local"
      BY <2>1, <3>1
    <3> QED
      BY <3>3, <3>4, <3>5 DEF h
  <2>3. CASE Container(p.blocks, h) # c
    <3> DEFINE k  == w.index
               fv == r.blocks[c].freevars[k]
               a  == p.blocks[c].parent
               g  == [scope |-> fv.scope, index |-> fv.index]
    <3>1. w.scope = "free" /\ k \in DOMAIN r.blocks[c].freevars /\ fv.name = y
      BY <2>3 DEF Reach
    <3>2. HomeOf(p, c, y) = h
      BY <1>1, <2>3, HomeOutside
    <3>3. c \in DOMAIN p.blocks /\ Captures(p, r, c, k)
      BY <1>1, <3>1 DEF Linked
    <3>4. ~Declares(p, c, y) /\ Reach(p, r, a, y, g)
      BY <3>1, <3>3 DEF Captures
    <3>5. c # Module /\ fv \in FreeVars
      BY <3>1, <3>3, CapturedScope
    <3>6. a \in DOMAIN p.blocks /\ a \in 1..(c - 1)
      BY <1>1, <3>3, <3>5, TreeFacts
    <3>7. HomeOf(p, a, y) = h
      BY <1>1, <3>2, <3>3, <3>4, <3>5, HomeOfIs
    <3>8. Container(p.blocks, a) \in 1..a
      BY <1>1, <3>6, ContainerIs
    <3>9. Container(p.blocks, a) \in T
      BY <1>1, <1>3, <3>6, <3>8
    <3>10. g \in Bindings
      BY <3>5 DEF FreeVars, Bindings
    <3>11. g.scope = fv.scope /\ g.index = fv.index
      OBVIOUS
    <3> HIDE DEF g, fv, a, k, h
    <3>12. In(u, a, g, y)
      BY <3>4, <3>6, <3>7, <3>9, <3>10 DEF h
    <3>13. Entry(u, Container(p.blocks, a), fv.scope, fv.index) = CellOf(p, h, y)
      BY <3>7, <3>11, <3>12
    <3>14. /\ DOMAIN u[c]["free"] = DOMAIN r.blocks[c].freevars
           /\ u[c]["free"][k] = Entry(u, Container(p.blocks, a), fv.scope, fv.index)
      BY <1>2, <3>1, <3>3 DEF Framed, fv, a
    <3>15. Entry(u, c, "free", k) = CellOf(p, h, y)
      BY <3>1, <3>13, <3>14 DEF Entry, Slot
    <3> QED
      BY <3>1, <3>15 DEF h, k
  <2> QED
    BY <2>2, <2>3
<1>4. 1..n \subseteq T
  <2> HIDE DEF T
  <2> QED
    BY <1>1, <1>3, StrongInduction
<1>5. Container(p.blocks, b) \in 1..n
  BY <1>1, ContainerIs
<1>6. In(u, b, v, x)
  <2>1. Container(p.blocks, b) \in T
    BY <1>4, <1>5
  <2> HIDE DEF In
  <2> QED
    BY <2>1
<1>7. v.index \in Nat
  BY DEF Bindings
<1>8. Cell(v.scope, v.index, b) = Entry(u, Container(p.blocks, b), v.scope, v.index)
  BY <1>2, <1>6, <1>7 DEF CellReads
<1> QED
  BY <1>6, <1>8

\* A name is bound at the top level when it has a global.
LEMMA GlobalByIs ==
  ASSUME NEW p, Ready(p), Fixed(p, r), NEW i \in DOMAIN p.ids, p.ids[i].env # Module
  PROVE  GlobalBy(i) <=> p.globals[p.ids[i].name] # 0
<1>1. GlobalBy(i) <=> Declares(p, Module, p.ids[i].name)
  BY DEF GlobalBy, Declares, Fixed
<1>2. p.ids[i].name \in Name
  <2>1. p.ids \in Seq(IdType)
    BY DEF Ready, WellFormed, Resolvers
  <2>2. p.ids[i] \in IdType
    BY <2>1
  <2> QED
    BY <2>2 DEF IdType
<1> QED
  BY <1>1, <1>2 DEF Ready, GlobalsBound

\* Every occurrence denotes what the rules of the language say.
LEMMA EndDenotes ==
  ASSUME NEW p, Ready(p), Looped(p, r, ToSet(Pending(p.blocks))), NEW i \in DOMAIN r.ids
  PROVE  Denotes(i)
<1> DEFINE x == p.ids[i].name
           b == p.ids[i].env
           h == HomeOf(p, b, x)
           v == [scope |-> r.ids[i].scope, index |-> r.ids[i].index]
<1>1. /\ Linked(p, r) /\ Fixed(p, r) /\ Tree(p.blocks) /\ i \in DOMAIN p.ids /\ b \in DOMAIN p.blocks
      /\ p.ids \in Seq(IdType) /\ r.ids \in Seq(IdType) /\ DOMAIN r.ids = DOMAIN p.ids
  BY DEF Looped, Linked, Fixed, Ready, WellFormed, Resolvers
<1>2. /\ x \in Name /\ r.ids[i] \in IdType /\ p.ids[i] \in IdType
      /\ r.ids[i].name = x /\ r.ids[i].env = b
  <2>1. r.ids[i] \in IdType /\ p.ids[i] \in IdType
    BY <1>1
  <2> QED
    BY <1>1, <2>1 DEF IdType, Fixed
<1>3. Home(i) = h
  <2>1. HomeOf(r, b, x) = HomeOf(p, b, x)
    BY <1>1, HomeSame
  <2> QED
    BY <1>2, <2>1 DEF Home
<1>4. r.moduleGlobals = p.moduleGlobals /\ r.globals = p.globals
  BY <1>1 DEF Fixed
<1>5. ASSUME NEW y \in Name, p.globals[y] # 0
      PROVE  r.ids[r.moduleGlobals[p.globals[y]]].name = y
  BY <1>1, <1>4, <1>5 DEF Ready, GlobalsBound, Fixed
<1>6. CASE b = Module
  <2>1. r.ids[i] = p.ids[i]
    BY <1>1, <1>6, EndsFound
  <2>2. h = Module
    BY <1>1, <1>6, HomeOfIs
  <2>3. GlobalBy(i) <=> \E j \in 1..i : p.ids[j].binds /\ p.ids[j].env = Module /\ p.ids[j].name = x
    <3>1. DOMAIN p.ids = 1..Len(p.ids) /\ Len(p.ids) \in Nat /\ i \in Nat
      BY <1>1
    <3>2. GlobalBy(i) <=> \E j \in DOMAIN p.ids : p.ids[j].binds /\ p.ids[j].env = Module /\ p.ids[j].name = x /\ j <= i
      BY <1>1, <1>2, <1>6 DEF GlobalBy, Fixed
    <3>3. \A j \in 1..i : j \in DOMAIN p.ids /\ j <= i
      BY <1>1, <3>1
    <3>4. \A j \in DOMAIN p.ids : j <= i => j \in 1..i
      BY <3>1
    <3> HIDE DEF x
    <3> QED
      BY <3>2, <3>3, <3>4
  <2>4. IF GlobalBy(i) THEN p.ids[i].scope = "global" /\ p.ids[i].index = p.globals[x]
        ELSE p.ids[i].scope = Outside(x)
    BY <1>1, <1>6, <2>3 DEF Ready, TopLevel
  <2>5. GlobalBy(i) => p.globals[x] # 0
    <3>1. GlobalBy(i) => Declares(p, Module, x)
      BY <1>1, <1>2 DEF GlobalBy, Declares, Fixed
    <3> QED
      BY <1>2, <3>1 DEF Ready, GlobalsBound
  <2> HIDE DEF x, h, b
  <2> QED
    BY <1>2, <1>3, <1>5, <2>1, <2>2, <2>4, <2>5 DEF Denotes
<1>7. CASE b # Module /\ h = Module
  <2>1. Found(p, r, i)
    BY <1>1, <1>7, EndsFound
  <2>2. v = UseGlobal(p, x)
    BY <1>7, <2>1 DEF Found, Reach
  <2>3. /\ UseGlobal(p, x).index = p.globals[x]
        /\ UseGlobal(p, x).scope = IF p.globals[x] # 0 THEN "global" ELSE Outside(x)
    BY DEF UseGlobal
  <2>4. v.scope = r.ids[i].scope /\ v.index = r.ids[i].index
    OBVIOUS
  <2>5. GlobalBy(i) <=> p.globals[x] # 0
    BY <1>1, <1>7, GlobalByIs
  <2> HIDE DEF x, h, b, v
  <2> QED
    BY <1>2, <1>3, <1>5, <1>7, <2>2, <2>3, <2>4, <2>5 DEF Denotes
<1>8. CASE b # Module /\ h # Module
  <2>1. Found(p, r, i)
    BY <1>1, <1>8, EndsFound
  <2>2. Reach(p, r, b, x, v)
    BY <2>1 DEF Found
  <2>3. v.scope = r.ids[i].scope /\ v.index = r.ids[i].index /\ r.ids[i].index \in Nat
        /\ r.ids[i].scope \in Scopes \cup {"unresolved"}
    BY <1>2 DEF IdType
  <2>4. /\ h \in DOMAIN p.blocks /\ p.blocks[h].bindings[x].scope = "local"
        /\ CellOf(p, h, x) \in DOMAIN p.ids /\ p.ids[CellOf(p, h, x)].name = x
        /\ p.ids[CellOf(p, h, x)].env = h /\ p.ids[CellOf(p, h, x)].binds
    <3>1. HasCell(p, h, x)
      BY <1>1, <1>2, <1>8, HomeBound
    <3> HIDE DEF h, x
    <3> QED
      BY <3>1 DEF HasCell
  <2>5. v.scope \in {"local", "free"}
    <3> HIDE DEF v, h
    <3>1. v = p.blocks[h].bindings[x] \/ v.scope = "free"
      BY <1>8, <2>2 DEF Reach, h
    <3> QED
      BY <2>4, <3>1
  <2>6. v \in Bindings
    BY <2>3, <2>5 DEF Bindings, Scopes
  <2>7. Cell(v.scope, v.index, b) = CellOf(p, h, x)
    BY <1>1, <1>2, <1>8, <2>2, <2>6, CellReach
  <2>8. CellOf(p, h, x) # 0
    <3>1. DOMAIN p.ids = 1..Len(p.ids)
      BY <1>1
    <3> HIDE DEF h, x
    <3> QED
      BY <2>4, <3>1
  <2>9. LET j == CellOf(p, h, x) IN r.ids[j].name = x /\ r.ids[j].env = h /\ r.ids[j].binds
    BY <1>1, <2>4 DEF Fixed
  <2> HIDE DEF x, h, b, v
  <2> QED
    BY <1>2, <1>3, <1>8, <2>3, <2>5, <2>7, <2>8, <2>9 DEF Denotes
<1> QED
  BY <1>6, <1>7, <1>8

\* Every occurrence leads to the variable its text denotes (stmt, function,
\* resolveLocalUses, lookupLexical).
THEOREM ScopesAreLexical == ResolverSpec => []LexicalScope
<1>1. ResolverInv => LexicalScope
  BY EndDenotes DEF ResolverInv, Ended, LexicalScope
<1> QED
  BY <1>1, ResolverInvInductive, PTL

(***************************************************************************)
(* What is captured.                                                       *)
(***************************************************************************)

\* A sequence without equal elements has as many as it has members.
LEMMA DistinctCount ==
  ASSUME NEW S, NEW s \in Seq(S), NEW T, T = {s[k] : k \in DOMAIN s},
         \A j, k \in DOMAIN s : s[j] = s[k] => j = k
  PROVE  Cardinality(T) = Len(s)
<1>1. Len(s) \in Nat /\ DOMAIN s = 1..Len(s)
  OBVIOUS
<1>2. s \in [1..Len(s) -> T]
  BY <1>1
<1>3. s \in Surjection(1..Len(s), T)
  BY <1>1, <1>2 DEF Surjection
<1>4. s \in Injection(1..Len(s), T)
  BY <1>1, <1>2 DEF Injection, IsInjective
<1>5. IsFiniteSet(1..Len(s)) /\ Cardinality(1..Len(s)) = Len(s)
  <2> DEFINE m == Len(s)
  <2>1. 1 \in Int /\ m \in Int /\ m >= 0
    BY <1>1
  <2> HIDE DEF m
  <2>2. IsFiniteSet(1..m) /\ Cardinality(1..m) = IF 1 > m THEN 0 ELSE m - 1 + 1
    BY <2>1, FS_Interval
  <2>3. Cardinality(1..m) = m
    BY <2>1, <2>2
  <2> QED
    BY <2>2, <2>3 DEF m
<1> QED
  BY <1>3, <1>4, <1>5, FS_Surjection

\* A function between an occurrence and its home captures the name.
LEMMA CapturedOnTheWay ==
  ASSUME NEW p, Ready(p), NEW q, Linked(p, q), NEW b \in DOMAIN p.blocks, NEW x \in Name,
         HomeOf(p, b, x) # Module, NEW v, Reach(p, q, b, x, v),
         NEW f \in Ancestors(p.blocks, b), p.blocks[f].kind = "function",
         HomeOf(p, b, x) \in Ancestors(p.blocks, f) \ {f}
  PROVE  \E k \in DOMAIN q.blocks[f].freevars : q.blocks[f].freevars[k].name = x
<1> DEFINE n    == Len(p.blocks)
           h    == HomeOf(p, b, x)
           goal == \E k \in DOMAIN q.blocks[f].freevars : q.blocks[f].freevars[k].name = x
           T    == {c \in 1..n : \A d \in DOMAIN p.blocks :
                     (/\ Container(p.blocks, d) = c /\ HomeOf(p, d, x) = h /\ f \in Ancestors(p.blocks, d)
                      /\ \E w : Reach(p, q, d, x, w)) => goal}
<1>1. Tree(p.blocks) /\ LocalsBound(p) /\ n \in Nat /\ DOMAIN p.blocks = 1..n
  BY TreeFacts DEF Ready, WellFormed
<1>2. f \in DOMAIN p.blocks /\ h \in Ancestors(p.blocks, f) /\ h # f /\ h # Module /\ h \in DOMAIN p.blocks
  <2>1. f \in DOMAIN p.blocks
    BY <1>1, AncestorsIs
  <2> QED
    BY <1>1, <2>1, AncestorsIs
<1> HIDE DEF n, h, goal
<1>3. /\ Container(p.blocks, f) = f /\ h \in 1..f /\ f \in Nat /\ h < f
      /\ Container(p.blocks, h) \in 1..h
  <2>1. Container(p.blocks, f) = f
    BY <1>1, <1>2, ContainerIs
  <2>2. h \in 1..f /\ f \in Nat
    BY <1>1, <1>2, AncestorsIs
  <2>3. Container(p.blocks, h) \in 1..h
    BY <1>1, <1>2, ContainerIs
  <2> QED
    BY <1>2, <2>1, <2>2, <2>3
<1>4. ASSUME NEW c \in 1..n, \A d \in 1..(c - 1) : d \in T PROVE c \in T
  <2> SUFFICES ASSUME NEW d \in DOMAIN p.blocks, Container(p.blocks, d) = c, HomeOf(p, d, x) = h,
                      f \in Ancestors(p.blocks, d), NEW w, Reach(p, q, d, x, w)
               PROVE  goal
    OBVIOUS
  <2>1. /\ c \in DOMAIN p.blocks
        /\ f >= c => Container(p.blocks, f) = c
        /\ f < c => f \in Ancestors(p.blocks, c)
    BY <1>1, ContainerAbove
  <2>2. f = c \/ (f < c /\ f \in Ancestors(p.blocks, c))
    BY <1>3, <2>1
  <2>3. Container(p.blocks, h) # c
    BY <1>3, <2>2
  <2> DEFINE k == w.index
             a == p.blocks[c].parent
             g == [scope |-> q.blocks[c].freevars[k].scope, index |-> q.blocks[c].freevars[k].index]
  <2>4. k \in DOMAIN q.blocks[c].freevars /\ q.blocks[c].freevars[k].name = x
    BY <1>2, <2>3 DEF Reach
  <2>5. CASE f = c
    BY <2>4, <2>5 DEF goal
  <2>6. CASE f < c /\ f \in Ancestors(p.blocks, c)
    <3>1. HomeOf(p, c, x) = h
      BY <1>1, <2>3, HomeOutside
    <3>2. Captures(p, q, c, k)
      BY <2>1, <2>4 DEF Linked
    <3>3. ~Declares(p, c, x) /\ Reach(p, q, a, x, g)
      BY <2>4, <3>2 DEF Captures
    <3>4. c # Module
      BY <2>1, <2>4, CapturedScope
    <3>5. a \in DOMAIN p.blocks /\ a \in 1..(c - 1)
      BY <1>1, <2>1, <3>4, TreeFacts
    <3>6. HomeOf(p, a, x) = h
      BY <1>1, <2>1, <3>1, <3>3, <3>4, HomeOfIs
    <3>7. f \in Ancestors(p.blocks, a)
      <4>1. Ancestors(p.blocks, c) = {c} \cup Ancestors(p.blocks, a)
        BY <1>1, <2>1, <3>4, AncestorsIs
      <4> QED
        BY <1>3, <2>6, <4>1
    <3>8. Container(p.blocks, a) \in 1..a
      BY <1>1, <3>5, ContainerIs
    <3>9. Container(p.blocks, a) \in T
      BY <1>1, <1>4, <3>5, <3>8
    <3> HIDE DEF a, g
    <3> QED
      BY <3>3, <3>5, <3>6, <3>7, <3>9
  <2> QED
    BY <2>2, <2>5, <2>6
<1>5. 1..n \subseteq T
  <2> HIDE DEF T
  <2> QED
    BY <1>1, <1>4, StrongInduction
<1>6. Container(p.blocks, b) \in 1..n
  BY <1>1, ContainerIs
<1>7. Container(p.blocks, b) \in T
  BY <1>5, <1>6
<1>8. goal
  BY <1>7 DEF h
<1> QED
  BY <1>8 DEF goal

\* What is captured is used in the function or within it, and declared outside.
LEMMA CapturedNeeded ==
  ASSUME NEW p, Ready(p), NEW q, Linked(p, q), NEW f \in DOMAIN p.blocks, NEW k \in DOMAIN q.blocks[f].freevars
  PROVE  \E i \in DOMAIN p.ids :
           LET h == HomeOf(p, p.ids[i].env, p.ids[i].name)
           IN  /\ p.ids[i].name = q.blocks[f].freevars[k].name /\ f \in Ancestors(p.blocks, p.ids[i].env)
               /\ h # Module /\ h \in Ancestors(p.blocks, f) \ {f}
<1> DEFINE x == q.blocks[f].freevars[k].name
<1>1. Captures(p, q, f, k) /\ Tree(p.blocks)
  BY DEF Linked, Ready, WellFormed
<1>2. ~Declares(p, f, x) /\ HomeOf(p, f, x) # Module /\ Needed(p, f, x)
  BY <1>1 DEF Captures
<1>3. f # Module
  BY CapturedScope
<1> HIDE DEF x
<1>4. HomeOf(p, f, x) \in Ancestors(p.blocks, f) /\ HomeOf(p, f, x) # f
  BY <1>1, <1>2, <1>3, HomeOfIs
<1>5. PICK i \in DOMAIN p.ids : /\ p.ids[i].name = x /\ f \in Ancestors(p.blocks, p.ids[i].env)
                                /\ HomeOf(p, p.ids[i].env, x) = HomeOf(p, f, x)
  BY <1>2 DEF Needed
<1> QED
  BY <1>2, <1>4, <1>5 DEF x

\* The free variables of every function are what it captures.
LEMMA EndClosures ==
  ASSUME NEW p, Ready(p), Looped(p, r, ToSet(Pending(p.blocks))), NEW f \in DOMAIN r.blocks
  PROVE  LET fvs == r.blocks[f].freevars
         IN  IF r.blocks[f].kind = "function"
             THEN {fvs[k].name : k \in DOMAIN fvs} = Captured(f) /\ Len(fvs) = Cardinality(Captured(f))
             ELSE fvs = <<>>
<1> DEFINE fvs   == r.blocks[f].freevars
           names == [k \in 1..Len(fvs) |-> fvs[k].name]
           Of(i) == HomeOf(p, p.ids[i].env, p.ids[i].name)
<1>1. /\ Linked(p, r) /\ Fixed(p, r) /\ Tree(p.blocks) /\ f \in DOMAIN p.blocks
      /\ DOMAIN r.ids = DOMAIN p.ids /\ p.ids \in Seq(IdType) /\ r.blocks \in Seq(BlockType)
      /\ \A i \in DOMAIN p.ids : p.ids[i].env \in DOMAIN p.blocks
      /\ r.blocks[f].kind = p.blocks[f].kind
  BY DEF Looped, Linked, Fixed, Ready, WellFormed, Resolvers
<1>2. fvs \in Seq(FreeVars) /\ Len(fvs) \in Nat /\ DOMAIN fvs = 1..Len(fvs)
  <2>1. r.blocks[f] \in BlockType
    BY <1>1
  <2>2. fvs \in Seq(FreeVars)
    BY <2>1, BlockFields
  <2> QED
    BY <2>2
<1>3. \A k \in DOMAIN fvs : Captures(p, r, f, k)
  BY <1>1 DEF Linked
<1>4. CASE r.blocks[f].kind # "function"
  <2>1. \A k \in DOMAIN fvs : FALSE
    BY <1>1, <1>3, <1>4 DEF Captures
  <2>2. fvs = <<>>
    <3> HIDE DEF fvs
    <3>1. ASSUME Len(fvs) # 0 PROVE FALSE
      <4>1. 1 \in DOMAIN fvs
        BY <1>2, <3>1
      <4> QED
        BY <2>1, <4>1
    <3> QED
      BY <1>2, <3>1
  <2> QED
    BY <1>4, <2>2
<1>5. CASE r.blocks[f].kind = "function"
  <2>1. ASSUME NEW i \in DOMAIN r.ids
        PROVE  /\ r.ids[i].name = p.ids[i].name /\ Home(i) = Of(i) /\ p.ids[i] \in IdType
               /\ Ancestors(Blocks, r.ids[i].env) = Ancestors(p.blocks, p.ids[i].env)
    <3>1. r.ids[i].name = p.ids[i].name /\ r.ids[i].env = p.ids[i].env
      BY <1>1 DEF Fixed
    <3>2. /\ HomeOf(r, p.ids[i].env, p.ids[i].name) = Of(i)
          /\ Ancestors(r.blocks, p.ids[i].env) = Ancestors(p.blocks, p.ids[i].env)
      BY <1>1, HomeSame
    <3> QED
      BY <1>1, <3>1, <3>2 DEF Home, Blocks
  <2>2. Ancestors(Blocks, f) = Ancestors(p.blocks, f)
    BY <1>1, HomeSame DEF Blocks
  <2> HIDE DEF Of
  <2>3. Captured(f) = {p.ids[i].name : i \in {j \in DOMAIN p.ids : /\ f \in Ancestors(p.blocks, p.ids[j].env)
                                                                  /\ Of(j) # Module
                                                                  /\ Of(j) \in Ancestors(p.blocks, f) \ {f}}}
    BY <1>1, <2>1, <2>2 DEF Captured
  <2>4. ASSUME NEW k \in DOMAIN fvs PROVE fvs[k].name \in Captured(f)
    <3>1. PICK i \in DOMAIN p.ids :
             LET h == HomeOf(p, p.ids[i].env, p.ids[i].name)
             IN  /\ p.ids[i].name = fvs[k].name /\ f \in Ancestors(p.blocks, p.ids[i].env)
                 /\ h # Module /\ h \in Ancestors(p.blocks, f) \ {f}
      BY <1>1, <2>4, CapturedNeeded
    <3>2. Of(i) # Module /\ Of(i) \in Ancestors(p.blocks, f) \ {f}
      BY <3>1 DEF Of
    <3> HIDE DEF fvs
    <3> QED
      BY <2>3, <3>1, <3>2
  <2>5. ASSUME NEW i \in DOMAIN p.ids, f \in Ancestors(p.blocks, p.ids[i].env), Of(i) # Module,
               Of(i) \in Ancestors(p.blocks, f) \ {f}
        PROVE  \E k \in DOMAIN fvs : fvs[k].name = p.ids[i].name
    <3>1. p.ids[i].name \in Name
      <4>1. p.ids[i] \in IdType
        BY <1>1
      <4> QED
        BY <4>1 DEF IdType
    <3>2. p.ids[i].env # Module
      BY <1>1, <2>5, HomeOfIs DEF Of
    <3>3. Found(p, r, i)
      BY <3>2, EndsFound
    <3> DEFINE b == p.ids[i].env
               x == p.ids[i].name
               v == [scope |-> r.ids[i].scope, index |-> r.ids[i].index]
    <3>4. Reach(p, r, b, x, v)
      BY <3>3 DEF Found
    <3>5. HomeOf(p, b, x) # Module /\ HomeOf(p, b, x) \in Ancestors(p.blocks, f) \ {f}
      BY <2>5 DEF Of
    <3>6. b \in DOMAIN p.blocks /\ x \in Name /\ f \in Ancestors(p.blocks, b) /\ p.blocks[f].kind = "function"
      BY <1>1, <1>5, <2>5, <3>1
    <3> HIDE DEF b, x, v
    <3>7. \E k \in DOMAIN r.blocks[f].freevars : r.blocks[f].freevars[k].name = x
      BY <1>1, <3>4, <3>5, <3>6, CapturedOnTheWay
    <3> QED
      BY <3>7 DEF x
  <2>6. {fvs[k].name : k \in DOMAIN fvs} = Captured(f)
    <3>1. \A y \in Captured(f) : \E k \in DOMAIN fvs : fvs[k].name = y
      BY <2>3, <2>5
    <3> HIDE DEF fvs
    <3> QED
      BY <2>4, <3>1
  <2>7. names \in Seq(Name) /\ Len(names) = Len(fvs) /\ DOMAIN names = DOMAIN fvs
    <3>1. \A k \in DOMAIN fvs : fvs[k].name \in Name
      BY <1>3 DEF Captures
    <3> HIDE DEF fvs
    <3> QED
      BY <1>2, <3>1
  <2>8. ASSUME NEW j \in DOMAIN fvs, NEW k \in DOMAIN fvs, fvs[j].name = fvs[k].name PROVE j = k
    <3>1. /\ r.blocks[f].bindings[fvs[j].name] = [scope |-> "free", index |-> j]
          /\ r.blocks[f].bindings[fvs[k].name] = [scope |-> "free", index |-> k]
      BY <1>3 DEF Captures
    <3>2. [scope |-> "free", index |-> j] = [scope |-> "free", index |-> k]
      BY <2>8, <3>1
    <3>3. [scope |-> "free", index |-> j].index = [scope |-> "free", index |-> k].index
      BY <3>2
    <3> QED
      BY <3>3
  <2>9. Cardinality(Captured(f)) = Len(names)
    <3>1. \A k \in DOMAIN names : names[k] = fvs[k].name
      BY <1>2, <2>7
    <3>2. {names[k] : k \in DOMAIN names} = Captured(f)
      BY <2>6, <2>7, <3>1
    <3>3. \A j, k \in DOMAIN names : names[j] = names[k] => j = k
      BY <2>7, <2>8, <3>1
    <3> HIDE DEF names
    <3> QED
      BY <2>7, <3>2, <3>3, DistinctCount
  <2> QED
    BY <1>5, <2>6, <2>7, <2>9
<1> QED
  BY <1>4, <1>5

\* A function has a free variable for every name that it, or a function within it, takes
\* from a function around it, and no other (lookupLexical).
THEOREM ClosuresAreExact == ResolverSpec => []ClosuresExact
<1>1. ResolverInv => ClosuresExact
  BY EndClosures DEF ResolverInv, Ended, ClosuresExact, Blocks
<1> QED
  BY <1>1, ResolverInvInductive, PTL
=============================================================================
