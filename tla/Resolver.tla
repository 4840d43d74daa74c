------------------------------ MODULE Resolver ------------------------------
(***************************************************************************)
(* resolve/resolve.go: the scope and the slot of every identifier.         *)
(*                                                                         *)
(* The resolver walks the syntax tree once; a step here is what it does on *)
(* meeting one node, so that a behaviour is the walk over one program and  *)
(* the behaviours together walk over all programs within the bounds.  The  *)
(* recursion of stmt, expr and function is the stack open.  Go's slices    *)
(* count from zero, the sequences here from one.                           *)
(*                                                                         *)
(* Literals, attribute names and operators bind nothing and are left out;  *)
(* the order of a call's arguments is in module Calls.                     *)
(***************************************************************************)
EXTENDS Integers, Sequences, FiniteSets, SequencesExt

CONSTANTS
  Name,
  Predeclared,   \* the names for which isPredeclared holds, and PACKAGE_NAME
  Universal,     \* the names for which isUniversal holds
  Unsupported,   \* those of them (float, set) that the dialect does not support
  Dialects,      \* the sets of options tried
  Signatures,    \* the parameter lists tried
  MaxIds,        \* bound on the occurrences of identifiers in a program, by dialect
  MaxBinds,      \* bound on those that bind, by dialect
  MaxBlocks,     \* bound on its blocks, the module's included
  MaxOpen,       \* bound on the nesting of constructs
  MaxErrors      \* bound on the kinds of errors after which a program goes on

Option == {"nestedDef", "lambda", "globalReassign"}
Param  == [name : Name, kind : {"required", "optional", "varargs", "kwargs"}]

ASSUME ResolverAssumption ==
  /\ Unsupported \subseteq Universal
  /\ Dialects \subseteq SUBSET Option
  /\ Signatures \subseteq Seq(Param)
  /\ {MaxOpen, MaxErrors} \subseteq Nat /\ {MaxIds, MaxBinds} \subseteq [Dialects -> Nat] /\ MaxBlocks \in Nat \ {0}

VARIABLES
  allow,    \* the global options AllowNestedDef, AllowLambda, AllowGlobalReassign that are set
  r,        \* the resolver struct, with the blocks and identifiers it points to
  open,     \* the nodes whose visit has begun and not ended, the outermost first
  stray,    \* history: a break or continue was accepted outside any loop of its function
  done      \* File has returned

resolverVars == <<allow, r, open, stray, done>>

(***************************************************************************)
(* Blocks and identifiers.  Block 1 is the module's; a block is younger    *)
(* than its parent.  uses holds the identifiers themselves: the block in   *)
(* which one occurs is its env.  params is a history.                      *)
(***************************************************************************)
NoBinding == [scope |-> "none", index |-> 0]
NewBlock(parent, kind, params) ==
  [parent |-> parent, kind |-> kind, bindings |-> [x \in Name |-> NoBinding],
   locals |-> <<>>, freevars |-> <<>>, uses |-> <<>>, params |-> params]
Module == 1

NewResolver ==
  [env |-> Module, blocks |-> <<NewBlock(0, "module", <<>>)>>, ids |-> <<>>,
   globals |-> [x \in Name |-> 0], moduleGlobals |-> <<>>, loops |-> 0, errors |-> {}]

\* The block itself or the innermost enclosing one that is a function or the module.
Container(bs, b) ==
  LET up[c \in DOMAIN bs] == IF bs[c].kind = "comp" THEN up[bs[c].parent] ELSE c
  IN  up[b]
InFunction == r.blocks[Container(r.blocks, r.env)].kind = "function"

Errorf(q, what) == [q EXCEPT !.errors = @ \cup what]
Occurrence(q, x, binds) == [name |-> x, env |-> q.env, binds |-> binds, scope |-> "unresolved", index |-> 0]

(***************************************************************************)
(* Binding and using a name.                                               *)
(***************************************************************************)
Outside(x) ==
  IF x \in Predeclared THEN "predeclared" ELSE IF x \in Universal THEN "universal" ELSE "undefined"
UseGlobal(q, x) ==
  [scope |-> IF q.globals[x] # 0 THEN "global" ELSE Outside(x), index |-> q.globals[x]]
GlobalErrors(bind, x) ==
  (IF bind.scope = "universal" /\ x \in Unsupported THEN {"unsupported"} ELSE {}) \cup
  (IF bind.scope = "undefined" THEN {"undefined"} ELSE {})

\* use, of an occurrence that may also be a binding one.
UseAs(q, x, binds) ==
  LET id == Occurrence(q, x, binds)
      bind == UseGlobal(q, x)
      c  == Container(q.blocks, q.env)
  IN  IF q.env = Module
      THEN Errorf([q EXCEPT !.ids = Append(@, [id EXCEPT !.scope = bind.scope, !.index = bind.index])],
                  GlobalErrors(bind, x))
      ELSE [q EXCEPT !.ids = Append(@, id), !.blocks[c].uses = Append(@, Len(q.ids) + 1)]
Use(q, x) == UseAs(q, x, FALSE)

BindGlobal(q, x, allowRebind) ==
  LET old == q.globals[x]
      id  == [Occurrence(q, x, TRUE) EXCEPT
                !.scope = "global", !.index = IF old # 0 THEN old ELSE Len(q.moduleGlobals) + 1]
  IN  IF old # 0
      THEN Errorf([q EXCEPT !.ids = Append(@, id)],
                  IF allowRebind \/ "globalReassign" \in allow THEN {} ELSE {"cannot reassign global"})
      ELSE [q EXCEPT !.ids = Append(@, id), !.globals[x] = id.index,
                     !.moduleGlobals = Append(@, Len(q.ids) + 1)]

\* A new local gets the next slot of the container, not of the block.
AddLocal(q, x) ==
  LET c == Container(q.blocks, q.env)
  IN  [q EXCEPT !.blocks[q.env].bindings[x] = [scope |-> "local", index |-> Len(q.blocks[c].locals) + 1],
                !.blocks[c].locals = Append(@, Len(q.ids) + 1)]

IsBound(q, x) == IF q.env = Module THEN q.globals[x] # 0 ELSE q.blocks[q.env].bindings[x] # NoBinding
Bind(q, x, allowRebind) ==
  IF q.env = Module THEN BindGlobal(q, x, allowRebind)
  ELSE UseAs(IF IsBound(q, x) THEN q ELSE AddLocal(q, x), x, TRUE)

(***************************************************************************)
(* Leaving a container: its own locals are resolved.                       *)
(***************************************************************************)
LookupLocal(bs, x, env) ==
  LET find[b \in DOMAIN bs] == IF bs[b].bindings[x] # NoBinding THEN bs[b].bindings[x]
                               ELSE IF bs[b].kind # "comp" THEN NoBinding ELSE find[bs[b].parent]
  IN  find[env]

ResolveLocalUses(q, c) ==
  LET uses   == q.blocks[c].uses
      B(i)   == LookupLocal(q.blocks, q.ids[i].name, q.ids[i].env)
      IsLocal(i) == B(i).scope = "local"
      kept[k \in 0..Len(uses)] ==
        IF k = 0 THEN <<>> ELSE IF IsLocal(uses[k]) THEN kept[k - 1] ELSE Append(kept[k - 1], uses[k])
  IN  [q EXCEPT
         !.ids = [i \in DOMAIN @ |-> IF i \in ToSet(uses) /\ IsLocal(i)
                                     THEN [@[i] EXCEPT !.scope = "local", !.index = B(i).index]
                                     ELSE @[i]],
         !.blocks[c].uses = kept[Len(uses)]]

(***************************************************************************)
(* The end of the module: what is left is free, global, or not there.      *)
(***************************************************************************)

\* Mutant of Memoize: a free variable of the enclosing function is not captured again.
MemoizeLocals(s, b, x) ==
  LET captured == s.q.blocks[b].kind = "function" /\ s.bind.scope \in {"local"}
      fvs  == s.q.blocks[b].freevars
      bind == IF captured THEN [scope |-> "free", index |-> Len(fvs) + 1] ELSE s.bind
      fv   == [name |-> x, scope |-> s.bind.scope, index |-> s.bind.index]
  IN  [q    |-> [s.q EXCEPT !.blocks[b] = [@ EXCEPT !.freevars = IF captured THEN Append(fvs, fv) ELSE fvs,
                                                !.bindings[x] = bind]],
       bind |-> bind]

\* Mutant of Memoize: the binding is not entered in the block.
Forget(s, b, x) ==
  LET captured == s.q.blocks[b].kind = "function" /\ s.bind.scope \in {"local", "free"}
      fvs  == s.q.blocks[b].freevars
      bind == IF captured THEN [scope |-> "free", index |-> Len(fvs) + 1] ELSE s.bind
      fv   == [name |-> x, scope |-> s.bind.scope, index |-> s.bind.index]
  IN  [q    |-> [s.q EXCEPT !.blocks[b].freevars = IF captured THEN Append(@, fv) ELSE @],
       bind |-> bind]

\* One block on the way back, s being [q, bind]: a variable of an enclosing function
\* becomes a new free variable of the function of block b.
Memoize(s, b, x) ==
  LET captured == s.q.blocks[b].kind = "function" /\ s.bind.scope \in {"local", "free"}
      fvs  == s.q.blocks[b].freevars
      bind == IF captured THEN [scope |-> "free", index |-> Len(fvs) + 1] ELSE s.bind
      fv   == [name |-> x, scope |-> s.bind.scope, index |-> s.bind.index]
  IN  [q    |-> [s.q EXCEPT !.blocks[b] = [@ EXCEPT !.freevars = IF captured THEN Append(fvs, fv) ELSE fvs,
                                                !.bindings[x] = bind]],
       bind |-> bind]

\* One iteration of resolveNonLocalUses: identifier i.  lookupLexical goes outwards from
\* the block of i to one that binds its name, or to the module's, and on its way back
\* enters the binding in each block.
LookupLexical(q, i) ==
  LET x == q.ids[i].name
      look[b \in DOMAIN q.blocks] ==
        IF b = Module
        THEN [q |-> Errorf(q, GlobalErrors(UseGlobal(q, x), x)), bind |-> UseGlobal(q, x)]
        ELSE IF q.blocks[b].bindings[x] # NoBinding
        THEN [q |-> q, bind |-> q.blocks[b].bindings[x]]
        ELSE Memoize(look[q.blocks[b].parent], b, x)
      s == look[q.ids[i].env]
  IN  [s.q EXCEPT !.ids[i] = [@ EXCEPT !.scope = s.bind.scope, !.index = s.bind.index]]

\* The uses in the order of the recursion of resolveNonLocalUses: the inner blocks first.
Pending(bs) ==
  LET uses[b \in DOMAIN bs] ==
        FlattenSeq([c \in DOMAIN bs |-> IF bs[c].parent = b THEN uses[c] ELSE <<>>]) \o bs[b].uses
  IN  uses[Module]
ResolveNonLocalUses(q) ==
  LET uses == Pending(q.blocks)
      after[k \in 0..Len(uses)] == IF k = 0 THEN q ELSE LookupLexical(after[k - 1], uses[k])
  IN  after[Len(uses)]

(***************************************************************************)
(* Functions.                                                              *)
(***************************************************************************)
\* The check of the i-th parameter against those seen before it.
MisplacedParam(ps, i) ==
  LET Seen(k) == \E j \in 1..(i - 1) : ps[j].kind = k
  IN  CASE ps[i].kind = "required" -> Seen("kwargs") \/ Seen("varargs") \/ Seen("optional")
        [] ps[i].kind = "optional" -> Seen("kwargs") \/ Seen("varargs")
        [] ps[i].kind = "varargs"  -> Seen("kwargs") \/ Seen("varargs")
        [] ps[i].kind = "kwargs"   -> Seen("kwargs")

BindParam(q, p) ==
  Bind(Errorf(q, IF IsBound(q, p.name) THEN {"duplicate parameter"} ELSE {}), p.name, FALSE)
BindEach(q, ps) ==
  LET bound[k \in 0..Len(ps)] == IF k = 0 THEN q ELSE BindParam(bound[k - 1], ps[k])
  IN  bound[Len(ps)]
BindParamsAnyOrder(q, ps) == BindEach(q, ps)   \* mutant of BindParams
BindParams(q, ps) ==
  Errorf(BindEach(q, ps),
         IF \E i \in DOMAIN ps : MisplacedParam(ps, i) THEN {"misplaced parameter"} ELSE {})

PushBlock(q, kind, ps) ==
  [q EXCEPT !.blocks = Append(@, NewBlock(q.env, kind, ps)), !.env = Len(q.blocks) + 1]
PopBlock(q) == [q EXCEPT !.env = q.blocks[q.env].parent]

(***************************************************************************)
(* The walk.  A statement may stand at the top level, in a function and in *)
(* a loop; an expression also in a comprehension, in a lambda and among    *)
(* the defaults that follow the name of a function.                        *)
(***************************************************************************)
ResolverInit ==
  /\ allow \in Dialects
  /\ r = NewResolver
  /\ open = <<>> /\ stray = FALSE /\ done = FALSE

Inside(kinds) == open # <<>> /\ Last(open) \in kinds
Expr == ~done /\ Cardinality(r.errors) <= MaxErrors   \* the bound on what follows an error
Stmt == Expr /\ (open = <<>> \/ Inside({"function", "for"}))

Room     == Len(r.ids) < MaxIds[allow]
Binds(n) == Room /\ n + Cardinality({i \in DOMAIN r.ids : r.ids[i].binds}) <= MaxBinds[allow]
Headers  == Cardinality({i \in DOMAIN open : open[i] \in {"def", "lambda header"}})
MayNest  == Len(open) < MaxOpen
MayBlock == MayNest /\ Len(r.blocks) + Headers < MaxBlocks

Ident(x) ==
  /\ Expr /\ Room
  /\ r' = Use(r, x)
  /\ UNCHANGED <<allow, open, stray, done>>

\* The leaf of assign: x = ..., or x += ... when augmented.
Assign(x, augmented) ==
  /\ Stmt /\ Binds(1)
  /\ r' = Bind(r, x, augmented)
  /\ UNCHANGED <<allow, open, stray, done>>

\* assign on a left side that cannot be assigned to.
IllFormed ==
  /\ Stmt
  /\ r' = Errorf(r, {"can't assign"})
  /\ UNCHANGED <<allow, open, stray, done>>

\* Mutant of Def: nested functions are not refused.
DefAnywhere(x) ==
  /\ Stmt /\ Binds(1) /\ MayBlock
  /\ r' = Bind(r, x, FALSE)
  /\ open' = Append(open, "def")
  /\ UNCHANGED <<allow, stray, done>>

Def(x) ==
  /\ Stmt /\ Binds(1) /\ MayBlock
  /\ r' = Bind(Errorf(r, IF InFunction /\ "nestedDef" \notin allow THEN {"nested def"} ELSE {}), x, FALSE)
  /\ open' = Append(open, "def")
  /\ UNCHANGED <<allow, stray, done>>

Lambda ==
  /\ Expr /\ MayBlock
  /\ r' = Errorf(r, IF "lambda" \in allow THEN {} ELSE {"lambda"})
  /\ open' = Append(open, "lambda header")
  /\ UNCHANGED <<allow, stray, done>>

\* The defaults have been resolved in the enclosing block.
EnterFunction(ps) ==
  /\ Expr /\ Inside({"def", "lambda header"}) /\ (Len(ps) > 0 => Binds(Len(ps)))
  /\ r' = BindParams(PushBlock(r, "function", ps), ps)
  /\ open' = Append(Front(open), IF Last(open) = "def" THEN "function" ELSE "lambda")
  /\ UNCHANGED <<allow, stray, done>>

LeaveFunction ==
  /\ Expr /\ Inside({"function", "lambda"})
  /\ r' = PopBlock(ResolveLocalUses(r, r.env))
  /\ open' = Front(open)
  /\ UNCHANGED <<allow, stray, done>>

\* The operand of the first for clause has been resolved in the outer block.
EnterComprehension(x) ==
  /\ Expr /\ Binds(1) /\ MayBlock
  /\ r' = Bind(PushBlock(r, "comp", <<>>), x, FALSE)
  /\ open' = Append(open, "comp")
  /\ UNCHANGED <<allow, stray, done>>

\* The variable of a further for clause; its operand comes after it.
ForClause(x) ==
  /\ Expr /\ Inside({"comp"}) /\ Binds(1)
  /\ r' = Bind(r, x, FALSE)
  /\ UNCHANGED <<allow, open, stray, done>>

LeaveComprehension ==
  /\ Expr /\ Inside({"comp"})
  /\ r' = PopBlock(r)
  /\ open' = Front(open)
  /\ UNCHANGED <<allow, stray, done>>

NotInFunction == IF InFunction THEN {} ELSE {"not within a function"}

EnterFor(x) ==
  /\ Stmt /\ Binds(1) /\ MayNest
  /\ r' = [Bind(Errorf(r, NotInFunction), x, FALSE) EXCEPT !.loops = @ + 1]
  /\ open' = Append(open, "for")
  /\ UNCHANGED <<allow, stray, done>>

LeaveFor ==
  /\ Expr /\ Inside({"for"})
  /\ r' = [r EXCEPT !.loops = @ - 1]
  /\ open' = Front(open)
  /\ UNCHANGED <<allow, stray, done>>

\* break and continue; the count of loops is that of the walk, not of the function.
Branch ==
  /\ Stmt
  /\ r' = Errorf(r, IF r.loops = 0 THEN {"not in a loop"} ELSE {})
  /\ stray' = (stray \/ (r.loops > 0 /\ ~ \E i \in DOMAIN open :
                 open[i] = "for" /\ \A j \in (i + 1)..Len(open) : open[j] # "function"))
  /\ UNCHANGED <<allow, open, done>>

\* if and return: their expressions and statements are steps of their own.
IfOrReturn ==
  /\ Stmt
  /\ r' = Errorf(r, NotInFunction)
  /\ UNCHANGED <<allow, open, stray, done>>

\* load(..., x = "from"), from being empty, or beginning with an underscore, or fine.
Load(x, from) ==
  /\ Stmt /\ Binds(1)
  /\ LET q == Errorf(r, (IF InFunction THEN {"load within a function"} ELSE {}) \cup
                        (IF from = "fine" THEN {} ELSE {"load of a bad name"}))
     IN  r' = IF from = "empty" THEN q ELSE Bind(q, x, FALSE)
  /\ UNCHANGED <<allow, open, stray, done>>

Finish ==
  /\ ~done /\ open = <<>>
  /\ r' = ResolveNonLocalUses(ResolveLocalUses(r, Module))
  /\ done' = TRUE
  /\ UNCHANGED <<allow, open, stray>>

ResolverNext ==
  \/ \E x \in Name : Ident(x)
  \/ \E x \in Name, aug \in BOOLEAN : Assign(x, aug)
  \/ IllFormed
  \/ \E x \in Name : Def(x)
  \/ Lambda
  \/ \E ps \in Signatures : EnterFunction(ps)
  \/ LeaveFunction
  \/ \E x \in Name : EnterComprehension(x)
  \/ \E x \in Name : ForClause(x)
  \/ LeaveComprehension
  \/ \E x \in Name : EnterFor(x)
  \/ LeaveFor
  \/ Branch
  \/ IfOrReturn
  \/ \E x \in Name, from \in {"fine", "underscore", "empty"} : Load(x, from)
  \/ Finish

ResolverSpec == ResolverInit /\ [][ResolverNext]_resolverVars

(***************************************************************************)
(* What the walk must come to.  A name is declared in a block by a binding *)
(* occurrence anywhere in it, before or after its uses; an occurrence's    *)
(* home is the innermost block around it that declares its name, and the   *)
(* module when no inner block does.                                        *)
(***************************************************************************)
Blocks == r.blocks
Declares(q, b, x) == \E j \in DOMAIN q.ids : q.ids[j].binds /\ q.ids[j].env = b /\ q.ids[j].name = x
HomeOf(q, b, x) ==
  LET up[c \in DOMAIN q.blocks] ==
        IF c = Module \/ Declares(q, c, x) THEN c ELSE up[q.blocks[c].parent]
  IN  up[b]
Home(i) == HomeOf(r, r.ids[i].env, r.ids[i].name)
Ancestors(bs, b) ==
  LET up[c \in DOMAIN bs] == IF c = Module THEN {c} ELSE {c} \cup up[bs[c].parent]
  IN  up[b]

\* The occurrence that created the cell an address leads to, run time's way: a local
\* variable is in the frame of its container, a free one is found through the closure,
\* whose cells were taken from the frame that made the function.
Cell(scope, index, b) ==
  LET cell[c \in DOMAIN Blocks] ==
        [local |-> Blocks[c].locals,
         free  |-> [k \in DOMAIN Blocks[c].freevars |->
                      LET fv    == Blocks[c].freevars[k]
                          cells == cell[Container(Blocks, Blocks[c].parent)][fv.scope]
                      IN  IF fv.index \in DOMAIN cells THEN cells[fv.index] ELSE 0]]
      cells == cell[Container(Blocks, b)][scope]
  IN  IF index \in DOMAIN cells THEN cells[index] ELSE 0

GlobalBy(i) ==
  \E j \in DOMAIN r.ids : /\ r.ids[j].binds /\ r.ids[j].env = Module /\ r.ids[j].name = r.ids[i].name
                          /\ r.ids[i].env = Module => j <= i

\* What occurrence i denotes by the rules of the language.
Denotes(i) ==
  LET id == r.ids[i]
  IN  IF Home(i) # Module
      THEN /\ id.scope \in {"local", "free"}
           /\ LET j == Cell(id.scope, id.index, id.env)
              IN  j # 0 /\ r.ids[j].name = id.name /\ r.ids[j].env = Home(i) /\ r.ids[j].binds
      ELSE IF GlobalBy(i)
      THEN id.scope = "global" /\ r.ids[r.moduleGlobals[id.index]].name = id.name
      ELSE id.scope = Outside(id.name)

(***************************************************************************)
(* LexicalScope: when the walk is over, every occurrence leads, through    *)
(* the locals of its frame and the free variables of the closures around   *)
(* it, to the variable its text denotes: the one of the innermost block    *)
(* that declares the name, also when the declaration comes after the use   *)
(* or in an inner block resolved before its parent; and a use at the top   *)
(* level sees the globals bound before it only, one in a function all of   *)
(* them.  (stmt, function, resolveLocalUses, lookupLexical: the memoized   *)
(* bindings must not shadow or duplicate one another.)                     *)
(***************************************************************************)
LexicalScope == done => \A i \in DOMAIN r.ids : Denotes(i)

(***************************************************************************)
(* ClosuresExact: the free variables of a function are, once each, the     *)
(* names whose home is outside it and inside the module that it or a       *)
(* function within it uses: a function made inside another finds in the    *)
(* closure of its maker all it needs, and no cell is kept for nothing.     *)
(***************************************************************************)
Captured(f) ==
  {r.ids[i].name : i \in {j \in DOMAIN r.ids : /\ f \in Ancestors(Blocks, r.ids[j].env)
                                               /\ Home(j) # Module
                                               /\ Home(j) \in Ancestors(Blocks, f) \ {f}}}
ClosuresExact ==
  done => \A f \in DOMAIN Blocks :
    LET fvs == Blocks[f].freevars
    IN  IF Blocks[f].kind = "function"
        THEN {fvs[k].name : k \in DOMAIN fvs} = Captured(f) /\ Len(fvs) = Cardinality(Captured(f))
        ELSE fvs = <<>>

(***************************************************************************)
(* ParamsFirst: what setArgs relies on.  In a program without errors the   *)
(* first locals of a function are its parameters, in their order, each in  *)
(* a slot of its own: the required ones, the optional ones, *args, and     *)
(* **kwargs.                                                               *)
(***************************************************************************)
Rank(p) == CASE p.kind = "required" -> 1 [] p.kind = "optional" -> 2
             [] p.kind = "varargs"  -> 3 [] p.kind = "kwargs"   -> 4
ParamsFirst ==
  done /\ r.errors = {} => \A f \in DOMAIN Blocks :
    LET ps == Blocks[f].params
    IN  /\ \A k \in DOMAIN ps : r.ids[Blocks[f].locals[k]].name = ps[k].name
        /\ \A j, k \in DOMAIN ps : j < k =>
             /\ ps[j].name # ps[k].name
             /\ Rank(ps[j]) <= Rank(ps[k])
             /\ Rank(ps[j]) = Rank(ps[k]) => Rank(ps[j]) <= 2

(***************************************************************************)
(* StrayNeedsNestedDef: a break or continue that no loop of its function   *)
(* encloses passes the resolver in one case only, a def nested in a loop,  *)
(* because the count of loops is not reset on entering a function.  Where  *)
(* nested functions are not allowed, no such program is accepted.  What    *)
(* the interpreter makes of the others is in module Interp.                *)
(***************************************************************************)
StrayNeedsNestedDef == stray /\ r.errors = {} => "nestedDef" \in allow
=============================================================================
