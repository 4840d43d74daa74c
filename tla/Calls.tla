------------------------------- MODULE Calls -------------------------------
(***************************************************************************)
(* The binding of arguments to parameters: evalArgs and setArgs.           *)
(* Values are opaque.  A function is the names of its ordinary parameters, *)
(* the values of its defaults, and whether it has *args and **kwargs.      *)
(* A call is a sequence of arguments:                                      *)
(*   [kind |-> "positional", value]       [kind |-> "named", name, value]  *)
(*   [kind |-> "star", values]            [kind |-> "starstar", items]     *)
(*   [kind |-> "unusable", why]: * of what is not iterable, or ** of what  *)
(*   is no dict or has a key that is no string                             *)
(***************************************************************************)
EXTENDS Integers, Sequences, FiniteSets

CONSTANTS
  Value,
  Functions,  \* [params, defaults, varargs, kwargs]
  Arguments   \* the argument lists of calls, as the resolver lets them stand

Unusable == {"not iterable", "not a mapping", "keywords not strings"}
CallArgument ==
  [kind : {"positional"}, value : Value] \cup [kind : {"named"}, name : STRING, value : Value]
    \cup [kind : {"star"}, values : Seq(Value)] \cup [kind : {"starstar"}, items : Seq(STRING \X Value)]
    \cup [kind : {"unusable"}, why : Unusable]

\* The resolver refuses two parameters of one name, and a required one after one with a default.
ASSUME CallsAssumption ==
  /\ \A fn \in Functions :
       /\ fn.params \in Seq(STRING) /\ \A i, j \in DOMAIN fn.params : fn.params[i] = fn.params[j] => i = j
       /\ fn.defaults \in Seq(Value) /\ Len(fn.defaults) <= Len(fn.params)
       /\ fn.varargs \in BOOLEAN /\ fn.kwargs \in BOOLEAN
  /\ \A call \in Arguments : call \in Seq(CallArgument)

VARIABLES called, binding
callVars == <<called, binding>>
Unbound == [error |-> "unbound", locals |-> <<>>]

Unset == "unset"

\* evalArgs: the first argument that is of no use ends it; else the positional
\* arguments and the pairs of names and values, an argument at a time.
Refused(call)  == {k \in DOMAIN call : call[k].kind = "unusable"}
Refusal(call) == call[CHOOSE k \in Refused(call) : \A j \in Refused(call) : k <= j].why
Positional(call) ==
  LET args[k \in 0..Len(call)] ==
        IF k = 0 THEN <<>>
        ELSE args[k - 1] \o CASE call[k].kind = "positional" -> <<call[k].value>>
                              [] call[k].kind = "star"       -> call[k].values
                              [] OTHER                       -> <<>>
  IN  args[Len(call)]
Keywords(call) ==
  LET kwargs[k \in 0..Len(call)] ==
        IF k = 0 THEN <<>>
        ELSE kwargs[k - 1] \o CASE call[k].kind = "named"    -> <<<<call[k].name, call[k].value>>>>
                                [] call[k].kind = "starstar" -> call[k].items
                                [] OTHER                     -> <<>>
  IN  kwargs[Len(call)]

NParams(fn) == Len(fn.params)
Slots(fn)   == NParams(fn) + (IF fn.varargs THEN 1 ELSE 0) + (IF fn.kwargs THEN 1 ELSE 0)
Parameters(fn, k) == {i \in DOMAIN fn.params : fn.params[i] = k}   \* findParam

\* kwdict.Set: the dict is its pairs, in order; a name that is there gets the new value.
DictSet(items, k, v) ==
  IF \E i \in DOMAIN items : items[i][1] = k
  THEN [i \in DOMAIN items |-> IF items[i][1] = k THEN <<k, v>> ELSE items[i]]
  ELSE Append(items, <<k, v>>)

\* The parameters that the positional arguments define.  Mutant: none is marked as defined.
ByPositionUnmarked(fn, args) == {}
ByPosition(fn, args) == 1..(IF Len(args) < NParams(fn) THEN Len(args) ELSE NParams(fn))

\* One keyword argument.  b is the binding so far: locals of the ordinary
\* parameters, those that are defined, the dict, and the error.
BindKeyword(fn, b, pair) ==
  LET found == Parameters(fn, pair[1])
  IN  CASE b.error # "" -> b
        [] b.error = "" /\ found # {} ->
             LET i == CHOOSE j \in found : TRUE
             IN  IF i \in b.defined THEN [b EXCEPT !.error = "multiple values"]
                 ELSE [b EXCEPT !.defined = @ \cup {i}, !.locals[i] = pair[2]]
        [] b.error = "" /\ found = {} /\ ~fn.kwargs -> [b EXCEPT !.error = "unexpected keyword"]
        [] OTHER -> [b EXCEPT !.dict = DictSet(@, pair[1], pair[2])]

\* The ordinary parameters that have a positional argument, then every keyword argument in turn.
BindNames(fn, args, kwargs) ==
  LET start == [locals  |-> [i \in 1..NParams(fn) |-> IF i <= Len(args) THEN args[i] ELSE Unset],
                defined |-> ByPosition(fn, args), dict |-> <<>>, error |-> ""]
      after[k \in 0..Len(kwargs)] ==
        IF k = 0 THEN start ELSE BindKeyword(fn, after[k - 1], kwargs[k])
  IN  after[Len(kwargs)]

\* Default values: those of the last parameters.
FirstDefault(fn) == NParams(fn) - Len(fn.defaults) + 1
BindDefaults(fn, args, b) ==
  IF Len(args) >= NParams(fn) THEN b
  ELSE IF \E i \in (Len(args) + 1)..(FirstDefault(fn) - 1) : i \notin b.defined
  THEN [b EXCEPT !.error = "missing argument"]
  ELSE [b EXCEPT !.locals =
          [i \in DOMAIN @ |-> IF i \in b.defined \/ i <= Len(args) THEN @[i] ELSE fn.defaults[i - FirstDefault(fn) + 1]]]

SetArgs(fn, args, kwargs) ==
  LET np    == NParams(fn)
      named == BindNames(fn, args, kwargs)
      final == IF named.error = "" THEN BindDefaults(fn, args, named) ELSE named
      Fail(e) == [error |-> e, locals |-> <<>>]
  IN  IF Slots(fn) = 0   \* nothing to set
      THEN Fail(IF Len(args) + Len(kwargs) > 0 THEN "takes no arguments" ELSE "")
      ELSE IF Len(args) > np /\ ~fn.varargs THEN Fail("too many arguments")
      ELSE IF final.error # "" THEN Fail(final.error)
      ELSE [error  |-> "",
            locals |-> final.locals
                         \o (IF fn.varargs THEN <<SubSeq(args, np + 1, Len(args))>> ELSE <<>>)
                         \o (IF fn.kwargs THEN <<final.dict>> ELSE <<>>)]

CallInit == called \in [fn : Functions, args : Arguments] /\ binding = Unbound
Call ==
  /\ binding.error = "unbound"
  /\ binding' = IF Refused(called.args) # {} THEN [error |-> Refusal(called.args), locals |-> <<>>]
                ELSE SetArgs(called.fn, Positional(called.args), Keywords(called.args))
  /\ UNCHANGED called
CallSpec == CallInit /\ [][Call]_callVars

(***************************************************************************)
(* CallBinding: a call is accepted if and only if every * and ** has what  *)
(* it can take arguments from, every argument has a parameter to go to,    *)
(* *args and **kwargs included, and every parameter has one argument, by   *)
(* its position or its name, or none and a default value; and it is bound  *)
(* to that. Of the arguments that go to **kwargs this is not so: where a   *)
(* name is repeated, the last value counts.                                *)
(***************************************************************************)
Claims(fn, args, kwargs, i) ==   \* the arguments for parameter i
  {<<"position", p>> : p \in {i} \cap DOMAIN args}
    \cup {<<"keyword", q>> : q \in {j \in DOMAIN kwargs : kwargs[j][1] = fn.params[i]}}
Unclaimed(fn, kwargs) == {q \in DOMAIN kwargs : \A i \in DOMAIN fn.params : fn.params[i] # kwargs[q][1]}
Optional(fn, i) == i > NParams(fn) - Len(fn.defaults)
Proper(fn, args, kwargs) ==
  /\ Len(args) > NParams(fn) => fn.varargs
  /\ Unclaimed(fn, kwargs) # {} => fn.kwargs
  /\ \A i \in DOMAIN fn.params :
       LET c == Cardinality(Claims(fn, args, kwargs, i))
       IN  c = 1 \/ (c = 0 /\ Optional(fn, i))
Meant(fn, args, kwargs, i) ==
  CASE i \in DOMAIN args -> args[i]
    [] i \notin DOMAIN args /\ Claims(fn, args, kwargs, i) # {} ->
         kwargs[CHOOSE q \in DOMAIN kwargs : kwargs[q][1] = fn.params[i]][2]
    [] OTHER -> fn.defaults[i - (NParams(fn) - Len(fn.defaults))]
\* d has the pairs of kwargs at spare: each name once, in the order of first occurrence,
\* with its last value.
MeantDict(spare, kwargs, d) ==
  /\ \A j \in DOMAIN d : \E q \in spare :
       d[j] = kwargs[q] /\ \A o \in spare : kwargs[o][1] = kwargs[q][1] => o <= q
  /\ \A q \in spare : \E j \in DOMAIN d : d[j][1] = kwargs[q][1]
  /\ \A j, l \in DOMAIN d : j < l =>
       \E p \in spare : kwargs[p][1] = d[j][1] /\ \A q \in spare : kwargs[q][1] = d[l][1] => p < q

BoundAs(fn, args, kwargs, b) ==
  LET np == NParams(fn)
  IN  IF ~Proper(fn, args, kwargs) THEN b.error # ""
      ELSE /\ b.error = ""
           /\ Len(b.locals) = Slots(fn)
           /\ \A i \in 1..np : b.locals[i] = Meant(fn, args, kwargs, i)
           /\ fn.varargs => b.locals[np + 1] = SubSeq(args, np + 1, Len(args))
           /\ fn.kwargs => MeantDict(Unclaimed(fn, kwargs), kwargs, b.locals[Slots(fn)])
CallBinding ==
  binding.error # "unbound" =>
    IF Refused(called.args) # {} THEN binding.error \in Unusable
    ELSE BoundAs(called.fn, Positional(called.args), Keywords(called.args), binding)
=============================================================================
