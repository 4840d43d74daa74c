---------------------------- MODULE MCEvaluator ----------------------------
(***************************************************************************)
(* The interpreter; the interrupts of its REPL; and what it does at one    *)
(* step: the binding of arguments, slices and ranges, comparisons and the  *)
(* methods of strings.  A behaviour is a session of the interpreter or of  *)
(* the REPL, or one such operation, the rest being at rest.                *)
(***************************************************************************)
EXTENDS Interp, Calls, Strings, Compare, Interrupts, TLC

CONSTANTS def_f, def_g   \* the functions of the program

InterpAtRest  ==
  /\ frames = <<>> /\ module = Session /\ loaders = <<>> /\ signal = NoSignal
  /\ cache = [m \in Module |-> "absent"] /\ runs = [m \in Module |-> 0] /\ items = MaxItems
InterruptsAtRest ==
  /\ line = 0 /\ phase = "ended" /\ goroutines = {} /\ done = {} /\ interrupted = 0 /\ sent = 0
CallAtRest    == called = <<>> /\ binding = Unbound
SliceAtRest   == operation = [kind |-> "none", of |-> <<>>] /\ outcome = NoOutcome
CompareAtRest == compared = <<>> /\ verdict = <<>>
StringAtRest  == text = <<>> /\ answer = NoAnswer

Init ==
  \/ InterpInit /\ InterruptsAtRest /\ CallAtRest /\ SliceAtRest /\ CompareAtRest /\ StringAtRest
  \/ InterpAtRest /\ InterruptsInit /\ CallAtRest /\ SliceAtRest /\ CompareAtRest /\ StringAtRest
  \/ InterpAtRest /\ InterruptsAtRest /\ CallInit /\ SliceAtRest /\ CompareAtRest /\ StringAtRest
  \/ InterpAtRest /\ InterruptsAtRest /\ CallAtRest /\ SliceInit /\ CompareAtRest /\ StringAtRest
  \/ InterpAtRest /\ InterruptsAtRest /\ CallAtRest /\ SliceAtRest /\ CompareInit /\ StringAtRest
  \/ InterpAtRest /\ InterruptsAtRest /\ CallAtRest /\ SliceAtRest /\ CompareAtRest /\ StringInit

pureVars  == <<callVars, sliceVars, compareVars, stringVars>>
Interpret == InterpNext /\ UNCHANGED <<interruptVars, pureVars>>
Prompt    == InterruptsNext /\ UNCHANGED <<interpVars, pureVars>>
Operate   ==
  /\ UNCHANGED <<interpVars, interruptVars>>
  /\ \/ called # <<>> /\ Call /\ UNCHANGED <<sliceVars, compareVars, stringVars>>
     \/ (TakeSlice \/ MakeRanges) /\ UNCHANGED <<callVars, compareVars, stringVars>>
     \/ compared # <<>> /\ CompareAll /\ UNCHANGED <<callVars, sliceVars, stringVars>>
     \/ text # <<>> /\ StringCall /\ UNCHANGED <<callVars, sliceVars, compareVars>>
Next == Interpret \/ Prompt \/ Operate
Spec ==
  /\ Init /\ [][Next]_<<interpVars, interruptVars, pureVars>>
  /\ WF_interpVars(Interpret) /\ InterruptsFairness

MCMaxOps == (def_f :> 2) @@ (def_g :> 1) @@ (TopLevel :> 2)

(***************************************************************************)
(* Functions of up to two parameters, the last of them optional; calls of  *)
(* up to two positional arguments, two named ones, *args of two and        *)
(* **kwargs of two, every value another.                                   *)
(***************************************************************************)
UpTo(S, n) == UNION {[1..k -> S] : k \in 0..n}
Defaults(n) == SubSeq(<<"d1", "d2">>, 1, n)
MCFunctions ==
  UNION {[params : {SubSeq(<<"a", "b">>, 1, n)}, defaults : {Defaults(d) : d \in 0..n},
          varargs : BOOLEAN, kwargs : BOOLEAN] : n \in 0..2}
MCValue == {"p1", "p2", "p3", "n1", "n2", "s1", "s2", "k1", "k2", "d1", "d2"}
Positionals(n) == [i \in 1..n |-> [kind |-> "positional", value |-> <<"p1", "p2", "p3">>[i]]]
Nameds(names)  == [i \in DOMAIN names |-> [kind |-> "named", name |-> names[i], value |-> <<"n1", "n2">>[i]]]
Stars     == {<<>>, <<[kind |-> "star", values |-> <<"s1", "s2">>]>>}
StarStars ==
  {<<>>} \cup {<<[kind |-> "starstar", items |-> [i \in DOMAIN ks |-> <<ks[i], <<"k1", "k2">>[i]>>]]>> :
                 ks \in {q \in UpTo({"a", "b", "c"}, 2) : Len(q) = 2 => q[1] # q[2]}}
NoUse(why) == [kind |-> "unusable", why |-> why]
MCArguments ==
  {Positionals(n) \o s \o Nameds(names) \o ss :
     n \in 0..3, s \in Stars, names \in UpTo({"a", "b", "c"}, 2), ss \in StarStars}
  \cup {Positionals(n) \o <<NoUse("not iterable")>> \o ss : n \in 0..1, ss \in {<<>>, <<NoUse("not a mapping")>>}}
  \cup {Positionals(n) \o s \o <<NoUse("keywords not strings")>> : n \in 0..1, s \in Stars}

(***************************************************************************)
(* Slices of up to four elements, with operands from beyond either end,    *)
(* and one that AsInt32 takes for out of range; ranges of up to six        *)
(* numbers.                                                                *)
(***************************************************************************)
Operand(S)   == {<<>>} \cup {<<i>> : i \in S}
MCSliceCases ==
  UNION {[n : {n}, lo : Operand((-(n + 2))..(n + 2)), hi : Operand((-(n + 2))..(n + 2)),
          step : Operand({-3, -2, -1, 0, 1, 2, 3})] : n \in 0..4}
  \cup [n : {2}, lo : Operand({-9, -8, 7, 8}), hi : Operand({-9, -8, 7, 8}), step : Operand({-9, -8, 7, 8})]
MCRanges == {<<0>>, <<1>>, <<3>>, <<-2>>} \cup {<<i, j>> : i \in {0, 1}, j \in {-1, 0, 2, 3}}
            \cup {<<i, j, k>> : i \in -1..1, j \in -3..4, k \in -3..3}
MCRangeCases == MCRanges \X {<<0>>, <<2>>, <<1, 0>>, <<1, 2>>, <<0, 4, 2>>, <<0, 3, 2>>, <<1, -3, -2>>, <<0, 2, 3>>, <<1, 2, 0>>}
MCHalves == -12..12

(***************************************************************************)
(* Values to compare.                                                      *)
(***************************************************************************)
Num(t, n)    == [t |-> t, s |-> "finite", n |-> n]
Special(s)   == [t |-> "float", s |-> s, n |-> 0]
One == Num("int", 1)
Tup(elems)   == [t |-> "tuple", elems |-> elems]
List(id)     == [t |-> "list", id |-> id]
Dict(ps)     == [t |-> "dict", items |-> ps]
Range(args)  == [t |-> "range"] @@ RangeCall(args).value
MCListElems  ==
  ("l1" :> <<One>>) @@ ("l2" :> <<Num("float", 2), Num("int", 0)>>) @@ ("nan" :> <<Special("nan")>>)
  @@ ("own" :> <<List("own")>>) @@ ("two" :> <<List("own"), One>>)
Values ==
  {Num("int", 0), One, Num("int", -1), Num("float", 2), Num("float", -1), Num("float", 3),
   Special("nan"), Special("inf"), Special("-inf"),
   [t |-> "none"], Num("bool", 1), Num("string", 1), Num("string", 2), Num("function", 1),
   Tup(<<>>), Tup(<<One>>), Tup(<<Num("float", 2)>>), Tup(<<One, Num("float", 1)>>), Tup(<<Special("inf")>>),
   Tup(<<Tup(<<One>>), List("nan")>>),
   List("l1"), List("l2"), List("nan"), List("own"), List("two"),
   Range(<<0, 3, 2>>), Range(<<0, 4, 2>>), Range(<<1, 3>>), Range(<<2, 1, 3>>), Tup(<<Range(<<1>>)>>),
   Dict(<<>>), Dict(<<<<One, List("l1")>>>>), Dict(<<<<Num("float", 2), Tup(<<>>)>>>>),
   Dict(<<<<One, One>>, <<Num("string", 1), Num("float", 2)>>>>), Dict(<<<<Num("string", 1), One>>, <<Num("float", 2), One>>>>),
   [t |-> "set", elems |-> <<One, Num("string", 1)>>], [t |-> "set", elems |-> <<Num("string", 1), Num("float", 2)>>]}
\* The third value is for the transitivity of <.
Thirds == {One, Num("float", 2), Num("float", 3), Special("nan"), Special("inf"), Num("string", 2),
           Tup(<<One, Num("float", 1)>>), Tup(<<Special("inf")>>), Tup(<<Tup(<<One>>), List("nan")>>), List("l2"), List("two")}
MCCompareCases == {<<x, y, z>> : x \in Values, y \in Values, z \in Thirds}

\* The values whose comparisons depart from the specification, together.
DocumentedCases ==
  {<<Special("inf"), One, Special("nan"), Range(<<1, 2>>), Range(<<1, 3, 2>>), Num("float", 3)>>}

(***************************************************************************)
(* Strings of up to five characters, of the few that matter to a method.   *)
(***************************************************************************)
Operands == {[t |-> "tuple", elems |-> <<"number", "other">>], [t |-> "tuple", elems |-> <<"number">>],
             [t |-> "tuple", elems |-> <<>>], [t |-> "dict"], [t |-> "number"]}
MCStringCases ==
  [kind : {"find"}, s : UpTo({"a", "b"}, 4), sub : {<<>>, <<"a">>, <<"a", "b">>, <<"a", "a">>},
   start : Operand({-3, -1, 0, 1, 2, 5, 9}), end : Operand({-3, -1, 0, 1, 2, 5}), last : BOOLEAN]
  \cup [kind : {"count"}, s : UpTo({"a", "b"}, 4), sub : {<<>>, <<"a">>, <<"a", "b">>, <<"a", "a">>},
        start : Operand({-3, 0, 1, 5, 9}), end : Operand({-1, 2, 5})]
  \cup [kind : {"split"}, s : UpTo({"a", "b", " "}, 4) \cup UpTo({"a", " "}, 5), max : -1..3, right : BOOLEAN,
        sep : {<<>>, <<<<>>>>, <<<<"b">>>>, <<<<"a", "a">>>>, <<<<"a", "b">>>>}]
  \cup [kind : {"partition"}, s : UpTo({"a", "b"}, 4), sep : {<<>>, <<"a">>, <<"a", "b">>, <<"a", "a">>}, right : BOOLEAN]
  \cup [kind : {"splitlines"}, s : UpTo({"a", "\n"}, 4), keepends : BOOLEAN]
  \cup [kind : {"format"}, s : UpTo({"{", "}", "!", ":", "1", "r", "k"}, 4), args : {<<"u">>, <<"u", "v">>}]
  \cup [kind : {"format"}, s : {<<"{">> \o s : s \in UpTo({"!", ":", "1", "r", "}"}, 4) \cup UpTo({"{", "}", "0", "k"}, 5)}, args : {<<"u">>, <<"u", "v">>}]
  \cup [kind : {"format"}, s : {<<"{">> \o s : s \in UpTo({"0", "1", "+", "-", "}"}, 4)}, args : {<<"u">>, <<"u", "v">>}]
  \cup [kind : {"percent"}, s : UpTo({"%", "(", ")", "k", "s", "d"}, 4),
        x : Operands]
  \cup [kind : {"percent"}, s : {<<"%", "(", "k", ")">> \o s : s \in UpTo({"%", "s", "d", "(", "k"}, 4)}, x : Operands]
=============================================================================
