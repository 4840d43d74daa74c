------------------------------ MODULE Compare ------------------------------
(***************************************************************************)
(* Comparison and hashing: CompareDepth, the CompareSameType methods and   *)
(* the Hash methods.  A value is a record of its type t:                   *)
(*   none, bool n, string n, function n (its name)                         *)
(*   int n; float n in halves, with s "finite", "nan", "inf" or "-inf"     *)
(*   tuple elems; dict items; set elems; list id, its elements in the heap *)
(*   range start, stop, step, len, as RangeCall of Slices makes it         *)
(* A hash is symbolic: two values have the same only if they must.         *)
(***************************************************************************)
EXTENDS Slices

CONSTANTS
  CompareCases,   \* the values to compare: sequences of three or more
  ListElems,      \* the heap: the elements of each list, which may hold lists, itself too
  Recursion       \* maxdepth: 10 in the code

VARIABLES compared, verdict
compareVars == <<compared, verdict>>

Ops == {"==", "!=", "<", "<=", ">", ">="}
Unordered(op) == op \in {"==", "!="}
Bool(b) == IF b THEN "true" ELSE "false"
Not(v)  == CASE v = "true" -> "false" [] v = "false" -> "true" [] OTHER -> v

Threeway(op, cmp) ==
  CASE op = "==" -> cmp = 0  [] op = "!=" -> cmp # 0 [] op = "<=" -> cmp <= 0
    [] op = "<"  -> cmp < 0  [] op = ">=" -> cmp >= 0 [] op = ">"  -> cmp > 0
Cmp(a, b) == IF a < b THEN -1 ELSE IF a = b THEN 0 ELSE 1

NaN(x)      == x.t = "float" /\ x.s = "nan"
Infinite(x) == x.t = "float" /\ x.s \in {"inf", "-inf"}
Rational(x) == IF x.t = "int" THEN 2 * x.n ELSE x.n

\* float and float: the comparisons of the processor.
Extended(x) == CASE x.s = "finite" -> <<0, x.n>> [] x.s = "inf" -> <<1, 0>> [] x.s = "-inf" -> <<-1, 0>>
FloatCmp(a, b) == IF a[1] = b[1] THEN Cmp(a[2], b[2]) ELSE Cmp(a[1], b[1])
CompareFloats(op, x, y) ==
  IF NaN(x) \/ NaN(y) THEN op = "!=" ELSE Threeway(op, FloatCmp(Extended(x), Extended(y)))

\* int and float, in either order.  The sign is that of an infinity on the right, also
\* where it is on the left.
CompareMixed(op, x, y) ==
  LET f == IF x.t = "float" THEN x ELSE y
  IN  ~NaN(f) /\ Threeway(op, IF Infinite(f) THEN IF f.s = "inf" THEN -1 ELSE 1 ELSE Cmp(Rational(x), Rational(y)))

(***************************************************************************)
(* Hashes.                                                                 *)
(***************************************************************************)
\* Mutant of FloatHash: a float does not hash as the int.
FloatHashOwn(x) == <<"float", x.n>>
FloatHash(x) ==
  IF x.s = "finite" THEN <<"int", IF x.n < 0 THEN -((-x.n) \div 2) ELSE x.n \div 2>> ELSE <<"float">>
RECURSIVE Hashable(_), Hash(_)
Hashable(x) == CASE x.t \in {"list", "dict", "set", "range"} -> FALSE
                 [] x.t = "tuple" -> \A i \in DOMAIN x.elems : Hashable(x.elems[i])
                 [] OTHER -> TRUE
Hash(x) == CASE x.t = "float" -> FloatHash(x)
             [] x.t = "tuple" -> <<"tuple", [i \in DOMAIN x.elems |-> Hash(x.elems[i])]>>
             [] x.t = "none"  -> <<"none">>
             [] OTHER         -> <<x.t, x.n>>

(***************************************************************************)
(* CompareDepth.  A lookup in a dict or a set compares anew from maxdepth, *)
(* only with keys of the same hash, and takes an error for an absence.     *)
(***************************************************************************)
RECURSIVE CompareDepth(_, _, _, _), SliceCompare(_, _, _, _, _), ItemsEqual(_, _, _, _)

Equal(x, y) == CompareDepth("==", x, y, Recursion)
Find(keys, k) == {i \in DOMAIN keys : Hash(keys[i]) = Hash(k) /\ Equal(k, keys[i]) = "true"}

\* From the element i on.
SliceCompare(op, x, y, i, depth) ==
  IF Len(x) # Len(y) /\ Unordered(op) THEN Bool(op = "!=")
  ELSE IF i > Len(x) \/ i > Len(y) THEN Bool(Threeway(op, Len(x) - Len(y)))
  ELSE LET eq == CompareDepth("==", x[i], y[i], depth - 1)
       IN  CASE eq = "error" -> "error"
             [] eq = "true"  -> SliceCompare(op, x, y, i + 1, depth)
             [] OTHER        -> IF Unordered(op) THEN Bool(op = "!=") ELSE CompareDepth(op, x[i], y[i], depth - 1)

\* dictsEqual, from the item i of x on.
Keys(items) == [j \in DOMAIN items |-> items[j][1]]
ItemsEqual(x, y, i, depth) ==
  IF Len(x) # Len(y) THEN "false"
  ELSE IF i > Len(x) THEN "true"
  ELSE LET found == Find(Keys(y), x[i][1])
       IN  IF found = {} THEN "false"
           ELSE LET eq == CompareDepth("==", x[i][2], y[CHOOSE j \in found : TRUE][2], depth - 1)
                IN  IF eq = "true" THEN ItemsEqual(x, y, i + 1, depth) ELSE eq
SetsEqual(x, y) == Bool(Len(x) = Len(y) /\ \A i \in DOMAIN x : Find(y, x[i]) # {})

CompareSameType(op, x, y, depth) ==
  CASE x.t = "none"                    -> Bool(Threeway(op, 0))
    [] x.t \in {"bool", "int", "string"} -> Bool(Threeway(op, Cmp(x.n, y.n)))
    [] x.t = "float"                   -> Bool(CompareFloats(op, x, y))
    [] x.t = "tuple"                   -> SliceCompare(op, x.elems, y.elems, 1, depth)
    [] x.t = "list"                    -> SliceCompare(op, ListElems[x.id], ListElems[y.id], 1, depth)
    [] OTHER ->   \* dicts, sets, ranges, and by identity: functions
         LET eq == CASE x.t = "dict" -> ItemsEqual(x.items, y.items, 1, depth)
                     [] x.t = "set"  -> SetsEqual(x.elems, y.elems)
                     [] x.t = "range" -> Bool(RangeEqual(x, y))
                     [] OTHER        -> Bool(x = y)
         IN  IF ~Unordered(op) THEN "error" ELSE IF op = "==" THEN eq ELSE Not(eq)

CompareDepth(op, x, y, depth) ==
  IF depth < 1 THEN "error"
  ELSE IF x.t = y.t THEN CompareSameType(op, x, y, depth)
  ELSE IF {x.t, y.t} = {"int", "float"} THEN Bool(CompareMixed(op, x, y))
  ELSE IF Unordered(op) THEN Bool(op = "!=")
  ELSE "error"

\* x in y, for a range y.
Member(x, y) ==
  IF x.t = "int" \/ (x.t = "float" /\ x.s = "finite") THEN Bool(In(Rational(x), y)) ELSE "error"

\* Several values, and the verdicts of every comparison of two of them.
CompareInit == compared \in CompareCases /\ verdict = <<>>
CompareAll ==
  /\ verdict = <<>>
  /\ LET pairs == {q \in (DOMAIN compared) \X (DOMAIN compared) : q[1] # q[2]}
         among == (Ops \X pairs) \cup ({"in"} \X {q \in pairs : compared[q[2]].t = "range"})
     IN  verdict' = [p \in among |->
           LET x == compared[p[2][1]]  y == compared[p[2][2]]
           IN  IF p[1] = "in" THEN Member(x, y) ELSE CompareDepth(p[1], x, y, Recursion)]
  /\ UNCHANGED compared

(***************************************************************************)
(* ComparisonsCoherent: for any three values, where neither the depth is   *)
(* exceeded nor a type unordered:                                          *)
(*  - values are equal if and only if they denote the same, 1 and 1.0 too; *)
(*  - equal values have equal hashes, so that a dict finds either by the   *)
(*    other;                                                               *)
(*  - != is the opposite of ==, and < the converse of >;                   *)
(*  - but for NaN, just one of <, == and > holds, and <= is < or ==;       *)
(*  - < is transitive.                                                     *)
(* No claim is made of the comparisons that depart from the specification, *)
(* for which see ComparisonsAsDocumented: != of an int and a NaN, < and >  *)
(* of an int and an infinity, and == of ranges of one element.             *)
(***************************************************************************)
RECURSIVE Atoms(_, _), Denotes(_, _), Deep(_, _)
Parts(x) == CASE x.t \in {"tuple", "set"} -> x.elems
              [] x.t = "list" -> ListElems[x.id]
              [] x.t = "dict" -> [i \in DOMAIN x.items |-> x.items[i][2]]
              [] OTHER -> <<>>
Deep(x, d) == d = 0 \/ \E i \in DOMAIN Parts(x) : Deep(Parts(x)[i], d - 1)   \* nests that much, or is cyclic
Atoms(x, d) == IF d = 0 THEN {} ELSE {x} \cup UNION {Atoms(Parts(x)[i], d - 1) : i \in DOMAIN Parts(x)}
HasNaN(x)   == \E a \in Atoms(x, Recursion) : NaN(a)
HasInf(x)   == \E a \in Atoms(x, Recursion) : Infinite(a)
HasInt(x)   == \E a \in Atoms(x, Recursion) : a.t = "int"
Astray(x, y) == (HasInf(x) /\ HasInt(y)) \/ (HasInt(x) /\ HasInf(y))
OneInRange(x, y) == \E a \in Atoms(x, Recursion) \cup Atoms(y, Recursion) : a.t = "range" /\ a.len = 1

\* What a value that is not cyclic denotes.
Denotes(x, d) ==
  CASE d = 0 -> <<"deep">>
    [] d > 0 /\ x.t \in {"int", "float"} -> IF Infinite(x) THEN <<"number", x.s>> ELSE <<"number", "finite", Rational(x)>>
    [] d > 0 /\ x.t \in {"tuple", "list"} -> <<x.t, [i \in DOMAIN Parts(x) |-> Denotes(Parts(x)[i], d - 1)]>>
    [] d > 0 /\ x.t = "set"  -> <<"set", {Denotes(x.elems[i], d - 1) : i \in DOMAIN x.elems}>>
    [] d > 0 /\ x.t = "dict" -> <<"dict", {<<Denotes(x.items[i][1], d - 1), Denotes(x.items[i][2], d - 1)>> : i \in DOMAIN x.items}>>
    [] d > 0 /\ x.t = "range" -> <<"range", Elements(x)>>
    [] d > 0 /\ x.t = "none" -> <<"none">>
    [] OTHER -> <<x.t, x.n>>
Same(x, y) == ~HasNaN(x) /\ ~HasNaN(y) /\ Denotes(x, Recursion) = Denotes(y, Recursion)

V(op, i, j) == verdict[<<op, <<i, j>>>>]
IntAndNaN(x, y) == {x.t, y.t} = {"int", "float"} /\ (NaN(x) \/ NaN(y))
ComparisonsCoherent ==
  verdict # <<>> =>
    LET x == compared[1]  y == compared[2]  z == compared[3]
        ordered == "error" \notin {V(op, 1, 2) : op \in Ops}
    IN  /\ V("==", 1, 2) = "error" => Deep(x, Recursion) /\ Deep(y, Recursion)
        /\ V("==", 1, 2) # "error" /\ ~Deep(x, Recursion) /\ ~Deep(y, Recursion) /\ ~OneInRange(x, y) =>
             V("==", 1, 2) = Bool(Same(x, y))
        /\ V("==", 1, 2) = "true" /\ Hashable(x) => Hashable(y) /\ Hash(x) = Hash(y)
        /\ ~IntAndNaN(x, y) => V("!=", 1, 2) = Not(V("==", 1, 2))
        /\ ~Astray(x, y) => V("<", 1, 2) = V(">", 2, 1) /\ V("<=", 1, 2) = V(">=", 2, 1)
        /\ ordered /\ ~HasNaN(x) /\ ~HasNaN(y) =>
             /\ Cardinality({op \in {"<", "==", ">"} : V(op, 1, 2) = "true"}) = 1
             /\ V("<=", 1, 2) = "true" <=> "true" \in {V("<", 1, 2), V("==", 1, 2)}
        /\ V("<", 1, 2) = "true" /\ V("<", 2, 3) = "true" /\ V("<", 1, 3) # "error"
           /\ ~Astray(x, y) /\ ~Astray(y, z) /\ ~Astray(x, z) => V("<", 1, 3) = "true"

\* What the specification of the language says of comparisons (doc/spec.md): != is the
\* negation of ==; the infinities are greater, or less, than every finite number; ranges
\* are equal if they denote the same sequence; and a number is in a range if it is equal
\* to a member (CompareDepth, rangeEqual, and `in` of Binary).
Finite(x) == x.t = "int" \/ (x.t = "float" /\ x.s = "finite")
ComparisonsAsDocumented ==
  \A p \in DOMAIN verdict :
    LET i == p[2][1]  j == p[2][2]
        x == compared[i]  y == compared[j]
    IN  /\ p[1] = "!=" => V("!=", i, j) = Not(V("==", i, j))
        /\ p[1] \in {"<", ">"} /\ Infinite(x) /\ Finite(y) => V(p[1], i, j) = Bool((p[1] = ">") = (x.s = "inf"))
        /\ p[1] = "==" /\ x.t = "range" /\ y.t = "range" => V("==", i, j) = Bool(Elements(x) = Elements(y))
        /\ p[1] = "in" /\ Finite(x) =>
             V("in", i, j) = Bool(\E k \in DOMAIN Elements(y) : Rational(x) = 2 * Elements(y)[k])
=============================================================================
