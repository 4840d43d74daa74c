------------------------------- MODULE Grammar -------------------------------
(***************************************************************************)
(* The grammar of the language as the productions above the functions of   *)
(* syntax/parse.go give it, read as a generator: the trees that a file can *)
(* have (WellFormed), and the token sequences that stand for a tree        *)
(* (Yields; several, since a trailing comma, a semicolon and the choice    *)
(* between elif and a nested if leave no mark in the tree).                *)
(*                                                                         *)
(* A tree is a node [k, op, c] (syntax/syntax.go): kind, token, children.  *)
(***************************************************************************)
EXTENDS Integers, Sequences, FiniteSets, SequencesExt

Node(k, op, c) == [k |-> k, op |-> op, c |-> c]
Leaf(t)   == Node("leaf", t, <<>>)
Absent    == Node("absent", "", <<>>)
Block(ss) == Node("block", "", ss)

Atoms      == {"IDENT", "INT", "FLOAT", "STRING"}
AssignOps  == {"=", "+=", "-=", "*=", "/=", "//=", "%="}
Comparisons == {"==", "!=", "<", ">", "<=", ">=", "in", "not in"}

(***************************************************************************)
(* How tightly the outermost construct of an expression binds.             *)
(***************************************************************************)
Level(n) ==
  CASE n.k = "binary" -> (CASE n.op = "or" -> 0 [] n.op = "and" -> 1 [] n.op \in Comparisons -> 3
                            [] n.op = "|" -> 4 [] n.op = "&" -> 5 [] n.op \in {"+", "-"} -> 6
                            [] OTHER -> 7)
    [] n.k = "strings" -> 6
    [] n.k = "unary"   -> IF n.op = "not" THEN 2 ELSE 8
    [] n.k \in {"cond", "lambda"} -> -1
    [] n.k = "tuple"   -> IF n.c = <<>> THEN 9 ELSE -2   \* without its parentheses
    [] OTHER -> 9

IsString(n) == n = Leaf("STRING") \/ n.k = "strings"
Stars(ns)   == \E i \in DOMAIN ns : ns[i].k = "star"

RECURSIVE WellFormed(_), NoCondition(_)

AtLeast(n, level) == Level(n) >= level /\ WellFormed(n)
IsTest(n)     == AtLeast(n, -1)
IsTestList(n) == AtLeast(n, -2) /\ (n.k = "tuple" => Len(n.c) # 1)
\* The body of a lambda in the condition of a comprehension is not a conditional.
NoCondition(n) == IF n.k = "lambda" THEN WellFormed(n.c[1]) /\ NoCondition(n.c[2]) ELSE AtLeast(n, 0)
\* The code does not take the trailing comma of the production (parse.go:187).
LoopVariables(n) ==
  IF n.k = "tuple" /\ n.c # <<>> THEN Len(n.c) > 1 /\ \A i \in DOMAIN n.c : AtLeast(n.c[i], 8)
  ELSE AtLeast(n, 8)
IsParam(n) ==
  \/ n = Leaf("IDENT")
  \/ n.k = "star" /\ n.c = <<Leaf("IDENT")>>
  \/ n.k = "named" /\ n.c[1] = Leaf("IDENT") /\ IsTest(n.c[2])
IsArg(n) ==
  \/ n.k = "star" /\ IsTest(n.c[1])
  \/ n.k = "named" /\ n.c[1] = Leaf("IDENT") /\ IsTest(n.c[2])
  \/ n.k \notin {"star", "named"} /\ IsTest(n)
IsClause(n) == IF n.k = "for clause" THEN LoopVariables(n.c[1]) /\ AtLeast(n.c[2], 0) ELSE NoCondition(n.c[1])
IsEntry(n)  == n.k = "entry" /\ IsTest(n.c[1]) /\ IsTest(n.c[2])
All(ns, Is(_)) == \A i \in DOMAIN ns : Is(ns[i])
OrAbsent(n) == n = Absent \/ IsTest(n)

WellFormed(n) ==
  LET c == n.c
  IN  CASE n.k = "leaf" -> n.op \in Atoms
        [] n.k = "strings" -> Len(c) > 1 /\ All(c, IsString)
        [] n.k = "unary" -> \* the code refuses not not x (parse.go:538)
             AtLeast(c[1], IF n.op = "not" THEN 3 ELSE 8)
        [] n.k = "binary" -> \* comparisons do not associate, the others do to the left
             /\ AtLeast(c[1], IF n.op \in Comparisons THEN 4 ELSE Level(n))
             /\ AtLeast(c[2], Level(n) + 1)
             /\ ~(n.op = "+" /\ IsString(c[1]) /\ IsString(c[2]))
        [] n.k = "cond"   -> AtLeast(c[1], 0) /\ AtLeast(c[2], 0) /\ IsTest(c[3])
        [] n.k = "lambda" -> All(c[1].c, IsParam) /\ IsTest(c[2])
        [] n.k = "paren"  -> AtLeast(c[1], -2) /\ (c[1].k = "tuple" => WellFormed(c[1]))
        [] n.k = "tuple"  -> All(c, IsTest)
        [] n.k = "list"   -> All(c, IsTest)
        [] n.k = "dict"   -> All(c, IsEntry)
        [] n.k = "comprehension" ->
             /\ IF n.op = "]" THEN IsTest(c[1]) ELSE IsEntry(c[1])
             /\ Len(c) > 1 /\ c[2].k = "for clause" /\ All(Tail(c), IsClause)
        [] n.k = "dot"    -> AtLeast(c[1], 9)
        [] n.k = "index"  -> AtLeast(c[1], 9) /\ IsTestList(c[2])
        [] n.k = "slice"  -> \* the code takes a tuple as the lower bound
             /\ AtLeast(c[1], 9) /\ (c[2] = Absent \/ IsTestList(c[2]))
             /\ OrAbsent(c[3]) /\ OrAbsent(c[4])
        [] n.k = "call"   -> AtLeast(c[1], 9) /\ All(Tail(c), IsArg)
        [] n.k = "return" -> c = <<>> \/ IsTestList(c[1])
        [] n.k = "branch" -> n.op \in {"break", "continue", "pass"}
        [] n.k = "load"   -> c # <<>>
        [] n.k = "assign" -> n.op \in AssignOps /\ All(c, IsTestList)
        [] n.k = "expr"   -> IsTestList(c[1])
        [] n.k = "def"    -> All(c[1].c, IsParam) /\ WellFormed(c[2])
        [] n.k = "if"     -> IsTest(c[1]) /\ WellFormed(c[2]) /\ WellFormed(c[3])
        [] n.k = "for"    -> LoopVariables(c[1]) /\ IsTestList(c[2]) /\ WellFormed(c[3])
        [] n.k = "block"  -> All(c, WellFormed)   \* the code takes an empty one, too
        [] OTHER          -> FALSE

(***************************************************************************)
(* The sentences of a tree.                                                *)
(***************************************************************************)
RECURSIVE Yields(_), Spread(_, _), Statements(_)

S(t) == {<<t>>}
None == {<<>>}
Then(A, B) == {a \o b : a \in A, b \in B}
Seq3(A, B, C) == Then(A, Then(B, C))
Op(n) == IF n.op = "not in" THEN {<<"not", "in">>} ELSE S(n.op)

\* ns with separators between them.
Spread(ns, sep) ==
  IF ns = <<>> THEN None ELSE IF Len(ns) = 1 THEN Yields(ns[1])
  ELSE Seq3(Yields(ns[1]), S(sep), Spread(Tail(ns), sep))
Commas(ns, trailing) ==
  IF ns # <<>> /\ trailing THEN Spread(ns, ",") \cup Then(Spread(ns, ","), S(",")) ELSE Spread(ns, ",")
InParens(n) == IF n.k = "tuple" /\ Len(n.c) = 1 THEN Then(Yields(n.c[1]), S(","))
               ELSE IF n.k = "tuple" /\ n.c # <<>> THEN Commas(n.c, TRUE) ELSE Yields(n)
SliceYields(lo, hi, step) ==
  Seq3(Yields(lo), S(":"), Then(Yields(hi), IF step = Absent THEN None \cup S(":") ELSE Then(S(":"), Yields(step))))

Small(n) == n.k \in {"return", "branch", "load", "assign", "expr"}
\* A statement list: small statements may share a line.
Statements(ss) ==
  IF ss = <<>> THEN None
  ELSE LET ends == IF ~Small(ss[1]) THEN None
                   ELSE {<<"NEWLINE">>, <<";", "NEWLINE">>} \cup
                        (IF Len(ss) > 1 /\ Small(ss[2]) THEN S(";") ELSE {})
       IN  Seq3(Yields(ss[1]), ends, Statements(Tail(ss)))
Line(ss) == {y \in Statements(ss) : Cardinality({i \in DOMAIN y : y[i] = "NEWLINE"}) = 1}
Indent(ss) == Seq3({<<"NEWLINE", "INDENT">>}, Statements(ss), S("OUTDENT"))
SuiteOf(n) == IF n.c # <<>> /\ All(n.c, Small) THEN Indent(n.c) \cup Line(n.c) ELSE Indent(n.c)
Elif(y)    == [y EXCEPT ![1] = "elif"]
ElseOf(n)  ==
  (IF n.c = <<>> THEN None ELSE Seq3(S("else"), S(":"), SuiteOf(n))) \cup
  (IF Len(n.c) = 1 /\ n.c[1].k = "if" THEN {Elif(y) : y \in Yields(n.c[1])} ELSE {})

Yields(n) ==
  LET c == n.c
  IN  CASE n.k = "absent"  -> None
        [] n.k = "leaf"    -> S(n.op)
        [] n.k = "strings" -> Spread(c, "+")
        [] n.k \in {"unary", "star"} -> Then(S(n.op), Yields(c[1]))
        [] n.k \in {"binary", "named", "entry", "assign"} -> Seq3(Yields(c[1]), Op(n), Yields(c[2]))
        [] n.k = "cond"    -> Seq3(Yields(c[2]), S("if"), Seq3(Yields(c[1]), S("else"), Yields(c[3])))
        [] n.k = "lambda"  -> Seq3(S("lambda"), Commas(c[1].c, FALSE), Then(S(":"), Yields(c[2])))
        [] n.k = "paren"   -> Seq3(S("("), InParens(c[1]), S(")"))
        [] n.k = "tuple"   -> IF c = <<>> THEN {<<"(", ")">>} ELSE Commas(c, FALSE)
        [] n.k = "list"    -> Seq3(S("["), Commas(c, TRUE), S("]"))
        [] n.k = "dict"    -> Seq3(S("{"), Commas(c, TRUE), S("}"))
        [] n.k = "comprehension" ->
             Seq3(S(IF n.op = "]" THEN "[" ELSE "{"),
                  FoldLeft(LAMBDA ys, m : Then(ys, Yields(m)), Yields(c[1]), Tail(c)), S(n.op))
        [] n.k = "for clause" -> Seq3(S("for"), Yields(c[1]), Then(S("in"), Yields(c[2])))
        [] n.k = "if clause"  -> Then(S("if"), Yields(c[1]))
        [] n.k = "dot"     -> Then(Yields(c[1]), {<<".", "IDENT">>})
        [] n.k = "index"   -> Seq3(Yields(c[1]), S("["), Then(Yields(c[2]), S("]")))
        [] n.k = "slice"   -> Seq3(Yields(c[1]), S("["), Then(SliceYields(c[2], c[3], c[4]), S("]")))
        [] n.k = "call"    -> Seq3(Yields(c[1]), S("("), Then(Commas(Tail(c), ~Stars(c)), S(")")))
        [] n.k = "return"  -> Then(S("return"), IF c = <<>> THEN None ELSE Yields(c[1]))
        [] n.k = "branch"  -> S(n.op)
        [] n.k = "expr"    -> Yields(c[1])
        [] n.k = "load"    ->
             LET Item(l) == IF l = Leaf("STRING") THEN <<",", "STRING">> ELSE <<",", "IDENT", "=", "STRING">>
             IN  Seq3({<<"load", "(", "STRING">> \o FlattenSeq([i \in DOMAIN c |-> Item(c[i])])},
                      None \cup S(","), S(")"))
        [] n.k = "def"     -> Seq3({<<"def", "IDENT", "(">>}, Commas(c[1].c, ~Stars(c[1].c)),
                                   Then({<<")", ":">>}, SuiteOf(c[2])))
        [] n.k = "if"      -> Seq3(S("if"), Yields(c[1]), Seq3(S(":"), SuiteOf(c[2]), ElseOf(c[3])))
        [] n.k = "for"     -> Seq3(S("for"), Yields(c[1]),
                                   Seq3(S("in"), Yields(c[2]), Then(S(":"), SuiteOf(c[3]))))
        [] n.k = "block"   -> Statements(c)
        [] OTHER           -> {}
=============================================================================
