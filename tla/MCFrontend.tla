----------------------------- MODULE MCFrontend -----------------------------
(***************************************************************************)
(* The three passes of the front end.  A behaviour is one pass over one    *)
(* input: a text is scanned, a sentence parsed, or a program resolved; the *)
(* other two passes are at rest.                                           *)
(***************************************************************************)
EXTENDS Scanner, Parser, Resolver

ScannerAtRest ==
  /\ source = [text |-> <<>>, value |-> NoValue]
  /\ sc = NewScanner /\ toks = <<>> /\ status = "ended"
ParserAtRest   == tokens = <<>> /\ tree = NoTree /\ parsed = Absent
ResolverAtRest == allow = {} /\ r = NewResolver /\ open = <<>> /\ stray = FALSE /\ done = TRUE

Init ==
  \/ ScanInit /\ ParserAtRest /\ ResolverAtRest
  \/ ParserInit /\ ScannerAtRest /\ ResolverAtRest
  \/ ResolverInit /\ ScannerAtRest /\ ParserAtRest
Next ==
  \/ ScanNext /\ UNCHANGED <<parserVars, resolverVars>>
  \/ Parse /\ UNCHANGED <<scannerVars, resolverVars>>
  \/ ResolverNext /\ UNCHANGED <<scannerVars, parserVars>>
Spec == Init /\ [][Next]_<<scannerVars, parserVars, resolverVars>>

(***************************************************************************)
(* Texts: three lines, each of an indentation and a body, the last with or *)
(* without its newline; short strings of what numbers and operators are    *)
(* made of; and the literals of short values.                              *)
(***************************************************************************)
MCLetters  == {"x", "e", "o", "r", "n"}
MCKeywords == {<<"x", "o">>}
MCCode     == ("hi" :> 128) @@ ("NUL" :> 0)
MCNoValue  == <<"no value">>

UpTo(chars, n) == UNION {[1..k -> chars] : k \in 0..n}
Bodies == {<<>>, <<"#">>, <<"x">>, <<"x", "(">>, <<")">>, <<"x", "\\">>, <<"x", "#">>}
Indents == {<<>>, <<" ">>, <<"\t">>}
Lines(bodies) == {i \o b : i \in Indents, b \in bodies}
NL     == <<"\n">>
Firsts == {<<" ", "x">>, <<>>, <<"x">>, <<"x", "(">>, <<"x", "\\">>}
LayoutTexts ==
  {FlattenSeq(<<a, NL, b, NL, c, e>>) :
     a \in Firsts, b \in Lines(Bodies \ {<<"x", "#">>}), c \in Lines(Bodies), e \in {<<>>, NL}}
Plains == Lines({<<"x">>, <<"#">>})
DedentTexts ==
  {FlattenSeq(<<<<"x">>, NL, a, NL, b, NL, c, e>>) : a \in Plains, b \in Plains, c \in Plains, e \in {<<>>, NL}}
NumberTexts   == UpTo({"0", "8", ".", "e", "x", "o", "+"}, 4)
OperatorTexts == UpTo({"=", "!", "/", "*"}, 3)
Literal(u, triple) == [text |-> Quote(u, triple), value |-> u]
Untold(texts) == {[text |-> t, value |-> MCNoValue] : t \in texts}
MCSources ==
  Untold(LayoutTexts \cup DedentTexts \cup NumberTexts \cup OperatorTexts)
    \cup {Literal(u, t) : u \in UpTo({"\"", "\\", "\n", "n", "(", "NUL", "7"}, 3), t \in BOOLEAN}
    \cup {Literal(u, TRUE) : u \in UpTo({"\"", "\\"}, 5)}

\* A function of two statements, the second with a body of its own, and a last line.
Body(n) == [i \in 1..n |-> " "] \o <<"x">> \o NL
NestedTexts == Untold({<<"x">> \o NL \o Body(1) \o Body(2) \o e : e \in {<<>>, NL, <<" ">>, <<" ", "#">>, <<"#">>}})

(***************************************************************************)
(* Trees: every construct over two atoms, over a choice of constructs, and *)
(* statements nested twice.                                                *)
(***************************************************************************)
MCNoTree == Node("no tree", "", <<>>)
I   == Leaf("IDENT")
Str == Leaf("STRING")
Binaries(E, ops) == {Node("binary", op, <<x, y>>) : op \in ops, x \in E, y \in E}
Star(op, x) == Node("star", op, <<x>>)
NamedBy(x)  == Node("named", "=", <<I, x>>)
Pair        == Node("tuple", "", <<I, I>>)
OrNone(E)   == {Absent} \cup E
Constructs(E) ==
  {Node("unary", op, <<x>>) : op \in {"not", "-"}, x \in E}
  \cup Binaries(E, {"or", "and", "==", "not in", "+", "*"})
  \cup {Node("cond", "", <<x, y, I>>) : x \in E, y \in E} \cup {Node("cond", "", <<I, I, x>>) : x \in E}
  \cup {Node("lambda", "", <<Block(ps), x>>) : ps \in {<<>>, <<I, NamedBy(I)>>, <<Star("*", I)>>}, x \in E}
  \cup {Node("paren", "", <<x>>) : x \in E \cup {Pair, Node("tuple", "", <<I>>)}}
  \cup {Node(k, "", <<>>) : k \in {"tuple", "list", "dict"}}
  \cup {Node("list", "", <<x>>) : x \in E}
  \cup {Node("dict", "", <<Node("entry", ":", <<x, I>>)>>) : x \in E}
  \cup {Node("comprehension", "]", <<x, Node("for clause", "", <<v, y>>)>>) : x \in E, y \in E, v \in {I, Pair}}
  \cup {Node("comprehension", "]", <<I, Node("for clause", "", <<I, I>>), Node("if clause", "", <<y>>)>>) : y \in E}
  \cup {Node("dot", ".", <<x>>) : x \in E}
  \cup {Node("index", "", <<x, y>>) : x \in E, y \in E}
  \cup {Node("slice", "", <<I, lo, hi, st>>) : lo \in OrNone(E), hi \in OrNone({I}), st \in OrNone({I})}
  \cup {Node("call", "", <<x>> \o as) : x \in E, as \in {<<>>, <<I>>, <<Star("*", I), NamedBy(Str)>>}}
  \cup {Node("call", "", <<I, x, Star("**", y)>>) : x \in E, y \in E}
  \cup {Node("call", "", <<I, NamedBy(x)>>) : x \in E}
Concat  == Node("strings", "+", <<Str, Str>>)
SomeOf  == {I, Concat, Pair, Node("unary", "not", <<I>>), Node("unary", "-", <<I>>), Node("cond", "", <<I, I, I>>),
            Node("lambda", "", <<Block(<<>>), I>>), Node("dot", ".", <<I>>), Node("paren", "", <<I>>)}
           \cup Binaries({I}, {"or", "==", "+"})
Small1  == {e \in Constructs({I, Str}) : WellFormed(e)} \cup {Concat}
Small2  == {e \in Constructs(SomeOf) : WellFormed(e)}
Stmt1(e) == Node("expr", "", <<e>>)
File1(s) == Block(<<s>>)

SmallStmtTrees == {Stmt1(I), Node("return", "", <<>>), Node("assign", "+=", <<I, Pair>>),
                   Node("branch", "pass", <<>>), Node("load", "", <<Str, I>>)}
Suites == {File1(Stmt1(I)), Block(<<Stmt1(I), Node("branch", "break", <<>>)>>)}
Ifs    == {Node("if", "", <<I, a, b>>) : a \in Suites, b \in Suites \cup {Block(<<>>)}}
Params1 == {<<>>, <<I, NamedBy(I)>>, <<Star("*", I)>>}
Compounds ==
  Ifs \cup {Node("for", "", <<v, I, a>>) : v \in {I, Pair}, a \in Suites}
      \cup {Node("def", "", <<Block(ps), a>>) : ps \in Params1, a \in Suites}
Nested ==
  {Node("if", "", <<I, File1(Stmt1(I)), File1(a)>>) : a \in Ifs}
  \cup {Node("def", "", <<Block(<<>>), File1(a)>>) : a \in Compounds}
  \cup {Node("for", "", <<I, I, Block(<<Stmt1(I), a>>)>>) : a \in Compounds}
MCTrees ==
  {File1(Stmt1(e)) : e \in Small1 \cup Small2}
  \cup {Block(<<a, b>>) : a \in SmallStmtTrees, b \in SmallStmtTrees}
  \cup {File1(a) : a \in Compounds \cup Nested} \cup {Block(<<a, Stmt1(I)>>) : a \in Compounds}
MCEditedTrees ==
  {File1(Stmt1(e)) : e \in Small1}
  \cup {File1(Node("if", "", <<I, File1(Stmt1(I)), File1(Stmt1(I))>>)), File1(Node("for", "", <<Pair, I, File1(Stmt1(I))>>)),
        File1(Node("def", "", <<Block(<<I, NamedBy(I)>>), File1(Stmt1(I))>>))}
MCEditTokens == {"IDENT", ",", "not", "in", ")", "]", ":", "if", "else", "=", "NEWLINE", "*"}

(***************************************************************************)
(* Programs to resolve: of a few identifiers, one of two names that has a  *)
(* meaning already.                                                        *)
(***************************************************************************)
MCName        == {"x", "float"}
MCPredeclared == {}
MCUniversal   == {"float"}
MCUnsupported == {"float"}
MCDialects    == {{}, {"nestedDef", "globalReassign"}, {"lambda"}}
MCMaxIds      == [d \in MCDialects |-> IF "nestedDef" \in d THEN 4 ELSE 3]
MCMaxBinds    == [d \in MCDialects |-> IF "lambda" \in d THEN 2 ELSE 3]
NoBounds      == [d \in {} |-> 0]   \* where there are no programs to resolve
P(x, k) == [name |-> x, kind |-> k]
MCSignatures ==
  {<<>>, <<P("x", "required")>>, <<P("x", "optional"), P("float", "required")>>,
   <<P("x", "required"), P("x", "varargs")>>, <<P("x", "kwargs"), P("float", "varargs")>>,
   <<P("float", "optional"), P("x", "kwargs")>>}
=============================================================================
