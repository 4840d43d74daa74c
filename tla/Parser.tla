------------------------------- MODULE Parser -------------------------------
(***************************************************************************)
(* syntax/parse.go: from tokens to a syntax tree.                          *)
(*                                                                         *)
(* One operator per function of the parser, over the lookahead p = [i, t]: *)
(* its position and its token.  The parser panics at the first error; here *)
(* the lookahead becomes Panic, a token no rule takes.  A token is its     *)
(* spelling, or the kind of a token of many spellings.                     *)
(***************************************************************************)
EXTENDS Grammar

CONSTANTS
  Trees,       \* the trees whose sentences are parsed
  EditedTrees, \* those of them whose sentences are parsed with one token changed, too
  EditTokens,  \* the tokens that are put in
  NoTree       \* in tree: the sentence may have any tree, or none

VARIABLES tokens, tree, parsed
parserVars == <<tokens, tree, parsed>>

Look(i) == [i |-> i, t |-> IF i \in DOMAIN tokens THEN tokens[i] ELSE "EOF"]
Panic   == [i |-> 0, t |-> "panic"]
After(p) == Look(p.i + 1)
Consume(p, t) == IF p.t = t THEN After(p) ELSE Panic
Got(x, p) == [x |-> x, p |-> p]

PrecLevels == <<{"or"}, {"and"}, {"not"}, {"==", "!=", "<", ">", "<=", ">=", "in", "not in"}, {"|"}, {"&"},
                {"-", "+"}, {"*", "%", "/", "//"}>>
Precedence(t) == IF \E l \in DOMAIN PrecLevels : t \in PrecLevels[l]
                 THEN (CHOOSE l \in DOMAIN PrecLevels : t \in PrecLevels[l]) - 1 ELSE -1
TerminatesOpenList(t) == t \in {"EOF", "NEWLINE", "=", "}", "]", ";"}   \* mutant of TerminatesExprList
TerminatesExprList(t) == t \in {"EOF", "NEWLINE", "=", "}", "]", ")", ";"}

\* The rules that others come back to; ParseRule, below, tells them apart.
RECURSIVE ParseRule(_, _, _)
Test(p)              == ParseRule("test", p, 0)
TestPrec(p, prec)    == ParseRule("test at a precedence", p, prec)
AnyExpr(p)           == ParseRule("expr", p, 0)
AnyExprInParens(p)   == ParseRule("expr in parentheses", p, 0)
PrimaryWithSuffix(p) == ParseRule("primary", p, 0)
SmallStmt(p)         == ParseRule("small statement", p, 0)
SmallStmts(p)        == ParseRule("small statements", p, 0)
Suite(p)             == ParseRule("suite", p, 0)

\* The loops.
RECURSIVE Climb(_, _, _, _), SuffixesOf(_, _), Exprs(_, _, _), ParamsOf(_, _, _), ArgsOf(_, _, _),
          Clauses(_, _, _), Entries(_, _), LoopVars(_, _), NoCond(_)

(***************************************************************************)
(* Expressions.                                                            *)
(***************************************************************************)

\* Mutant of Exprs: a tuple may end in a comma without parentheses.
ExprsLoose(xs, p, allowTrailingComma) ==
  LET x == Test(After(p))
  IN  IF p.t # "," THEN Got(xs, p)
      ELSE IF TerminatesExprList(After(p).t) THEN Got(xs, After(p)) ELSE Exprs(Append(xs, x.x), x.p, allowTrailingComma)

\* parseExprs: more of a list, from its comma on.
Exprs(xs, p, allowTrailingComma) ==
  IF p.t # "," THEN Got(xs, p)
  ELSE IF TerminatesExprList(After(p).t) THEN Got(xs, IF allowTrailingComma THEN After(p) ELSE Panic)
  ELSE LET x == Test(After(p)) IN Exprs(Append(xs, x.x), x.p, allowTrailingComma)

\* parseExpr: a test, or a tuple without parentheses.
ExprRule(p, inParens) ==
  LET x  == Test(p)
      xs == Exprs(<<x.x>>, x.p, inParens)
  IN  IF x.p.t # "," THEN x ELSE Got(Node("tuple", "", xs.x), xs.p)

\* A default or a keyword argument, from its = on.
Named(id, eq) == LET y == Test(After(eq)) IN Got(Node("named", "=", <<id, y.x>>), y.p)
IdentOf(p) == Got(Leaf("IDENT"), Consume(p, "IDENT"))

ParamsOf(ps, p, stars) ==
  IF p.t \in {")", ":", "EOF", "panic"} THEN Got(ps, p)
  ELSE LET q  == IF ps = <<>> THEN p ELSE Consume(p, ",")
           id == IdentOf(IF q.t \in {"*", "**"} THEN After(q) ELSE q)
           d  == Named(id.x, id.p)
       IN  CASE q.t = ")" -> Got(ps, IF stars THEN Panic ELSE q)
             [] q.t \in {"*", "**"} -> ParamsOf(Append(ps, Node("star", q.t, <<id.x>>)), id.p, TRUE)
             [] OTHER -> IF id.p.t = "=" THEN ParamsOf(Append(ps, d.x), d.p, stars)
                         ELSE ParamsOf(Append(ps, id.x), id.p, stars)

ArgsOf(as, p, stars) ==
  IF p.t \in {")", "EOF", "panic"} THEN Got(as, p)
  ELSE LET q == IF as = <<>> THEN p ELSE Consume(p, ",")
           x == Test(IF q.t \in {"*", "**"} THEN After(q) ELSE q)
           n == Named(x.x, x.p)
       IN  CASE q.t = ")" -> Got(as, IF stars THEN Panic ELSE q)
             [] q.t \in {"*", "**"} -> ArgsOf(Append(as, Node("star", q.t, <<x.x>>)), x.p, TRUE)
             [] OTHER -> IF x.p.t # "=" THEN ArgsOf(Append(as, x.x), x.p, stars)
                         ELSE IF x.x # Leaf("IDENT") THEN Got(as, Panic)
                         ELSE ArgsOf(Append(as, n.x), n.p, stars)

LambdaOf(p, allowCond) ==
  LET ps   == ParamsOf(<<>>, After(p), FALSE)
      body == IF allowCond THEN Test(Consume(ps.p, ":")) ELSE NoCond(Consume(ps.p, ":"))
  IN  Got(Node("lambda", "", <<Block(ps.x), body.x>>), body.p)

NoCond(p) == IF p.t = "lambda" THEN LambdaOf(p, FALSE) ELSE TestPrec(p, 0)
TestRule(p) ==
  LET x    == TestPrec(p, 0)
      cond == TestPrec(After(x.p), 0)
      else == Test(Consume(cond.p, "else"))
  IN  IF p.t = "lambda" THEN LambdaOf(p, TRUE)
      ELSE IF x.p.t = "if" THEN Got(Node("cond", "", <<cond.x, x.x, else.x>>), else.p)
      ELSE x

\* makeBinaryExpr: the sum of two string literals is a literal.
BinaryExpr(op, x, y) ==
  IF op = "+" /\ IsString(x) /\ IsString(y)
  THEN Node("strings", "+", (IF x.k = "leaf" THEN <<x>> ELSE x.c) \o (IF y.k = "leaf" THEN <<y>> ELSE y.c))
  ELSE Node("binary", op, <<x, y>>)

\* The loop of parseBinopExpr.  NOT must be followed by IN, and the two are one operator.
Climb(x, p, prec, first) ==
  LET q == IF p.t # "not" THEN p
           ELSE IF After(p).t = "in" THEN [i |-> p.i + 1, t |-> "not in"] ELSE Panic
      opprec == Precedence(q.t)
      y == TestPrec(After(q), opprec + 1)
  IN  IF opprec < prec THEN Got(x, q)
      ELSE IF ~first /\ opprec = Precedence("==") THEN Got(x, Panic)
      ELSE Climb(BinaryExpr(q.t, x, y.x), y.p, prec, FALSE)
TestPrecRule(p, prec) ==
  LET operand == TestPrec(After(p), prec + 1)
      x == TestPrec(p, prec + 1)
  IN  IF prec >= Len(PrecLevels) THEN PrimaryWithSuffix(p)
      ELSE IF p.t = "not" /\ prec = Precedence("not") THEN Got(Node("unary", "not", <<operand.x>>), operand.p)
      ELSE Climb(x.x, x.p, prec, TRUE)

\* An index, or a slice: its start is read, then what follows each colon.
SliceEnd(x, lo, hi, step) == Got(Node("slice", "", <<x, lo, hi, step.x>>), Consume(step.p, "]"))
SliceStep(x, lo, hi) ==
  SliceEnd(x, lo, hi.x, IF hi.p.t # ":" THEN Got(Absent, hi.p)
                        ELSE IF After(hi.p).t = "]" THEN Got(Absent, After(hi.p)) ELSE Test(After(hi.p)))
SliceHi(x, lo) ==
  SliceStep(x, lo.x, IF lo.p.t # ":" THEN Got(Absent, lo.p)
                     ELSE IF After(lo.p).t \in {":", "]"} THEN Got(Absent, After(lo.p)) ELSE Test(After(lo.p)))
IndexOrSlice(x, y) ==
  IF y.p.t = "]" THEN Got(Node("index", "", <<x, y.x>>), After(y.p)) ELSE SliceHi(x, y)
SliceSuffix(x, open) ==
  IF open.t = ":" THEN SliceHi(x, Got(Absent, open)) ELSE IndexOrSlice(x, AnyExpr(open))

SuffixesOf(x, p) ==
  LET id   == IdentOf(After(p))
      sl   == SliceSuffix(x, After(p))
      args == ArgsOf(<<>>, After(p), FALSE)
  IN  CASE p.t = "." -> SuffixesOf(Node("dot", ".", <<x>>), id.p)
        [] p.t = "[" -> SuffixesOf(sl.x, sl.p)
        [] p.t = "(" -> SuffixesOf(Node("call", "", <<x>> \o args.x), Consume(args.p, ")"))
        [] OTHER     -> Got(x, p)

\* parseForLoopVariables, after the first.
LoopVars(xs, p) ==
  IF p.t # "," \/ TerminatesExprList(After(p).t) THEN Got(xs, IF p.t = "," THEN After(p) ELSE p)
  ELSE LET x == PrimaryWithSuffix(After(p)) IN LoopVars(Append(xs, x.x), x.p)
ForLoopVariables(p) ==
  LET v  == PrimaryWithSuffix(p)
      vs == LoopVars(<<v.x>>, v.p)
  IN  IF v.p.t # "," THEN v ELSE Got(Node("tuple", "", vs.x), vs.p)

Clauses(cs, p, endBrace) ==
  LET vars == ForLoopVariables(After(p))
      x    == TestPrec(Consume(vars.p, "in"), 0)
      cond == NoCond(After(p))
  IN  CASE p.t = endBrace -> Got(cs, After(p))
        [] p.t = "for"    -> Clauses(Append(cs, Node("for clause", "", <<vars.x, x.x>>)), x.p, endBrace)
        [] p.t = "if"     -> Clauses(Append(cs, Node("if clause", "", <<cond.x>>)), cond.p, endBrace)
        [] OTHER          -> Got(cs, Panic)
Comprehension(body, p, endBrace) ==
  LET cs == Clauses(<<>>, p, endBrace) IN Got(Node("comprehension", endBrace, <<body>> \o cs.x), cs.p)

ListDisplay(p) ==
  LET x  == Test(After(p))
      xs == Exprs(<<x.x>>, x.p, TRUE)
  IN  IF After(p).t = "]" THEN Got(Node("list", "", <<>>), After(After(p)))
      ELSE IF x.p.t = "for" THEN Comprehension(x.x, x.p, "]")
      ELSE Got(Node("list", "", xs.x), Consume(xs.p, "]"))

Entry(p) ==
  LET k == Test(p)
      v == Test(Consume(k.p, ":"))
  IN  Got(Node("entry", ":", <<k.x, v.x>>), v.p)
Entries(es, p) ==
  IF p.t # "," \/ After(p).t = "}" THEN Got(es, IF p.t = "," THEN After(p) ELSE p)
  ELSE LET e == Entry(After(p)) IN Entries(Append(es, e.x), e.p)
DictDisplay(p) ==
  LET x  == Entry(After(p))
      es == Entries(<<x.x>>, x.p)
  IN  IF After(p).t = "}" THEN Got(Node("dict", "", <<>>), After(After(p)))
      ELSE IF x.p.t = "for" THEN Comprehension(x.x, x.p, "}")
      ELSE Got(Node("dict", "", es.x), Consume(es.p, "}"))

Parenthesized(p) ==
  LET e == AnyExprInParens(After(p))
  IN  IF After(p).t = ")" THEN Got(Node("tuple", "", <<>>), After(After(p)))
      ELSE Got(Node("paren", "", <<e.x>>), Consume(e.p, ")"))

Primary(p) ==
  LET x == PrimaryWithSuffix(After(p))
  IN  CASE p.t \in Atoms      -> Got(Leaf(p.t), After(p))
        [] p.t = "["          -> ListDisplay(p)
        [] p.t = "{"          -> DictDisplay(p)
        [] p.t = "("          -> Parenthesized(p)
        [] p.t \in {"-", "+"} -> Got(Node("unary", p.t, <<x.x>>), x.p)
        [] OTHER              -> Got(Absent, Panic)

(***************************************************************************)
(* Statements.                                                             *)
(***************************************************************************)
RECURSIVE Stmts(_, _, _), IfStmt(_), LoadItems(_, _)

LoadItems(items, p) ==
  LET q == Consume(p, ",")
      named == Consume(Consume(After(q), "="), "STRING")
  IN  IF p.t \in {")", "EOF", "panic"} THEN Got(items, p)
      ELSE CASE q.t = ")"      -> Got(items, q)
             [] q.t = "STRING" -> LoadItems(Append(items, Leaf("STRING")), After(q))
             [] q.t = "IDENT"  -> LoadItems(Append(items, Leaf("IDENT")), named)
             [] OTHER          -> Got(items, Panic)
LoadStmt(p) ==
  LET items == LoadItems(<<>>, Consume(Consume(After(p), "("), "STRING"))
  IN  Got(Node("load", "", items.x), IF items.x = <<>> THEN Panic ELSE Consume(items.p, ")"))

SmallStmtRule(p) ==
  LET result == AnyExpr(After(p))
      x      == AnyExpr(p)
      rhs    == AnyExpr(After(x.p))
  IN  CASE p.t = "return" -> IF After(p).t \in {"EOF", "NEWLINE", ";"} THEN Got(Node("return", "", <<>>), After(p))
                             ELSE Got(Node("return", "", <<result.x>>), result.p)
        [] p.t \in {"break", "continue", "pass"} -> Got(Node("branch", p.t, <<>>), After(p))
        [] p.t = "load" -> LoadStmt(p)
        [] OTHER -> IF x.p.t \in AssignOps THEN Got(Node("assign", x.p.t, <<x.x, rhs.x>>), rhs.p)
                    ELSE Got(Node("expr", "", <<x.x>>), x.p)

\* Simple statements on a line; a semicolon may end it.
EndOfLine(ss, p) == IF p.t = "EOF" THEN Got(ss, p) ELSE Got(ss, Consume(p, "NEWLINE"))
SmallStmtsRule(p) ==
  LET s    == SmallStmt(p)
      rest == SmallStmts(After(s.p))
  IN  IF s.p.t = ";" /\ After(s.p).t \notin {"NEWLINE", "EOF"} THEN Got(<<s.x>> \o rest.x, rest.p)
      ELSE EndOfLine(<<s.x>>, IF s.p.t = ";" THEN After(s.p) ELSE s.p)

\* if and elif; the else of an elif chain belongs to its last link.
IfStmt(p) ==
  LET cond == Test(After(p))
      body == Suite(Consume(cond.p, ":"))
      elif == IfStmt(body.p)
      else == Suite(Consume(After(body.p), ":"))
      If(f, q) == Got(Node("if", "", <<cond.x, body.x, f>>), q)
  IN  CASE body.p.t = "elif" -> If(Block(<<elif.x>>), elif.p)
        [] body.p.t = "else" -> If(else.x, else.p)
        [] OTHER             -> If(Block(<<>>), body.p)

DefStmt(p) ==
  LET ps   == ParamsOf(<<>>, Consume(IdentOf(After(p)).p, "("), FALSE)
      body == Suite(Consume(Consume(ps.p, ")"), ":"))
  IN  Got(Node("def", "", <<Block(ps.x), body.x>>), body.p)
ForStmt(p) ==
  LET vars == ForLoopVariables(After(p))
      x    == AnyExpr(Consume(vars.p, "in"))
      body == Suite(Consume(x.p, ":"))
  IN  Got(Node("for", "", <<vars.x, x.x, body.x>>), body.p)

\* Statements up to one of the tokens of end; between those of a file there may be newlines.
Stmts(ss, p, end) ==
  LET small == SmallStmts(p)
      One(s) == Stmts(Append(ss, s.x), s.p, end)
  IN  CASE p.t \in end \cup {"EOF", "panic"}       -> Got(ss, p)
        [] p.t = "NEWLINE" /\ end = {}             -> Stmts(ss, After(p), end)
        [] p.t = "def"                             -> One(DefStmt(p))
        [] p.t = "if"                              -> One(IfStmt(p))
        [] p.t = "for"                             -> One(ForStmt(p))
        [] OTHER                                   -> Stmts(ss \o small.x, small.p, end)
SuiteRule(p) ==
  LET ss    == Stmts(<<>>, Consume(After(p), "INDENT"), {"OUTDENT"})
      small == SmallStmts(p)
  IN  IF p.t = "NEWLINE" THEN Got(Block(ss.x), Consume(ss.p, "OUTDENT")) ELSE Got(Block(small.x), small.p)

ParseRule(rule, p, prec) ==
  CASE rule = "test"                 -> TestRule(p)
    [] rule = "test at a precedence" -> TestPrecRule(p, prec)
    [] rule = "expr"                 -> ExprRule(p, FALSE)
    [] rule = "expr in parentheses"  -> ExprRule(p, TRUE)
    [] rule = "primary"              -> LET x == Primary(p) IN SuffixesOf(x.x, x.p)
    [] rule = "small statement"      -> SmallStmtRule(p)
    [] rule = "small statements"     -> SmallStmtsRule(p)
    [] rule = "suite"                -> SuiteRule(p)
    [] rule = "file"                 -> Stmts(<<>>, p, {})

ParseFile == LET f == ParseRule("file", Look(1), 0) IN IF f.p.t = "EOF" THEN Block(f.x) ELSE Absent

\* A sentence with a token left out, replaced or put in.
Edits(y) ==
  {RemoveAt(y, i) : i \in DOMAIN y}
    \cup {ReplaceAt(y, i, t) : i \in DOMAIN y, t \in EditTokens}
    \cup {InsertAt(y, i, t) : i \in DOMAIN y, t \in EditTokens}

ParserInit ==
  /\ \/ \E f \in Trees : tokens \in Yields(f) /\ tree = f
     \/ \E f \in EditedTrees : \E y \in Yields(f) : tokens \in Edits(y) /\ tree = NoTree
  /\ parsed = NoTree
Parse ==
  /\ parsed = NoTree
  /\ parsed' = ParseFile
  /\ UNCHANGED <<tokens, tree>>

(***************************************************************************)
(* ParserComplete: every sentence of every tree the grammar has is         *)
(* accepted, and parses into that tree: precedences, associativity,        *)
(* optional commas, elif chains and blocks on a line.                      *)
(***************************************************************************)
ParserComplete == parsed # NoTree /\ tree # NoTree => parsed = tree

(***************************************************************************)
(* ParserSound: a sequence of tokens is accepted only as a sentence of a   *)
(* tree of the grammar: no token is dropped or read twice, and no          *)
(* construct gets in where the grammar has none.  Newlines between the     *)
(* statements of a file are free, and its last one may be missing.         *)
(***************************************************************************)
Squeezed(ts) ==
  LET n == Len(ts)
      Free(i) == ts[i] = "NEWLINE" /\ (i = 1 \/ ts[i - 1] \in {"NEWLINE", "OUTDENT"})
  IN  [i \in 1..Cardinality({j \in 1..n : ~Free(j)}) |->
         ts[CHOOSE j \in 1..n : ~Free(j) /\ Cardinality({k \in 1..j : ~Free(k)}) = i]]
ParserSound ==
  parsed \notin {NoTree, Absent} =>
    /\ WellFormed(parsed)
    /\ {Squeezed(tokens), Squeezed(tokens) \o <<"NEWLINE">>} \cap Yields(parsed) # {}
=============================================================================
