------------------------------ MODULE Scanner ------------------------------
(***************************************************************************)
(* syntax/scan.go: from characters to tokens, and the layout of a file.    *)
(*                                                                         *)
(* A step is one pass of nextToken over its label start: it returns a      *)
(* token, or it skips a line, a continuation or the end of a block and     *)
(* starts over.  Characters are those of Literals; the three spellings of  *)
(* a newline are one character, as readRune makes them.                    *)
(***************************************************************************)
EXTENDS Literals

Blanks   == {" ", "\t"}
Punct    == {"=", "<", ">", "!", "+", "-", "%", "/"}
Brackets == {"(", "[", "{", ")", "]", "}"}
Special  == Blanks \cup Punct \cup Brackets \cup {"*", ",", ":", ";", "|", "&", ".", "#", "\n", "\\", "\"", "'", EOFc}

CONSTANTS
  Sources,   \* the texts scanned: records [text, value], value what a literal was made from
  NoValue,   \* in value: the text is not a literal
  Letters,   \* the characters that may begin an identifier
  Keywords   \* the spellings in keywordToken

\* A text is characters.  One with a value is a literal that quote makes of it.  No letter
\* is any other character that the scanner looks for.
ASSUME ScannerAssumption ==
  /\ \A s \in Sources : s.text \in Seq(ToSet(s.text) \ {EOFc})
  /\ \A s \in Sources : s.value # NoValue =>
       /\ s.value \in Seq(ToSet(s.value) \ {EOFc})
       /\ \E triple \in BOOLEAN : s.text = Quote(s.value, triple)
  /\ Letters \cap (Decimal \cup Special) = {}

VARIABLES
  source,    \* the text, and the value it was made from
  sc,        \* the scanner: at, depth, indentstk, dents, lineStart and the comments kept
  toks,      \* the tokens returned: [kind, from, to] is source.text[from:to]
  status     \* "scanning", "ended", or the error

scannerVars == <<source, sc, toks, status>>

Char(i)  == CharAt(source.text, i)
Skip(i, cs) == SkipOver(source.text, i, cs)

\* pos.Col: the characters since the last newline, from one; a tab counts as one.
ColAt(i) == i - Max({0} \cup {j \in 1..(i - 1) : source.text[j] = "\n"})

\* The width of the blanks source.text[i:j] at the start of a line.
Width(i, j) ==
  LET width[k \in i..j] == IF k = i THEN 0
                           ELSE IF source.text[k - 1] = " " THEN width[k - 1] + 1
                           ELSE width[k - 1] + 8 - ((ColAt(k - 1) - 1) % 8)
  IN  width[j]

NewScanner == [at |-> 1, depth |-> 0, indentstk |-> <<0>>, dents |-> 0, lineStart |-> TRUE,
               lineComments |-> <<>>, suffixComments |-> <<>>]

ScanInit ==
  /\ source \in Sources
  /\ sc = NewScanner
  /\ toks = <<>>
  /\ status = "scanning"

(***************************************************************************)
(* The start of a line: blanks are measured, and on a line that is not     *)
(* blank and not within brackets they are compared with the stack.         *)
(***************************************************************************)
LeadEnd == IF sc.lineStart THEN Skip(sc.at, Blanks) ELSE sc.at
LeadCol(end) == IF end = sc.at THEN 0 ELSE Width(sc.at, end)
\* Mutant of Blank: trailing blanks at the end of the file are taken for a line.
BlankBeforeNewline(end, col) == sc.lineStart /\ Char(end) \in {"#", "\n"}
Blank(end, col) == sc.lineStart /\ (Char(end) \in {"#", "\n"} \/ (Char(end) = EOFc /\ col > 0))
\* What popping leaves of the stack.
Kept(col) == SubSeq(sc.indentstk, 1, Max({0} \cup {i \in DOMAIN sc.indentstk : sc.indentstk[i] <= col}))

LeadError(l) ==
  IF ~l.measured THEN "none"
  ELSE IF Kept(l.col) = <<>> THEN "internal error"   \* index out of range, after the last pop
  ELSE IF Len(Kept(l.col)) < Len(sc.indentstk) /\ Last(Kept(l.col)) # l.col
  THEN "unindent does not match any outer indentation level"
  ELSE "none"

Lead(l) ==
  LET dedents == Len(sc.indentstk) - Len(Kept(l.col))
      s == [sc EXCEPT !.at = l.end, !.lineStart = FALSE]
  IN  IF ~l.measured THEN s
      ELSE IF l.col > Last(sc.indentstk)
      THEN [s EXCEPT !.dents = @ + 1, !.indentstk = Append(@, l.col)]
      ELSE [s EXCEPT !.dents = @ - dedents, !.indentstk = Kept(l.col)]

\* Past a comment.
PastNote(p) == IF Char(p) = "#" THEN Min({j \in p..(Len(source.text) + 1) : Char(j) \in {"\n", EOFc}}) ELSE p

\* The blanks at end of which a line or the rest of one begins, as l: their end and
\* column, whether the line is blank, and whether it is compared with the stack; and
\* what follows from it: the error or the scanner that goes on, the position of the
\* line proper, past blanks, and that after a comment.
LeadAt(end, col) ==
  LET blank == Blank(end, col)
  IN  [end |-> end, col |-> col, blank |-> blank, measured |-> sc.lineStart /\ ~blank /\ sc.depth = 0]
LineAt(l, proper) ==
  [end |-> l.end, blank |-> l.blank, error |-> LeadError(l), lead |-> IF LeadError(l) = "none" THEN Lead(l) ELSE sc,
   proper |-> proper, note |-> PastNote(proper)]

\* The comment is kept.
Noted(l, s) ==
  IF Char(l.proper) # "#" THEN s
  ELSE IF l.blank THEN [s EXCEPT !.lineComments = Append(@, l.proper)]
  ELSE [s EXCEPT !.suffixComments = Append(@, l.proper)]

Return(kind, from, to) == toks' = Append(toks, [kind |-> kind, from |-> from, to |-> to])
Stop(why) == /\ status' = why
             /\ UNCHANGED <<source, sc, toks>>

Misindented(l) == l.error # "none" /\ Stop(l.error)

\* Return saved indentation tokens.
Dent(l) ==
  /\ l.error = "none" /\ l.lead.dents # 0
  /\ sc' = [l.lead EXCEPT !.dents = IF @ < 0 THEN @ + 1 ELSE @ - 1]
  /\ Return(IF l.lead.dents < 0 THEN "OUTDENT" ELSE "INDENT", l.end, l.end)
  /\ UNCHANGED <<source, status>>

OnLine(l) == l.error = "none" /\ l.lead.dents = 0

SkipLine(l) ==
  /\ OnLine(l) /\ Char(l.note) = "\n" /\ (l.blank \/ sc.depth > 0)
  /\ sc' = Noted(l, [l.lead EXCEPT !.lineStart = TRUE, !.at = l.note + 1])
  /\ UNCHANGED <<source, toks, status>>

Newline(l) ==
  /\ OnLine(l) /\ Char(l.note) = "\n" /\ ~l.blank /\ sc.depth = 0
  /\ sc' = Noted(l, [l.lead EXCEPT !.lineStart = TRUE, !.at = l.note + 1])
  /\ Return("NEWLINE", l.note, l.note + 1)
  /\ UNCHANGED <<source, status>>

\* End of file within a block: OUTDENTs at once if a line has just begun, else a NEWLINE.
AtEnd(l) == OnLine(l) /\ Char(l.note) = EOFc
CloseBlocks(l) ==
  /\ AtEnd(l) /\ Len(l.lead.indentstk) > 1 /\ sc.lineStart
  /\ sc' = Noted(l, [l.lead EXCEPT !.at = l.note, !.dents = 1 - Len(l.lead.indentstk), !.indentstk = Tail(@)])
  /\ UNCHANGED <<source, toks, status>>
NewlineAtEnd(l) ==
  /\ AtEnd(l) /\ Len(l.lead.indentstk) > 1 /\ ~sc.lineStart
  /\ sc' = Noted(l, [l.lead EXCEPT !.at = l.note, !.lineStart = TRUE])
  /\ Return("NEWLINE", l.note, l.note)
  /\ UNCHANGED <<source, status>>
EndOfFile(l) ==
  /\ AtEnd(l) /\ Len(l.lead.indentstk) <= 1
  /\ sc' = Noted(l, [l.lead EXCEPT !.at = l.note])
  /\ Return("EOF", l.note, l.note)
  /\ status' = "ended"
  /\ UNCHANGED source

Continuation(l) ==
  /\ OnLine(l) /\ Char(l.proper) = "\\" /\ Char(l.proper + 1) = "\n"
  /\ sc' = [l.lead EXCEPT !.at = l.proper + 2]
  /\ UNCHANGED <<source, toks, status>>
StrayBackslash(l) ==
  /\ OnLine(l) /\ Char(l.proper) = "\\" /\ Char(l.proper + 1) # "\n"
  /\ Stop("stray backslash in program")

(***************************************************************************)
(* The next token proper, at k: its kind and the position after it.  The   *)
(* kind of an operator or a bracket is its spelling.                       *)
(***************************************************************************)
\* Mutant of OpEnd: //= is not known.
OpEndShort(k) ==
  CASE Char(k) \in Punct /\ Char(k + 1) = "=" -> k + 2
    [] Char(k) \in {"/", "*"} /\ Char(k + 1) = Char(k) -> k + 2
    [] Char(k) = "*" /\ Char(k + 1) = "=" -> k + 2
    [] OTHER -> k + 1
OpEnd(k) ==
  CASE Char(k) \in Punct /\ Char(k + 1) = "=" -> k + 2
    [] Char(k) = "/" /\ Char(k + 1) = "/"     -> IF Char(k + 2) = "=" THEN k + 3 ELSE k + 2
    [] Char(k) = "*" /\ Char(k + 1) \in {"*", "="} -> k + 2
    [] OTHER -> k + 1
\* The operators by their spelling: tokenNames.
Operators == {"=", "<", ">", "+", "-", "%", "/", "*", "==", "<=", ">=", "!=", "+=", "-=", "%=", "/=", "*=",
              "**", "//", "//="}
Spelling(op) ==
  CASE op = "==" -> <<"=", "=">> [] op = "<=" -> <<"<", "=">> [] op = ">=" -> <<">", "=">> [] op = "!=" -> <<"!", "=">>
    [] op = "+=" -> <<"+", "=">> [] op = "-=" -> <<"-", "=">> [] op = "%=" -> <<"%", "=">> [] op = "/=" -> <<"/", "=">>
    [] op = "*=" -> <<"*", "=">> [] op = "**" -> <<"*", "*">> [] op = "//" -> <<"/", "/">> [] op = "//=" -> <<"/", "/", "=">>
    [] OTHER -> <<op>>
Operator(k) == [kind |-> IF Char(k) = "!" /\ OpEnd(k) = k + 1 THEN "unexpected input character"
                         ELSE CHOOSE op \in Operators : Spelling(op) = Text(source.text, k, OpEnd(k)),
                to |-> OpEnd(k)]

StringAt(k, q) ==
  LET e == StringEnd(source.text, q)
  IN  [kind |-> IF e.err # "none" THEN e.err
                ELSE IF ~Unquote(Text(source.text, k, e.to)).ok THEN "invalid escape sequence"
                ELSE "STRING",
       to |-> e.to]
Word(k) ==
  LET e == Skip(k, Letters \cup Decimal)
  IN  [kind |-> IF Text(source.text, k, e) \in Keywords THEN "keyword" ELSE "IDENT", to |-> e]

Lex(k) ==
  LET c == Char(k)
  IN  CASE c \in {"\"", "'"} -> StringAt(k, k)
        [] c = "r" /\ Char(k + 1) \in {"\"", "'"} -> StringAt(k, k + 1)
        [] c \in Letters /\ ~(c = "r" /\ Char(k + 1) \in {"\"", "'"}) -> Word(k)
        [] c \in {")", "]", "}"} /\ sc.depth = 0 -> [kind |-> "indentation error", to |-> k]
        [] c \in {"(", "[", "{", ",", ":", ";", "|", "&"} -> [kind |-> c, to |-> k + 1]
        [] c \in {")", "]", "}"} /\ sc.depth > 0 -> [kind |-> c, to |-> k + 1]
        [] c \in Decimal \cup {"."} -> Number(source.text, k)
        [] c \in Punct \cup {"*"} -> Operator(k)
        [] OTHER -> [kind |-> "unexpected input character", to |-> k]

LexErrors == {"unexpected EOF in string", "unexpected newline in string", "invalid escape sequence",
              "indentation error", "unexpected input character", "invalid float literal",
              "invalid int literal", "invalid hex literal", "invalid octal literal", "invalid binary literal"}
AtToken(l) == OnLine(l) /\ Char(l.note) \notin {"\n", EOFc, "\\"}

Token(l, t) ==
  /\ t.kind \notin LexErrors
  /\ Return(t.kind, l.proper, t.to)
  /\ sc' = [l.lead EXCEPT !.at = t.to,
               !.depth = IF t.kind \in {"(", "[", "{"} THEN @ + 1
                         ELSE IF t.kind \in {")", "]", "}"} THEN @ - 1 ELSE @]
  /\ UNCHANGED <<source, status>>
BadToken(t) == t.kind \in LexErrors /\ Stop(t.kind)

ScanLine(l) ==
  \/ Misindented(l) \/ Dent(l) \/ SkipLine(l) \/ Newline(l)
  \/ CloseBlocks(l) \/ NewlineAtEnd(l) \/ EndOfFile(l)
  \/ Continuation(l) \/ StrayBackslash(l)
  \/ AtToken(l) /\ \E t \in {Lex(l.proper)} : Token(l, t) \/ BadToken(t)
ScanNext ==
  /\ status = "scanning"
  /\ \E end \in {LeadEnd} : \E first \in {LeadAt(end, LeadCol(end))} :
       \E l \in {LineAt(first, Skip(end, Blanks))} : ScanLine(l)

ScanSpec == ScanInit /\ [][ScanNext]_scannerVars

(***************************************************************************)
(* What the layout of a text without string literals is, by the rules of   *)
(* the language rather than by a scan: a logical line starts at the first  *)
(* visible character of a line that is neither a continuation nor within   *)
(* brackets; it opens a block if it is indented more than the one before   *)
(* it, and the block lasts to the next logical line that is indented less. *)
(***************************************************************************)
Src       == source.text
Size      == Len(Src)
Plain     == ToSet(Src) \cap {"\"", "'"} = {}
LineOf(p) == p - ColAt(p) + 1     \* where p's line begins
Noting(p) == \E q \in LineOf(p)..p : Src[q] = "#"
Visible(p) == Src[p] \notin Blanks \cup {"\n"} /\ ~Noting(p)
DepthAt(p) ==
  Cardinality({q \in 1..(p - 1) : Visible(q) /\ Src[q] \in {"(", "[", "{"}})
    - Cardinality({q \in 1..(p - 1) : Visible(q) /\ Src[q] \in {")", "]", "}"}})
Escaped(p)   == p > 1 /\ Src[p - 1] = "\\" /\ Visible(p - 1)
Continued(l) == l > 1 /\ Escaped(l - 1)

LogicalStarts ==
  {p \in 1..Size : /\ Visible(p) /\ DepthAt(p) = 0 /\ ~Continued(LineOf(p))
                   /\ ~ \E q \in LineOf(p)..(p - 1) : Visible(q)}
LogicalEnds ==
  {p \in 1..Size : /\ Src[p] = "\n" /\ DepthAt(p) = 0 /\ ~Escaped(p)
                   /\ Continued(LineOf(p)) \/ \E q \in LineOf(p)..(p - 1) : Visible(q)}
Indented(p) == Width(LineOf(p), p)
Opens(p)    == Indented(p) > Max({0} \cup {Indented(q) : q \in {Max({0} \cup {s \in LogicalStarts : s < p})} \ {0}})
BlocksAt(p) == {q \in LogicalStarts : /\ q <= p /\ Opens(q)
                                      /\ \A s \in LogicalStarts : q < s /\ s <= p => Indented(s) >= Indented(q)}
Aligned(p)  == Indented(p) = 0 \/ \E q \in BlocksAt(p) : Indented(q) = Indented(p)

Tokens(kinds, p) == Cardinality({i \in DOMAIN toks : toks[i].kind \in kinds /\ toks[i].from <= p})
LevelAt(p) == Tokens({"INDENT"}, p) - Tokens({"OUTDENT"}, p)

\* A last line without its newline, of nothing but blanks or a comment, under two blocks or more.
Dangling ==
  LET l == LineOf(Size + 1)
  IN  /\ l <= Size /\ ~Continued(l) /\ DepthAt(Size + 1) = 0
      /\ \A p \in l..Size : ~Visible(p)
      /\ Cardinality(BlocksAt(Size)) >= 2

(***************************************************************************)
(* LayoutExact: the NEWLINE, INDENT and OUTDENT tokens are those of the    *)
(* logical lines and blocks of the text, every block is closed, and        *)
(* NEWLINE never follows NEWLINE; a text is refused for its indentation    *)
(* when a line aligns with no block around it, and ends in an internal     *)
(* error in the one case of Dangling: CloseBlocks drops the bottom of the  *)
(* stack of indentations and not its top, and with two levels left the     *)
(* scanner goes on to pop an empty stack.                                  *)
(***************************************************************************)
LayoutExact ==
  Plain =>
    /\ status = "ended" =>
         /\ \A p \in LogicalStarts : Aligned(p) /\ LevelAt(p) = Cardinality(BlocksAt(p))
         /\ {toks[i].from : i \in {j \in DOMAIN toks : toks[j].kind = "NEWLINE"}} \ {Size + 1} = LogicalEnds
         /\ DepthAt(Size + 1) = 0 =>
              /\ LevelAt(Size + 1) = 0
              /\ \A i \in 2..Len(toks) : ~(toks[i - 1].kind = "NEWLINE" /\ toks[i].kind = "NEWLINE")
              /\ ~Dangling
    /\ status = "unindent does not match any outer indentation level" =>
         \E p \in LogicalStarts : ~Aligned(p)
    /\ status = "internal error" => Dangling

(***************************************************************************)
(* BlocksClosed: scan.go, at the end of a file: "Emit OUTDENTs for         *)
(* unfinished indentation, preceded by a NEWLINE if we haven't just        *)
(* emitted one."  The end of a file is not an internal error.              *)
(***************************************************************************)
BlocksClosed == status # "internal error"

(***************************************************************************)
(* The spelling of tokens, as regular expressions.                         *)
(***************************************************************************)
Digits(s, ds) == ToSet(s) \subseteq ds
DigitsAfter(s, letters, ds) == Len(s) > 2 /\ s[1] = "0" /\ s[2] \in letters /\ Digits(SubSeq(s, 3, Len(s)), ds)
IsInt(s) ==
  \/ Len(s) > 0 /\ Digits(s, IF s[1] = "0" THEN Octal ELSE Decimal)
  \/ DigitsAfter(s, {"x", "X"}, Hex) \/ DigitsAfter(s, {"o", "O"}, Octal) \/ DigitsAfter(s, {"b", "B"}, Binary)
IsExponent(s) ==
  Len(s) > 1 /\ s[1] \in {"e", "E"} /\ \E k \in {2} \cup ({3} \cap {IF s[2] \in {"+", "-"} THEN 3 ELSE 2}) :
    k <= Len(s) /\ Digits(SubSeq(s, k, Len(s)), Decimal)
IsFloat(s) ==
  \E i \in 0..Len(s), j \in 0..Len(s) :
    /\ i <= j /\ Digits(SubSeq(s, 1, i), Decimal)
    /\ j > i => s[i + 1] = "." /\ Digits(SubSeq(s, i + 2, j), Decimal)
    /\ {k \in 1..j : s[k] # "."} # {} /\ (j > i \/ j < Len(s))
    /\ j < Len(s) => IsExponent(SubSeq(s, j + 1, Len(s)))
IsWord(s) == Len(s) > 0 /\ s[1] \in Letters /\ Digits(s, Letters \cup Decimal)
Spells(kind, s) ==
  CASE kind = "INT" -> IsInt(s) [] kind = "FLOAT" -> IsFloat(s)
    [] kind \in {"IDENT", "keyword"} -> IsWord(s) /\ (kind = "keyword" <=> s \in Keywords)
    [] kind = "DOT" -> s = <<".">>
    [] OTHER -> s = Spelling(kind)
IsToken(s) ==
  \/ IsInt(s) \/ IsFloat(s) \/ IsWord(s) \/ s = <<".">>
  \/ \E op \in Operators : s = Spelling(op)

(***************************************************************************)
(* TokensExact: the tokens of a text without string literals are its       *)
(* visible characters, none lost and none read twice; each is spelt as its *)
(* kind must be, and is as long as it can be (scanNumber reads a dot, a    *)
(* digit and an exponent in an order that no single rule of it states).    *)
(***************************************************************************)
ProperTokens == {i \in DOMAIN toks : toks[i].kind \notin {"NEWLINE", "INDENT", "OUTDENT", "EOF"}}
TokensExact ==
  Plain /\ status = "ended" =>
    /\ UNION {toks[i].from..(toks[i].to - 1) : i \in ProperTokens} = {p \in 1..Size : Visible(p) /\ Src[p] # "\\"}
    /\ \A i, j \in ProperTokens : i < j => toks[i].to <= toks[j].from
    /\ \A i \in ProperTokens :
         /\ Spells(toks[i].kind, Text(Src, toks[i].from, toks[i].to))
         /\ ~ \E e \in (toks[i].to + 1)..(Size + 1) : IsToken(Text(Src, toks[i].from, e))

(***************************************************************************)
(* QuoteRoundTrip: the literal that quote makes of a value, in either      *)
(* form, is one token, and unquote gives the value back: quote leaves out  *)
(* the escapes it believes it can do without.                              *)
(***************************************************************************)
QuoteRoundTrip ==
  source.value # NoValue =>
    /\ status \in {"scanning", "ended"}
    /\ status = "ended" =>
         /\ [i \in DOMAIN toks |-> toks[i].kind] = <<"STRING", "EOF">> /\ toks[1].to = Size + 1
         /\ Unquote(Src) = [s |-> source.value, ok |-> TRUE]
=============================================================================
