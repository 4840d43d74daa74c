------------------------------ MODULE Literals ------------------------------
(***************************************************************************)
(* String and number literals: syntax/quote.go and the functions           *)
(* scanString and scanNumber of syntax/scan.go.                            *)
(*                                                                         *)
(* A character is a string of length one, except for those that TLA+ has   *)
(* no spelling for (CR, BEL, BS, FF, VT, and the bytes Code knows).  EOF   *)
(* is what peekRune answers at the end.  The value of a number is left     *)
(* out, but not whether it has one.                                        *)
(***************************************************************************)
EXTENDS Integers, Sequences, FiniteSets, FiniteSetsExt, SequencesExt

CONSTANTS Code  \* the bytes that quote writes as octal escapes, with their codes

\* No two bytes have the same code.
ASSUME CodeAssumption ==
  \A b \in DOMAIN Code : Code[b] \in 0..255 /\ \A d \in DOMAIN Code : Code[b] = Code[d] => b = d

EOFc == "EOF"
CharAt(s, i) == IF i \in DOMAIN s THEN s[i] ELSE EOFc
Text(s, i, j) == SubSeq(s, i, j - 1)   \* s[i:j] in Go's manner

\* The first position from i on whose character is not in cs.
SkipOver(s, i, cs) == Min({j \in i..(Len(s) + 1) : CharAt(s, j) \notin cs})

Decimal == {"0", "1", "2", "3", "4", "5", "6", "7", "8", "9"}
Octal   == Decimal \ {"8", "9"}
Binary  == {"0", "1"}
Hex     == Decimal \cup {"a", "b", "c", "d", "e", "f", "A", "B", "C", "D", "E", "F"}

Digit      == [n \in 0..7 |-> <<"0", "1", "2", "3", "4", "5", "6", "7">>[n + 1]]   \* hex, "actually octal"
DigitValue == [d \in Octal |-> CHOOSE n \in 0..7 : Digit[n] = d]

\* The letters that follow a backslash and what they stand for.
Escapes ==
  [l \in {"a", "b", "f", "n", "r", "t", "v", "\\", "'", "\""} |->
     CASE l = "a" -> "BEL" [] l = "b" -> "BS" [] l = "f" -> "FF" [] l = "n" -> "\n" [] l = "r" -> "CR"
       [] l = "t" -> "\t" [] l = "v" -> "VT" [] OTHER -> l]
Escapees == {Escapes[l] : l \in DOMAIN Escapes}
EscapeOf(c) == CHOOSE l \in DOMAIN Escapes : Escapes[l] = c
\* Bytes that may follow a backslash in a value without the backslash being escaped:
\* the members of notEsc that models use.
NotEsc == {" ", "!", "#", "(", ")", ",", "/", ":", "A", "Z", "~"}

(***************************************************************************)
(* scanString, from the quote at k on: the position after the literal, or  *)
(* an error.                                                               *)
(***************************************************************************)
Scanned(s, quote, triple) ==   \* from a position on, after so many quotes in a row
  LET scan[p \in (1..(Len(s) + 2)) \X (0..2)] ==
        LET i    == p[1]
            c    == CharAt(s, i)
            seen == IF c = quote THEN p[2] + 1 ELSE 0
        IN  IF i > Len(s) THEN [to |-> i, err |-> "unexpected EOF in string"]
            ELSE IF c = "\n" /\ ~triple THEN [to |-> i, err |-> "unexpected newline in string"]
            ELSE IF c = quote /\ (~triple \/ seen = 3) THEN [to |-> i + 1, err |-> "none"]
            ELSE scan[<<IF c = "\\" THEN i + 2 ELSE i + 1, seen>>]
  IN  scan
StringEnd(s, k) ==
  LET triple == k + 2 <= Len(s) /\ s[k + 1] = s[k] /\ s[k + 2] = s[k]
  IN  Scanned(s, s[k], triple)[<<IF triple THEN k + 3 ELSE k + 1, 0>>]

(***************************************************************************)
(* unquote: the value of a literal, or an error.                           *)
(***************************************************************************)
BadEscape == [s |-> <<>>, ok |-> FALSE]
OctalEnd(q, i) ==
  IF CharAt(q, i + 2) \notin Octal THEN i + 2 ELSE IF CharAt(q, i + 3) \notin Octal THEN i + 3 ELSE i + 4
OctalValue(ds) ==
  LET v == [k \in DOMAIN ds |-> DigitValue[ds[k]]]
  IN  CASE Len(ds) = 1 -> v[1] [] Len(ds) = 2 -> 8 * v[1] + v[2] [] Len(ds) = 3 -> 64 * v[1] + 8 * v[2] + v[3]
Byte(v) == IF \E b \in DOMAIN Code : Code[b] = v THEN CHOOSE b \in DOMAIN Code : Code[b] = v ELSE "byte"

\* What stands at i, and the position after it: a backslash and what follows, or
\* another character.
Read(s, to) == [s |-> s, to |-> to, ok |-> TRUE]
BadAt(i)    == [s |-> <<>>, to |-> i + 1, ok |-> FALSE]
EscapeAt(q, i) ==
  LET c == q[i + 1]
      v == OctalValue(SubSeq(q, i + 1, OctalEnd(q, i) - 1))
  IN  IF i = Len(q) THEN BadAt(i)
      ELSE IF c = "\n" THEN Read(<<>>, i + 2)
      ELSE IF c \in DOMAIN Escapes THEN Read(<<Escapes[c]>>, i + 2)
      ELSE IF c \in Octal THEN IF v >= 256 THEN BadAt(i) ELSE Read(<<Byte(v)>>, OctalEnd(q, i))
      ELSE IF c # "x" THEN Read(<<q[i], c>>, i + 2)
      \* strconv.ParseInt takes a sign for the first of the two digits
      ELSE IF CharAt(q, i + 2) \in Hex \cup {"+", "-"} /\ CharAt(q, i + 3) \in Hex THEN Read(<<"byte">>, i + 4)
      ELSE BadAt(i)
Piece(q, i, special) ==
  IF q[i] \notin special THEN Read(<<q[i]>>, i + 1)
  ELSE IF q[i] = "CR" THEN Read(<<"\n">>, IF CharAt(q, i + 1) = "\n" THEN i + 2 ELSE i + 1)
  ELSE EscapeAt(q, i)

Unescaped(q, special) ==   \* from a position on
  LET value[i \in 1..(Len(q) + 1)] ==
        IF i > Len(q) THEN [s |-> <<>>, ok |-> TRUE]
        ELSE LET p    == Piece(q, i, special)
                 rest == value[p.to]
             IN  IF p.ok /\ rest.ok THEN [s |-> p.s \o rest.s, ok |-> TRUE] ELSE BadEscape
  IN  value

Unquote(lit) ==
  LET raw    == lit[1] = "r"
      q      == IF raw THEN Tail(lit) ELSE lit
      triple == Len(q) >= 6 /\ q[2] = q[1] /\ q[3] = q[1] /\ SubSeq(q, 1, 3) = SubSeq(q, Len(q) - 2, Len(q))
      k      == IF triple THEN 3 ELSE 1
  IN  IF Len(q) < 2 \/ q[1] \notin {"\"", "'"} \/ q[1] # Last(q) THEN BadEscape
      ELSE Unescaped(SubSeq(q, k + 1, Len(q) - k), IF raw THEN {"CR"} ELSE {"CR", "\\"})[1]

(***************************************************************************)
(* quote: a literal for a value.                                           *)
(***************************************************************************)
\* Mutant of OctalEscape: as few digits as the number has.
OctalEscapeShort(n) ==
  <<"\\">> \o IF n < 8 THEN <<Digit[n]>> ELSE <<Digit[n \div 64], Digit[(n \div 8) % 8], Digit[n % 8]>>
OctalEscape(n) == <<"\\", Digit[n \div 64], Digit[(n \div 8) % 8], Digit[n % 8]>>
Escape(c)      == IF c \in Escapees THEN <<"\\", EscapeOf(c)>> ELSE OctalEscape(Code[c])

\* How many characters from i on are written as they are: none if the one at i is escaped.
Other(u, i) == i \in DOMAIN u /\ u[i] # "\""
Passed(u, i, triple) ==
  LET c == u[i]
      d == CharAt(u, i + 1)
  IN  IF c = "\"" /\ triple /\ (Other(u, i + 1) \/ Other(u, i + 2)) THEN IF d = "\"" THEN 2 ELSE 1
      ELSE IF (triple /\ c = "\n") \/ c = "'" THEN 1
      ELSE IF c = "\\" /\ d \in NotEsc THEN 2
      ELSE IF c \in Escapees \/ c \in DOMAIN Code THEN 0 ELSE 1
Written(u, triple) ==   \* from a position on
  LET body[i \in 1..(Len(u) + 1)] ==
        LET k == Passed(u, i, triple)
        IN  IF i > Len(u) THEN <<>>
            ELSE IF k = 0 THEN Escape(u[i]) \o body[i + 1]
            ELSE SubSeq(u, i, i + k - 1) \o body[i + k]
  IN  body
QuoteMarks(triple) == IF triple THEN <<"\"", "\"", "\"">> ELSE <<"\"">>
Quote(u, triple)   == QuoteMarks(triple) \o Written(u, triple)[1] \o QuoteMarks(triple)

(***************************************************************************)
(* scanNumber, from the digit or dot at k on: its token and the position   *)
(* after it.                                                               *)
(***************************************************************************)
Fraction(s, i) == SkipOver(s, i + 1, Decimal)   \* readRune "consumes the '.'", or a digit after it
Exponent(s, i) ==
  IF CharAt(s, i + 1) \in {"+", "-"}
  THEN [to |-> SkipOver(s, i + 2, Decimal), bad |-> CharAt(s, i + 2) \notin Decimal]
  ELSE [to |-> SkipOver(s, i + 1, Decimal), bad |-> FALSE]

Based(s, k, digits, what) ==
  IF CharAt(s, k + 2) \in digits THEN [kind |-> "INT", to |-> SkipOver(s, k + 2, digits)]
  ELSE [kind |-> what, to |-> k + 2]

Float(s, k, i) ==
  LET frac == i = k \/ CharAt(s, i) = "."
      j    == IF frac THEN Fraction(s, IF i = k THEN k + 1 ELSE i) ELSE i
      e    == IF CharAt(s, j) \in {"e", "E"} THEN Exponent(s, j) ELSE [to |-> j, bad |-> FALSE]
      \* strconv.ParseFloat, on what was read, wants digits in the exponent
      bare == e.to > j /\ s[e.to - 1] \notin Decimal
  IN  [kind |-> IF e.bad \/ bare THEN "invalid float literal" ELSE "FLOAT", to |-> e.to]

\* strconv.ParseInt and big.Int.SetString take a leading zero for octal.
DecimalInt(s, k, i) ==
  [kind |-> IF s[k] = "0" /\ i > k + 1 /\ ToSet(Text(s, k, i)) \ Octal # {}
            THEN "invalid int literal" ELSE "INT",
   to |-> i]

Number(s, k) ==
  LET c == CharAt(s, k + 1)
      i == SkipOver(s, k, Decimal)
  IN  IF s[k] = "." /\ c \notin Decimal THEN [kind |-> "DOT", to |-> k + 1]
      ELSE IF s[k] = "0" /\ c \in {"x", "X"} THEN Based(s, k, Hex, "invalid hex literal")
      ELSE IF s[k] = "0" /\ c \in {"o", "O"} THEN Based(s, k, Octal, "invalid octal literal")
      ELSE IF s[k] = "0" /\ c \in {"b", "B"} THEN Based(s, k, Binary, "invalid binary literal")
      ELSE IF s[k] = "." \/ CharAt(s, i) \in {".", "e", "E"} THEN Float(s, k, i)
      ELSE DecimalInt(s, k, i)
=============================================================================
