------------------------------ MODULE Strings ------------------------------
(***************************************************************************)
(* The methods of strings that search and split, and the two languages of  *)
(* format strings: library.go and interpolate of eval.go.  A string is a   *)
(* sequence of characters.  The functions of Go's package strings are      *)
(* modelled by what they do: Index, LastIndex, SplitN, Count.              *)
(***************************************************************************)
EXTENDS Slices
LOCAL INSTANCE SequencesExt

CONSTANT StringCases
\* The calls:
\*   [kind |-> "find", s, sub, start, end, last]    find, rfind, index, rindex
\*   [kind |-> "count", s, sub, start, end]
\*   [kind |-> "split", s, sep, max, right]         split, rsplit; sep <<>> or <<string>>
\*   [kind |-> "partition", s, sep, right]
\*   [kind |-> "splitlines", s, keepends]
\*   [kind |-> "format", s, args]                   s.format(*args, k=value)
\*   [kind |-> "percent", s, x]                     s % x: x.t "tuple" of elems, "dict" {k: value}, "other"

VARIABLES text, answer
stringVars == <<text, answer>>
NoAnswer == [status |-> "none", value |-> <<>>]
Answer(v) == [status |-> "done", value |-> v]
Failed    == [status |-> "error", value |-> <<>>]

Space == {" ", "\n"}
Left(s, n)    == SubSeq(s, 1, n)
Drop(s, n)    == SubSeq(s, n + 1, Len(s))
Cut(s, i, j)  == SubSeq(s, i + 1, j)   \* s[i:j]
Occurs(s, sub, i) == Cut(s, i, i + Len(sub)) = sub
Places(s, sub) == {i \in 0..Len(s) : i + Len(sub) <= Len(s) /\ Occurs(s, sub, i)}
Index(s, sub) ==
  LET at == Places(s, sub) IN IF at = {} THEN -1 ELSE CHOOSE i \in at : \A j \in at : i <= j
LastIndex(s, sub) ==
  LET at == Places(s, sub) IN IF at = {} THEN -1 ELSE CHOOSE i \in at : \A j \in at : i >= j
RECURSIVE SplitN(_, _, _)
SplitN(s, sep, n) ==   \* into n strings at most; -1 for no limit
  LET i == Index(s, sep)
  IN  IF n = 1 \/ i < 0 THEN <<s>> ELSE <<Left(s, i)>> \o SplitN(Drop(s, i + Len(sep)), sep, n - 1)
Join(sep, parts) == FlattenSeq([i \in DOMAIN parts |-> IF i = 1 THEN parts[i] ELSE sep \o parts[i]])

(***************************************************************************)
(* Searching and splitting.                                                *)
(***************************************************************************)
\* The part of the string between the bounds.
BoundsOK(c) == AsInt32OK(c.start) /\ AsInt32OK(c.end)
Part(c) ==
  LET at == Indices(c.start, c.end, Len(c.s))
  IN  IF at.start < at.end THEN Cut(c.s, at.start, at.end) ELSE <<>>
FindSub(c) ==
  LET i == IF c.last THEN LastIndex(Part(c), c.sub) ELSE Index(Part(c), c.sub)
  IN  IF ~BoundsOK(c) THEN Failed
      ELSE Answer(<<IF i < 0 THEN -1 ELSE i + Indices(c.start, c.end, Len(c.s)).start>>)
Count(c) ==
  IF ~BoundsOK(c) THEN Failed
  ELSE Answer(<<IF c.sub = <<>> THEN Len(Part(c)) + 1 ELSE Len(SplitN(Part(c), c.sub, -1)) - 1>>)

\* The loop of splitspace at the index i, and that of rsplitspace before it.  A field
\* has begun at start, or ended at end; -1 in a region of spaces.
RECURSIVE SplitSpace(_, _, _, _, _), RSplitSpace(_, _, _, _, _)
SplitSpace(s, i, start, res, max) ==
  IF i = Len(s) THEN IF start >= 0 THEN Append(res, Drop(s, start)) ELSE res
  ELSE IF s[i + 1] \notin Space THEN SplitSpace(s, i + 1, IF start = -1 THEN i ELSE start, res, max)
  ELSE IF start = -1 THEN SplitSpace(s, i + 1, -1, res, max)
  ELSE IF Len(res) = max THEN Append(res, Drop(s, start))
  ELSE SplitSpace(s, i + 1, -1, Append(res, Cut(s, start, i)), max)
RSplitSpace(s, i, end, res, max) ==
  IF i = 0 THEN Reverse(IF end >= 0 THEN Append(res, Left(s, end)) ELSE res)
  ELSE IF s[i] \notin Space THEN RSplitSpace(s, i - 1, IF end = -1 THEN i ELSE end, res, max)
  ELSE IF end = -1 THEN RSplitSpace(s, i - 1, -1, res, max)
  ELSE IF Len(res) = max THEN Reverse(Append(res, Left(s, end)))
  ELSE RSplitSpace(s, i - 1, -1, Append(res, Cut(s, i, end)), max)

\* Mutant of Rejoined: it is off by one.
RejoinedLess(parts, sep, max) ==
  LET excess == Len(parts) - max - 1
  IN  IF excess > 0 THEN <<Join(sep, Left(parts, excess))>> \o Drop(parts, excess) ELSE parts
\* rsplit splits everywhere and joins the parts in excess.
Rejoined(parts, sep, max) ==
  LET excess == Len(parts) - max
  IN  IF excess > 0 THEN <<Join(sep, Left(parts, excess))>> \o Drop(parts, excess) ELSE parts

Split(c) ==
  LET sep == c.sep[1]
  IN  CASE c.sep = <<>> /\ ~(c.right /\ c.max >= 0) -> Answer(SplitSpace(c.s, 0, -1, <<>>, c.max))
        [] c.sep = <<>> /\ c.right /\ c.max >= 0    -> Answer(RSplitSpace(c.s, Len(c.s), -1, <<>>, c.max))
        [] c.sep = <<<<>>>>                         -> Failed
        [] OTHER -> Answer(IF c.max < 0 THEN SplitN(c.s, sep, -1)
                           ELSE IF ~c.right THEN SplitN(c.s, sep, c.max + 1)
                           ELSE Rejoined(SplitN(c.s, sep, -1), sep, c.max))
Partition(c) ==
  LET i == IF c.right THEN LastIndex(c.s, c.sep) ELSE Index(c.s, c.sep)
  IN  CASE c.sep = <<>>                          -> Failed
        [] c.sep # <<>> /\ i >= 0                -> Answer(<<Left(c.s, i), c.sep, Drop(c.s, i + Len(c.sep))>>)
        [] c.sep # <<>> /\ i < 0 /\ ~c.right     -> Answer(<<c.s, <<>>, <<>>>>)
        [] OTHER                                 -> Answer(<<<<>>, <<>>, c.s>>)
SplitLines(c) ==
  LET parts == SplitN(c.s, <<"\n">>, -1)
      ended == [i \in DOMAIN parts |-> IF c.keepends /\ i < Len(parts) THEN Append(parts[i], "\n") ELSE parts[i]]
  IN  Answer(IF c.s # <<>> /\ c.s[Len(c.s)] = "\n" THEN Left(ended, Len(ended) - 1) ELSE ended)

(***************************************************************************)
(* format.  The result is a sequence of pairs: <<"text", a character>>,    *)
(* <<"s", an argument>> and <<"r", an argument>> for its str and repr.     *)
(***************************************************************************)
Text(chars) == [i \in DOMAIN chars |-> <<"text", chars[i]>>]

\* strconv.Atoi of a name that does not begin with "-": a "+", perhaps, and digits.
Digit == <<"0", "1", "2", "3", "4", "5", "6", "7", "8", "9">>
Unsigned(name) == IF name # <<>> /\ name[1] = "+" THEN Drop(name, 1) ELSE name
Numeral(name)  == Unsigned(name) # <<>> /\ ToSet(Unsigned(name)) \subseteq ToSet(Digit)
Number(name)   ==
  FoldLeft(LAMBDA n, char : 10 * n + (CHOOSE d \in 0..9 : Digit[d + 1] = char), 0, Unsigned(name))

\* The part before a field: "}}" is "}", a lone one an error.
RECURSIVE Unbraced(_)
Unbraced(literal) ==
  LET j == Index(literal, <<"}">>)
      rest == Unbraced(Drop(literal, j + 2))
  IN  IF j < 0 THEN Answer(Text(literal))
      ELSE IF Len(literal) = j + 1 \/ literal[j + 2] # "}" THEN Failed
      ELSE IF rest.status = "error" THEN Failed
      ELSE Answer(Text(Left(literal, j + 1)) \o rest.value)

\* name, name:spec, name!conv, name!conv:spec
Before(s, c) == LET i == Index(s, <<c>>) IN IF i < 0 THEN s ELSE Left(s, i)
After(s, c)  == LET i == Index(s, <<c>>) IN IF i < 0 THEN <<>> ELSE Drop(s, i + 1)
Field(f) ==
  IF Index(f, <<"!">>) < 0
  THEN [name |-> Before(f, ":"), conv |-> <<"s">>, spec |-> After(f, ":")]
  ELSE [name |-> Before(f, "!"), conv |-> Before(After(f, "!"), ":"), spec |-> After(After(f, "!"), ":")]

\* The argument of a field, and the kind of indexing from here on.
Argument(name, indexing, index, args) ==
  CASE name = <<>> /\ indexing # "manual" /\ index < Len(args) ->
         Answer([arg |-> args[index + 1], indexing |-> "auto", index |-> index + 1])
    [] Numeral(name) /\ indexing # "auto" /\ Number(name) < Len(args) ->
         Answer([arg |-> args[Number(name) + 1], indexing |-> "manual", index |-> index])
    [] name = <<"k">> -> Answer([arg |-> "k", indexing |-> indexing, index |-> index])
    [] OTHER -> Failed

RECURSIVE Format(_, _, _, _, _)
Format(format, args, indexing, index, buf) ==
  LET i       == Index(format, <<"{">>)
      literal == Unbraced(IF i >= 0 THEN Left(format, i) ELSE format)
      rest    == Drop(format, i + 1)
      close   == Index(rest, <<"}">>)
      field   == Field(Left(rest, close))
      arg     == Argument(field.name, indexing, index, args)
  IN  IF literal.status = "error" THEN Failed
      ELSE IF i < 0 THEN Answer(buf \o literal.value)
      ELSE IF rest # <<>> /\ rest[1] = "{"
      THEN Format(Drop(rest, 1), args, indexing, index, buf \o literal.value \o Text(<<"{">>))
      ELSE IF close < 0 \/ arg.status = "error" \/ field.spec # <<>> \/ field.conv \notin {<<"s">>, <<"r">>} THEN Failed
      ELSE Format(Drop(rest, close + 1), args, arg.value.indexing, arg.value.index,
                  buf \o literal.value \o <<<<field.conv[1], arg.value.arg>>>>)

(***************************************************************************)
(* interpolate: "%s" % x.  Of the conversions of numbers, "d" stands for   *)
(* all that need one.                                                      *)
(***************************************************************************)
IsNumber(arg) == arg = "number"
PositionalArg(x, index) ==
  CASE x.t = "tuple" /\ index < Len(x.elems) -> Answer(x.elems[index + 1])
    [] x.t # "tuple" /\ index = 0            -> Answer(x.t)
    [] OTHER                                 -> Failed
Keyed(key, x) == IF x.t = "dict" /\ key = <<"k">> THEN Answer("k") ELSE Failed

RECURSIVE Percent(_, _, _, _)
Percent(format, x, index, buf) ==
  LET i     == Index(format, <<"%">>)
      rest  == Drop(format, i + 1)
      out   == buf \o Text(Left(format, i))
      keyed == rest # <<>> /\ rest[1] = "("
      close == Index(rest, <<")">>)
      arg   == IF keyed THEN Keyed(Cut(rest, 1, close), x) ELSE PositionalArg(x, index)
      after == IF keyed THEN Drop(rest, close + 1) ELSE rest
      conv  == IF arg.status = "error" \/ after = <<>> THEN Failed
               ELSE CASE after[1] \in {"s", "r"} -> Answer(<<after[1], arg.value>>)
                      [] after[1] = "d" /\ IsNumber(arg.value) -> Answer(<<"d", arg.value>>)
                      [] after[1] = "%" -> Answer(<<"text", "%">>)
                      [] OTHER -> Failed
  IN  IF i < 0
      THEN IF x.t = "tuple" /\ index < Len(x.elems) THEN Failed ELSE Answer(buf \o Text(format))
      ELSE IF rest # <<>> /\ rest[1] = "%" THEN Percent(Drop(rest, 1), x, index, out \o Text(<<"%">>))
      ELSE IF (keyed /\ close < 0) \/ conv.status = "error" THEN Failed
      ELSE Percent(Drop(after, 1), x, index + 1, Append(out, conv.value))

StringInit == text \in StringCases /\ answer = NoAnswer
StringCall ==
  /\ answer.status = "none"
  /\ answer' = CASE text.kind = "find"       -> FindSub(text)
                 [] text.kind = "count"      -> Count(text)
                 [] text.kind = "split"      -> Split(text)
                 [] text.kind = "partition"  -> Partition(text)
                 [] text.kind = "splitlines" -> SplitLines(text)
                 [] text.kind = "format"     -> Format(text.s, text.args, "none", 0, <<>>)
                 [] text.kind = "percent"    -> Percent(text.s, text.x, 0, <<>>)
  /\ UNCHANGED text

(***************************************************************************)
(* StringsExact: what the methods answer, against definitions that do not  *)
(* go through the string from one index to the next.                       *)
(*  - find and rfind give the first and the last place within the bounds,  *)
(*    and count the most places apart from one another; the empty string   *)
(*    is there at the start even where the end is before it.               *)
(*  - The parts of a split, joined, are the string; there are as many as   *)
(*    allowed, or none that could be split again; and they are cut at the  *)
(*    leftmost or the rightmost places.  (Where rsplit cuts is left open   *)
(*    if the separator overlaps itself.)                                   *)
(*  - A split at spaces gives the words, and, beyond the maximum, the rest *)
(*    of the string from the word on, or up to the word.                   *)
(*  - partition cuts at the first or the last place; splitlines gives the  *)
(*    lines, of the empty string one empty line.                           *)
(*  - The two format languages denote what their grammars do, and refuse   *)
(*    what is not in them.                                                 *)
(***************************************************************************)
Bound(arg, n, default) == Effective(arg, n, default, 0, n)
Matches(c) ==   \* the places within the bounds
  LET n    == Len(c.s)
      from == Bound(c.start, n, 0)
      to   == Bound(c.end, n, n)
  IN  {i \in Places(c.s, c.sub) : from <= i /\ i + Len(c.sub) <= to}
        \cup {i \in {from} : c.sub = <<>> /\ to < from}
FindExact(c) ==
  LET i == answer.value[1]
  IN  IF Matches(c) = {} THEN i = -1
      ELSE i \in Matches(c) /\ \A j \in Matches(c) : IF c.last THEN j <= i ELSE i <= j
CountExact(c) ==
  LET apart == {ps \in SUBSET Matches(c) : \A i, j \in ps : i < j => i + Len(c.sub) <= j}
  IN  /\ \A ps \in apart : Cardinality(ps) <= answer.value[1]
      /\ \E ps \in apart : Cardinality(ps) = answer.value[1]

Has(s, sub) == Places(s, sub) # {}
SelfOverlap(s) == \E k \in 1..(Len(s) - 1) : Left(s, k) = Drop(s, Len(s) - k)
SplitExact(c, sep, parts) ==
  LET n == Len(parts)
      rightmost == c.right /\ 0 <= c.max
      Only(s, i) == Places(s, sep) = {i}
  IN  /\ Join(sep, parts) = c.s
      /\ c.max >= 0 => n <= c.max + 1
      /\ n = c.max + 1 \/ \A i \in 1..n : ~Has(parts[i], sep)
      /\ ~rightmost => \A i \in 1..(n - 1) : Only(parts[i] \o sep, Len(parts[i]))
      /\ rightmost /\ ~SelfOverlap(sep) => \A i \in 2..n : Only(sep \o parts[i], 0)

Words(s) ==   \* <<begin, end>> of each, in order
  LET n == Len(s)
      words == {w \in (0..n) \X (0..n) :
                  /\ w[1] < w[2] /\ \A i \in (w[1] + 1)..w[2] : s[i] \notin Space
                  /\ w[1] > 0 => s[w[1]] \in Space
                  /\ w[2] < n => s[w[2] + 1] \in Space}
  IN  SetToSortSeq(words, LAMBDA v, w : v[1] < w[1])
WordsExact(c, parts) ==
  LET ws == Words(c.s)
      n  == Len(ws)
      all == [i \in 1..n |-> Cut(c.s, ws[i][1], ws[i][2])]
  IN  parts = IF c.max < 0 \/ n <= c.max THEN all
              ELSE IF c.right THEN <<Left(c.s, ws[n - c.max][2])>> \o Drop(all, n - c.max)
              ELSE Append(Left(all, c.max), Drop(c.s, ws[c.max + 1][1]))

PartitionExact(c, parts) ==
  /\ FlattenSeq(parts) = c.s
  /\ IF Has(c.s, c.sep)
     THEN parts[2] = c.sep /\ IF c.right THEN Places(c.sep \o parts[3], c.sep) \cap (1..Len(c.s)) = {}
                              ELSE Places(parts[1] \o c.sep, c.sep) = {Len(parts[1])}
     ELSE parts[IF c.right THEN 3 ELSE 1] = c.s
LinesExact(c, lines) ==
  LET n == Len(lines)
      Line(l) == \A i \in DOMAIN l : l[i] = "\n" => c.keepends /\ i = Len(l)
      whole == IF c.keepends THEN FlattenSeq(lines) ELSE Join(<<"\n">>, lines)
  IN  /\ \A i \in 1..n : Line(lines[i])
      /\ whole = c.s \/ (~c.keepends /\ Append(whole, "\n") = c.s)
      /\ c.keepends /\ n > 1 => lines[n] # <<>>

\* The grammar of format: characters, doubled braces, and fields without braces.
RECURSIVE FormatItems(_)
FormatItems(s) ==
  IF s = <<>> THEN Answer(<<>>)
  ELSE LET two   == IF Len(s) > 1 /\ s[1] \in {"{", "}"} /\ s[2] = s[1] THEN 2 ELSE 1
           close == {i \in DOMAIN s : s[i] = "}" /\ \A j \in 2..(i - 1) : s[j] \notin {"{", "}"}}
           long  == IF two = 1 /\ s[1] = "{" /\ close # {} THEN CHOOSE i \in close : TRUE ELSE two
           rest  == FormatItems(Drop(s, long))
       IN  IF (two = 1 /\ s[1] = "}") \/ (s[1] = "{" /\ two = 1 /\ close = {}) \/ rest.status = "error" THEN Failed
           ELSE Answer(<<IF two = 1 /\ s[1] = "{" THEN <<"field", Cut(s, 1, long - 1)>> ELSE <<"text", s[1]>>>> \o rest.value)
\* The names that mean argument n, which are as many as there are zeros to write; no
\* call has more than ten arguments.
Names(name, n) ==
  \E sign \in {<<>>, <<"+">>}, zeros \in 0..Len(name) : name = sign \o [i \in 1..zeros |-> "0"] \o <<Digit[n + 1]>>
Positioned(name, args) == \E n \in 0..(Len(args) - 1) : Names(name, n)
\* How a field can be read: a name, a conversion or none, and a colon or none.
Readings(f, args) ==
  {r \in [name : {Left(f, i) : i \in 0..Len(f)}, conv : {<<>>, <<"!", "s">>, <<"!", "r">>}, colon : {<<>>, <<":">>}] :
     f = r.name \o r.conv \o r.colon /\ (r.name \in {<<>>, <<"k">>} \/ Positioned(r.name, args))}
FormatExact(c) ==
  LET items == FormatItems(c.s).value
      at    == {i \in DOMAIN items : items[i][1] = "field"}
      Read(i) == CHOOSE r \in Readings(items[i][2], c.args) : TRUE
      autos == {i \in at : Read(i).name = <<>>}
      given == {i \in at : Positioned(Read(i).name, c.args)}
      Nth(i) == Cardinality({j \in autos : j <= i})
      Arg(i) == CASE i \in autos -> c.args[Nth(i)]
                  [] i \in given -> c.args[(CHOOSE n \in 0..9 : Names(Read(i).name, n)) + 1]
                  [] OTHER       -> "k"
      legal == /\ FormatItems(c.s).status = "done" /\ \A i \in at : Readings(items[i][2], c.args) # {}
               /\ autos = {} \/ given = {}
               /\ Cardinality(autos) <= Len(c.args)
  IN  IF ~legal THEN answer.status = "error"
      ELSE /\ answer.status = "done"
           /\ answer.value = [i \in DOMAIN items |->
                IF i \notin at THEN items[i]
                ELSE <<IF Read(i).conv = <<>> THEN "s" ELSE Read(i).conv[2], Arg(i)>>]

\* The grammar of %: characters, "%%", and conversions with or without a key.
RECURSIVE PercentItems(_)
PercentItems(s) ==
  IF s = <<>> THEN Answer(<<>>)
  ELSE LET close == {i \in 3..Len(s) : s[i] = ")" /\ s[2] = "(" /\ \A j \in 3..(i - 1) : s[j] # ")"}
           keyed == s[1] = "%" /\ close # {}
           conv  == IF keyed THEN (CHOOSE i \in close : TRUE) + 1 ELSE IF s[1] = "%" THEN 2 ELSE 1
           rest  == PercentItems(Drop(s, conv))
           item  == CASE s[1] # "%" -> <<"text", s[1]>>
                      [] s[1] = "%" /\ ~keyed /\ s[2] = "%" -> <<"text", "%">>
                      [] keyed -> <<"keyed", Cut(s, 2, conv - 2), s[conv]>>
                      [] OTHER -> <<"positional", s[2]>>
       IN  IF Len(s) < conv THEN Failed ELSE IF rest.status = "error" THEN Failed ELSE Answer(<<item>> \o rest.value)
PercentExact(c) ==
  LET items == PercentItems(c.s).value
      at    == {i \in DOMAIN items : items[i][1] # "text"}
      Nth(i) == Cardinality({j \in at : j <= i})
      keys  == {i \in at : items[i][1] = "keyed"}
      Conv(i) == items[i][IF i \in keys THEN 3 ELSE 2]
      Arg(i) == IF i \in keys THEN "k" ELSE IF c.x.t = "tuple" THEN c.x.elems[Nth(i)] ELSE c.x.t
      legal == /\ PercentItems(c.s).status = "done"
               /\ \A i \in keys : c.x.t = "dict" /\ items[i][2] = <<"k">>
               /\ IF c.x.t = "tuple" THEN Cardinality(at) = Len(c.x.elems)
                  ELSE \A i \in at \ keys : Nth(i) = 1
               /\ \A i \in at : Conv(i) \in {"s", "r"} \/ (Conv(i) = "d" /\ IsNumber(Arg(i))) \/ (i \in keys /\ Conv(i) = "%")
  IN  IF ~legal THEN answer.status = "error"
      ELSE /\ answer.status = "done"
           /\ answer.value = [i \in DOMAIN items |->
                IF i \notin at THEN items[i] ELSE IF Conv(i) = "%" THEN <<"text", "%">> ELSE <<Conv(i), Arg(i)>>]

StringsExact ==
  answer.status # "none" =>
    CASE text.kind \in {"find", "count"} ->
           IF ~BoundsOK(text) THEN answer.status = "error"
           ELSE answer.status = "done" /\ (IF text.kind = "find" THEN FindExact(text) ELSE CountExact(text))
      [] text.kind = "split"      -> IF text.sep = <<>> THEN WordsExact(text, answer.value)
                                     ELSE IF text.sep[1] = <<>> THEN answer.status = "error"
                                     ELSE SplitExact(text, text.sep[1], answer.value)
      [] text.kind = "partition"  -> IF text.sep = <<>> THEN answer.status = "error"
                                     ELSE PartitionExact(text, answer.value)
      [] text.kind = "splitlines" -> LinesExact(text, answer.value)
      [] text.kind = "format"     -> FormatExact(text)
      [] text.kind = "percent"    -> PercentExact(text)
=============================================================================
