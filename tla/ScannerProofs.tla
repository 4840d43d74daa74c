---------------------------- MODULE ScannerProofs ----------------------------
(***************************************************************************)
(* Two theorems about the scanner of syntax/scan.go, each for every text.  *)
(*                                                                         *)
(* The literal that quote makes of a value scans as one token, and unquote *)
(* gives the value back, in either form: QuotesRoundTrip.                  *)
(*                                                                         *)
(* The tokens of a text without string literals are its visible            *)
(* characters, each spelt as its kind must be and as long as it can be:    *)
(* TokensAreExact, in the second half.                                     *)
(***************************************************************************)
EXTENDS Scanner, Induction, SequenceTheorems

(***************************************************************************)
(* From the position p on, s is r.                                         *)
(***************************************************************************)
Rest(s, p, r) ==
  /\ p \in Nat \ {0} /\ Len(s) + 1 = p + Len(r)
  /\ \A j \in 1..Len(r) : s[p + j - 1] = r[j]

LEMMA RestAfter ==
  ASSUME NEW S, NEW s, Len(s) \in Nat, NEW p, NEW w \in Seq(S), NEW r \in Seq(S), Rest(s, p, w \o r)
  PROVE  /\ p \in Nat \ {0} /\ p + Len(w) <= Len(s) + 1
         /\ \A j \in 1..Len(w) : s[p + j - 1] = w[j]
         /\ Rest(s, p + Len(w), r)
<1>1. Len(w) \in Nat /\ Len(r) \in Nat /\ Len(w \o r) = Len(w) + Len(r)
  BY ConcatProperties, LenProperties
<1>2. \A i \in 1..(Len(w) + Len(r)) : (w \o r)[i] = IF i <= Len(w) THEN w[i] ELSE r[i - Len(w)]
  BY ConcatProperties
<1>3. p \in Nat \ {0} /\ Len(s) + 1 = p + Len(w) + Len(r)
  BY <1>1 DEF Rest
<1>4. \A j \in 1..(Len(w) + Len(r)) : s[p + j - 1] = (w \o r)[j]
  BY <1>1 DEF Rest
<1>5. ASSUME NEW j \in 1..Len(w) PROVE s[p + j - 1] = w[j]
  <2>1. j \in 1..(Len(w) + Len(r)) /\ j <= Len(w)
    BY <1>1
  <2> QED
    BY <1>2, <1>4, <2>1
<1>6. ASSUME NEW j \in 1..Len(r) PROVE s[(p + Len(w)) + j - 1] = r[j]
  <2>1. Len(w) + j \in 1..(Len(w) + Len(r)) /\ ~(Len(w) + j <= Len(w)) /\ (Len(w) + j) - Len(w) = j
    BY <1>1
  <2>2. p + (Len(w) + j) - 1 = (p + Len(w)) + j - 1
    BY <1>1, <1>3
  <2>3. s[p + (Len(w) + j) - 1] = r[j]
    BY <1>2, <1>4, <2>1
  <2> QED
    BY <2>2, <2>3
<1>7. Rest(s, p + Len(w), r)
  BY <1>1, <1>3, <1>6 DEF Rest
<1> QED
  BY <1>1, <1>3, <1>5, <1>7

\* After one, two and four characters.
LEMMA RestOne ==
  ASSUME NEW S, NEW s, Len(s) \in Nat, NEW p, NEW c \in S, NEW r \in Seq(S), Rest(s, p, <<c>> \o r)
  PROVE  p \in 1..Len(s) /\ s[p] = c /\ Rest(s, p + 1, r)
<1>1. PICK w : w = <<c>>
  OBVIOUS
<1>2. w \in Seq(S) /\ Len(w) = 1 /\ w[1] = c /\ Rest(s, p, w \o r)
  BY <1>1
<1>3. p \in Nat \ {0} /\ p + 1 <= Len(s) + 1 /\ (\A j \in 1..1 : s[p + j - 1] = w[j]) /\ Rest(s, p + 1, r)
  <2>1. /\ p \in Nat \ {0} /\ p + Len(w) <= Len(s) + 1
        /\ \A j \in 1..Len(w) : s[p + j - 1] = w[j]
        /\ Rest(s, p + Len(w), r)
    BY <1>2, RestAfter, Zenon
  <2> QED
    BY <1>2, <2>1
<1>4. s[p + 1 - 1] = c /\ p + 1 - 1 = p
  BY <1>2, <1>3
<1> QED
  BY <1>3, <1>4

LEMMA RestTwo ==
  ASSUME NEW S, NEW s, Len(s) \in Nat, NEW p, NEW c \in S, NEW d \in S, NEW r \in Seq(S),
         Rest(s, p, <<c, d>> \o r)
  PROVE  p \in 1..Len(s) /\ p + 1 \in 1..Len(s) /\ s[p] = c /\ s[p + 1] = d /\ Rest(s, p + 2, r)
<1>1. PICK w : w = <<c, d>>
  OBVIOUS
<1>2. w \in Seq(S) /\ Len(w) = 2 /\ w[1] = c /\ w[2] = d /\ Rest(s, p, w \o r)
  BY <1>1
<1>3. p \in Nat \ {0} /\ p + 2 <= Len(s) + 1 /\ (\A j \in 1..2 : s[p + j - 1] = w[j]) /\ Rest(s, p + 2, r)
  <2>1. /\ p \in Nat \ {0} /\ p + Len(w) <= Len(s) + 1
        /\ \A j \in 1..Len(w) : s[p + j - 1] = w[j]
        /\ Rest(s, p + Len(w), r)
    BY <1>2, RestAfter, Zenon
  <2> QED
    BY <1>2, <2>1
<1>4. s[p + 1 - 1] = c /\ p + 1 - 1 = p /\ s[p + 2 - 1] = d /\ p + 2 - 1 = p + 1
  BY <1>2, <1>3
<1> QED
  BY <1>3, <1>4

LEMMA RestFour ==
  ASSUME NEW S, NEW s, Len(s) \in Nat, NEW p, NEW w \in Seq(S), Len(w) = 4, NEW r \in Seq(S), Rest(s, p, w \o r)
  PROVE  /\ p \in 1..Len(s) /\ p + 1 \in 1..Len(s) /\ p + 2 \in 1..Len(s) /\ p + 3 \in 1..Len(s)
         /\ s[p] = w[1] /\ s[p + 1] = w[2] /\ s[p + 2] = w[3] /\ s[p + 3] = w[4] /\ Rest(s, p + 4, r)
<1>1. p \in Nat \ {0} /\ p + 4 <= Len(s) + 1 /\ (\A j \in 1..4 : s[p + j - 1] = w[j]) /\ Rest(s, p + 4, r)
  <2>1. /\ p \in Nat \ {0} /\ p + Len(w) <= Len(s) + 1
        /\ \A j \in 1..Len(w) : s[p + j - 1] = w[j]
        /\ Rest(s, p + Len(w), r)
    BY RestAfter, Zenon
  <2> QED
    BY <2>1
<1>2. 1 \in 1..4 /\ 2 \in 1..4 /\ 3 \in 1..4 /\ 4 \in 1..4
  OBVIOUS
<1>3. s[p + 1 - 1] = w[1] /\ s[p + 2 - 1] = w[2] /\ s[p + 3 - 1] = w[3] /\ s[p + 4 - 1] = w[4]
  BY <1>1, <1>2
<1>4. p + 1 - 1 = p /\ p + 2 - 1 = p + 1 /\ p + 3 - 1 = p + 2 /\ p + 4 - 1 = p + 3
  BY <1>1
<1> QED
  BY <1>1, <1>3, <1>4

(***************************************************************************)
(* Facts about the characters.                                             *)
(***************************************************************************)
LEMMA EscapeFacts ==
  /\ "\n" \notin DOMAIN Escapes /\ "x" \notin DOMAIN Escapes
  /\ DOMAIN Escapes \cap Octal = {} /\ DOMAIN Escapes \cap NotEsc = {}
  /\ {"CR", "\\", "\n", "\"", "'"} \subseteq Escapees
<1>1. DOMAIN Escapes = {"a", "b", "f", "n", "r", "t", "v", "\\", "'", "\""}
  BY DEF Escapes
<1>3. Escapes["r"] = "CR" /\ Escapes["\\"] = "\\" /\ Escapes["n"] = "\n" /\ Escapes["\""] = "\"" /\ Escapes["'"] = "'"
  BY DEF Escapes
<1>4. "r" \in DOMAIN Escapes /\ "\\" \in DOMAIN Escapes /\ "n" \in DOMAIN Escapes /\ "\"" \in DOMAIN Escapes
      /\ "'" \in DOMAIN Escapes
  BY <1>1
<1>5. {"CR", "\\", "\n", "\"", "'"} \subseteq Escapees
  <2> HIDE <1>1
  <2> QED
    BY <1>3, <1>4 DEF Escapees
<1>7. DOMAIN Escapes \cap Octal = {} /\ DOMAIN Escapes \cap NotEsc = {}
  BY <1>1 DEF Octal, Decimal, NotEsc
<1>8. "\n" \notin DOMAIN Escapes /\ "x" \notin DOMAIN Escapes
  BY <1>1
<1> QED
  BY <1>5, <1>7, <1>8

LEMMA EscapeOfFacts ==
  ASSUME NEW c \in Escapees
  PROVE  EscapeOf(c) \in DOMAIN Escapes /\ Escapes[EscapeOf(c)] = c
<1>1. \E l \in DOMAIN Escapes : Escapes[l] = c
  BY DEF Escapees
<1> QED
  BY <1>1 DEF EscapeOf

LEMMA DigitFacts ==
  ASSUME NEW n \in 0..7
  PROVE  Digit[n] \in Octal /\ DigitValue[Digit[n]] = n
<1>1. /\ Digit[0] = "0" /\ Digit[1] = "1" /\ Digit[2] = "2" /\ Digit[3] = "3"
      /\ Digit[4] = "4" /\ Digit[5] = "5" /\ Digit[6] = "6" /\ Digit[7] = "7"
  BY DEF Digit
<1>2. n = 0 \/ n = 1 \/ n = 2 \/ n = 3 \/ n = 4 \/ n = 5 \/ n = 6 \/ n = 7
  OBVIOUS
<1>3. Digit[n] \in Octal
  BY <1>1, <1>2 DEF Octal, Decimal
<1>4. \A m \in 0..7 : Digit[m] = Digit[n] => m = n
  <2> TAKE m \in 0..7
  <2>1. m = 0 \/ m = 1 \/ m = 2 \/ m = 3 \/ m = 4 \/ m = 5 \/ m = 6 \/ m = 7
    OBVIOUS
  <2> QED
    BY <1>1, <1>2, <2>1
<1>5. DigitValue[Digit[n]] = CHOOSE m \in 0..7 : Digit[m] = Digit[n]
  BY <1>3 DEF DigitValue
<1> QED
  BY <1>3, <1>4, <1>5

\* The digits of a byte give its code.
LEMMA CodeDigits ==
  ASSUME NEW v \in 0..255
  PROVE  /\ v \div 64 \in 0..7 /\ (v \div 8) % 8 \in 0..7 /\ v % 8 \in 0..7
         /\ 64 * (v \div 64) + 8 * ((v \div 8) % 8) + (v % 8) = v
<1>1. v \div 64 \in 0..7 /\ v \div 8 \in Nat
  OBVIOUS
<1>2. (v \div 8) % 8 \in 0..7 /\ v % 8 \in 0..7
  BY <1>1
<1>3. v \div 64 = (v \div 8) \div 8
  OBVIOUS
<1> QED
  BY <1>1, <1>2, <1>3

(***************************************************************************)
(* quote, one step at a time.                                              *)
(***************************************************************************)
\* The characters of a value over S, of a literal for it and of what is read in one.
Alphabet(S) == S \cup DOMAIN Escapes \cup Escapees \cup Octal \cup DOMAIN Code \cup {"byte"}

LEMMA AlphabetFacts ==
  ASSUME NEW S
  PROVE  /\ S \subseteq Alphabet(S) /\ DOMAIN Escapes \subseteq Alphabet(S) /\ Escapees \subseteq Alphabet(S)
         /\ Octal \subseteq Alphabet(S) /\ DOMAIN Code \subseteq Alphabet(S) /\ "byte" \in Alphabet(S)
         /\ {"CR", "\\", "\n", "\"", "'"} \subseteq Alphabet(S)
<1>1. {"CR", "\\", "\n", "\"", "'"} \subseteq Escapees
  BY EscapeFacts
<1> QED
  BY <1>1 DEF Alphabet

\* What is written for a character that is escaped.
LEMMA EscapeWritten ==
  ASSUME NEW S, NEW c, c \in Escapees \/ c \in DOMAIN Code
  PROVE  /\ Escape(c) \in Seq(Alphabet(S))
         /\ \/ \E l \in DOMAIN Escapes : l \in Alphabet(S) /\ Escape(c) = <<"\\", l>> /\ Escapes[l] = c
            \/ /\ c \in DOMAIN Code
               /\ \E d1 \in 0..7, d2 \in 0..7, d3 \in 0..7 :
                    /\ Escape(c) = <<"\\", Digit[d1], Digit[d2], Digit[d3]>>
                    /\ 64 * d1 + 8 * d2 + d3 = Code[c]
<1>1. "\\" \in Alphabet(S) /\ DOMAIN Escapes \subseteq Alphabet(S) /\ Octal \subseteq Alphabet(S)
  BY AlphabetFacts
<1>2. CASE c \in Escapees
  <2>1. PICK l \in DOMAIN Escapes : l = EscapeOf(c) /\ Escapes[l] = c
    BY <1>2, EscapeOfFacts
  <2>2. Escape(c) = <<"\\", l>>
    BY <1>2, <2>1 DEF Escape
  <2>3. l \in Alphabet(S)
    BY <1>1
  <2>4. <<"\\", l>> \in Seq(Alphabet(S))
    BY <1>1, <2>3
  <2> QED
    BY <2>1, <2>2, <2>3, <2>4
<1>3. CASE c \notin Escapees
  <2>1. c \in DOMAIN Code /\ Code[c] \in 0..255
    BY <1>3, CodeAssumption DEF CodeAssumption
  <2>2. PICK v : v = Code[c]
    OBVIOUS
  <2>3. PICK d1, d2, d3 : d1 = v \div 64 /\ d2 = (v \div 8) % 8 /\ d3 = v % 8
    OBVIOUS
  <2>4. d1 \in 0..7 /\ d2 \in 0..7 /\ d3 \in 0..7 /\ 64 * d1 + 8 * d2 + d3 = v
    BY <2>1, <2>2, <2>3, CodeDigits
  <2>5. Escape(c) = <<"\\", Digit[d1], Digit[d2], Digit[d3]>>
    BY <1>3, <2>2, <2>3 DEF Escape, OctalEscape
  <2>6. Digit[d1] \in Alphabet(S) /\ Digit[d2] \in Alphabet(S) /\ Digit[d3] \in Alphabet(S)
    BY <1>1, <2>4, DigitFacts
  <2>7. <<"\\", Digit[d1], Digit[d2], Digit[d3]>> \in Seq(Alphabet(S))
    BY <1>1, <2>6
  <2> QED
    BY <2>1, <2>2, <2>4, <2>5, <2>7
<1> QED
  BY <1>2, <1>3

\* What quote passes through is there.
LEMMA PassedFacts ==
  ASSUME NEW S, EOFc \notin S, NEW u \in Seq(S), NEW triple \in BOOLEAN, NEW i \in 1..Len(u)
  PROVE  /\ Passed(u, i, triple) \in 0..2
         /\ i + Passed(u, i, triple) <= Len(u) + 1
         /\ Passed(u, i, triple) = 0 => u[i] \in Escapees \/ u[i] \in DOMAIN Code
<1>1. CharAt(u, i + 1) # EOFc => i + 1 <= Len(u)
  BY DEF CharAt
<1>2. CharAt(u, i + 1) = "\"" \/ CharAt(u, i + 1) \in NotEsc => i + 1 <= Len(u)
  BY <1>1 DEF NotEsc, EOFc
<1>3. Passed(u, i, triple) = 0 \/ Passed(u, i, triple) = 1 \/ Passed(u, i, triple) = 2
  BY Zenon DEF Passed
<1>4. \/ CharAt(u, i + 1) = "\"" \/ CharAt(u, i + 1) \in NotEsc
      \/ Passed(u, i, triple) = 0 \/ Passed(u, i, triple) = 1
  BY Zenon DEF Passed
<1>5. \/ u[i] \in Escapees \/ u[i] \in DOMAIN Code
      \/ Passed(u, i, triple) = 1 \/ Passed(u, i, triple) = 2
  BY Zenon DEF Passed
<1>6. i + 1 <= Len(u) \/ Passed(u, i, triple) = 0 \/ Passed(u, i, triple) = 1
  BY <1>2, <1>4, Zenon
<1>9. Len(u) \in Nat
  BY LenProperties
<1>7. Passed(u, i, triple) = 0 => u[i] \in Escapees \/ u[i] \in DOMAIN Code
  BY <1>5
<1>8. Passed(u, i, triple) \in 0..2 /\ i + Passed(u, i, triple) <= Len(u) + 1
  BY <1>3, <1>6, <1>9
<1> QED
  BY <1>7, <1>8

\* What is written for the characters at i, and the position after them.
WrittenAt(u, i, triple) ==
  IF Passed(u, i, triple) = 0 THEN Escape(u[i]) ELSE SubSeq(u, i, i + Passed(u, i, triple) - 1)
WrittenTo(u, i, triple) == IF Passed(u, i, triple) = 0 THEN i + 1 ELSE i + Passed(u, i, triple)

LEMMA WrittenAtFacts ==
  ASSUME NEW S, EOFc \notin S, NEW u \in Seq(S), NEW triple \in BOOLEAN, NEW i \in 1..Len(u)
  PROVE  /\ WrittenAt(u, i, triple) \in Seq(Alphabet(S))
         /\ WrittenTo(u, i, triple) \in (i + 1)..(Len(u) + 1)
<1> DEFINE k == Passed(u, i, triple)
<1>1. k \in 0..2 /\ i + k <= Len(u) + 1 /\ (k = 0 => u[i] \in Escapees \/ u[i] \in DOMAIN Code)
  BY PassedFacts
<1> HIDE DEF k
<1>2. Len(u) \in Nat
  BY LenProperties
<1>3. WrittenTo(u, i, triple) \in (i + 1)..(Len(u) + 1)
  BY <1>1, <1>2 DEF WrittenTo, k
<1>4. CASE k = 0
  BY <1>1, <1>3, <1>4, EscapeWritten DEF WrittenAt, k
<1>5. CASE k # 0
  <2>1. \A j \in i..(i + k - 1) : u[j] \in Alphabet(S)
    <3> TAKE j \in i..(i + k - 1)
    <3>1. j \in 1..Len(u)
      BY <1>1, <1>2
    <3>2. u[j] \in S
      BY <3>1, ElementOfSeq
    <3> QED
      BY <3>2, AlphabetFacts
  <2>2. i \in Int /\ i + k - 1 \in Int
    BY <1>1
  <2>3. SubSeq(u, i, i + k - 1) \in Seq(Alphabet(S))
    BY <2>1, <2>2, SubSeqProperties
  <2> QED
    BY <1>3, <1>5, <2>3 DEF WrittenAt, k
<1> QED
  BY <1>4, <1>5

LEMMA WrittenSteps ==
  ASSUME NEW S, EOFc \notin S, NEW u \in Seq(S), NEW triple \in BOOLEAN
  PROVE  /\ Written(u, triple) \in [1..(Len(u) + 1) -> Seq(Alphabet(S))]
         /\ Written(u, triple)[Len(u) + 1] = <<>>
         /\ \A i \in 1..Len(u) :
              Written(u, triple)[i] = WrittenAt(u, i, triple) \o Written(u, triple)[WrittenTo(u, i, triple)]
<1> DEFINE n == Len(u)
           D == 1..(n + 1)
           A == Seq(Alphabet(S))
           At(i) == WrittenAt(u, i, triple)
           To(i) == WrittenTo(u, i, triple)
<1>1. n \in Nat
  BY LenProperties
<1>2. \A i \in 1..n : At(i) \in A /\ To(i) \in (i + 1)..(n + 1)
  BY WrittenAtFacts
<1> HIDE DEF At, To, A, n
<1> DEFINE base == [i \in D |-> <<>>]
           next == [i \in D |-> IF i > n THEN i ELSE To(i)]
           F    == [x \in D \X A |-> IF x[1] > n THEN <<>> ELSE At(x[1]) \o x[2]]
           rank == [i \in D |-> (n + 1) - i]
<1>3. <<>> \in A /\ \A w \in A, r \in A : w \o r \in A
  BY ConcatProperties, EmptySeq DEF A
<1>4. base \in [D -> A] /\ next \in [D -> D] /\ rank \in [D -> Nat] /\ \A i \in D : rank[i] <= n + 1
  BY <1>1, <1>2, <1>3
<1>5. F \in [D \X A -> A]
  <2>1. ASSUME NEW i \in D, NEW r \in A PROVE (IF i > n THEN <<>> ELSE At(i) \o r) \in A
    <3>1. CASE i > n
      BY <1>3, <3>1
    <3>2. CASE ~(i > n)
      <4>1. i \in 1..n
        BY <1>1, <3>2
      <4> QED
        BY <1>2, <1>3, <3>2, <4>1
    <3> QED
      BY <3>1, <3>2
  <2> HIDE DEF D
  <2> QED
    BY <2>1
<1>6. \A i \in D \ {n + 1} : rank[next[i]] < rank[i]
  BY <1>1, <1>2
<1>7. n + 1 \in Nat
  BY <1>1
<1>8. PICK f : DescendsBy(f, D, A, {n + 1}, base, next, F)
  <2> HIDE DEF D, base, next, F, rank
  <2>1. \A i \in D : rank[i] <= n + 1
    BY <1>4
  <2> QED
    BY <1>4, <1>5, <1>6, <1>7, <2>1, Descent, ZenonT(30)
<1>15. f \in [D -> A] /\ \A i \in D : f[i] = IF i \in {n + 1} THEN base[i] ELSE F[<<i, f[next[i]]>>]
  BY <1>8 DEF DescendsBy
<1>9. ASSUME NEW i \in D PROVE f[i] = IF i > n THEN <<>> ELSE At(i) \o f[To(i)]
  <2>1. CASE i > n
    <3>1. i = n + 1
      BY <1>1, <2>1
    <3>2. f[i] = base[i]
      BY <1>15, <3>1
    <3> QED
      BY <2>1, <3>2
  <2>2. CASE ~(i > n)
    <3>1. i # n + 1 /\ i \in 1..n /\ next[i] = To(i)
      BY <1>1, <2>2
    <3>2. To(i) \in D
      BY <1>1, <1>2, <3>1
    <3>3. f[i] = F[<<i, f[To(i)]>>]
      <4> HIDE DEF F, base, next
      <4> QED
        BY <1>15, <3>1
    <3>4. <<i, f[To(i)]>> \in D \X A
      <4> HIDE DEF D
      <4> QED
        BY <1>15, <3>2
    <3>5. F[<<i, f[To(i)]>>] = At(i) \o f[To(i)]
      <4> HIDE DEF D
      <4> QED
        BY <2>2, <3>4
    <3> QED
      BY <2>2, <3>3, <3>5
  <2> QED
    BY <2>1, <2>2
<1> DEFINE Body(g, i) == LET k == Passed(u, i, triple)
                         IN  IF i > Len(u) THEN <<>>
                             ELSE IF k = 0 THEN Escape(u[i]) \o g[i + 1]
                             ELSE SubSeq(u, i, i + k - 1) \o g[i + k]
<1>10. \A g : \A i \in D : Body(g, i) = IF i > n THEN <<>> ELSE At(i) \o g[To(i)]
  BY DEF At, To, WrittenAt, WrittenTo, n
<1>11. f = [i \in D |-> Body(f, i)]
  <2> HIDE DEF Body, D, base, next, F
  <2>1. \A i \in D : f[i] = Body(f, i)
    BY <1>9, <1>10
  <2>2. f = [i \in D |-> f[i]]
    BY <1>15
  <2> QED
    BY <2>1, <2>2
<1>12. f = [i \in 1..(Len(u) + 1) |-> Body(f, i)]
  BY <1>11 DEF n
<1>13. PICK w : w = Written(u, triple)
  OBVIOUS
<1>14. w = [i \in 1..(Len(u) + 1) |-> Body(w, i)]
  <2>1. \E g : g = [i \in 1..(Len(u) + 1) |-> Body(g, i)]
    BY <1>12
  <2> QED
    BY <1>13, <2>1 DEF Written
<1>16. ASSUME NEW i \in D PROVE w[i] = IF i > n THEN <<>> ELSE At(i) \o w[To(i)]
  <2>1. w[i] = Body(w, i)
    <3> HIDE DEF Body
    <3> QED
      BY <1>14 DEF n
  <2> HIDE DEF Body, D
  <2> QED
    BY <1>10, <2>1
<1> HIDE DEF Body
<1>17. w[n + 1] = <<>> /\ \A i \in 1..n : w[i] = At(i) \o w[To(i)]
  <2>1. n + 1 \in D /\ n + 1 > n /\ \A i \in 1..n : i \in D /\ ~(i > n)
    BY <1>1
  <2> HIDE DEF D
  <2> QED
    BY <1>16, <2>1
<1>18. ASSUME NEW i \in D, \A j \in (i + 1)..(n + 1) : w[j] \in A PROVE w[i] \in A
  <2>1. CASE i = n + 1
    BY <1>3, <1>17, <2>1
  <2>2. CASE i # n + 1
    <3>1. i \in 1..n
      BY <1>1, <2>2
    <3>2. At(i) \in A /\ w[To(i)] \in A
      BY <1>2, <1>18, <3>1
    <3> QED
      BY <1>3, <1>17, <3>1, <3>2
  <2> QED
    BY <2>1, <2>2
<1>19. \A i \in D : w[i] \in A
  <2> DEFINE T == {i \in D : w[i] \in A}
  <2>1. \A i \in 1..(n + 1) : (\A j \in (i + 1)..(n + 1) : j \in T) => i \in T
    BY <1>18
  <2> HIDE DEF T
  <2>2. 1..(n + 1) \subseteq T
    BY <1>7, <2>1, DownwardInduction
  <2> QED
    BY <2>2 DEF T
<1>20. w \in [D -> A]
  <2> HIDE DEF Body
  <2>1. w = [i \in D |-> Body(w, i)]
    BY <1>14 DEF n
  <2> HIDE DEF D
  <2> QED
    BY <1>19, <2>1
<1> QED
  BY <1>13, <1>17, <1>20 DEF At, To, A, n

(***************************************************************************)
(* unquote, one step at a time.                                            *)
(***************************************************************************)
LEMMA CharThere ==
  ASSUME NEW S, NEW q \in Seq(S), NEW i \in Int
  PROVE  /\ i \in 1..Len(q) => CharAt(q, i) = q[i]
         /\ CharAt(q, i) \in Octal \/ CharAt(q, i) \in Hex \/ CharAt(q, i) = "\n" => i \in 1..Len(q)
<1>1. DOMAIN q = 1..Len(q)
  BY LenProperties
<1>2. i \in 1..Len(q) => CharAt(q, i) = q[i]
  BY <1>1 DEF CharAt
<1>3. i \notin 1..Len(q) => CharAt(q, i) = EOFc
  BY <1>1 DEF CharAt
<1>4. EOFc \notin Octal /\ EOFc \notin Hex /\ EOFc # "\n"
  BY DEF EOFc, Octal, Hex, Decimal
<1> QED
  BY <1>2, <1>3, <1>4, Zenon

LEMMA OctalEndThere ==
  ASSUME NEW S, NEW q \in Seq(S), NEW i \in 1..Len(q), i # Len(q)
  PROVE  OctalEnd(q, i) \in (i + 2)..(Len(q) + 1) /\ OctalEnd(q, i) \in (i + 2)..(i + 4)
<1>1. Len(q) \in Nat
  BY LenProperties
<1>2. CharAt(q, i + 2) \in Octal => i + 2 \in 1..Len(q)
  BY CharThere
<1>3. CharAt(q, i + 3) \in Octal => i + 3 \in 1..Len(q)
  BY CharThere
<1>4. CASE CharAt(q, i + 2) \notin Octal
  <2>1. OctalEnd(q, i) = i + 2
    BY <1>4 DEF OctalEnd
  <2> QED
    BY <1>1, <2>1
<1>5. CASE CharAt(q, i + 2) \in Octal /\ CharAt(q, i + 3) \notin Octal
  <2>1. OctalEnd(q, i) = i + 3
    BY <1>5 DEF OctalEnd
  <2> QED
    BY <1>1, <1>2, <1>5, <2>1
<1>6. CASE CharAt(q, i + 2) \in Octal /\ CharAt(q, i + 3) \in Octal
  <2>1. OctalEnd(q, i) = i + 4
    BY <1>6 DEF OctalEnd
  <2> QED
    BY <1>1, <1>3, <1>6, <2>1
<1> QED
  BY <1>4, <1>5, <1>6

\* A piece is read, or it is bad.
Readable(S, q, i, p) == \E s \in Seq(Alphabet(S)), to \in (i + 1)..(Len(q) + 1) : p = Read(s, to)

LEMMA ReadableOne ==
  ASSUME NEW S, NEW q, NEW i, NEW c \in Alphabet(S), NEW to \in (i + 1)..(Len(q) + 1), NEW p, p = Read(<<c>>, to)
  PROVE  Readable(S, q, i, p)
<1>1. <<c>> \in Seq(Alphabet(S))
  OBVIOUS
<1> QED
  BY <1>1 DEF Readable

LEMMA ByteFacts ==
  ASSUME NEW S, NEW v
  PROVE  /\ Byte(v) \in Alphabet(S)
         /\ \A b \in DOMAIN Code : Code[b] = v => Byte(v) = b
<1>1. CASE \E b \in DOMAIN Code : Code[b] = v
  <2>1. PICK b \in DOMAIN Code : Code[b] = v
    BY <1>1
  <2>2. Byte(v) = CHOOSE d \in DOMAIN Code : Code[d] = v
    BY <1>1 DEF Byte
  <2>3. Byte(v) \in DOMAIN Code /\ Code[Byte(v)] = v
    BY <1>1, <2>2
  <2>4. \A d \in DOMAIN Code : Code[d] = v => Byte(v) = d
    BY <2>3, CodeAssumption DEF CodeAssumption
  <2> QED
    BY <2>3, <2>4, AlphabetFacts
<1>2. CASE ~ \E b \in DOMAIN Code : Code[b] = v
  <2>1. Byte(v) = "byte"
    BY <1>2 DEF Byte
  <2> QED
    BY <1>2, <2>1, AlphabetFacts
<1> QED
  BY <1>1, <1>2

LEMMA EscapeAtFacts ==
  ASSUME NEW S, NEW q \in Seq(Alphabet(S)), NEW i \in 1..Len(q)
  PROVE  Readable(S, q, i, EscapeAt(q, i)) \/ EscapeAt(q, i) = BadAt(i)
<1> DEFINE c == q[i + 1]
           v == OctalValue(SubSeq(q, i + 1, OctalEnd(q, i) - 1))
           n == Len(q)
<1>1. n \in Nat
  BY LenProperties
<1>2. CASE i = n
  BY <1>2 DEF EscapeAt
<1>3. CASE i # n
  <2>1. i + 1 \in 1..n /\ i + 2 \in (i + 1)..(n + 1)
    BY <1>1, <1>3
  <2>2. c \in Alphabet(S) /\ q[i] \in Alphabet(S)
    BY <2>1, ElementOfSeq
  <2>3. OctalEnd(q, i) \in (i + 2)..(n + 1)
    BY <1>3, OctalEndThere
  <2>4. CASE c = "\n"
    <3>1. EscapeAt(q, i) = Read(<<>>, i + 2)
      BY <1>3, <2>4 DEF EscapeAt
    <3>2. <<>> \in Seq(Alphabet(S))
      BY EmptySeq
    <3> QED
      BY <2>1, <3>1, <3>2 DEF Readable
  <2>5. CASE c # "\n" /\ c \in DOMAIN Escapes
    <3>1. EscapeAt(q, i) = Read(<<Escapes[c]>>, i + 2)
      BY <1>3, <2>5 DEF EscapeAt
    <3>2. Escapes[c] \in Alphabet(S)
      BY <2>5, AlphabetFacts DEF Escapees
    <3> QED
      BY <2>1, <3>1, <3>2, ReadableOne
  <2>6. CASE c # "\n" /\ c \notin DOMAIN Escapes /\ c \in Octal
    <3>1. EscapeAt(q, i) = IF v >= 256 THEN BadAt(i) ELSE Read(<<Byte(v)>>, OctalEnd(q, i))
      BY <1>3, <2>6 DEF EscapeAt
    <3>2. Byte(v) \in Alphabet(S)
      BY ByteFacts
    <3>3. OctalEnd(q, i) \in (i + 1)..(Len(q) + 1)
      BY <2>3
    <3> HIDE DEF v
    <3>4. EscapeAt(q, i) = BadAt(i) \/ EscapeAt(q, i) = Read(<<Byte(v)>>, OctalEnd(q, i))
      BY <3>1
    <3> QED
      BY <3>2, <3>3, <3>4, ReadableOne
  <2>7. CASE c # "\n" /\ c \notin DOMAIN Escapes /\ c \notin Octal /\ c # "x"
    <3>1. EscapeAt(q, i) = Read(<<q[i], c>>, i + 2)
      BY <1>3, <2>7 DEF EscapeAt
    <3>2. <<q[i], c>> \in Seq(Alphabet(S))
      <4> HIDE DEF c
      <4> QED
        BY <2>2
    <3> QED
      BY <2>1, <3>1, <3>2 DEF Readable
  <2>8. CASE c # "\n" /\ c \notin DOMAIN Escapes /\ c \notin Octal /\ c = "x"
    <3>1. CASE CharAt(q, i + 2) \in Hex \cup {"+", "-"} /\ CharAt(q, i + 3) \in Hex
      <4>1. EscapeAt(q, i) = Read(<<"byte">>, i + 4)
        BY <1>3, <2>8, <3>1 DEF EscapeAt
      <4>2. i + 3 \in 1..n
        BY <3>1, CharThere
      <4>3. i + 4 \in (i + 1)..(Len(q) + 1)
        BY <1>1, <4>2
      <4> QED
        BY <4>1, <4>3, AlphabetFacts, ReadableOne
    <3>2. CASE ~(CharAt(q, i + 2) \in Hex \cup {"+", "-"} /\ CharAt(q, i + 3) \in Hex)
      BY <1>3, <2>8, <3>2 DEF EscapeAt
    <3> QED
      BY <3>1, <3>2
  <2> HIDE DEF c
  <2> QED
    BY <2>4, <2>5, <2>6, <2>7, <2>8
<1> QED
  BY <1>2, <1>3

LEMMA PieceFacts ==
  ASSUME NEW S, NEW q \in Seq(Alphabet(S)), NEW i \in 1..Len(q), NEW special
  PROVE  Readable(S, q, i, Piece(q, i, special)) \/ Piece(q, i, special) = BadAt(i)
<1>1. Len(q) \in Nat /\ q[i] \in Alphabet(S)
  BY LenProperties, ElementOfSeq
<1>2. i + 1 \in (i + 1)..(Len(q) + 1)
  BY <1>1
<1>3. CASE q[i] \notin special
  <2>1. Piece(q, i, special) = Read(<<q[i]>>, i + 1)
    BY <1>3 DEF Piece
  <2> QED
    BY <1>1, <1>2, <2>1, ReadableOne
<1>4. CASE q[i] \in special /\ q[i] = "CR"
  <2>1. PICK to : to = IF CharAt(q, i + 1) = "\n" THEN i + 2 ELSE i + 1
    OBVIOUS
  <2>2. Piece(q, i, special) = Read(<<"\n">>, to)
    BY <1>4, <2>1 DEF Piece
  <2>3. CharAt(q, i + 1) = "\n" => i + 1 \in 1..Len(q)
    BY CharThere
  <2>4. to \in (i + 1)..(Len(q) + 1)
    BY <1>1, <2>1, <2>3
  <2>5. "\n" \in Alphabet(S)
    BY AlphabetFacts
  <2> QED
    BY <2>2, <2>4, <2>5, ReadableOne
<1>5. CASE q[i] \in special /\ q[i] # "CR"
  <2>1. Piece(q, i, special) = EscapeAt(q, i)
    BY <1>5 DEF Piece
  <2> QED
    BY <2>1, EscapeAtFacts
<1> QED
  BY <1>3, <1>4, <1>5

\* What unquote makes of a piece and of the rest.
Told(r) == [s |-> r, ok |-> TRUE]
Joined(p, v) == IF p.ok /\ v.ok THEN Told(p.s \o v.s) ELSE BadEscape
Results(S) == {Told(r) : r \in Seq(Alphabet(S))} \cup {BadEscape}

LEMMA JoinedRead ==
  ASSUME NEW s, NEW to, NEW r
  PROVE  Joined(Read(s, to), Told(r)) = Told(s \o r) /\ Read(s, to).to = to
<1>1. Read(s, to).ok = TRUE /\ Read(s, to).s = s /\ Told(r).ok = TRUE /\ Told(r).s = r /\ Read(s, to).to = to
  BY DEF Read, Told
<1> QED
  BY <1>1, Zenon DEF Joined

LEMMA JoinedFacts ==
  ASSUME NEW S, NEW q, NEW i, NEW p, Readable(S, q, i, p) \/ p = BadAt(i), NEW v \in Results(S)
  PROVE  Joined(p, v) \in Results(S)
<1>1. CASE p = BadAt(i)
  <2>1. p.ok = FALSE
    BY <1>1 DEF BadAt
  <2>2. Joined(p, v) = BadEscape
    BY <2>1, Zenon DEF Joined
  <2> QED
    BY <2>2 DEF Results
<1>2. CASE v = BadEscape
  <2>1. v.ok = FALSE
    BY <1>2 DEF BadEscape
  <2>2. Joined(p, v) = BadEscape
    BY <2>1, Zenon DEF Joined
  <2> QED
    BY <2>2 DEF Results
<1>3. CASE Readable(S, q, i, p) /\ v # BadEscape
  <2>1. PICK s \in Seq(Alphabet(S)), to \in (i + 1)..(Len(q) + 1) : p = Read(s, to)
    BY <1>3 DEF Readable
  <2>2. PICK r \in Seq(Alphabet(S)) : v = Told(r)
    BY <1>3 DEF Results
  <2>3. Joined(p, v) = Told(s \o r)
    BY <2>1, <2>2, JoinedRead
  <2>4. s \o r \in Seq(Alphabet(S))
    BY ConcatProperties
  <2> QED
    BY <2>3, <2>4 DEF Results
<1> QED
  BY <1>1, <1>2, <1>3

LEMMA UnescapedSteps ==
  ASSUME NEW S, NEW q \in Seq(Alphabet(S)), NEW special
  PROVE  /\ Unescaped(q, special)[Len(q) + 1] = Told(<<>>)
         /\ \A i \in 1..Len(q) :
              Unescaped(q, special)[i] = Joined(Piece(q, i, special), Unescaped(q, special)[Piece(q, i, special).to])
<1> DEFINE n == Len(q)
           D == 1..(n + 1)
           A == Results(S)
           P(i) == Piece(q, i, special)
           To(i) == P(i).to
<1>1. n \in Nat
  BY LenProperties
<1>2. \A i \in 1..n : To(i) \in (i + 1)..(n + 1)
  <2> TAKE i \in 1..n
  <2>1. Readable(S, q, i, P(i)) \/ P(i) = BadAt(i)
    BY PieceFacts
  <2>2. CASE Readable(S, q, i, P(i))
    <3>1. PICK s \in Seq(Alphabet(S)), to \in (i + 1)..(Len(q) + 1) : P(i) = Read(s, to)
      BY <2>2 DEF Readable
    <3> HIDE DEF P
    <3>2. P(i).to = to
      BY <3>1, JoinedRead
    <3> QED
      BY <3>2
  <2>3. CASE P(i) = BadAt(i)
    <3> HIDE DEF P
    <3>1. P(i).to = i + 1
      BY <2>3 DEF BadAt
    <3> QED
      BY <1>1, <3>1
  <2> HIDE DEF P, To
  <2> QED
    BY <2>1, <2>2, <2>3
<1>3. ASSUME NEW i \in 1..n, NEW v \in A PROVE Joined(P(i), v) \in A
  BY PieceFacts, JoinedFacts
<1>4. Told(<<>>) \in A
  BY EmptySeq DEF Results
<1> HIDE DEF A, P, To, n
<1> DEFINE base == [i \in D |-> Told(<<>>)]
           next == [i \in D |-> IF i > n THEN i ELSE To(i)]
           F    == [x \in D \X A |-> IF x[1] > n THEN Told(<<>>) ELSE Joined(P(x[1]), x[2])]
           rank == [i \in D |-> (n + 1) - i]
<1>5. base \in [D -> A] /\ next \in [D -> D] /\ rank \in [D -> Nat] /\ \A i \in D : rank[i] <= n + 1
  BY <1>1, <1>2, <1>4
<1>6. F \in [D \X A -> A]
  <2>1. ASSUME NEW i \in D, NEW v \in A PROVE (IF i > n THEN Told(<<>>) ELSE Joined(P(i), v)) \in A
    <3>1. CASE i > n
      BY <1>4, <3>1
    <3>2. CASE ~(i > n)
      <4>1. i \in 1..n
        BY <1>1, <3>2
      <4> QED
        BY <1>3, <3>2, <4>1
    <3> QED
      BY <3>1, <3>2
  <2> HIDE DEF D
  <2> QED
    BY <2>1
<1>7. \A i \in D \ {n + 1} : rank[next[i]] < rank[i]
  BY <1>1, <1>2
<1>8. n + 1 \in Nat
  BY <1>1
<1>9. PICK f : DescendsBy(f, D, A, {n + 1}, base, next, F)
  <2> HIDE DEF D, base, next, F, rank
  <2>1. \A i \in D : rank[i] <= n + 1
    BY <1>5
  <2> QED
    BY <1>5, <1>6, <1>7, <1>8, <2>1, Descent, ZenonT(30)
<1>10. f \in [D -> A] /\ \A i \in D : f[i] = IF i \in {n + 1} THEN base[i] ELSE F[<<i, f[next[i]]>>]
  BY <1>9 DEF DescendsBy
<1>11. ASSUME NEW i \in D PROVE f[i] = IF i > n THEN Told(<<>>) ELSE Joined(P(i), f[To(i)])
  <2>1. CASE i > n
    <3>1. i = n + 1
      BY <1>1, <2>1
    <3>2. f[i] = base[i]
      BY <1>10, <3>1
    <3> QED
      BY <2>1, <3>2
  <2>2. CASE ~(i > n)
    <3>1. i # n + 1 /\ i \in 1..n /\ next[i] = To(i)
      BY <1>1, <2>2
    <3>2. To(i) \in D
      BY <1>1, <1>2, <3>1
    <3>3. f[i] = F[<<i, f[To(i)]>>]
      <4> HIDE DEF F, base, next
      <4> QED
        BY <1>10, <3>1
    <3>4. <<i, f[To(i)]>> \in D \X A
      <4> HIDE DEF D
      <4> QED
        BY <1>10, <3>2
    <3>5. F[<<i, f[To(i)]>>] = Joined(P(i), f[To(i)])
      <4> HIDE DEF D
      <4> QED
        BY <2>2, <3>4
    <3> QED
      BY <2>2, <3>3, <3>5
  <2> QED
    BY <2>1, <2>2
<1> DEFINE Body(g, i) == IF i > Len(q) THEN [s |-> <<>>, ok |-> TRUE]
                         ELSE LET p    == Piece(q, i, special)
                                  rest == g[p.to]
                              IN  IF p.ok /\ rest.ok THEN [s |-> p.s \o rest.s, ok |-> TRUE] ELSE BadEscape
<1>12. \A g : \A i \in D : Body(g, i) = IF i > n THEN Told(<<>>) ELSE Joined(P(i), g[To(i)])
  BY Zenon DEF P, To, n, Joined, Told
<1>13. f = [i \in D |-> Body(f, i)]
  <2> HIDE DEF Body, D, base, next, F
  <2>1. \A i \in D : f[i] = Body(f, i)
    BY <1>11, <1>12
  <2>2. f = [i \in D |-> f[i]]
    BY <1>10
  <2> QED
    BY <2>1, <2>2
<1>14. f = [i \in 1..(Len(q) + 1) |-> Body(f, i)]
  BY <1>13 DEF n
<1>15. PICK w : w = Unescaped(q, special)
  OBVIOUS
<1>16. w = [i \in 1..(Len(q) + 1) |-> Body(w, i)]
  <2>1. \E g : g = [i \in 1..(Len(q) + 1) |-> Body(g, i)]
    BY <1>14
  <2> QED
    BY <1>15, <2>1, Zenon DEF Unescaped
<1>17. ASSUME NEW i \in D PROVE w[i] = IF i > n THEN Told(<<>>) ELSE Joined(P(i), w[To(i)])
  <2>1. w[i] = Body(w, i)
    <3> HIDE DEF Body
    <3> QED
      BY <1>16 DEF n
  <2> HIDE DEF Body, D
  <2> QED
    BY <1>12, <2>1
<1> HIDE DEF Body
<1>18. w[n + 1] = Told(<<>>) /\ \A i \in 1..n : w[i] = Joined(P(i), w[To(i)])
  <2>1. n + 1 \in D /\ n + 1 > n /\ \A i \in 1..n : i \in D /\ ~(i > n)
    BY <1>1
  <2> HIDE DEF D
  <2> QED
    BY <1>17, <2>1
<1> QED
  BY <1>15, <1>18, Zenon DEF P, To, n

(***************************************************************************)
(* scanString, one step at a time.                                         *)
(***************************************************************************)
Seen(s, quote, i, k) == IF CharAt(s, i) = quote THEN k + 1 ELSE 0
Stops(s, quote, triple, i, k) ==
  \/ i > Len(s)
  \/ CharAt(s, i) = "\n" /\ ~triple
  \/ CharAt(s, i) = quote /\ (~triple \/ Seen(s, quote, i, k) = 3)
StopsAs(s, quote, triple, i) ==
  IF i > Len(s) THEN [to |-> i, err |-> "unexpected EOF in string"]
  ELSE IF CharAt(s, i) = "\n" /\ ~triple THEN [to |-> i, err |-> "unexpected newline in string"]
  ELSE [to |-> i + 1, err |-> "none"]
GoesTo(s, quote, i, k) == <<IF CharAt(s, i) = "\\" THEN i + 2 ELSE i + 1, Seen(s, quote, i, k)>>
Positions(s) == (1..(Len(s) + 2)) \X (0..2)

LEMMA GoesOn ==
  ASSUME NEW s, Len(s) \in Nat, NEW quote, NEW triple \in BOOLEAN,
         NEW i \in 1..(Len(s) + 2), NEW k \in 0..2, ~Stops(s, quote, triple, i, k)
  PROVE  \E j \in 1..(Len(s) + 2), m \in 0..2 : j > i /\ GoesTo(s, quote, i, k) = <<j, m>>
<1>1. ~(i > Len(s)) /\ ~(CharAt(s, i) = quote /\ Seen(s, quote, i, k) = 3)
  BY Zenon DEF Stops
<1>2. PICK j : j = IF CharAt(s, i) = "\\" THEN i + 2 ELSE i + 1
  OBVIOUS
<1>3. j \in 1..(Len(s) + 2) /\ j > i
  BY <1>1, <1>2
<1>4. Seen(s, quote, i, k) \in 0..2
  BY <1>1 DEF Seen
<1>5. GoesTo(s, quote, i, k) = <<j, Seen(s, quote, i, k)>>
  BY <1>2 DEF GoesTo
<1> QED
  BY <1>3, <1>4, <1>5

LEMMA ScannedSteps ==
  ASSUME NEW s, Len(s) \in Nat, NEW quote, NEW triple \in BOOLEAN, NEW i \in 1..(Len(s) + 2), NEW k \in 0..2
  PROVE  Scanned(s, quote, triple)[<<i, k>>] =
           IF Stops(s, quote, triple, i, k) THEN StopsAs(s, quote, triple, i)
           ELSE Scanned(s, quote, triple)[GoesTo(s, quote, i, k)]
<1> DEFINE D == Positions(s)
           Ends(p) == Stops(s, quote, triple, p[1], p[2])
           Base(p) == StopsAs(s, quote, triple, p[1])
           To(p)   == GoesTo(s, quote, p[1], p[2])
           A       == {Base(p) : p \in D}
           Halts    == {p \in D : Ends(p)}
           base    == [p \in D |-> Base(p)]
           next    == [p \in D |-> IF p \in Halts THEN p ELSE To(p)]
           F       == [x \in D \X A |-> x[2]]
           rank    == [p \in D |-> (Len(s) + 2) - p[1]]
<1>1. ASSUME NEW p \in D, ~Ends(p) PROVE To(p) \in D /\ To(p)[1] > p[1]
  <2>1. PICK i0 \in 1..(Len(s) + 2), k0 \in 0..2 : p = <<i0, k0>>
    BY DEF Positions
  <2>2. ~Stops(s, quote, triple, i0, k0) /\ To(p) = GoesTo(s, quote, i0, k0) /\ p[1] = i0
    BY <1>1, <2>1
  <2>3. PICK j \in 1..(Len(s) + 2), m \in 0..2 : j > i0 /\ GoesTo(s, quote, i0, k0) = <<j, m>>
    BY <2>2, GoesOn
  <2> HIDE DEF To
  <2>4. To(p) = <<j, m>>
    BY <2>2, <2>3
  <2>5. To(p)[1] = j /\ To(p) \in D
    BY <2>4 DEF Positions
  <2> QED
    BY <2>2, <2>3, <2>5
<1>2. \A p \in D : p[1] \in 1..(Len(s) + 2)
  BY DEF Positions
<1> HIDE DEF Ends, Base, To, D
<1>3. base \in [D -> A] /\ F \in [D \X A -> A]
  OBVIOUS
<1>4. next \in [D -> D]
  <2>1. ASSUME NEW p \in D PROVE (IF p \in Halts THEN p ELSE To(p)) \in D
    BY <1>1
  <2> HIDE DEF Halts
  <2> QED
    BY <2>1
<1>5. rank \in [D -> Nat] /\ \A p \in D : rank[p] <= Len(s) + 2
  BY <1>2
<1>6. \A p \in D \ Halts : rank[next[p]] < rank[p]
  <2> TAKE p \in D \ Halts
  <2>1. p \in D /\ ~Ends(p)
    OBVIOUS
  <2>2. next[p] = To(p) /\ To(p) \in D /\ To(p)[1] > p[1]
    BY <1>1, <2>1
  <2>3. rank[p] = (Len(s) + 2) - p[1] /\ rank[To(p)] = (Len(s) + 2) - To(p)[1]
    BY <2>1, <2>2
  <2>4. p[1] \in Int /\ To(p)[1] \in Int
    BY <1>2, <2>1, <2>2
  <2> HIDE DEF next, rank, Halts
  <2> QED
    BY <2>2, <2>3, <2>4
<1>7. Len(s) + 2 \in Nat
  OBVIOUS
<1>8. PICK f : DescendsBy(f, D, A, Halts, base, next, F)
  <2> HIDE DEF A, Halts, base, next, F, rank
  <2>1. \A p \in D : rank[p] <= Len(s) + 2
    BY <1>5
  <2> QED
    BY <1>3, <1>4, <1>5, <1>6, <1>7, <2>1, Descent, ZenonT(30)
<1>9. f \in [D -> A] /\ \A p \in D : f[p] = IF p \in Halts THEN base[p] ELSE F[<<p, f[next[p]]>>]
  BY <1>8 DEF DescendsBy
<1>10. ASSUME NEW p \in D PROVE f[p] = IF Ends(p) THEN Base(p) ELSE f[To(p)]
  <2>1. CASE Ends(p)
    <3>1. p \in Halts /\ base[p] = Base(p)
      BY <2>1
    <3> HIDE DEF Halts, base
    <3> QED
      BY <1>9, <2>1, <3>1
  <2>2. CASE ~Ends(p)
    <3>1. p \notin Halts /\ next[p] = To(p) /\ To(p) \in D
      BY <1>1, <2>2
    <3>2. <<p, f[To(p)]>> \in D \X A
      <4> HIDE DEF A
      <4> QED
        BY <1>9, <3>1
    <3>3. F[<<p, f[To(p)]>>] = f[To(p)]
      <4> HIDE DEF A
      <4> QED
        BY <3>2
    <3>4. f[p] = F[<<p, f[To(p)]>>]
      <4> HIDE DEF Halts, base, F, next
      <4> QED
        BY <1>9, <3>1
    <3> QED
      BY <2>2, <3>3, <3>4
  <2> QED
    BY <2>1, <2>2
<1> DEFINE Body(g, p) == LET i1   == p[1]
                             c    == CharAt(s, i1)
                             seen == IF c = quote THEN p[2] + 1 ELSE 0
                         IN  IF i1 > Len(s) THEN [to |-> i1, err |-> "unexpected EOF in string"]
                             ELSE IF c = "\n" /\ ~triple THEN [to |-> i1, err |-> "unexpected newline in string"]
                             ELSE IF c = quote /\ (~triple \/ seen = 3) THEN [to |-> i1 + 1, err |-> "none"]
                             ELSE g[<<IF c = "\\" THEN i1 + 2 ELSE i1 + 1, seen>>]
<1>11. \A g, p : Body(g, p) = IF Ends(p) THEN Base(p) ELSE g[To(p)]
  BY Zenon DEF Ends, Base, To, Stops, StopsAs, GoesTo, Seen
<1>12. f = [p \in D |-> Body(f, p)]
  <2> HIDE DEF Body, A, base, next, F, Halts
  <2>1. \A p \in D : f[p] = Body(f, p)
    BY <1>10, <1>11
  <2>2. f = [p \in D |-> f[p]]
    BY <1>9
  <2> QED
    BY <2>1, <2>2
<1>13. f = [p \in (1..(Len(s) + 2)) \X (0..2) |-> Body(f, p)]
  BY <1>12 DEF D, Positions
<1>14. PICK w : w = Scanned(s, quote, triple)
  OBVIOUS
<1>15. w = [p \in (1..(Len(s) + 2)) \X (0..2) |-> Body(w, p)]
  <2>1. \E g : g = [p \in (1..(Len(s) + 2)) \X (0..2) |-> Body(g, p)]
    BY <1>13
  <2> QED
    BY <1>14, <2>1, Zenon DEF Scanned
<1>16. <<i, k>> \in (1..(Len(s) + 2)) \X (0..2)
  OBVIOUS
<1>17. w[<<i, k>>] = Body(w, <<i, k>>)
  <2> HIDE DEF Body
  <2> QED
    BY <1>15, <1>16
<1>18. w[<<i, k>>] = IF Ends(<<i, k>>) THEN Base(<<i, k>>) ELSE w[To(<<i, k>>)]
  <2> HIDE DEF Body
  <2> QED
    BY <1>11, <1>17
<1>19. <<i, k>>[1] = i /\ <<i, k>>[2] = k
  OBVIOUS
<1> QED
  BY <1>14, <1>18, <1>19, Zenon DEF Ends, Base, To

LEMMA ScannedMark ==
  ASSUME NEW s, Len(s) \in Nat, NEW triple \in BOOLEAN, NEW i \in 1..Len(s), CharAt(s, i) = s[i], NEW k \in 0..2
  PROVE  s[i] = "\"" /\ triple /\ k # 2 =>
           Scanned(s, "\"", triple)[<<i, k>>] = Scanned(s, "\"", triple)[<<i + 1, k + 1>>]
<1> DEFINE q == "\""
           w == Scanned(s, q, triple)
<1>1. i \in 1..(Len(s) + 2) /\ ~(i > Len(s))
  OBVIOUS
<1>2. w[<<i, k>>] = IF Stops(s, q, triple, i, k) THEN StopsAs(s, q, triple, i) ELSE w[GoesTo(s, q, i, k)]
  BY <1>1, ScannedSteps
<1>3. "\\" # "\n" /\ "\\" # "\"" /\ "\"" # "\n"
  OBVIOUS
<1>4. k # 2 => k + 1 # 3
  OBVIOUS
<1>5. ASSUME s[i] = "\"", triple, k # 2
      PROVE  ~Stops(s, q, triple, i, k) /\ GoesTo(s, q, i, k) = <<i + 1, k + 1>>
  BY <1>1, <1>3, <1>4, <1>5, Zenon DEF Stops, GoesTo, Seen
<1> QED
  BY <1>2, <1>5, Zenon

LEMMA ScannedCases ==
  ASSUME NEW s, Len(s) \in Nat, NEW triple \in BOOLEAN, NEW i \in 1..Len(s), CharAt(s, i) = s[i], NEW k \in 0..2
  PROVE  /\ s[i] = "\\" => Scanned(s, "\"", triple)[<<i, k>>] = Scanned(s, "\"", triple)[<<i + 2, 0>>]
         /\ s[i] \notin {"\\", "\""} /\ (s[i] = "\n" => triple) =>
              Scanned(s, "\"", triple)[<<i, k>>] = Scanned(s, "\"", triple)[<<i + 1, 0>>]
         /\ s[i] = "\"" /\ triple /\ k # 2 =>
              Scanned(s, "\"", triple)[<<i, k>>] = Scanned(s, "\"", triple)[<<i + 1, k + 1>>]
         /\ s[i] = "\"" /\ (~triple \/ k = 2) =>
              Scanned(s, "\"", triple)[<<i, k>>] = [to |-> i + 1, err |-> "none"]
<1> DEFINE q == "\""
           w == Scanned(s, q, triple)
<1>1. i \in 1..(Len(s) + 2) /\ ~(i > Len(s))
  OBVIOUS
<1>2. w[<<i, k>>] = IF Stops(s, q, triple, i, k) THEN StopsAs(s, q, triple, i) ELSE w[GoesTo(s, q, i, k)]
  BY <1>1, ScannedSteps
<1>3. "\\" # "\n" /\ "\\" # "\"" /\ "\"" # "\n"
  OBVIOUS
<1>4. ASSUME s[i] = "\\" PROVE ~Stops(s, q, triple, i, k) /\ GoesTo(s, q, i, k) = <<i + 2, 0>>
  BY <1>1, <1>3, <1>4, Zenon DEF Stops, GoesTo, Seen
<1>5. ASSUME s[i] \notin {"\\", "\""}, s[i] = "\n" => triple
      PROVE  ~Stops(s, q, triple, i, k) /\ GoesTo(s, q, i, k) = <<i + 1, 0>>
  BY <1>1, <1>3, <1>5, Zenon DEF Stops, GoesTo, Seen
<1>6. ASSUME s[i] = "\"", triple, k # 2 PROVE w[<<i, k>>] = w[<<i + 1, k + 1>>]
  BY <1>6, ScannedMark, Zenon
<1>7. ASSUME s[i] = "\"", ~triple \/ k = 2
      PROVE  Stops(s, q, triple, i, k) /\ StopsAs(s, q, triple, i) = [to |-> i + 1, err |-> "none"]
  <2>1. k = 2 => k + 1 = 3
    OBVIOUS
  <2> QED
    BY <1>1, <1>3, <1>7, <2>1, Zenon DEF Stops, StopsAs, Seen
<1> QED
  BY <1>2, <1>4, <1>5, <1>6, <1>7, Zenon

(***************************************************************************)
(* What quote writes at a position is one of five things.                  *)
(***************************************************************************)
\* A character as it is.
PlainAt(u, triple, i) ==
  /\ Written(u, triple)[i] = <<u[i]>> \o Written(u, triple)[i + 1]
  /\ u[i] \notin {"\\", "CR"} /\ (u[i] = "\n" => triple) /\ (u[i] = "\"" => triple /\ Other(u, i + 1))
\* Two quotes, which another character follows.
TwoQuotesAt(u, triple, i) ==
  /\ triple /\ i + 1 \in 1..Len(u) /\ u[i] = "\"" /\ u[i + 1] = "\"" /\ Other(u, i + 2)
  /\ Written(u, triple)[i] = <<u[i], u[i + 1]>> \o Written(u, triple)[i + 2]
\* A backslash that begins no escape, with what follows it.
BackslashAt(u, triple, i) ==
  /\ i + 1 \in 1..Len(u) /\ u[i] = "\\" /\ u[i + 1] \in NotEsc
  /\ Written(u, triple)[i] = <<u[i], u[i + 1]>> \o Written(u, triple)[i + 2]
\* A letter, or three octal digits, after a backslash.
LetterAt(u, triple, i, l) ==
  /\ l \in DOMAIN Escapes /\ Escapes[l] = u[i]
  /\ Written(u, triple)[i] = <<"\\", l>> \o Written(u, triple)[i + 1]
OctalAt(u, triple, i, d1, d2, d3) ==
  /\ u[i] \in DOMAIN Code /\ 64 * d1 + 8 * d2 + d3 = Code[u[i]]
  /\ Written(u, triple)[i] = <<"\\", Digit[d1], Digit[d2], Digit[d3]>> \o Written(u, triple)[i + 1]

LEMMA SubSeqOne ==
  ASSUME NEW S, NEW u \in Seq(S), NEW i \in 1..Len(u)
  PROVE  SubSeq(u, i, i + 1 - 1) = <<u[i]>>
<1>1. Len(u) \in Nat /\ u[i] \in S /\ i + 1 - 1 = i
  BY LenProperties, ElementOfSeq
<1>2. \A j \in i..i : u[j] \in S
  BY <1>1
<1>3. /\ SubSeq(u, i, i) \in Seq(S) /\ Len(SubSeq(u, i, i)) = 1
      /\ \A j \in 1..1 : SubSeq(u, i, i)[j] = u[i + j - 1]
  BY <1>2, SubSeqProperties
<1>4. PICK w : w = <<u[i]>>
  OBVIOUS
<1>5. w \in Seq(S) /\ Len(w) = 1 /\ w[1] = u[i]
  BY <1>1, <1>4
<1>6. \A j \in 1..1 : SubSeq(u, i, i)[j] = w[j]
  <2> TAKE j \in 1..1
  <2>1. j = 1 /\ i + j - 1 = i
    OBVIOUS
  <2> QED
    BY <1>3, <1>5, <2>1
<1>7. SubSeq(u, i, i) = w
  BY <1>3, <1>5, <1>6, SeqEqual
<1> QED
  BY <1>1, <1>4, <1>7

LEMMA SubSeqTwo ==
  ASSUME NEW S, NEW u \in Seq(S), NEW i \in 1..Len(u), i + 1 \in 1..Len(u)
  PROVE  SubSeq(u, i, i + 2 - 1) = <<u[i], u[i + 1]>>
<1>1. Len(u) \in Nat /\ u[i] \in S /\ u[i + 1] \in S /\ i + 2 - 1 = i + 1
  BY LenProperties, ElementOfSeq
<1>2. \A j \in i..(i + 1) : u[j] \in S
  <2> TAKE j \in i..(i + 1)
  <2>1. j = i \/ j = i + 1
    OBVIOUS
  <2> QED
    BY <1>1, <2>1
<1>0. i <= i + 1 /\ (i + 1) - i + 1 = 2 /\ i + 1 \in Int
  OBVIOUS
<1>3. /\ SubSeq(u, i, i + 1) \in Seq(S) /\ Len(SubSeq(u, i, i + 1)) = 2
      /\ \A j \in 1..2 : SubSeq(u, i, i + 1)[j] = u[i + j - 1]
  BY <1>0, <1>2, SubSeqProperties
<1>4. PICK w : w = <<u[i], u[i + 1]>>
  OBVIOUS
<1>5. w \in Seq(S) /\ Len(w) = 2 /\ w[1] = u[i] /\ w[2] = u[i + 1]
  BY <1>1, <1>4
<1>6. \A j \in 1..2 : SubSeq(u, i, i + 1)[j] = w[j]
  <2> TAKE j \in 1..2
  <2>1. CASE j = 1
    <3>1. i + j - 1 = i
      BY <2>1
    <3> QED
      BY <1>3, <1>5, <2>1, <3>1
  <2>2. CASE j = 2
    <3>1. i + j - 1 = i + 1
      BY <2>2
    <3> QED
      BY <1>3, <1>5, <2>2, <3>1
  <2> QED
    BY <2>1, <2>2
<1>7. SubSeq(u, i, i + 1) = w
  BY <1>3, <1>5, <1>6, SeqEqual
<1> QED
  BY <1>1, <1>4, <1>7

LEMMA WrittenCases ==
  ASSUME NEW S, EOFc \notin S, NEW u \in Seq(S), NEW triple \in BOOLEAN, NEW i \in 1..Len(u)
  PROVE  \/ PlainAt(u, triple, i) \/ TwoQuotesAt(u, triple, i) \/ BackslashAt(u, triple, i)
         \/ \E l \in DOMAIN Escapes : LetterAt(u, triple, i, l)
         \/ \E d1 \in 0..7, d2 \in 0..7, d3 \in 0..7 : OctalAt(u, triple, i, d1, d2, d3)
<1> DEFINE c == u[i]
           d == CharAt(u, i + 1)
           k == Passed(u, i, triple)
           b == Written(u, triple)
<1>1. Len(u) \in Nat /\ DOMAIN u = 1..Len(u)
  BY LenProperties
<1>2. b[i] = WrittenAt(u, i, triple) \o b[WrittenTo(u, i, triple)]
  BY WrittenSteps
<1>3. ASSUME k = 1 PROVE b[i] = <<c>> \o b[i + 1]
  <2>1. WrittenAt(u, i, triple) = SubSeq(u, i, i + 1 - 1) /\ WrittenTo(u, i, triple) = i + 1
    BY <1>3 DEF WrittenAt, WrittenTo
  <2> QED
    BY <1>2, <2>1, SubSeqOne
<1>4. ASSUME k = 2, i + 1 \in 1..Len(u) PROVE b[i] = <<c, u[i + 1]>> \o b[i + 2]
  <2>1. WrittenAt(u, i, triple) = SubSeq(u, i, i + 2 - 1) /\ WrittenTo(u, i, triple) = i + 2
    BY <1>4 DEF WrittenAt, WrittenTo
  <2> QED
    BY <1>2, <1>4, <2>1, SubSeqTwo
<1>5. ASSUME k = 0 PROVE b[i] = Escape(c) \o b[i + 1]
  <2>1. WrittenAt(u, i, triple) = Escape(c) /\ WrittenTo(u, i, triple) = i + 1
    BY <1>5 DEF WrittenAt, WrittenTo
  <2> QED
    BY <1>2, <2>1
<1>6. /\ i + 1 \in 1..Len(u) => d = u[i + 1]
      /\ i + 1 \notin 1..Len(u) => d = EOFc
  BY <1>1 DEF CharAt
<1>7. EOFc # "\"" /\ EOFc \notin NotEsc
  BY DEF EOFc, NotEsc
<1>8. "'" # "\\" /\ "'" # "CR" /\ "'" # "\n" /\ "'" # "\"" /\ "\n" # "\\" /\ "\n" # "CR" /\ "\n" # "\""
      /\ "\"" # "\\" /\ "\"" # "CR"
  OBVIOUS
<1>9. CASE c = "\"" /\ triple /\ (Other(u, i + 1) \/ Other(u, i + 2))
  <2>1. CASE d = "\""
    <3>1. k = 2
      BY <1>9, <2>1, Zenon DEF Passed
    <3>2. i + 1 \in 1..Len(u) /\ u[i + 1] = "\""
      BY <1>6, <1>7, <2>1, Zenon
    <3>3. Other(u, i + 2)
      BY <1>9, <3>2, Zenon DEF Other
    <3>4. b[i] = <<c, u[i + 1]>> \o b[i + 2]
      BY <1>4, <3>1, <3>2
    <3>5. TwoQuotesAt(u, triple, i)
      BY <1>9, <3>2, <3>3, <3>4, Zenon DEF TwoQuotesAt
    <3> QED
      BY <3>5, Zenon
  <2>2. CASE d # "\""
    <3>1. k = 1
      BY <1>9, <2>2, Zenon DEF Passed
    <3>2. i + 2 \in 1..Len(u) => i + 1 \in 1..Len(u)
      BY <1>1
    <3>3. Other(u, i + 1)
      BY <1>1, <1>6, <1>9, <2>2, <3>2, Zenon DEF Other
    <3>4. b[i] = <<c>> \o b[i + 1]
      BY <1>3, <3>1
    <3>5. c \notin {"\\", "CR"} /\ c # "\n"
      BY <1>8, <1>9
    <3>6. PlainAt(u, triple, i)
      BY <1>9, <3>3, <3>4, <3>5, Zenon DEF PlainAt
    <3> QED
      BY <3>6, Zenon
  <2> QED
    BY <2>1, <2>2, Zenon
<1>10. CASE /\ ~(c = "\"" /\ triple /\ (Other(u, i + 1) \/ Other(u, i + 2)))
            /\ (triple /\ c = "\n") \/ c = "'"
  <2>1. k = 1
    BY <1>10, Zenon DEF Passed
  <2>2. b[i] = <<c>> \o b[i + 1]
    BY <1>3, <2>1
  <2>3. c \notin {"\\", "CR"} /\ c # "\"" /\ (c = "\n" => triple)
    BY <1>8, <1>10, Zenon
  <2>4. PlainAt(u, triple, i)
    BY <2>2, <2>3, Zenon DEF PlainAt
  <2> QED
    BY <2>4, Zenon
<1>11. CASE /\ ~(c = "\"" /\ triple /\ (Other(u, i + 1) \/ Other(u, i + 2)))
            /\ ~((triple /\ c = "\n") \/ c = "'")
            /\ c = "\\" /\ d \in NotEsc
  <2>1. k = 2
    BY <1>11, Zenon DEF Passed
  <2>2. i + 1 \in 1..Len(u) /\ u[i + 1] \in NotEsc
    BY <1>6, <1>7, <1>11, Zenon
  <2>3. b[i] = <<c, u[i + 1]>> \o b[i + 2]
    BY <1>4, <2>1, <2>2
  <2>4. BackslashAt(u, triple, i)
    BY <1>11, <2>2, <2>3, Zenon DEF BackslashAt
  <2> QED
    BY <2>4, Zenon
<1>12. CASE /\ ~(c = "\"" /\ triple /\ (Other(u, i + 1) \/ Other(u, i + 2)))
            /\ ~((triple /\ c = "\n") \/ c = "'")
            /\ ~(c = "\\" /\ d \in NotEsc)
            /\ c \in Escapees \/ c \in DOMAIN Code
  <2>1. k = 0
    BY <1>12, Zenon DEF Passed
  <2>2. b[i] = Escape(c) \o b[i + 1]
    BY <1>5, <2>1
  <2>3. c \in Escapees \/ c \in DOMAIN Code
    BY <1>12, Zenon
  <2>4. \/ \E l \in DOMAIN Escapes : Escape(c) = <<"\\", l>> /\ Escapes[l] = c
        \/ /\ c \in DOMAIN Code
           /\ \E d1 \in 0..7, d2 \in 0..7, d3 \in 0..7 :
                /\ Escape(c) = <<"\\", Digit[d1], Digit[d2], Digit[d3]>>
                /\ 64 * d1 + 8 * d2 + d3 = Code[c]
    BY <2>3, EscapeWritten, Zenon
  <2>5. ASSUME NEW l \in DOMAIN Escapes, Escape(c) = <<"\\", l>>, Escapes[l] = c PROVE LetterAt(u, triple, i, l)
    BY <2>2, <2>5, Zenon DEF LetterAt
  <2>6. ASSUME NEW d1 \in 0..7, NEW d2 \in 0..7, NEW d3 \in 0..7, c \in DOMAIN Code,
               Escape(c) = <<"\\", Digit[d1], Digit[d2], Digit[d3]>>, 64 * d1 + 8 * d2 + d3 = Code[c]
        PROVE  OctalAt(u, triple, i, d1, d2, d3)
    BY <2>2, <2>6, Zenon DEF OctalAt
  <2> QED
    BY <2>4, <2>5, <2>6, Zenon
<1>13. CASE /\ ~(c = "\"" /\ triple /\ (Other(u, i + 1) \/ Other(u, i + 2)))
            /\ ~((triple /\ c = "\n") \/ c = "'")
            /\ ~(c = "\\" /\ d \in NotEsc)
            /\ ~(c \in Escapees \/ c \in DOMAIN Code)
  <2>1. k = 1
    BY <1>13, Zenon DEF Passed
  <2>2. b[i] = <<c>> \o b[i + 1]
    BY <1>3, <2>1
  <2>3. c \notin Escapees
    BY <1>13, Zenon
  <2>4. c \notin {"\\", "CR"} /\ c # "\"" /\ c # "\n"
    BY <2>3, EscapeFacts
  <2>5. PlainAt(u, triple, i)
    BY <2>2, <2>4, Zenon DEF PlainAt
  <2> QED
    BY <2>5, Zenon
<1> QED
  BY <1>9, <1>10, <1>11, <1>12, <1>13, Zenon

(***************************************************************************)
(* unquote gives back what quote was given.                                *)
(***************************************************************************)
Specials == {"CR", "\\"}

LEMMA PiecePlain ==
  ASSUME NEW q, NEW p, q[p] \notin {"\\", "CR"}
  PROVE  Piece(q, p, Specials) = Read(<<q[p]>>, p + 1)
BY DEF Piece, Specials

LEMMA PieceEscape ==
  ASSUME NEW q, NEW p, q[p] = "\\"
  PROVE  Piece(q, p, Specials) = EscapeAt(q, p)
<1>1. q[p] \in Specials /\ q[p] # "CR"
  BY DEF Specials
<1> QED
  BY <1>1, Zenon DEF Piece

LEMMA PieceLetter ==
  ASSUME NEW q, Len(q) \in Nat, NEW p \in 1..Len(q), p + 1 \in 1..Len(q), q[p] = "\\", q[p + 1] \in DOMAIN Escapes
  PROVE  Piece(q, p, Specials) = Read(<<Escapes[q[p + 1]]>>, p + 2)
<1>1. p # Len(q)
  OBVIOUS
<1>2. q[p + 1] # "\n"
  BY EscapeFacts
<1> QED
  BY <1>1, <1>2, PieceEscape, Zenon DEF EscapeAt

LEMMA PieceBackslash ==
  ASSUME NEW q, Len(q) \in Nat, NEW p \in 1..Len(q), p + 1 \in 1..Len(q), q[p] = "\\", q[p + 1] \in NotEsc
  PROVE  Piece(q, p, Specials) = Read(<<q[p], q[p + 1]>>, p + 2)
<1>1. p # Len(q)
  OBVIOUS
<1>2. q[p + 1] \notin DOMAIN Escapes
  BY EscapeFacts
<1>3. q[p + 1] # "\n" /\ q[p + 1] # "x" /\ q[p + 1] \notin Octal
  BY DEF NotEsc, Octal, Decimal
<1> QED
  BY <1>1, <1>2, <1>3, PieceEscape, Zenon DEF EscapeAt

LEMMA PieceOctal ==
  ASSUME NEW S, NEW q \in Seq(S), NEW p \in 1..Len(q),
         p + 1 \in 1..Len(q), p + 2 \in 1..Len(q), p + 3 \in 1..Len(q),
         NEW d1 \in 0..7, NEW d2 \in 0..7, NEW d3 \in 0..7,
         q[p] = "\\", q[p + 1] = Digit[d1], q[p + 2] = Digit[d2], q[p + 3] = Digit[d3],
         NEW c \in DOMAIN Code, 64 * d1 + 8 * d2 + d3 = Code[c]
  PROVE  Piece(q, p, Specials) = Read(<<c>>, p + 4)
<1>1. Len(q) \in Nat /\ p # Len(q)
  BY LenProperties
<1>2. /\ q[p + 1] \in Octal /\ q[p + 2] \in Octal /\ q[p + 3] \in Octal
      /\ DigitValue[q[p + 1]] = d1 /\ DigitValue[q[p + 2]] = d2 /\ DigitValue[q[p + 3]] = d3
  BY DigitFacts
<1>3. CharAt(q, p + 2) = q[p + 2] /\ CharAt(q, p + 3) = q[p + 3]
  BY CharThere
<1>4. OctalEnd(q, p) = p + 4
  BY <1>2, <1>3, Zenon DEF OctalEnd
<1>5. PICK ds : ds = SubSeq(q, p + 1, p + 3)
  OBVIOUS
<1>6. \A j \in (p + 1)..(p + 3) : q[j] \in S
  <2> TAKE j \in (p + 1)..(p + 3)
  <2>1. j \in 1..Len(q)
    BY <1>1
  <2> QED
    BY <2>1, ElementOfSeq
<1>7. p + 1 <= p + 3 /\ (p + 3) - (p + 1) + 1 = 3 /\ p + 1 \in Int /\ p + 3 \in Int
  OBVIOUS
<1>8. ds \in Seq(S) /\ Len(ds) = 3 /\ \A j \in 1..3 : ds[j] = q[(p + 1) + j - 1]
  BY <1>5, <1>6, <1>7, SubSeqProperties
<1>9. 1 \in 1..3 /\ 2 \in 1..3 /\ 3 \in 1..3 /\ (p + 1) + 1 - 1 = p + 1 /\ (p + 1) + 2 - 1 = p + 2
      /\ (p + 1) + 3 - 1 = p + 3
  OBVIOUS
<1>10. ds[1] = q[p + 1] /\ ds[2] = q[p + 2] /\ ds[3] = q[p + 3]
  BY <1>8, <1>9
<1>11. DOMAIN ds = 1..3
  BY <1>8, LenProperties
<1>12. OctalValue(ds) = 64 * d1 + 8 * d2 + d3
  <2> DEFINE v == [k \in DOMAIN ds |-> DigitValue[ds[k]]]
  <2>1. v[1] = d1 /\ v[2] = d2 /\ v[3] = d3
    BY <1>2, <1>9, <1>10, <1>11
  <2>2. OctalValue(ds) = 64 * v[1] + 8 * v[2] + v[3]
    <3> HIDE DEF v
    <3>1. Len(ds) # 1 /\ Len(ds) # 2 /\ Len(ds) = 3
      BY <1>8
    <3> QED
      BY <3>1 DEF OctalValue, v
  <2> HIDE DEF v
  <2> QED
    BY <2>1, <2>2
<1>13. PICK v : v = OctalValue(ds)
  OBVIOUS
<1>14. v = Code[c] /\ v \in 0..255 /\ ~(v >= 256)
  <2>1. PICK x : x = Code[c]
    OBVIOUS
  <2>2. x \in 0..255
    BY <2>1, CodeAssumption, Zenon DEF CodeAssumption
  <2>3. v = 64 * d1 + 8 * d2 + d3
    BY <1>12, <1>13
  <2>4. v = x
    BY <2>1, <2>3
  <2>5. ~(x >= 256)
    BY <2>2
  <2> QED
    BY <2>1, <2>2, <2>4, <2>5, Zenon
<1>15. Byte(v) = c
  BY <1>14, ByteFacts
<1>16. p + 4 - 1 = p + 3
  OBVIOUS
<1>17. OctalValue(SubSeq(q, p + 1, OctalEnd(q, p) - 1)) = v
  BY <1>4, <1>5, <1>13, <1>16
<1>18. q[p + 1] # "\n" /\ q[p + 1] \notin DOMAIN Escapes
  <2>1. "\n" \notin Octal
    BY DEF Octal, Decimal
  <2> QED
    BY <1>2, <2>1, EscapeFacts
<1>19. EscapeAt(q, p) = Read(<<Byte(v)>>, OctalEnd(q, p))
  BY <1>1, <1>2, <1>14, <1>17, <1>18, Zenon DEF EscapeAt
<1> QED
  BY <1>4, <1>15, <1>19, PieceEscape

LEMMA SuffixFacts ==
  ASSUME NEW S, NEW u \in Seq(S), NEW i \in 1..Len(u)
  PROVE  /\ <<u[i]>> \o SubSeq(u, i + 1, Len(u)) = SubSeq(u, i, Len(u))
         /\ i + 1 \in 1..Len(u) => <<u[i], u[i + 1]>> \o SubSeq(u, i + 2, Len(u)) = SubSeq(u, i, Len(u))
<1>1. Len(u) \in Nat
  BY LenProperties
<1>2. Len(u) \in i..Len(u)
  BY <1>1
<1>3. SubSeq(u, i, Len(u)) = <<u[i]>> \o SubSeq(u, i + 1, Len(u))
  BY <1>2, SubSeqRecursiveFirst
<1>4. ASSUME i + 1 \in 1..Len(u) PROVE <<u[i], u[i + 1]>> \o SubSeq(u, i + 2, Len(u)) = SubSeq(u, i, Len(u))
  <2>1. SubSeq(u, i, i + 1) = <<u[i], u[i + 1]>>
    <3>1. i + 2 - 1 = i + 1
      OBVIOUS
    <3> QED
      BY <1>4, <3>1, SubSeqTwo
  <2>2. /\ i \in 1..(Len(u) + 1) /\ i + 1 \in (i - 1)..Len(u) /\ Len(u) \in (i + 1)..Len(u)
        /\ (i + 1) + 1 = i + 2
    BY <1>1, <1>4
  <2>3. SubSeq(u, i, i + 1) \o SubSeq(u, (i + 1) + 1, Len(u)) = SubSeq(u, i, Len(u))
    BY <2>2, ConcatAdjacentSubSeq
  <2> QED
    BY <2>1, <2>2, <2>3
<1> QED
  BY <1>3, <1>4

\* Where the text from p on is what quote writes for u from i on, unquote reads u from i on.
LEMMA UnescapedWritten ==
  ASSUME NEW S, EOFc \notin S, NEW u \in Seq(S), NEW triple \in BOOLEAN, NEW q \in Seq(Alphabet(S))
  PROVE  \A i \in 1..(Len(u) + 1) : \A p : Rest(q, p, Written(u, triple)[i]) =>
           Unescaped(q, Specials)[p] = Told(SubSeq(u, i, Len(u)))
<1> DEFINE n == Len(u)
           b == Written(u, triple)
           v == Unescaped(q, Specials)
           Tells(i) == \A p : Rest(q, p, b[i]) => v[p] = Told(SubSeq(u, i, n))
           T == {i \in 1..(n + 1) : Tells(i)}
<1>1. n \in Nat /\ Len(q) \in Nat /\ n + 1 \in Nat
  BY LenProperties
<1>2. /\ \A i \in 1..(n + 1) : b[i] \in Seq(Alphabet(S))
      /\ b[n + 1] = <<>>
  BY WrittenSteps
<1>3. v[Len(q) + 1] = Told(<<>>)
  BY UnescapedSteps
<1>4. \A p \in 1..Len(q) : v[p] = Joined(Piece(q, p, Specials), v[Piece(q, p, Specials).to])
  BY UnescapedSteps
<1>5. ASSUME NEW p \in 1..Len(q), NEW s, NEW to, Piece(q, p, Specials) = Read(s, to), NEW r, v[to] = Told(r)
      PROVE  v[p] = Told(s \o r)
  <2>1. PICK x : x = Piece(q, p, Specials)
    OBVIOUS
  <2>2. x = Read(s, to) /\ x.to = to
    BY <1>5, <2>1, JoinedRead
  <2>3. v[p] = Joined(x, v[x.to])
    BY <1>4, <2>1
  <2>4. v[p] = Joined(Read(s, to), Told(r))
    BY <1>5, <2>2, <2>3
  <2> QED
    BY <2>4, JoinedRead
<1>6. Alphabet(S) = Alphabet(S) /\ S \subseteq Alphabet(S) /\ "\\" \in Alphabet(S) /\ DOMAIN Escapes \subseteq Alphabet(S)
      /\ Octal \subseteq Alphabet(S)
  BY AlphabetFacts
<1> HIDE DEF b, v
<1>7. Tells(n + 1)
  <2> SUFFICES ASSUME NEW p, Rest(q, p, b[n + 1]) PROVE v[p] = Told(SubSeq(u, n + 1, n))
    OBVIOUS
  <2>1. SubSeq(u, n + 1, n) = <<>>
    BY <1>1, SubSeqEmpty
  <2>2. Rest(q, p, <<>>) /\ Len(<<>>) = 0
    BY <1>2
  <2>3. p = Len(q) + 1
    BY <1>1, <2>2 DEF Rest
  <2> QED
    BY <1>3, <2>1, <2>3
<1>8. ASSUME NEW i \in 1..n, \A j \in (i + 1)..(n + 1) : Tells(j) PROVE Tells(i)
  <2> SUFFICES ASSUME NEW p, Rest(q, p, b[i]) PROVE v[p] = Told(SubSeq(u, i, n))
    OBVIOUS
  <2>1. u[i] \in S /\ u[i] \in Alphabet(S) /\ i + 1 \in 1..(n + 1) /\ i + 1 \in (i + 1)..(n + 1)
    BY <1>1, <1>6, ElementOfSeq
  <2>2. b[i + 1] \in Seq(Alphabet(S))
    BY <1>2, <2>1
  <2>3. Tells(i + 1)
    BY <1>8, <2>1
  <2>4. ASSUME i + 1 \in 1..n
        PROVE  u[i + 1] \in Alphabet(S) /\ b[i + 2] \in Seq(Alphabet(S)) /\ Tells(i + 2)
    <3>1. i + 2 \in 1..(n + 1) /\ i + 2 \in (i + 1)..(n + 1)
      BY <1>1, <2>4
    <3>2. u[i + 1] \in S
      BY <2>4, ElementOfSeq
    <3> QED
      BY <1>2, <1>6, <1>8, <3>1, <3>2
  <2> HIDE DEF Tells
  <2>5. CASE PlainAt(u, triple, i)
    <3>1. b[i] = <<u[i]>> \o b[i + 1] /\ u[i] \notin {"\\", "CR"}
      BY <2>5, Zenon DEF PlainAt, b
    <3>2. p \in 1..Len(q) /\ q[p] = u[i] /\ Rest(q, p + 1, b[i + 1])
      BY <1>1, <2>1, <2>2, <3>1, RestOne
    <3>3. v[p + 1] = Told(SubSeq(u, i + 1, n))
      BY <2>3, <3>2 DEF Tells
    <3>4. Piece(q, p, Specials) = Read(<<u[i]>>, p + 1)
      BY <3>1, <3>2, PiecePlain
    <3>5. v[p] = Told(<<u[i]>> \o SubSeq(u, i + 1, n))
      BY <1>5, <3>2, <3>3, <3>4
    <3> QED
      BY <3>5, SuffixFacts
  <2>6. CASE TwoQuotesAt(u, triple, i)
    <3>1. b[i] = <<u[i], u[i + 1]>> \o b[i + 2] /\ u[i] = "\"" /\ u[i + 1] = "\"" /\ i + 1 \in 1..n
      BY <2>6, Zenon DEF TwoQuotesAt, b
    <3>2. u[i + 1] \in Alphabet(S) /\ b[i + 2] \in Seq(Alphabet(S)) /\ Tells(i + 2)
      BY <2>4, <3>1
    <3>3. /\ p \in 1..Len(q) /\ p + 1 \in 1..Len(q) /\ q[p] = u[i] /\ q[p + 1] = u[i + 1]
          /\ Rest(q, p + 2, b[i + 2])
      <4>1. PICK c, d : c = u[i] /\ d = u[i + 1]
        OBVIOUS
      <4>2. Rest(q, p, <<c, d>> \o b[i + 2])
        BY <3>1, <4>1
      <4>3. c \in Alphabet(S) /\ d \in Alphabet(S) /\ b[i + 2] \in Seq(Alphabet(S))
        BY <2>1, <3>2, <4>1
      <4>4. p \in 1..Len(q) /\ p + 1 \in 1..Len(q) /\ q[p] = c /\ q[p + 1] = d /\ Rest(q, p + 2, b[i + 2])
        BY <1>1, <4>2, <4>3, RestTwo
      <4> QED
        BY <4>1, <4>4, Zenon
    <3>4. v[p + 2] = Told(SubSeq(u, i + 2, n))
      BY <3>2, <3>3 DEF Tells
    <3>5. u[i] \notin {"\\", "CR"} /\ u[i + 1] \notin {"\\", "CR"}
      BY <3>1
    <3>6. Piece(q, p, Specials) = Read(<<u[i]>>, p + 1) /\ Piece(q, p + 1, Specials) = Read(<<u[i + 1]>>, p + 2)
      <4>1. (p + 1) + 1 = p + 2
        BY <3>3
      <4> QED
        BY <3>3, <3>5, <4>1, PiecePlain
    <3>7. v[p + 1] = Told(<<u[i + 1]>> \o SubSeq(u, i + 2, n))
      BY <1>5, <3>3, <3>4, <3>6
    <3>8. <<u[i + 1]>> \o SubSeq(u, i + 2, n) = SubSeq(u, i + 1, n)
      <4>1. (i + 1) + 1 = i + 2
        OBVIOUS
      <4> QED
        BY <3>1, <4>1, SuffixFacts
    <3>9. v[p] = Told(<<u[i]>> \o SubSeq(u, i + 1, n))
      <4>1. v[p + 1] = Told(SubSeq(u, i + 1, n))
        BY <3>7, <3>8
      <4> QED
        BY <1>5, <3>3, <3>6, <4>1
    <3> QED
      BY <3>9, SuffixFacts
  <2>7. CASE BackslashAt(u, triple, i)
    <3>1. b[i] = <<u[i], u[i + 1]>> \o b[i + 2] /\ u[i] = "\\" /\ u[i + 1] \in NotEsc /\ i + 1 \in 1..n
      BY <2>7, Zenon DEF BackslashAt, b
    <3>2. u[i + 1] \in Alphabet(S) /\ b[i + 2] \in Seq(Alphabet(S)) /\ Tells(i + 2)
      BY <2>4, <3>1
    <3>3. /\ p \in 1..Len(q) /\ p + 1 \in 1..Len(q) /\ q[p] = u[i] /\ q[p + 1] = u[i + 1]
          /\ Rest(q, p + 2, b[i + 2])
      <4>1. PICK c, d : c = u[i] /\ d = u[i + 1]
        OBVIOUS
      <4>2. Rest(q, p, <<c, d>> \o b[i + 2])
        BY <3>1, <4>1
      <4>3. c \in Alphabet(S) /\ d \in Alphabet(S) /\ b[i + 2] \in Seq(Alphabet(S))
        BY <2>1, <3>2, <4>1
      <4>4. p \in 1..Len(q) /\ p + 1 \in 1..Len(q) /\ q[p] = c /\ q[p + 1] = d /\ Rest(q, p + 2, b[i + 2])
        BY <1>1, <4>2, <4>3, RestTwo
      <4> QED
        BY <4>1, <4>4, Zenon
    <3>4. v[p + 2] = Told(SubSeq(u, i + 2, n))
      BY <3>2, <3>3 DEF Tells
    <3>5. Piece(q, p, Specials) = Read(<<u[i], u[i + 1]>>, p + 2)
      BY <1>1, <3>1, <3>3, PieceBackslash
    <3>6. v[p] = Told(<<u[i], u[i + 1]>> \o SubSeq(u, i + 2, n))
      BY <1>5, <3>3, <3>4, <3>5
    <3> QED
      BY <3>1, <3>6, SuffixFacts
  <2>8. ASSUME NEW l \in DOMAIN Escapes, LetterAt(u, triple, i, l) PROVE v[p] = Told(SubSeq(u, i, n))
    <3>1. b[i] = <<"\\", l>> \o b[i + 1] /\ Escapes[l] = u[i]
      BY <2>8, Zenon DEF LetterAt, b
    <3>2. l \in Alphabet(S)
      BY <1>6
    <3>3. PICK bs : bs = "\\"
      OBVIOUS
    <3>4. bs \in Alphabet(S) /\ b[i] = <<bs, l>> \o b[i + 1]
      BY <1>6, <3>1, <3>3
    <3>5. /\ p \in 1..Len(q) /\ p + 1 \in 1..Len(q) /\ q[p] = bs /\ q[p + 1] = l
          /\ Rest(q, p + 2, b[i + 1])
      <4>1. PICK A : A = Alphabet(S)
        BY Zenon
      <4>2. bs \in A /\ l \in A /\ b[i + 1] \in Seq(A)
        BY <2>2, <3>2, <3>4, <4>1, Zenon
      <4>3. Rest(q, p, <<bs, l>> \o b[i + 1])
        BY <2>2, <3>4, Zenon
      <4> QED
        BY <1>1, <4>2, <4>3, RestTwo
    <3>6. v[p + 2] = Told(SubSeq(u, i + 1, n))
      BY <2>3, <3>5 DEF Tells
    <3>7. Piece(q, p, Specials) = Read(<<u[i]>>, p + 2)
      BY <1>1, <3>1, <3>3, <3>5, PieceLetter
    <3>8. v[p] = Told(<<u[i]>> \o SubSeq(u, i + 1, n))
      BY <1>5, <3>5, <3>6, <3>7
    <3> QED
      BY <3>8, SuffixFacts
  <2>9. ASSUME NEW d1 \in 0..7, NEW d2 \in 0..7, NEW d3 \in 0..7, OctalAt(u, triple, i, d1, d2, d3)
        PROVE  v[p] = Told(SubSeq(u, i, n))
    <3>1. b[i] = <<"\\", Digit[d1], Digit[d2], Digit[d3]>> \o b[i + 1]
      BY <2>9, Zenon DEF OctalAt, b
    <3>2. u[i] \in DOMAIN Code /\ 64 * d1 + 8 * d2 + d3 = Code[u[i]]
      BY <2>9, Zenon DEF OctalAt
    <3>3. Digit[d1] \in Alphabet(S) /\ Digit[d2] \in Alphabet(S) /\ Digit[d3] \in Alphabet(S)
      BY <1>6, DigitFacts
    <3>4. PICK bs, e1, e2, e3 : bs = "\\" /\ e1 = Digit[d1] /\ e2 = Digit[d2] /\ e3 = Digit[d3]
      OBVIOUS
    <3>5. /\ bs \in Alphabet(S) /\ e1 \in Alphabet(S) /\ e2 \in Alphabet(S) /\ e3 \in Alphabet(S)
          /\ b[i] = <<bs, e1, e2, e3>> \o b[i + 1]
      BY <1>6, <3>1, <3>3, <3>4
    <3>6. /\ p \in 1..Len(q) /\ p + 1 \in 1..Len(q) /\ p + 2 \in 1..Len(q) /\ p + 3 \in 1..Len(q)
          /\ q[p] = bs /\ q[p + 1] = e1 /\ q[p + 2] = e2 /\ q[p + 3] = e3 /\ Rest(q, p + 4, b[i + 1])
      <4>1. PICK w : w = <<bs, e1, e2, e3>>
        OBVIOUS
      <4>2. Rest(q, p, w \o b[i + 1])
        BY <3>5, <4>1, Zenon
      <4>3. w \in Seq(Alphabet(S)) /\ Len(w) = 4 /\ w[1] = bs /\ w[2] = e1 /\ w[3] = e2 /\ w[4] = e3
        BY <3>5, <4>1
      <4>4. PICK r : r = b[i + 1]
        OBVIOUS
      <4>5. r \in Seq(Alphabet(S)) /\ Rest(q, p, w \o r) /\ w \in Seq(Alphabet(S)) /\ Len(w) = 4
        BY <2>2, <4>2, <4>3, <4>4
      <4>6. /\ p \in 1..Len(q) /\ p + 1 \in 1..Len(q) /\ p + 2 \in 1..Len(q) /\ p + 3 \in 1..Len(q)
            /\ q[p] = w[1] /\ q[p + 1] = w[2] /\ q[p + 2] = w[3] /\ q[p + 3] = w[4] /\ Rest(q, p + 4, r)
        BY <1>1, <4>5, RestFour
      <4> QED
        BY <4>3, <4>4, <4>6
    <3>7. v[p + 4] = Told(SubSeq(u, i + 1, n))
      BY <2>3, <3>6 DEF Tells
    <3>8. Piece(q, p, Specials) = Read(<<u[i]>>, p + 4)
      <4>1. q[p] = "\\" /\ q[p + 1] = Digit[d1] /\ q[p + 2] = Digit[d2] /\ q[p + 3] = Digit[d3]
        BY <3>4, <3>6, Zenon
      <4> QED
        BY <3>2, <3>6, <4>1, PieceOctal, ZenonT(30)
    <3>9. v[p] = Told(<<u[i]>> \o SubSeq(u, i + 1, n))
      BY <1>5, <3>6, <3>7, <3>8
    <3> QED
      BY <3>9, SuffixFacts
  <2> QED
    BY <2>5, <2>6, <2>7, <2>8, <2>9, WrittenCases
<1> HIDE DEF Tells
<1>9. \A i \in 1..(n + 1) : (\A j \in (i + 1)..(n + 1) : j \in T) => i \in T
  <2> TAKE i \in 1..(n + 1)
  <2> HAVE \A j \in (i + 1)..(n + 1) : j \in T
  <2>1. CASE i = n + 1
    BY <1>7, <2>1
  <2>2. CASE i # n + 1
    <3>1. i \in 1..n
      BY <1>1, <2>2
    <3>2. Tells(i)
      BY <1>8, <3>1
    <3> QED
      BY <3>2
  <2> QED
    BY <2>1, <2>2
<1> HIDE DEF T
<1>10. 1..(n + 1) \subseteq T
  BY <1>1, <1>9, DownwardInduction
<1> QED
  BY <1>10 DEF T, Tells, b, v

(***************************************************************************)
(* What quote writes scans to its end.                                     *)
(***************************************************************************)
LEMMA CharAtOf ==
  ASSUME NEW S, NEW s \in Seq(S), NEW p \in 1..Len(s)
  PROVE  Len(s) \in Nat /\ CharAt(s, p) = s[p]
BY CharThere, LenProperties

LEMMA UpToTwo == 0 \in 0..2 /\ 1 \in 0..2 /\ 2 \in 0..2 /\ 0 # 2 /\ 1 # 2 /\ 0 + 1 = 1 /\ 1 + 1 = 2
OBVIOUS

LEMMA ScannedBackslash ==
  ASSUME NEW S, NEW s \in Seq(S), NEW triple \in BOOLEAN, NEW p \in 1..Len(s), NEW k \in 0..2, s[p] = "\\"
  PROVE  Scanned(s, "\"", triple)[<<p, k>>] = Scanned(s, "\"", triple)[<<p + 2, 0>>]
<1>1. Len(s) \in Nat /\ CharAt(s, p) = s[p]
  BY CharAtOf, Zenon
<1> QED
  BY <1>1, ScannedCases, Zenon

LEMMA ScannedOther ==
  ASSUME NEW S, NEW s \in Seq(S), NEW triple \in BOOLEAN, NEW p \in 1..Len(s), NEW k \in 0..2,
         s[p] \notin {"\\", "\""}, s[p] = "\n" => triple
  PROVE  Scanned(s, "\"", triple)[<<p, k>>] = Scanned(s, "\"", triple)[<<p + 1, 0>>]
<1>1. Len(s) \in Nat /\ CharAt(s, p) = s[p]
  BY CharAtOf, Zenon
<1> QED
  BY <1>1, ScannedCases, Zenon

LEMMA ScannedQuote ==
  ASSUME NEW S, NEW s \in Seq(S), NEW triple \in BOOLEAN, NEW p \in 1..Len(s), s[p] = "\""
  PROVE  /\ triple => /\ Scanned(s, "\"", triple)[<<p, 0>>] = Scanned(s, "\"", triple)[<<p + 1, 1>>]
                      /\ Scanned(s, "\"", triple)[<<p, 1>>] = Scanned(s, "\"", triple)[<<p + 1, 2>>]
                      /\ Scanned(s, "\"", triple)[<<p, 2>>] = [to |-> p + 1, err |-> "none"]
         /\ ~triple => Scanned(s, "\"", triple)[<<p, 0>>] = [to |-> p + 1, err |-> "none"]
<1>1. Len(s) \in Nat /\ CharAt(s, p) = s[p]
  BY CharAtOf, Zenon
<1>4. ASSUME NEW k \in 0..2, k # 2, triple
      PROVE  Scanned(s, "\"", triple)[<<p, k>>] = Scanned(s, "\"", triple)[<<p + 1, k + 1>>]
  BY <1>1, <1>4, ScannedMark, Zenon
<1>2. triple => /\ Scanned(s, "\"", triple)[<<p, 0>>] = Scanned(s, "\"", triple)[<<p + 1, 0 + 1>>]
                /\ Scanned(s, "\"", triple)[<<p, 1>>] = Scanned(s, "\"", triple)[<<p + 1, 1 + 1>>]
  BY <1>4, UpToTwo, Zenon
<1>5. ASSUME NEW k \in 0..2, ~triple \/ k = 2
      PROVE  Scanned(s, "\"", triple)[<<p, k>>] = [to |-> p + 1, err |-> "none"]
  BY <1>1, <1>5, ScannedCases, Zenon
<1> QED
  BY <1>2, <1>5, UpToTwo, Zenon

LEMMA MarksFacts ==
  ASSUME NEW S, NEW triple \in BOOLEAN
  PROVE  /\ QuoteMarks(triple) \in Seq(Alphabet(S))
         /\ triple => Len(QuoteMarks(triple)) = 3 /\ \A j \in 1..3 : QuoteMarks(triple)[j] = "\""
         /\ ~triple => Len(QuoteMarks(triple)) = 1 /\ QuoteMarks(triple)[1] = "\""
<1>1. PICK c : c = "\""
  OBVIOUS
<1>2. c \in Alphabet(S)
  BY <1>1, AlphabetFacts
<1>3. CASE triple
  <2>1. QuoteMarks(triple) = <<c, c, c>>
    BY <1>1, <1>3, Zenon DEF QuoteMarks
  <2>2. PICK w : w = <<c, c, c>>
    OBVIOUS
  <2>3. w \in Seq(Alphabet(S)) /\ Len(w) = 3 /\ \A j \in 1..3 : w[j] = c
    BY <1>2, <2>2
  <2> QED
    BY <1>1, <1>3, <2>1, <2>2, <2>3, Zenon
<1>4. CASE ~triple
  <2>1. QuoteMarks(triple) = <<c>>
    BY <1>1, <1>4, Zenon DEF QuoteMarks
  <2>2. PICK w : w = <<c>>
    OBVIOUS
  <2>3. w \in Seq(Alphabet(S)) /\ Len(w) = 1 /\ w[1] = c
    BY <1>2, <2>2
  <2> QED
    BY <1>1, <1>4, <2>1, <2>2, <2>3, Zenon
<1> QED
  BY <1>3, <1>4, Zenon

Complete(s) == [to |-> Len(s) + 1, err |-> "none"]

\* The closing marks end the literal.
LEMMA MarksScanned ==
  ASSUME NEW S, NEW s \in Seq(S), NEW triple \in BOOLEAN, NEW p, Rest(s, p, QuoteMarks(triple))
  PROVE  Scanned(s, "\"", triple)[<<p, 0>>] = Complete(s)
<1> DEFINE W == Scanned(s, "\"", triple)
<1>1. Len(s) \in Nat /\ p \in Nat \ {0}
  BY LenProperties DEF Rest
<1>3. Len(s) + 1 = p + Len(QuoteMarks(triple))
      /\ \A j \in 1..Len(QuoteMarks(triple)) : s[p + j - 1] = QuoteMarks(triple)[j]
  BY DEF Rest
<1>4. CASE triple
  <2>1. Len(QuoteMarks(triple)) = 3 /\ \A j \in 1..3 : QuoteMarks(triple)[j] = "\""
    BY <1>4, MarksFacts, Zenon
  <2>2. Len(s) + 1 = p + 3
    BY <1>3, <2>1
  <2>8. \A j \in 1..3 : s[p + j - 1] = "\""
    BY <1>3, <2>1
  <2>3. /\ p \in 1..Len(s) /\ p + 1 \in 1..Len(s) /\ p + 2 \in 1..Len(s) /\ (p + 2) + 1 = Len(s) + 1
        /\ (p + 1) + 1 = p + 2
    BY <1>1, <2>2
  <2>4. s[p] = "\"" /\ s[p + 1] = "\"" /\ s[p + 2] = "\""
    <3>1. 1 \in 1..3 /\ 2 \in 1..3 /\ 3 \in 1..3 /\ p + 1 - 1 = p /\ p + 2 - 1 = p + 1 /\ p + 3 - 1 = p + 2
      BY <1>1
    <3> QED
      BY <2>8, <3>1
  <2>5. W[<<p, 0>>] = W[<<p + 1, 1>>]
    BY <1>4, <2>3, <2>4, ScannedQuote, Zenon
  <2>6. W[<<p + 1, 1>>] = W[<<(p + 1) + 1, 2>>]
    BY <1>4, <2>3, <2>4, ScannedQuote, Zenon
  <2>7. W[<<p + 2, 2>>] = [to |-> (p + 2) + 1, err |-> "none"]
    BY <1>4, <2>3, <2>4, ScannedQuote, Zenon
  <2> QED
    BY <2>3, <2>5, <2>6, <2>7, Zenon DEF Complete
<1>5. CASE ~triple
  <2>1. Len(QuoteMarks(triple)) = 1 /\ QuoteMarks(triple)[1] = "\""
    BY <1>5, MarksFacts, Zenon
  <2>5. Len(s) + 1 = p + 1
    BY <1>3, <2>1
  <2>2. p \in 1..Len(s) /\ p + 1 = Len(s) + 1
    BY <1>1, <2>5
  <2>3. s[p] = "\""
    <3>1. p + 1 - 1 = p /\ 1 \in 1..1
      BY <1>1
    <3>2. \A j \in 1..1 : s[p + j - 1] = QuoteMarks(triple)[j]
      BY <1>3, <2>1
    <3> QED
      BY <2>1, <3>1, <3>2
  <2>4. W[<<p, 0>>] = [to |-> p + 1, err |-> "none"]
    BY <1>5, <2>2, <2>3, ScannedQuote, Zenon
  <2> QED
    BY <2>2, <2>4, Zenon DEF Complete
<1> QED
  BY <1>4, <1>5, Zenon

\* From p on, after k quotes, the literal is complete at the end of the text.
CompleteFrom(s, triple, p, k) == Scanned(s, "\"", triple)[<<p, k>>] = Complete(s)

\* Where the text from p on is what quote writes for u from i on and the closing
\* marks, with k quotes before it only if no quote follows, it scans to its end.
LEMMA ScannedWritten ==
  ASSUME NEW S, EOFc \notin S, NEW u \in Seq(S), NEW triple \in BOOLEAN, NEW s \in Seq(Alphabet(S))
  PROVE  \A i \in 1..(Len(u) + 1) : \A p : \A k \in 0..2 :
           /\ Rest(s, p, Written(u, triple)[i] \o QuoteMarks(triple))
           /\ k = 0 \/ Other(u, i)
           => CompleteFrom(s, triple, p, k)
<1> DEFINE n == Len(u)
           b == Written(u, triple)
           m == QuoteMarks(triple)
           W == Scanned(s, "\"", triple)
           Ends(i) == \A p : \A k \in 0..2 : Rest(s, p, b[i] \o m) /\ (k = 0 \/ Other(u, i)) => W[<<p, k>>] = Complete(s)
           T == {i \in 1..(n + 1) : Ends(i)}
<1>1. n \in Nat /\ Len(s) \in Nat /\ n + 1 \in Nat
  BY LenProperties
<1>2. \A i \in 1..(n + 1) : b[i] \in Seq(Alphabet(S))
  BY WrittenSteps
<1>3. b[n + 1] = <<>>
  BY WrittenSteps
<1>4. m \in Seq(Alphabet(S))
  BY MarksFacts, Zenon
<1>5. S \subseteq Alphabet(S) /\ "\\" \in Alphabet(S) /\ DOMAIN Escapes \subseteq Alphabet(S) /\ Octal \subseteq Alphabet(S)
  BY AlphabetFacts
<1>6. \A p : Rest(s, p, m) => W[<<p, 0>>] = Complete(s)
  BY MarksScanned, Zenon
<1>7. \A p \in 1..Len(s) : \A k \in 0..2 : s[p] = "\\" => W[<<p, k>>] = W[<<p + 2, 0>>]
  BY ScannedBackslash, Zenon
<1>8. \A p \in 1..Len(s) : \A k \in 0..2 : s[p] \notin {"\\", "\""} /\ (s[p] = "\n" => triple) => W[<<p, k>>] = W[<<p + 1, 0>>]
  BY ScannedOther, Zenon
<1>9. \A p \in 1..Len(s) : s[p] = "\"" /\ triple => W[<<p, 0>>] = W[<<p + 1, 1>>] /\ W[<<p, 1>>] = W[<<p + 1, 2>>]
  BY ScannedQuote, Zenon
<1> HIDE DEF b, m, W
<1>16. \A p \in 1..Len(s) : (p + 1) + 1 = p + 2
  OBVIOUS
<1>10. ASSUME NEW i \in 1..n, NEW j \in 1..(n + 1), NEW w \in Seq(Alphabet(S)), b[i] = w \o b[j], NEW p, Rest(s, p, b[i] \o m)
       PROVE  b[j] \o m \in Seq(Alphabet(S)) /\ Rest(s, p, w \o (b[j] \o m))
  <2>1. b[j] \in Seq(Alphabet(S))
    BY <1>2
  <2>2. (w \o b[j]) \o m = w \o (b[j] \o m)
    <3>1. PICK v, A : v = b[j] /\ A = Alphabet(S)
      BY Zenon
    <3>2. w \in Seq(A) /\ v \in Seq(A) /\ m \in Seq(A)
      BY <1>4, <2>1, <3>1, Zenon
    <3>3. (w \o v) \o m = w \o (v \o m)
      BY <3>2, ConcatAssociative
    <3> QED
      BY <3>1, <3>3, Zenon
  <2>3. b[j] \o m \in Seq(Alphabet(S))
    BY <1>4, <2>1, ConcatProperties
  <2> QED
    BY <1>10, <2>2, <2>3, Zenon
<1>11. Ends(n + 1)
  <2> SUFFICES ASSUME NEW p, NEW k \in 0..2, Rest(s, p, b[n + 1] \o m), k = 0 \/ Other(u, n + 1)
               PROVE  W[<<p, k>>] = Complete(s)
    BY Zenon
  <2>1. b[n + 1] \o m = m
    BY <1>3, <1>4, ConcatEmptySeq
  <2>2. n + 1 \notin DOMAIN u
    BY <1>1, LenProperties
  <2>3. k = 0
    BY <2>2, Zenon DEF Other
  <2> QED
    BY <1>6, <2>1, <2>3, Zenon
<1>12. ASSUME NEW i \in 1..n, \A j \in (i + 1)..(n + 1) : Ends(j) PROVE Ends(i)
  <2> SUFFICES ASSUME NEW p, NEW k \in 0..2, Rest(s, p, b[i] \o m), k = 0 \/ Other(u, i)
               PROVE  W[<<p, k>>] = Complete(s)
    BY Zenon
  <2>1. u[i] \in S /\ u[i] \in Alphabet(S) /\ i + 1 \in 1..(n + 1) /\ i + 1 \in (i + 1)..(n + 1)
    BY <1>1, <1>5, ElementOfSeq
  <2>2. Ends(i + 1)
    BY <1>12, <2>1, Zenon
  <2>3. ASSUME i + 1 \in 1..n
        PROVE  u[i + 1] \in Alphabet(S) /\ i + 2 \in 1..(n + 1) /\ Ends(i + 2)
    <3>1. i + 2 \in 1..(n + 1) /\ i + 2 \in (i + 1)..(n + 1)
      BY <1>1, <2>3
    <3>2. u[i + 1] \in S
      BY <2>3, ElementOfSeq
    <3> QED
      BY <1>5, <1>12, <3>1, <3>2, Zenon
  <2>4. 0 \in 0..2 /\ 1 \in 0..2 /\ 2 \in 0..2
    BY UpToTwo, Zenon
  <2>5. ASSUME NEW c \in Alphabet(S), NEW j \in 1..(n + 1), b[i] = <<c>> \o b[j]
        PROVE  p \in 1..Len(s) /\ s[p] = c /\ Rest(s, p + 1, b[j] \o m)
    <3>1. <<c>> \in Seq(Alphabet(S))
      OBVIOUS
    <3>2. b[j] \o m \in Seq(Alphabet(S)) /\ Rest(s, p, <<c>> \o (b[j] \o m))
      BY <1>10, <2>5, <3>1, Zenon
    <3> QED
      BY <1>1, <2>5, <3>2, RestOne, Zenon
  <2>6. ASSUME NEW c \in Alphabet(S), NEW d \in Alphabet(S), NEW j \in 1..(n + 1), b[i] = <<c, d>> \o b[j]
        PROVE  /\ p \in 1..Len(s) /\ p + 1 \in 1..Len(s) /\ s[p] = c /\ s[p + 1] = d
               /\ Rest(s, p + 2, b[j] \o m)
    <3>1. <<c, d>> \in Seq(Alphabet(S))
      OBVIOUS
    <3>2. b[j] \o m \in Seq(Alphabet(S)) /\ Rest(s, p, <<c, d>> \o (b[j] \o m))
      BY <1>10, <2>6, <3>1, Zenon
    <3>3. PICK r : r = b[j] \o m
      OBVIOUS
    <3>4. r \in Seq(Alphabet(S)) /\ Rest(s, p, <<c, d>> \o r)
      BY <3>2, <3>3, Zenon
    <3>5. /\ p \in 1..Len(s) /\ p + 1 \in 1..Len(s) /\ s[p] = c /\ s[p + 1] = d /\ Rest(s, p + 2, r)
      BY <1>1, <3>4, RestTwo
    <3> QED
      BY <3>3, <3>5, Zenon
  <2> HIDE DEF n, Ends
  <2>7. CASE PlainAt(u, triple, i)
    <3>1. b[i] = <<u[i]>> \o b[i + 1] /\ u[i] \notin {"\\", "CR"} /\ (u[i] = "\n" => triple)
          /\ (u[i] = "\"" => triple /\ Other(u, i + 1))
      BY <2>7, Zenon DEF PlainAt, b
    <3>2. p \in 1..Len(s) /\ s[p] = u[i] /\ Rest(s, p + 1, b[i + 1] \o m)
      BY <2>1, <2>5, <3>1, Zenon
    <3>3. CASE u[i] # "\""
      <4>1. s[p] \notin {"\\", "\""} /\ (s[p] = "\n" => triple)
        BY <3>1, <3>2, <3>3, Zenon
      <4>2. W[<<p, k>>] = W[<<p + 1, 0>>]
        BY <1>8, <3>2, <4>1, Zenon
      <4>3. W[<<p + 1, 0>>] = Complete(s)
        BY <2>2, <2>4, <3>2, Zenon DEF Ends
      <4> QED
        BY <4>2, <4>3, Zenon
    <3>4. CASE u[i] = "\""
      <4>1. k = 0
        BY <3>4, Zenon DEF Other
      <4>2. W[<<p, 0>>] = W[<<p + 1, 1>>]
        BY <1>9, <3>1, <3>2, <3>4, Zenon
      <4>3. W[<<p + 1, 1>>] = Complete(s)
        BY <2>2, <2>4, <3>1, <3>2, <3>4, Zenon DEF Ends
      <4> QED
        BY <4>1, <4>2, <4>3, Zenon
    <3> QED
      BY <3>3, <3>4, Zenon
  <2>8. CASE TwoQuotesAt(u, triple, i)
    <3>1. b[i] = <<u[i], u[i + 1]>> \o b[i + 2] /\ u[i] = "\"" /\ u[i + 1] = "\"" /\ i + 1 \in 1..n
          /\ triple /\ Other(u, i + 2)
      BY <2>8, Zenon DEF TwoQuotesAt, b, n
    <3>2. u[i + 1] \in Alphabet(S) /\ i + 2 \in 1..(n + 1) /\ Ends(i + 2)
      BY <2>3, <3>1, Zenon
    <3>3. /\ p \in 1..Len(s) /\ p + 1 \in 1..Len(s) /\ s[p] = "\"" /\ s[p + 1] = "\""
          /\ Rest(s, p + 2, b[i + 2] \o m)
      BY <2>1, <2>6, <3>1, <3>2, Zenon
    <3>4. k = 0
      BY <3>1, Zenon DEF Other
    <3>5. W[<<p, 0>>] = W[<<p + 1, 1>>] /\ W[<<p + 1, 1>>] = W[<<(p + 1) + 1, 2>>]
      BY <1>9, <3>1, <3>3, Zenon
    <3>6. (p + 1) + 1 = p + 2
      BY <1>16, <3>3, Zenon
    <3>7. W[<<p + 2, 2>>] = Complete(s)
      BY <2>4, <3>1, <3>2, <3>3, Zenon DEF Ends
    <3> QED
      BY <3>4, <3>5, <3>6, <3>7, Zenon
  <2>9. CASE BackslashAt(u, triple, i)
    <3>1. b[i] = <<u[i], u[i + 1]>> \o b[i + 2] /\ u[i] = "\\" /\ i + 1 \in 1..n
      BY <2>9, Zenon DEF BackslashAt, b, n
    <3>2. u[i + 1] \in Alphabet(S) /\ i + 2 \in 1..(n + 1) /\ Ends(i + 2)
      BY <2>3, <3>1, Zenon
    <3>3. p \in 1..Len(s) /\ s[p] = "\\" /\ Rest(s, p + 2, b[i + 2] \o m)
      BY <2>1, <2>6, <3>1, <3>2, Zenon
    <3>4. W[<<p + 2, 0>>] = Complete(s)
      BY <2>4, <3>2, <3>3, Zenon DEF Ends
    <3> QED
      BY <1>7, <3>3, <3>4, Zenon
  <2>10. ASSUME NEW l \in DOMAIN Escapes, LetterAt(u, triple, i, l) PROVE W[<<p, k>>] = Complete(s)
    <3>1. b[i] = <<"\\", l>> \o b[i + 1]
      BY <2>10, Zenon DEF LetterAt, b
    <3>2. l \in Alphabet(S)
      BY <1>5
    <3>3. p \in 1..Len(s) /\ s[p] = "\\" /\ Rest(s, p + 2, b[i + 1] \o m)
      BY <1>5, <2>1, <2>6, <3>1, <3>2, Zenon
    <3>4. W[<<p + 2, 0>>] = Complete(s)
      BY <2>2, <2>4, <3>3, Zenon DEF Ends
    <3> QED
      BY <1>7, <3>3, <3>4, Zenon
  <2>11. ASSUME NEW d1 \in 0..7, NEW d2 \in 0..7, NEW d3 \in 0..7, OctalAt(u, triple, i, d1, d2, d3)
         PROVE  W[<<p, k>>] = Complete(s)
    <3>1. b[i] = <<"\\", Digit[d1], Digit[d2], Digit[d3]>> \o b[i + 1]
      BY <2>11, Zenon DEF OctalAt, b
    <3>2. Digit[d1] \in Octal /\ Digit[d2] \in Octal /\ Digit[d3] \in Octal
      BY DigitFacts, Zenon
    <3>3. PICK e0, e1, e2, e3 : e0 = "\\" /\ e1 = Digit[d1] /\ e2 = Digit[d2] /\ e3 = Digit[d3]
      BY Zenon
    <3>4. e0 \in Alphabet(S) /\ e1 \in Alphabet(S) /\ e2 \in Alphabet(S) /\ e3 \in Alphabet(S)
      BY <1>5, <3>2, <3>3, Zenon
    <3>5. PICK w : w = <<e0, e1, e2, e3>>
      BY Zenon
    <3>6. w \in Seq(Alphabet(S)) /\ Len(w) = 4 /\ w[1] = e0 /\ w[2] = e1 /\ w[3] = e2 /\ w[4] = e3
      BY <3>4, <3>5
    <3>7. b[i] = w \o b[i + 1]
      BY <3>1, <3>3, <3>5, Zenon
    <3>8. PICK r : r = b[i + 1] \o m
      BY Zenon
    <3>9. r \in Seq(Alphabet(S)) /\ Rest(s, p, w \o r)
      BY <1>10, <2>1, <3>6, <3>7, <3>8, Zenon
    <3>10. /\ p \in 1..Len(s) /\ p + 1 \in 1..Len(s) /\ p + 2 \in 1..Len(s) /\ p + 3 \in 1..Len(s)
           /\ s[p] = w[1] /\ s[p + 1] = w[2] /\ s[p + 2] = w[3] /\ s[p + 3] = w[4] /\ Rest(s, p + 4, r)
      BY <1>1, <3>6, <3>9, RestFour
    <3>11. (p + 2) + 1 = p + 3 /\ (p + 3) + 1 = p + 4
      BY <1>1, <3>10
    <3>12. s[p] = "\\" /\ s[p + 2] \in Octal /\ s[p + 3] \in Octal
      BY <3>2, <3>3, <3>6, <3>10, Zenon
    <3>13. \A d \in Octal : d \notin {"\\", "\""} /\ d # "\n"
      BY DEF Octal, Decimal
    <3>14. W[<<p, k>>] = W[<<p + 2, 0>>]
      BY <1>7, <3>10, <3>12, Zenon
    <3>15. W[<<p + 2, 0>>] = W[<<(p + 2) + 1, 0>>] /\ W[<<p + 3, 0>>] = W[<<(p + 3) + 1, 0>>]
      BY <1>8, <2>4, <3>10, <3>12, <3>13, Zenon
    <3>16. W[<<p + 4, 0>>] = Complete(s)
      BY <2>2, <2>4, <3>8, <3>10, Zenon DEF Ends
    <3> QED
      BY <3>11, <3>14, <3>15, <3>16, Zenon
  <2>12. i \in 1..Len(u)
    BY Zenon DEF n
  <2> QED
    BY <2>7, <2>8, <2>9, <2>10, <2>11, <2>12, WrittenCases, Zenon
<1> HIDE DEF Ends
<1>13. \A i \in 1..(n + 1) : (\A j \in (i + 1)..(n + 1) : j \in T) => i \in T
  <2> TAKE i \in 1..(n + 1)
  <2> HAVE \A j \in (i + 1)..(n + 1) : j \in T
  <2>1. CASE i = n + 1
    BY <1>11, <2>1
  <2>2. CASE i # n + 1
    <3>1. i \in 1..n
      BY <1>1, <2>2
    <3>2. Ends(i)
      BY <1>12, <3>1
    <3> QED
      BY <3>2
  <2> QED
    BY <2>1, <2>2
<1> HIDE DEF T
<1>14. 1..(n + 1) \subseteq T
  BY <1>1, <1>13, DownwardInduction
<1>15. \A i \in 1..(n + 1) : Ends(i)
  BY <1>14, Zenon DEF T
<1> QED
  BY <1>15, Zenon DEF Ends, b, m, W, n, CompleteFrom

LEMMA ScannedBody ==
  ASSUME NEW S, EOFc \notin S, NEW u \in Seq(S), NEW triple \in BOOLEAN, NEW s \in Seq(Alphabet(S)),
         NEW p, Rest(s, p, Written(u, triple)[1] \o QuoteMarks(triple))
  PROVE  CompleteFrom(s, triple, p, 0)
<1>1. 1 \in 1..(Len(u) + 1)
  BY LenProperties
<1> QED
  BY <1>1, ScannedWritten, UpToTwo, Zenon

(***************************************************************************)
(* The literal as a whole.                                                 *)
(***************************************************************************)
LEMMA Within ==
  ASSUME NEW A, NEW q \in Seq(A), NEW lo \in 1..Len(q), NEW hi \in lo..Len(q)
  PROVE  /\ SubSeq(q, lo, hi) \in Seq(A) /\ Len(SubSeq(q, lo, hi)) = hi - lo + 1
         /\ \A i \in 1..(hi - lo + 1) : SubSeq(q, lo, hi)[i] = q[lo + i - 1]
<1>1. Len(q) \in Nat /\ lo \in Int /\ hi \in Int /\ lo <= hi
  BY LenProperties
<1>2. \A i \in lo..hi : i \in 1..Len(q)
  BY <1>1
<1>3. \A i \in lo..hi : q[i] \in A
  BY <1>2, ElementOfSeq
<1> QED
  BY <1>1, <1>3, SubSeqProperties

\* q is w between two of m, which is of cs only.
FrameOf(A, m, w, c, q) ==
  /\ q \in Seq(A) /\ Len(q) = Len(m) + Len(w) + Len(m)
  /\ \A j \in 1..Len(m) : q[j] = c /\ q[Len(m) + Len(w) + j] = c
  /\ \A j \in 1..Len(w) : q[Len(m) + j] = w[j]
  /\ Rest(q, Len(m) + 1, w \o m)
  /\ SubSeq(q, Len(m) + 1, Len(q) - Len(m)) = w

LEMMA Framed ==
  ASSUME NEW A, NEW m \in Seq(A), NEW w \in Seq(A), NEW c, \A j \in 1..Len(m) : m[j] = c, NEW q, q = (m \o w) \o m
  PROVE  FrameOf(A, m, w, c, q)
<1> DEFINE k == Len(m)
           n == Len(w)
<1>1. k \in Nat /\ n \in Nat
  BY LenProperties
<1>2. /\ m \o w \in Seq(A) /\ Len(m \o w) = k + n
      /\ \A i \in 1..(k + n) : (m \o w)[i] = IF i <= k THEN m[i] ELSE w[i - k]
  BY ConcatProperties
<1>3. PICK v : v = m \o w
  OBVIOUS
<1>4. v \in Seq(A) /\ Len(v) = k + n
  BY <1>2, <1>3
<1>5. /\ v \o m \in Seq(A) /\ Len(v \o m) = k + n + k
      /\ \A i \in 1..(k + n + k) : (v \o m)[i] = IF i <= k + n THEN v[i] ELSE m[i - (k + n)]
  <2>1. PICK l : l = Len(v)
    OBVIOUS
  <2>2. /\ v \o m \in Seq(A) /\ Len(v \o m) = l + Len(m)
        /\ \A i \in 1..(l + Len(m)) : (v \o m)[i] = IF i <= l THEN v[i] ELSE m[i - l]
    BY <1>4, <2>1, ConcatProperties
  <2> QED
    BY <1>4, <2>1, <2>2
<1>6. q \in Seq(A) /\ Len(q) = k + n + k
      /\ \A i \in 1..(k + n + k) : q[i] = IF i <= k + n THEN v[i] ELSE m[i - (k + n)]
  BY <1>3, <1>5
<1> HIDE DEF k, n
<1>7. ASSUME NEW j \in 1..k PROVE q[j] = c /\ q[k + n + j] = c
  <2>1. j \in 1..(k + n + k) /\ j <= k + n /\ j \in 1..(k + n) /\ j <= k
    BY <1>1
  <2>2. q[j] = m[j]
    BY <1>2, <1>3, <1>6, <2>1
  <2>3. k + n + j \in 1..(k + n + k) /\ ~(k + n + j <= k + n) /\ (k + n + j) - (k + n) = j
    BY <1>1
  <2>4. q[k + n + j] = m[j]
    BY <1>6, <2>3
  <2> QED
    BY <2>2, <2>4 DEF k
<1>8. ASSUME NEW j \in 1..n PROVE q[k + j] = w[j]
  <2>1. k + j \in 1..(k + n + k) /\ k + j <= k + n /\ k + j \in 1..(k + n) /\ ~(k + j <= k) /\ (k + j) - k = j
    BY <1>1
  <2>2. q[k + j] = v[k + j]
    BY <1>6, <2>1
  <2>3. v[k + j] = w[j]
    BY <1>2, <1>3, <2>1
  <2> QED
    BY <2>2, <2>3
<1>9. Rest(q, k + 1, w \o m)
  <2>1. q = m \o (w \o m)
    BY ConcatAssociative
  <2>2. PICK r : r = w \o m
    OBVIOUS
  <2>3. r \in Seq(A) /\ q = m \o r
    BY <2>1, <2>2, ConcatProperties
  <2>4. Rest(q, 1, m \o r)
    <3>1. 1 \in Nat \ {0} /\ Len(q) + 1 = 1 + Len(q) /\ \A j \in 1..Len(q) : 1 + j - 1 = j
      BY <1>1, <1>6
    <3> QED
      BY <2>3, <3>1 DEF Rest
  <2>5. Rest(q, 1 + k, r)
    <3>1. Len(q) \in Nat
      BY <1>1, <1>6
    <3> QED
      BY <2>3, <2>4, <3>1, RestAfter, Zenon DEF k
  <2> QED
    BY <1>1, <2>2, <2>5
<1>10. SubSeq(q, k + 1, k + n) = w
  <2>1. (k + 1) + Len(w) - 1 = k + n /\ k + n <= Len(q) /\ 1 <= k + 1
    BY <1>1, <1>6 DEF n
  <2>3. PICK x : x = SubSeq(q, k + 1, k + n)
    OBVIOUS
  <2>4. n >= 1 => k + 1 <= k + n
    BY <1>1
  <2>5. k + 1 \in Int /\ k + n \in Int /\ (k + n) - (k + 1) + 1 = n
    BY <1>1
  <2>6. CASE n >= 1
    <3>1. x \in Seq(A) /\ Len(x) = n /\ \A i \in 1..n : x[i] = q[(k + 1) + i - 1]
      <4>1. PICK lo, hi : lo = k + 1 /\ hi = k + n
        OBVIOUS
      <4>2. lo \in 1..Len(q) /\ hi \in lo..Len(q)
        BY <1>1, <1>6, <2>6, <4>1
      <4>3. /\ SubSeq(q, lo, hi) \in Seq(A) /\ Len(SubSeq(q, lo, hi)) = hi - lo + 1
            /\ \A i \in 1..(hi - lo + 1) : SubSeq(q, lo, hi)[i] = q[lo + i - 1]
        BY <1>6, <4>2, Within, Zenon
      <4>4. lo <= hi /\ hi - lo + 1 = n
        BY <2>4, <2>5, <2>6, <4>1
      <4>5. x = SubSeq(q, lo, hi)
        BY <2>3, <4>1
      <4> QED
        BY <4>1, <4>3, <4>4, <4>5
    <3>2. \A i \in 1..n : (k + 1) + i - 1 = k + i
      BY <1>1
    <3>3. \A i \in 1..n : x[i] = w[i]
      BY <1>8, <3>1, <3>2
    <3> QED
      BY <2>3, <3>1, <3>3, SeqEqual DEF n
  <2>7. CASE n = 0
    <3>1. x = <<>>
      BY <1>1, <2>3, <2>7, SubSeqEmpty
    <3>2. w = <<>>
      BY <2>7, EmptySeq DEF n
    <3> QED
      BY <2>3, <3>1, <3>2
  <2>8. n >= 1 \/ n = 0
    BY <1>1
  <2> QED
    BY <2>6, <2>7, <2>8, Zenon
<1>11. Len(q) - Len(m) = k + n /\ Len(m) + Len(w) = k + n
  BY <1>1, <1>6 DEF k, n
<1> QED
  BY <1>6, <1>7, <1>8, <1>9, <1>10, <1>11 DEF k, n, FrameOf

LEMMA FirstOf ==
  ASSUME NEW A, NEW w \in Seq(A), Len(w) >= 1, NEW r \in Seq(A), NEW q, q = w \o r
  PROVE  1 \in 1..Len(q) /\ q[1] = w[1]
<1>1. Len(w) \in Nat /\ Len(r) \in Nat
  BY LenProperties
<1>2. /\ Len(w \o r) = Len(w) + Len(r)
      /\ \A i \in 1..(Len(w) + Len(r)) : (w \o r)[i] = IF i <= Len(w) THEN w[i] ELSE r[i - Len(w)]
  BY ConcatProperties
<1>3. 1 \in 1..(Len(w) + Len(r)) /\ 1 <= Len(w)
  BY <1>1
<1> QED
  BY <1>2, <1>3

LEMMA FirstOfOne ==
  ASSUME NEW A, NEW c \in A, NEW r \in Seq(A), NEW q, q = <<c>> \o r
  PROVE  1 \in 1..Len(q) /\ q[1] = c
<1>1. PICK w : w = <<c>>
  OBVIOUS
<1>2. w \in Seq(A) /\ Len(w) >= 1 /\ w[1] = c
  BY <1>1
<1> QED
  BY <1>1, <1>2, FirstOf, Zenon

LEMMA FirstOfTwo ==
  ASSUME NEW A, NEW c \in A, NEW d \in A, NEW r \in Seq(A), NEW q, q = <<c, d>> \o r
  PROVE  1 \in 1..Len(q) /\ q[1] = c
<1>1. PICK w : w = <<c, d>>
  OBVIOUS
<1>2. w \in Seq(A) /\ Len(w) >= 1 /\ w[1] = c
  BY <1>1
<1> QED
  BY <1>1, <1>2, FirstOf, Zenon

LEMMA FirstOfFour ==
  ASSUME NEW A, NEW c \in A, NEW d \in A, NEW e \in A, NEW f \in A, NEW r \in Seq(A), NEW q, q = <<c, d, e, f>> \o r
  PROVE  1 \in 1..Len(q) /\ q[1] = c
<1>1. PICK w : w = <<c, d, e, f>>
  OBVIOUS
<1>2. w \in Seq(A) /\ Len(w) >= 1 /\ w[1] = c
  BY <1>1
<1> QED
  BY <1>1, <1>2, FirstOf, Zenon

\* A literal between single marks does not begin with one.
LEMMA SingleBody ==
  ASSUME NEW S, EOFc \notin S, NEW u \in Seq(S), NEW triple \in BOOLEAN, ~triple
  PROVE  \/ Len(Written(u, triple)[1]) = 0
         \/ 1 \in 1..Len(Written(u, triple)[1]) /\ Written(u, triple)[1][1] # "\""
<1> DEFINE b == Written(u, triple)
           A == Alphabet(S)
<1>1. Len(u) \in Nat
  BY LenProperties
<1>2. \A j \in 1..(Len(u) + 1) : b[j] \in Seq(A)
  BY WrittenSteps
<1>3. b[Len(u) + 1] = <<>>
  BY WrittenSteps
<1>4. PICK q \in Seq(A) : q = b[1]
  <2>1. 1 \in 1..(Len(u) + 1)
    BY <1>1
  <2> QED
    BY <1>2, <2>1, Zenon
<1>5. SUFFICES Len(q) = 0 \/ (1 \in 1..Len(q) /\ q[1] # "\"")
  BY <1>4, Zenon
<1> HIDE DEF b, A
<1>6. CASE Len(u) = 0
  <2>1. Len(u) + 1 = 1 /\ Len(<<>>) = 0
    BY <1>6
  <2>2. q = <<>>
    BY <1>3, <1>4, <2>1, Zenon
  <2>3. Len(q) = 0
    BY <2>1, <2>2
  <2> QED
    BY <2>3, Zenon
<1>7. CASE Len(u) # 0
  <2>1. 1 \in 1..Len(u) /\ 1 + 1 \in 1..(Len(u) + 1) /\ (1 + 1 \in 1..Len(u) => 1 + 2 \in 1..(Len(u) + 1))
    BY <1>1, <1>7
  <2>2. "\\" \in A /\ DOMAIN Escapes \subseteq A /\ Octal \subseteq A /\ S \subseteq A
    BY AlphabetFacts DEF A
  <2>3. u[1] \in A /\ (1 + 1 \in 1..Len(u) => u[1 + 1] \in A)
    <3>1. \A j \in 1..Len(u) : u[j] \in S
      BY ElementOfSeq
    <3> QED
      BY <2>1, <2>2, <3>1, Zenon
  <2>4. b[1 + 1] \in Seq(A) /\ (1 + 1 \in 1..Len(u) => b[1 + 2] \in Seq(A))
    BY <1>2, <2>1, Zenon
  <2>8. CASE PlainAt(u, triple, 1)
    <3>1. q = <<u[1]>> \o b[1 + 1] /\ u[1] # "\""
      BY <1>4, <2>8, Zenon DEF PlainAt, b
    <3> QED
      <4>1. PICK r, c : r = b[1 + 1] /\ c = u[1]
        OBVIOUS
      <4>2. r \in Seq(A) /\ c \in A /\ q = <<c>> \o r
        BY <2>3, <2>4, <3>1, <4>1, Zenon
      <4>3. 1 \in 1..Len(q) /\ q[1] = c
        BY <4>2, FirstOfOne
      <4> QED
        BY <3>1, <4>1, <4>3, Zenon
  <2>9. CASE TwoQuotesAt(u, triple, 1)
    BY <2>9, Zenon DEF TwoQuotesAt
  <2>10. CASE BackslashAt(u, triple, 1)
    <3>1. q = <<u[1], u[1 + 1]>> \o b[1 + 2] /\ u[1] = "\\" /\ 1 + 1 \in 1..Len(u)
      BY <1>4, <2>10, Zenon DEF BackslashAt, b
    <3>4. PICK r, c, d : r = b[1 + 2] /\ c = u[1] /\ d = u[1 + 1]
      OBVIOUS
    <3>5. r \in Seq(A) /\ c \in A /\ d \in A /\ q = <<c, d>> \o r
      BY <2>3, <2>4, <3>1, <3>4, Zenon
    <3>2. 1 \in 1..Len(q) /\ q[1] = u[1]
      BY <3>4, <3>5, FirstOfTwo
    <3>3. q[1] # "\""
      BY <3>1, <3>2
    <3> QED
      BY <3>2, <3>3, Zenon
  <2>11. ASSUME NEW l \in DOMAIN Escapes, LetterAt(u, triple, 1, l) PROVE 1 \in 1..Len(q) /\ q[1] = "\\"
    <3>1. q = <<"\\", l>> \o b[1 + 1]
      BY <1>4, <2>11, Zenon DEF LetterAt, b
    <3>2. l \in A
      BY <2>2
    <3> QED
      <4>1. PICK r, c : r = b[1 + 1] /\ c = "\\"
        OBVIOUS
      <4>2. r \in Seq(A) /\ c \in A /\ l \in A /\ q = <<c, l>> \o r
        BY <2>2, <2>4, <3>1, <3>2, <4>1, Zenon
      <4>3. 1 \in 1..Len(q) /\ q[1] = c
        BY <4>2, FirstOfTwo
      <4> QED
        BY <4>1, <4>3, Zenon
  <2>12. ASSUME NEW d1 \in 0..7, NEW d2 \in 0..7, NEW d3 \in 0..7, OctalAt(u, triple, 1, d1, d2, d3)
         PROVE  1 \in 1..Len(q) /\ q[1] = "\\"
    <3>1. q = <<"\\", Digit[d1], Digit[d2], Digit[d3]>> \o b[1 + 1]
      BY <1>4, <2>12, Zenon DEF OctalAt, b
    <3>2. Digit[d1] \in Octal /\ Digit[d2] \in Octal /\ Digit[d3] \in Octal
      BY DigitFacts, Zenon
    <3>3. PICK e0, e1, e2, e3 : e0 = "\\" /\ e1 = Digit[d1] /\ e2 = Digit[d2] /\ e3 = Digit[d3]
      BY Zenon
    <3>4. e0 \in A /\ e1 \in A /\ e2 \in A /\ e3 \in A
      BY <2>2, <3>2, <3>3, Zenon
    <3>5. q = <<e0, e1, e2, e3>> \o b[1 + 1]
      BY <3>1, <3>3, Zenon
    <3> QED
      <4>1. PICK r : r = b[1 + 1]
        OBVIOUS
      <4>2. r \in Seq(A) /\ q = <<e0, e1, e2, e3>> \o r
        BY <2>4, <3>5, <4>1, Zenon
      <4>3. 1 \in 1..Len(q) /\ q[1] = e0
        BY <3>4, <4>2, FirstOfFour
      <4> QED
        BY <3>3, <4>3, Zenon
  <2>13. "\\" # "\""
    BY Zenon
  <2> QED
    BY <2>1, <2>8, <2>9, <2>10, <2>11, <2>12, <2>13, WrittenCases, ZenonT(30)
<1> QED
  BY <1>6, <1>7, Zenon

LEMMA RestWhole ==
  ASSUME NEW S, NEW q \in Seq(S)
  PROVE  Rest(q, 1, q)
<1>1. Len(q) \in Nat
  BY LenProperties
<1>2. 1 \in Nat \ {0} /\ Len(q) + 1 = 1 + Len(q) /\ \A j \in 1..Len(q) : 1 + j - 1 = j
  BY <1>1
<1> QED
  BY <1>2 DEF Rest

LEMMA SameMarks ==
  ASSUME NEW S, NEW a \in Seq(S), NEW b \in Seq(S), NEW c, Len(a) = 3, Len(b) = 3,
         \A i \in 1..3 : a[i] = c /\ b[i] = c
  PROVE  a = b
<1>1. Len(a) = Len(b) /\ \A i \in 1..Len(a) : a[i] = b[i]
  OBVIOUS
<1> QED
  BY <1>1, SeqEqual

LEMMA StringEndAs ==
  ASSUME NEW s, NEW t \in BOOLEAN, t <=> 1 + 2 <= Len(s) /\ s[1 + 1] = s[1] /\ s[1 + 2] = s[1]
  PROVE  StringEnd(s, 1) = Scanned(s, s[1], t)[<<IF t THEN 1 + 3 ELSE 1 + 1, 0>>]
<1>1. t = (1 + 2 <= Len(s) /\ s[1 + 1] = s[1] /\ s[1 + 2] = s[1])
  BY Zenon
<1> QED
  BY <1>1, Zenon DEF StringEnd

LEMMA UnquoteAs ==
  ASSUME NEW q, q[1] = "\"", Last(q) = q[1], ~(Len(q) < 2),
         NEW k, k = IF Len(q) >= 6 /\ q[2] = q[1] /\ q[3] = q[1] /\ SubSeq(q, 1, 3) = SubSeq(q, Len(q) - 2, Len(q))
                    THEN 3 ELSE 1
  PROVE  Unquote(q) = Unescaped(SubSeq(q, k + 1, Len(q) - k), Specials)[1]
<1>1. ~(q[1] = "r") /\ q[1] \in {"\"", "'"} /\ ~(q[1] # Last(q))
  BY Zenon
<1> QED
  BY <1>1, Zenon DEF Unquote, Specials

\* What quote writes: q, of the body w and k marks on both sides.
Shape(S, u, triple, q, w, k) ==
  /\ q = Quote(u, triple) /\ w = Written(u, triple)[1] /\ k = Len(QuoteMarks(triple))
  /\ Len(q) = k + Len(w) + k
  /\ \A j \in 1..k : q[j] = "\"" /\ q[k + Len(w) + j] = "\""
  /\ \A j \in 1..Len(w) : q[k + j] = w[j]
  /\ Rest(q, k + 1, Written(u, triple)[1] \o QuoteMarks(triple))
  /\ SubSeq(q, k + 1, Len(q) - k) = w

LEMMA QuoteFacts ==
  ASSUME NEW S, EOFc \notin S, NEW u \in Seq(S), NEW triple \in BOOLEAN
  PROVE  \E q \in Seq(Alphabet(S)), w \in Seq(Alphabet(S)), k \in {1, 3} : Shape(S, u, triple, q, w, k)
<1> DEFINE A == Alphabet(S)
<1>1. PICK m, w, q : m = QuoteMarks(triple) /\ w = Written(u, triple)[1] /\ q = Quote(u, triple)
  BY Zenon
<1>2. m \in Seq(A)
  BY <1>1, MarksFacts, Zenon
<1>3. w \in Seq(A)
  <2>1. 1 \in 1..(Len(u) + 1)
    BY LenProperties
  <2>2. \A j \in 1..(Len(u) + 1) : Written(u, triple)[j] \in Seq(A)
    BY WrittenSteps
  <2> QED
    BY <1>1, <2>1, <2>2, Zenon
<1>4. q = (m \o w) \o m
  BY <1>1, Zenon DEF Quote
<1>5. (Len(m) = 3 /\ \A j \in 1..3 : m[j] = "\"") \/ (Len(m) = 1 /\ m[1] = "\"")
  BY <1>1, MarksFacts, Zenon
<1>6. PICK k : k = Len(m)
  BY Zenon
<1>7. k \in {1, 3}
  BY <1>5, <1>6, Zenon
<1>8. \A j \in 1..k : m[j] = "\""
  <2>1. 1..1 = {1}
    OBVIOUS
  <2> QED
    BY <1>5, <1>6, <2>1, Zenon
<1>9. /\ q \in Seq(A) /\ Len(q) = Len(m) + Len(w) + Len(m)
      /\ \A j \in 1..Len(m) : q[j] = "\"" /\ q[Len(m) + Len(w) + j] = "\""
      /\ \A j \in 1..Len(w) : q[Len(m) + j] = w[j]
      /\ Rest(q, Len(m) + 1, w \o m)
      /\ SubSeq(q, Len(m) + 1, Len(q) - Len(m)) = w
  <2> HIDE DEF A
  <2>1. PICK c : c = "\""
    BY Zenon
  <2>2. \A j \in 1..Len(m) : m[j] = c
    BY <1>6, <1>8, <2>1, Zenon
  <2>3. FrameOf(A, m, w, c, q)
    BY <1>2, <1>3, <1>4, <2>2, Framed, Zenon
  <2> QED
    BY <2>1, <2>3, Zenon DEF FrameOf
<1>10. Shape(S, u, triple, q, w, k)
  BY <1>1, <1>6, <1>9, Zenon DEF Shape
<1> QED
  BY <1>3, <1>7, <1>9, <1>10, Zenon

\* The whole of it is one literal.
LEMMA StringEndQuoted ==
  ASSUME NEW S, EOFc \notin S, NEW u \in Seq(S), NEW triple \in BOOLEAN
  PROVE  /\ Quote(u, triple)[1] = "\"" /\ Len(Quote(u, triple)) \in Nat \ {0}
         /\ StringEnd(Quote(u, triple), 1) = Complete(Quote(u, triple))
         /\ Quote(u, triple) \in Seq(Alphabet(S))
<1>11. PICK s \in Seq(Alphabet(S)), w \in Seq(Alphabet(S)), k \in {1, 3} : Shape(S, u, triple, s, w, k)
  BY QuoteFacts, Zenon
<1>1. /\ s = Quote(u, triple) /\ w = Written(u, triple)[1] /\ k = Len(QuoteMarks(triple))
      /\ Len(s) = k + Len(w) + k
      /\ \A j \in 1..k : s[j] = "\"" /\ s[k + Len(w) + j] = "\""
      /\ \A j \in 1..Len(w) : s[k + j] = w[j]
      /\ Rest(s, k + 1, Written(u, triple)[1] \o QuoteMarks(triple))
  BY <1>11, Zenon DEF Shape
<1>2. Len(w) \in Nat
  BY LenProperties
<1>3. Len(s) \in Nat \ {0} /\ 1 \in 1..k /\ 1 \in 1..(Len(u) + 1)
  <2>1. k \in Nat /\ k >= 1
    OBVIOUS
  <2>2. Len(s) = k + Len(w) + k
    BY <1>1
  <2> QED
    BY <1>2, <2>1, <2>2, LenProperties
<1>4. s[1] = "\""
  BY <1>1, <1>3, Zenon
<1>6. Scanned(s, "\"", triple)[<<k + 1, 0>>] = Complete(s)
  <2>1. CompleteFrom(s, triple, k + 1, 0)
    BY <1>1, ScannedBody, Zenon
  <2> QED
    BY <2>1, Zenon DEF CompleteFrom
<1>7. triple <=> 1 + 2 <= Len(s) /\ s[1 + 1] = s[1] /\ s[1 + 2] = s[1]
  <2>1. CASE triple
    <3>1. k = 3
      BY <1>1, <2>1, MarksFacts, Zenon
    <3>2. 1 + 2 <= Len(s)
      <4>1. Len(s) = k + Len(w) + k
        BY <1>1
      <4> QED
        BY <1>2, <3>1, <4>1
    <3>3. 1 + 1 \in 1..3 /\ 1 + 2 \in 1..3
      OBVIOUS
    <3>4. s[1 + 1] = "\"" /\ s[1 + 2] = "\""
      BY <1>1, <3>1, <3>3, Zenon
    <3> QED
      BY <1>4, <2>1, <3>2, <3>4, Zenon
  <2>2. CASE ~triple
    <3>1. k = 1
      BY <1>1, <2>2, MarksFacts, Zenon
    <3>2. Len(w) = 0 \/ (1 \in 1..Len(w) /\ w[1] # "\"")
      BY <1>1, <2>2, SingleBody, ZenonT(30)
    <3>3. CASE Len(w) = 0
      <4>1. Len(s) = k + Len(w) + k
        BY <1>1
      <4>2. ~(1 + 2 <= Len(s))
        BY <3>1, <3>3, <4>1
      <4> QED
        BY <2>2, <4>2, Zenon
    <3>4. CASE 1 \in 1..Len(w) /\ w[1] # "\""
      <4>1. s[1 + 1] = w[1]
        BY <1>1, <3>1, <3>4, Zenon
      <4> QED
        BY <1>4, <2>2, <3>4, <4>1, Zenon
    <3> QED
      BY <3>2, <3>3, <3>4, Zenon
  <2> QED
    BY <2>1, <2>2, Zenon
<1>8. StringEnd(s, 1) = Scanned(s, "\"", triple)[<<IF triple THEN 1 + 3 ELSE 1 + 1, 0>>]
  BY <1>4, <1>7, StringEndAs, Zenon
<1>9. (IF triple THEN 1 + 3 ELSE 1 + 1) = k + 1
  <2>1. 3 + 1 = 1 + 3
    OBVIOUS
  <2>2. triple => k = 3
    BY <1>1, MarksFacts, Zenon
  <2>3. ~triple => k = 1
    BY <1>1, MarksFacts, Zenon
  <2> QED
    BY <2>1, <2>2, <2>3, Zenon
<1> QED
  BY <1>1, <1>3, <1>4, <1>6, <1>8, <1>9, Zenon

\* unquote gives the value back.
LEMMA UnquoteQuoted ==
  ASSUME NEW S, EOFc \notin S, NEW u \in Seq(S), NEW triple \in BOOLEAN
  PROVE  Unquote(Quote(u, triple)) = [s |-> u, ok |-> TRUE]
<1>11. PICK q \in Seq(Alphabet(S)), w \in Seq(Alphabet(S)), k \in {1, 3} : Shape(S, u, triple, q, w, k)
  BY QuoteFacts, Zenon
<1>1. /\ q = Quote(u, triple) /\ w = Written(u, triple)[1] /\ k = Len(QuoteMarks(triple))
      /\ Len(q) = k + Len(w) + k
      /\ \A j \in 1..k : q[j] = "\"" /\ q[k + Len(w) + j] = "\""
      /\ \A j \in 1..Len(w) : q[k + j] = w[j]
      /\ SubSeq(q, k + 1, Len(q) - k) = w
  BY <1>11, Zenon DEF Shape
<1>2. Len(w) \in Nat /\ Len(q) = k + Len(w) + k
  BY <1>1, LenProperties, Zenon
<1>3. k \in Nat /\ k >= 1 /\ Len(q) >= 2 /\ 1 \in 1..k /\ k \in 1..k /\ k + Len(w) + k = Len(q)
  BY <1>2
<1>4. q[1] = "\"" /\ q[Len(q)] = "\""
  BY <1>1, <1>3, Zenon
<1>5. Last(q) = q[1]
  BY <1>4, Zenon DEF Last
<1>6. k = IF Len(q) >= 6 /\ q[2] = q[1] /\ q[3] = q[1] /\ SubSeq(q, 1, 3) = SubSeq(q, Len(q) - 2, Len(q))
          THEN 3 ELSE 1
  <2>1. CASE triple
    <3>1. k = 3
      BY <1>1, <2>1, MarksFacts, Zenon
    <3>2. Len(q) >= 6 /\ Len(q) \in Nat
      BY <1>2, <3>1
    <3>3. 1 \in 1..3 /\ 2 \in 1..3 /\ 3 \in 1..3
      OBVIOUS
    <3>4. q[2] = "\"" /\ q[3] = "\""
      BY <1>1, <3>1, <3>3, Zenon
    <3>5. PICK a, b : a = SubSeq(q, 1, 3) /\ b = SubSeq(q, Len(q) - 2, Len(q))
      BY Zenon
    <3>6. 1 \in 1..Len(q) /\ 3 \in 1..Len(q) /\ Len(q) - 2 \in 1..Len(q) /\ Len(q) \in (Len(q) - 2)..Len(q)
          /\ Len(q) - (Len(q) - 2) + 1 = 3 /\ 3 - 1 + 1 = 3
      BY <3>2
    <3>7. a \in Seq(Alphabet(S)) /\ Len(a) = 3 /\ \A i \in 1..3 : a[i] = q[1 + i - 1]
      BY <3>5, <3>6, Within
    <3>8. b \in Seq(Alphabet(S)) /\ Len(b) = 3 /\ \A i \in 1..3 : b[i] = q[Len(q) - 2 + i - 1]
      BY <3>5, <3>6, Within
    <3>9. \A i \in 1..3 : a[i] = "\"" /\ b[i] = "\""
      <4> TAKE i \in 1..3
      <4>1. 1 + i - 1 = i /\ Len(q) - 2 + i - 1 = k + Len(w) + i
        BY <1>2, <3>1
      <4>2. q[i] = "\"" /\ q[k + Len(w) + i] = "\""
        BY <1>1, <3>1, Zenon
      <4> QED
        BY <3>7, <3>8, <4>1, <4>2
    <3>10. a = b
      BY <3>7, <3>8, <3>9, SameMarks, Zenon
    <3> QED
      BY <1>4, <3>1, <3>2, <3>4, <3>5, <3>10, Zenon
  <2>2. CASE ~triple
    <3>1. k = 1
      BY <1>1, <2>2, MarksFacts, Zenon
    <3>2. Len(w) = 0 \/ (1 \in 1..Len(w) /\ w[1] # "\"")
      <4>1. \/ Len(Written(u, triple)[1]) = 0
            \/ 1 \in 1..Len(Written(u, triple)[1]) /\ Written(u, triple)[1][1] # "\""
        BY <2>2, SingleBody, ZenonT(30)
      <4> QED
        BY <1>1, <4>1, Zenon
    <3>3. CASE Len(w) = 0
      <4>1. ~(Len(q) >= 6)
        BY <1>2, <3>1, <3>3
      <4> QED
        BY <3>1, <4>1, Zenon
    <3>4. CASE 1 \in 1..Len(w) /\ w[1] # "\""
      <4>1. 1 + 1 = 2
        OBVIOUS
      <4>2. q[1 + 1] = w[1]
        BY <1>1, <3>1, <3>4, Zenon
      <4>3. q[2] # q[1]
        BY <1>4, <3>4, <4>1, <4>2, Zenon
      <4> QED
        BY <3>1, <4>3, Zenon
    <3> QED
      BY <3>2, <3>3, <3>4, Zenon
  <2> QED
    BY <2>1, <2>2, Zenon
<1>7. ~(Len(q) < 2)
  BY <1>2, <1>3
<1>8. Unquote(q) = Unescaped(SubSeq(q, k + 1, Len(q) - k), Specials)[1]
  BY <1>4, <1>5, <1>6, <1>7, UnquoteAs, Zenon
<1>9. Unescaped(w, Specials)[1] = Told(SubSeq(u, 1, Len(u)))
  <2>1. Rest(w, 1, Written(u, triple)[1])
    BY <1>1, RestWhole, Zenon
  <2>2. 1 \in 1..(Len(u) + 1)
    BY LenProperties
  <2> QED
    <3>1. \A i \in 1..(Len(u) + 1) : \A p : Rest(w, p, Written(u, triple)[i]) =>
            Unescaped(w, Specials)[p] = Told(SubSeq(u, i, Len(u)))
      BY UnescapedWritten
    <3> QED
      BY <2>1, <2>2, <3>1, Zenon
<1>10. SubSeq(u, 1, Len(u)) = u
  BY SubSeqFull
<1> QED
  BY <1>1, <1>8, <1>9, <1>10, Zenon DEF Told

(***************************************************************************)
(* The scanner on a literal that quote made: one STRING, then EOF.         *)
(***************************************************************************)
LEMMA SourceFacts ==
  ASSUME NEW src \in Sources, src.value # NoValue
  PROVE  /\ Len(src.text) \in Nat \ {0} /\ DOMAIN src.text = 1..Len(src.text)
         /\ src.text[1] = "\"" /\ StringEnd(src.text, 1) = Complete(src.text)
         /\ Unquote(src.text) = [s |-> src.value, ok |-> TRUE]
         /\ SubSeq(src.text, 1, Len(src.text)) = src.text
<1>1. PICK S : S = ToSet(src.value) \ {EOFc}
  OBVIOUS
<1>2. EOFc \notin S /\ src.value \in Seq(S)
  BY <1>1, ScannerAssumption DEF ScannerAssumption
<1>3. PICK triple \in BOOLEAN : src.text = Quote(src.value, triple)
  BY ScannerAssumption, Zenon DEF ScannerAssumption
<1>4. PICK u, t : u = src.value /\ t = src.text
  BY Zenon
<1>5. u \in Seq(S) /\ t = Quote(u, triple)
  BY <1>2, <1>3, <1>4, Zenon
<1>6. t[1] = "\"" /\ Len(t) \in Nat \ {0} /\ StringEnd(t, 1) = Complete(t) /\ t \in Seq(Alphabet(S))
  BY <1>2, <1>5, StringEndQuoted, Zenon
<1>7. Unquote(t) = [s |-> u, ok |-> TRUE]
  BY <1>2, <1>5, UnquoteQuoted, Zenon
<1>8. DOMAIN t = 1..Len(t) /\ SubSeq(t, 1, Len(t)) = t
  BY <1>6, LenProperties, SubSeqFull, Zenon
<1> QED
  BY <1>4, <1>6, <1>7, <1>8, Zenon

LEMMA SkipHere ==
  ASSUME NEW s, Len(s) \in Nat, NEW i \in 1..(Len(s) + 1), NEW cs, CharAt(s, i) \notin cs
  PROVE  SkipOver(s, i, cs) = i
<1> DEFINE T == {j \in i..(Len(s) + 1) : CharAt(s, j) \notin cs}
<1>1. i \in T /\ \A j \in T : i <= j /\ j \in Int
  OBVIOUS
<1> HIDE DEF T
<1>2. \A x \in T : (\A y \in T : x <= y) => x = i
  BY <1>1
<1>3. Min(T) = i
  BY <1>1, <1>2 DEF Min
<1> QED
  BY <1>3, Zenon DEF SkipOver, T

Fresh ==
  sc = NewScanner /\ toks = <<>> /\ status = "scanning"
StringToken == [kind |-> "STRING", from |-> 1, to |-> Size + 1]
Past ==
  /\ toks = <<StringToken>> /\ status = "scanning"
  /\ sc.at = Size + 1 /\ sc.lineStart = FALSE /\ sc.dents = 0 /\ sc.depth = 0 /\ sc.indentstk = <<0>>
  /\ DOMAIN sc = DOMAIN NewScanner
Over ==
  /\ \E e : toks = <<StringToken, e>> /\ e.kind = "EOF"
  /\ status = "ended"

\* A literal is read in two steps.
ReadWhole == source \in Sources /\ (source.value # NoValue => Fresh \/ Past \/ Over)

LEMMA FreshChars ==
  ASSUME source \in Sources, source.value # NoValue
  PROVE  /\ Size \in Nat \ {0} /\ Char(1) = "\"" /\ Char(Size + 1) = EOFc
         /\ Skip(1, Blanks) = 1 /\ Skip(Size + 1, Blanks) = Size + 1
<1>1. /\ Len(source.text) \in Nat \ {0} /\ DOMAIN source.text = 1..Len(source.text) /\ source.text[1] = "\""
  BY SourceFacts, Zenon
<1>2. PICK t : t = source.text
  BY Zenon
<1>3. Len(t) \in Nat \ {0} /\ DOMAIN t = 1..Len(t)
  BY <1>1, <1>2
<1>4. 1 \in 1..(Len(t) + 1) /\ Len(t) + 1 \in 1..(Len(t) + 1) /\ 1 \in DOMAIN t /\ Len(t) + 1 \notin DOMAIN t
  BY <1>3
<1>5. CharAt(t, 1) = "\""
  BY <1>1, <1>2, <1>4, Zenon DEF CharAt
<1>6. CharAt(t, Len(t) + 1) = EOFc
  BY <1>4, Zenon DEF CharAt
<1>7. "\"" \notin Blanks /\ EOFc \notin Blanks
  BY DEF Blanks, EOFc
<1>8. SkipOver(t, 1, Blanks) = 1
  <2>1. CharAt(t, 1) \notin Blanks
    BY <1>5, <1>7
  <2> QED
    BY <1>3, <1>4, <2>1, SkipHere, Zenon
<1>9. SkipOver(t, Len(t) + 1, Blanks) = Len(t) + 1
  <2>1. CharAt(t, Len(t) + 1) \notin Blanks
    BY <1>6, <1>7
  <2> QED
    BY <1>3, <1>4, <2>1, SkipHere, Zenon
<1> QED
  BY <1>2, <1>3, <1>5, <1>6, <1>8, <1>9, Zenon DEF Size, Src, Char, Skip

LEMMA NewScannerFacts ==
  /\ NewScanner.at = 1 /\ NewScanner.lineStart = TRUE /\ NewScanner.dents = 0 /\ NewScanner.depth = 0
  /\ NewScanner.indentstk = <<0>>
  /\ DOMAIN NewScanner = {"at", "depth", "indentstk", "dents", "lineStart", "lineComments", "suffixComments"}
BY DEF NewScanner

LEMMA AppendOne ==
  ASSUME NEW x, NEW e
  PROVE  Append(<<x>>, e) = <<x, e>>
<1>1. PICK S, v, w : S = {x, e} /\ v = <<x>> /\ w = <<x, e>>
  OBVIOUS
<1>2. v \in Seq(S) /\ Len(v) = 1 /\ v[1] = x /\ w \in Seq(S) /\ Len(w) = 2 /\ w[1] = x /\ w[2] = e /\ e \in S
  BY <1>1
<1>3. /\ Append(v, e) \in Seq(S) /\ Len(Append(v, e)) = 2
      /\ \A i \in 1..1 : Append(v, e)[i] = v[i]
      /\ Append(v, e)[2] = e
  <2>1. v \in Seq(S) /\ e \in S
    BY <1>2
  <2>2. /\ Append(v, e) \in Seq(S) /\ Len(Append(v, e)) = Len(v) + 1
        /\ \A i \in 1..Len(v) : Append(v, e)[i] = v[i]
        /\ Append(v, e)[Len(v) + 1] = e
    BY <2>1, AppendProperties
  <2>3. Len(v) = 1 /\ Len(v) + 1 = 2
    BY <1>2
  <2> QED
    BY <2>2, <2>3
<1>4. \A i \in 1..2 : Append(v, e)[i] = w[i]
  <2> TAKE i \in 1..2
  <2>1. i = 1 \/ i = 2
    OBVIOUS
  <2> QED
    BY <1>2, <1>3, <2>1
<1>5. Append(v, e) = w
  BY <1>2, <1>3, <1>4, SeqEqual
<1> QED
  BY <1>1, <1>5

\* The first step.
LEMMA FreshStep ==
  ASSUME source \in Sources, source.value # NoValue, Fresh, ScanNext
  PROVE  Past' /\ source' = source
<1>1. /\ Size \in Nat \ {0} /\ Char(1) = "\"" /\ Skip(1, Blanks) = 1
  BY FreshChars, Zenon
<1>2. /\ sc.at = 1 /\ sc.lineStart = TRUE /\ sc.dents = 0 /\ sc.depth = 0 /\ sc.indentstk = <<0>>
      /\ sc = NewScanner /\ DOMAIN sc = DOMAIN NewScanner /\ toks = <<>> /\ status = "scanning"
  BY NewScannerFacts, Zenon DEF Fresh
<1>3. LeadEnd = 1 /\ LeadCol(1) = 0
  BY <1>1, <1>2, Zenon DEF LeadEnd, LeadCol
<1>4. PICK l : ScanLine(l) /\ l = LineAt(LeadAt(1, 0), 1)
  BY <1>1, <1>3, Zenon DEF ScanNext
<1>5. PICK f : f = LeadAt(1, 0)
  BY Zenon
<1>6. "\"" # "#" /\ "\"" # "\n" /\ "\"" # EOFc /\ "\"" # "\\"
  BY DEF EOFc
<1>7. ~Blank(1, 0)
  BY <1>1, <1>6, Zenon DEF Blank
<1>8. f.end = 1 /\ f.col = 0 /\ f.blank = FALSE /\ f.measured = TRUE
  <2>1. f = [end |-> 1, col |-> 0, blank |-> FALSE, measured |-> TRUE]
    <3>1. (sc.lineStart /\ ~FALSE /\ sc.depth = 0) = TRUE
      BY <1>2, Zenon
    <3>2. Blank(1, 0) = FALSE
      BY <1>7, Zenon DEF Blank
    <3> QED
      BY <1>5, <3>1, <3>2, Zenon DEF LeadAt
  <2> QED
    BY <2>1
<1>9. Kept(0) = <<0>>
  <2> DEFINE T == {0} \cup {i \in DOMAIN sc.indentstk : sc.indentstk[i] <= 0}
  <2>1. T = {0, 1}
    BY <1>2
  <2>2. Max(T) = 1
    <3> HIDE DEF T
    <3> QED
      BY <2>1 DEF Max
  <2>3. SubSeq(sc.indentstk, 1, 1) = <<0>>
    <3>1. <<0>> \in Seq(Int) /\ Len(<<0>>) = 1
      OBVIOUS
    <3>2. SubSeq(<<0>>, 1, 1) = <<0>>
      BY <3>1, SubSeqFull
    <3> QED
      BY <1>2, <3>2, Zenon
  <2> QED
    BY <2>2, <2>3, Zenon DEF Kept, T
<1>10. Len(<<0>>) = 1 /\ Last(<<0>>) = 0 /\ <<0>> # <<>> /\ ~(1 < 1) /\ ~(0 > 0) /\ 1 - 1 = 0 /\ 0 - 0 = 0
  BY DEF Last
<1>11. LeadError(f) = "none"
  BY <1>2, <1>8, <1>9, <1>10, Zenon DEF LeadError
<1>12. Lead(f) = [[sc EXCEPT !.at = 1, !.lineStart = FALSE] EXCEPT !.dents = @ - (1 - 1), !.indentstk = <<0>>]
  BY <1>2, <1>8, <1>9, <1>10, Zenon DEF Lead
<1>13. PICK s : s = Lead(f)
  BY Zenon
<1>14. /\ s.at = 1 /\ s.lineStart = FALSE /\ s.dents = 0 /\ s.depth = 0 /\ s.indentstk = <<0>>
       /\ DOMAIN s = DOMAIN NewScanner
  BY <1>2, <1>10, <1>12, <1>13, NewScannerFacts
<1>15. PastNote(1) = 1
  BY <1>1, <1>6, Zenon DEF PastNote
<1>16. l = [end |-> 1, blank |-> FALSE, error |-> "none", lead |-> s, proper |-> 1, note |-> 1]
  BY <1>4, <1>5, <1>8, <1>11, <1>13, <1>15, Zenon DEF LineAt
<1>17. l.end = 1 /\ l.blank = FALSE /\ l.error = "none" /\ l.lead = s /\ l.proper = 1 /\ l.note = 1
  BY <1>16
<1>18. Lex(1) = [kind |-> "STRING", to |-> Size + 1]
  <2>1. StringEnd(source.text, 1) = Complete(source.text) /\ Unquote(source.text) = [s |-> source.value, ok |-> TRUE]
        /\ SubSeq(source.text, 1, Len(source.text)) = source.text
    BY SourceFacts, Zenon
  <2>2. PICK e : e = StringEnd(source.text, 1)
    BY Zenon
  <2>3. e.err = "none" /\ e.to = Size + 1
    BY <2>1, <2>2 DEF Complete, Size, Src
  <2>4. Text(source.text, 1, e.to) = source.text
    <3>1. (Len(source.text) + 1) - 1 = Len(source.text)
      <4>1. PICK n : n = Len(source.text)
        BY Zenon
      <4>2. n \in Nat
        BY <1>1, <4>1, Zenon DEF Size, Src
      <4>3. (n + 1) - 1 = n
        BY <4>2
      <4> QED
        BY <4>1, <4>3, Zenon
    <3> QED
      BY <2>1, <2>3, <3>1, Zenon DEF Text, Size, Src
  <2>5. Unquote(source.text).ok = TRUE
    BY <2>1
  <2>6. StringAt(1, 1) = [kind |-> "STRING", to |-> Size + 1]
    BY <2>2, <2>3, <2>4, <2>5, Zenon DEF StringAt
  <2>7. Lex(1) = StringAt(1, 1)
    <3>1. Char(1) \in {"\"", "'"} /\ Char(1) # "r" /\ Char(1) \notin {")", "]", "}"}
          /\ Char(1) \notin {"(", "[", "{", ",", ":", ";", "|", "&"} /\ Char(1) \notin Decimal \cup {"."}
          /\ Char(1) \notin Punct \cup {"*"}
      BY <1>1 DEF Decimal, Punct
    <3>2. Char(1) \notin Letters
      BY <1>1, ScannerAssumption DEF ScannerAssumption, Special
    <3> QED
      BY <3>1, <3>2 DEF Lex
  <2> QED
    BY <2>6, <2>7
<1>19. PICK t : t = [kind |-> "STRING", to |-> Size + 1]
  BY Zenon
<1>20. t.kind = "STRING" /\ t.to = Size + 1 /\ "STRING" \notin LexErrors /\ "STRING" \notin {"(", "[", "{"}
       /\ "STRING" \notin {")", "]", "}"}
  BY <1>19 DEF LexErrors
<1>21. OnLine(l) /\ l.lead.dents = 0
  BY <1>14, <1>17, Zenon DEF OnLine
<1>22. Token(l, t)
  <2>1. ~Misindented(l) /\ ~Dent(l)
    BY <1>14, <1>17, Zenon DEF Misindented, Dent
  <2>2. ~SkipLine(l) /\ ~Newline(l)
    BY <1>1, <1>6, <1>17, Zenon DEF SkipLine, Newline
  <2>3. ~CloseBlocks(l) /\ ~NewlineAtEnd(l) /\ ~EndOfFile(l)
    BY <1>1, <1>6, <1>17, Zenon DEF CloseBlocks, NewlineAtEnd, EndOfFile, AtEnd
  <2>4. ~Continuation(l) /\ ~StrayBackslash(l)
    BY <1>1, <1>6, <1>17, Zenon DEF Continuation, StrayBackslash
  <2>5. ~BadToken(t)
    BY <1>20, Zenon DEF BadToken
  <2>6. \E x \in {Lex(l.proper)} : Token(l, x) \/ BadToken(x)
    BY <1>4, <2>1, <2>2, <2>3, <2>4, Zenon DEF ScanLine
  <2>7. Lex(l.proper) = t
    BY <1>17, <1>18, <1>19, Zenon
  <2> QED
    BY <2>5, <2>6, <2>7, Zenon
<1>23. /\ toks' = Append(<<>>, [kind |-> "STRING", from |-> 1, to |-> Size + 1])
       /\ sc' = [s EXCEPT !.at = Size + 1, !.depth = @]
       /\ source' = source /\ status' = status
  BY <1>2, <1>17, <1>20, <1>22, Zenon DEF Token, Return
<1>24. toks' = <<StringToken>>
  BY <1>23 DEF StringToken
<1>25. /\ sc'.at = Size + 1 /\ sc'.lineStart = FALSE /\ sc'.dents = 0 /\ sc'.depth = 0 /\ sc'.indentstk = <<0>>
       /\ DOMAIN sc' = DOMAIN NewScanner
  BY <1>14, <1>23, NewScannerFacts
<1> QED
  BY <1>2, <1>23, <1>24, <1>25 DEF Past, StringToken, Size, Src, NewScanner

\* The second.
LEMMA PastStep ==
  ASSUME source \in Sources, source.value # NoValue, Past, ScanNext
  PROVE  Over' /\ source' = source
<1>1. /\ Size \in Nat \ {0} /\ Char(Size + 1) = EOFc /\ Skip(Size + 1, Blanks) = Size + 1
  BY FreshChars, Zenon
<1>2. /\ sc.at = Size + 1 /\ sc.lineStart = FALSE /\ sc.dents = 0 /\ sc.depth = 0 /\ sc.indentstk = <<0>>
      /\ toks = <<StringToken>> /\ DOMAIN sc = DOMAIN NewScanner
  BY Zenon DEF Past
<1>3. PICK n : n = Size + 1
  BY Zenon
<1>4. LeadEnd = n /\ LeadCol(n) = 0
  BY <1>2, <1>3, Zenon DEF LeadEnd, LeadCol
<1>5. PICK l : ScanLine(l) /\ l = LineAt(LeadAt(n, 0), n)
  BY <1>1, <1>3, <1>4, Zenon DEF ScanNext
<1>6. PICK f : f = LeadAt(n, 0)
  BY Zenon
<1>7. f.end = n /\ f.blank = FALSE /\ f.measured = FALSE
  <2>1. f = [end |-> n, col |-> 0, blank |-> FALSE, measured |-> FALSE]
    BY <1>2, <1>6, Zenon DEF LeadAt, Blank
  <2> QED
    BY <2>1
<1>8. LeadError(f) = "none"
  BY <1>7, Zenon DEF LeadError
<1>9. PICK s : s = Lead(f)
  BY Zenon
<1>10. s = [sc EXCEPT !.at = n, !.lineStart = FALSE]
  BY <1>7, <1>9, Zenon DEF Lead
<1>11. s.dents = 0 /\ s.indentstk = <<0>>
  BY <1>2, <1>10, NewScannerFacts
<1>12. EOFc # "#" /\ EOFc # "\n" /\ EOFc # "\\"
  BY DEF EOFc
<1>13. PastNote(n) = n
  BY <1>1, <1>3, <1>12, Zenon DEF PastNote
<1>14. l = [end |-> n, blank |-> FALSE, error |-> "none", lead |-> s, proper |-> n, note |-> n]
  BY <1>5, <1>6, <1>7, <1>8, <1>9, <1>13, Zenon DEF LineAt
<1>15. l.end = n /\ l.blank = FALSE /\ l.error = "none" /\ l.lead = s /\ l.proper = n /\ l.note = n
  BY <1>14
<1>16. Char(n) = EOFc /\ Char(n) # "\n" /\ Char(n) # "\\"
  BY <1>1, <1>3, <1>12, Zenon
<1>17. ~(Len(s.indentstk) > 1)
  BY <1>11
<1>18. EndOfFile(l)
  <2>1. ~Misindented(l) /\ ~Dent(l)
    BY <1>11, <1>15, Zenon DEF Misindented, Dent
  <2>2. ~SkipLine(l) /\ ~Newline(l)
    BY <1>15, <1>16, Zenon DEF SkipLine, Newline
  <2>3. ~CloseBlocks(l) /\ ~NewlineAtEnd(l)
    BY <1>15, <1>17, Zenon DEF CloseBlocks, NewlineAtEnd
  <2>4. ~Continuation(l) /\ ~StrayBackslash(l)
    BY <1>15, <1>16, Zenon DEF Continuation, StrayBackslash
  <2>5. ~AtToken(l)
    BY <1>15, <1>16, Zenon DEF AtToken
  <2> QED
    BY <1>5, <2>1, <2>2, <2>3, <2>4, <2>5, Zenon DEF ScanLine
<1>19. PICK e : e = [kind |-> "EOF", from |-> n, to |-> n]
  BY Zenon
<1>20. toks' = Append(toks, e) /\ status' = "ended" /\ source' = source
  BY <1>15, <1>18, <1>19, Zenon DEF EndOfFile, Return
<1>21. e.kind = "EOF"
  BY <1>19
<1>22. toks' = <<StringToken, e>>
  <2>1. PICK x : x = StringToken
    BY Zenon
  <2>2. Append(<<x>>, e) = <<x, e>>
    BY AppendOne, Zenon
  <2> QED
    BY <1>2, <1>20, <2>1, <2>2, Zenon
<1>23. StringToken' = StringToken
  BY <1>20, Zenon DEF StringToken, Size, Src
<1> QED
  BY <1>20, <1>21, <1>22, <1>23, Zenon DEF Over

LEMMA ReadWholeInit == ScanInit => ReadWhole
BY Zenon DEF ScanInit, ReadWhole, Fresh

LEMMA ReadWholeStep == ReadWhole /\ [ScanNext]_scannerVars => ReadWhole'
<1> SUFFICES ASSUME ReadWhole, [ScanNext]_scannerVars PROVE ReadWhole'
  BY Zenon
<1>1. CASE UNCHANGED scannerVars
  <2>1. source' = source /\ sc' = sc /\ toks' = toks /\ status' = status
    BY <1>1 DEF scannerVars
  <2> QED
    BY <2>1, Zenon DEF ReadWhole, Fresh, Past, Over, StringToken, Size, Src
<1>2. CASE ScanNext
  <2>1. source' = source
    BY <1>2, Zenon DEF ScanNext, ScanLine, Misindented, Dent, SkipLine, Newline, CloseBlocks, NewlineAtEnd, EndOfFile,
                Continuation, StrayBackslash, Token, BadToken, Stop
  <2>2. CASE source.value = NoValue
    BY <2>1, <2>2, Zenon DEF ReadWhole
  <2>3. CASE source.value # NoValue
    <3>1. ~Over
      <4>1. status = "scanning"
        BY <1>2, Zenon DEF ScanNext
      <4> QED
        BY <4>1 DEF Over
    <3>2. Past' \/ Over'
      BY <1>2, <2>3, <3>1, FreshStep, PastStep, Zenon DEF ReadWhole
    <3> QED
      BY <2>1, <3>2, Zenon DEF ReadWhole
  <2> QED
    BY <2>2, <2>3, Zenon
<1> QED
  BY <1>1, <1>2, Zenon

LEMMA ReadWholeTells == ReadWhole => QuoteRoundTrip
<1> SUFFICES ASSUME ReadWhole, source.value # NoValue PROVE QuoteRoundTrip
  BY Zenon DEF QuoteRoundTrip
<1>1. "scanning" # "ended"
  BY Zenon
<1>2. CASE Fresh \/ Past
  <2>1. status = "scanning"
    BY <1>2, Zenon DEF Fresh, Past
  <2> QED
    BY <1>1, <2>1, Zenon DEF QuoteRoundTrip
<1>3. CASE Over
  <2>1. PICK e : toks = <<StringToken, e>> /\ e.kind = "EOF"
    BY <1>3, Zenon DEF Over
  <2>2. [i \in DOMAIN toks |-> toks[i].kind] = <<"STRING", "EOF">>
    <3>1. StringToken.kind = "STRING"
      BY DEF StringToken
    <3>2. DOMAIN toks = {1, 2} /\ toks[1] = StringToken /\ toks[2] = e /\ DOMAIN <<"STRING", "EOF">> = {1, 2}
      BY <2>1
    <3> QED
      BY <2>1, <3>1, <3>2
  <2>3. toks[1].to = Size + 1
    BY <2>1 DEF StringToken
  <2>4. Unquote(Src) = [s |-> source.value, ok |-> TRUE]
    BY SourceFacts, Zenon DEF Src, ReadWhole
  <2>5. status = "ended"
    BY <1>3, Zenon DEF Over
  <2> QED
    BY <2>2, <2>3, <2>4, <2>5, Zenon DEF QuoteRoundTrip
<1> QED
  BY <1>2, <1>3, Zenon DEF ReadWhole

\* QuoteRoundTrip of every run of the scanner: whatever the value and the form, the
\* literal that quote makes is one token, and unquote gives the value back.
THEOREM QuotesRoundTrip == ScanSpec => []QuoteRoundTrip
<1>1. ScanInit => ReadWhole
  BY ReadWholeInit
<1>2. ReadWhole /\ [ScanNext]_scannerVars => ReadWhole'
  BY ReadWholeStep
<1>3. ReadWhole => QuoteRoundTrip
  BY ReadWholeTells
<1> QED
  BY <1>1, <1>2, <1>3, PTL DEF ScanSpec

(***************************************************************************)
(* Classes of characters.                                                  *)
(***************************************************************************)
\* What is part of no token but a string.
Silent == Blanks \cup {"\n", "#", "\\"}

LEMMA Disjoint ==
  /\ Decimal \cap Silent = {} /\ Octal \subseteq Decimal /\ Decimal \subseteq Hex /\ Octal \cap Silent = {}
  /\ Hex \cap Silent = {} /\ Binary \subseteq Decimal /\ Letters \cap Silent = {} /\ Letters \cap Decimal = {}
  /\ Letters \cap Punct = {} /\ Decimal \cap Punct = {} /\ "*" \notin Decimal \cup Letters
  /\ "." \notin Hex \cup Silent \cup Letters \cup Punct /\ {"e", "E"} \cap (Decimal \cup Silent) = {}
  /\ {"+", "-"} \cap (Decimal \cup Silent) = {} /\ {"x", "X", "o", "O"} \cap (Hex \cup Silent) = {}
  /\ {"b", "B"} \cap (Decimal \cup Silent) = {} /\ "0" \in Octal /\ "0" \in Binary
  /\ EOFc \notin Decimal \cup Hex \cup Letters \cup Silent /\ Punct \cap Silent = {}
<1>1. Letters \cap (Decimal \cup Special) = {}
  BY ScannerAssumption DEF ScannerAssumption
<1>2. /\ Letters \cap Silent = {} /\ Letters \cap Decimal = {}
      /\ Letters \cap Punct = {} /\ "*" \notin Letters /\ "." \notin Letters /\ EOFc \notin Letters
  BY <1>1 DEF Special, Silent
<1> QED
  BY <1>2 DEF Decimal, Octal, Binary, Hex, Silent, Blanks, Punct, EOFc

LEMMA SkipOverFacts ==
  ASSUME NEW s, Len(s) \in Nat, DOMAIN s = 1..Len(s), NEW i \in 1..(Len(s) + 1), NEW cs, EOFc \notin cs
  PROVE  /\ SkipOver(s, i, cs) \in i..(Len(s) + 1)
         /\ \A j \in i..(SkipOver(s, i, cs) - 1) : j \in 1..Len(s) /\ s[j] \in cs
         /\ CharAt(s, SkipOver(s, i, cs)) \notin cs
<1> DEFINE T == {j \in i..(Len(s) + 1) : CharAt(s, j) \notin cs}
<1>1. Len(s) + 1 \in T
  BY DEF CharAt
<1>2. T \in SUBSET Nat /\ T # {}
  BY <1>1
<1>3. \A j \in i..(Len(s) + 1) : j \notin T => CharAt(s, j) \in cs
  OBVIOUS
<1>4. T \subseteq i..(Len(s) + 1) /\ \A j \in T : CharAt(s, j) \notin cs
  OBVIOUS
<1> HIDE DEF T
<1>5. PICK m \in T : \A n \in T : m <= n
  BY <1>2, LeastNatural
<1>6. \A n \in T : n \in Int
  BY <1>4
<1>7. \A x \in T : (\A y \in T : x <= y) => x = m
  BY <1>5, <1>6
<1>8. Min(T) = m
  BY <1>5, <1>7 DEF Min
<1>9. SkipOver(s, i, cs) = m
  BY <1>8, Zenon DEF SkipOver, T
<1>10. m \in i..(Len(s) + 1) /\ CharAt(s, m) \notin cs
  BY <1>4, <1>5
<1>11. ASSUME NEW j \in i..(m - 1) PROVE j \in 1..Len(s) /\ s[j] \in cs
  <2>1. j \in i..(Len(s) + 1) /\ j \in 1..Len(s) /\ ~(m <= j)
    BY <1>10
  <2>2. j \notin T
    BY <1>5, <2>1
  <2>3. CharAt(s, j) \in cs
    BY <1>3, <2>1, <2>2
  <2> QED
    BY <2>1, <2>3 DEF CharAt
<1> QED
  BY <1>9, <1>10, <1>11, Zenon

\* A text that s may begin with from k on.
LEMMA TextFacts ==
  ASSUME NEW S, NEW s \in Seq(S), NEW k \in 1..(Len(s) + 1), NEW e \in k..(Len(s) + 1)
  PROVE  /\ Text(s, k, e) \in Seq(S) /\ Len(Text(s, k, e)) = e - k /\ DOMAIN Text(s, k, e) = 1..(e - k)
         /\ \A n \in 1..(e - k) : Text(s, k, e)[n] = s[k + n - 1]
<1>1. Len(s) \in Nat /\ DOMAIN s = 1..Len(s)
  BY LenProperties
<1>2. \A i \in k..(e - 1) : s[i] \in S
  BY <1>1, ElementOfSeq
<1>3. PICK f \in Int : f = e - 1 /\ k \in Int
  BY <1>1
<1>4. \A i \in k..f : s[i] \in S
  BY <1>2, <1>3
<1>5. /\ SubSeq(s, k, f) \in Seq(S) /\ Len(SubSeq(s, k, f)) = IF k <= f THEN f - k + 1 ELSE 0
      /\ \A n \in 1..(f - k + 1) : SubSeq(s, k, f)[n] = s[k + n - 1]
  BY <1>3, <1>4, SubSeqProperties
<1>6. f - k + 1 = e - k /\ (IF k <= f THEN f - k + 1 ELSE 0) = e - k
  BY <1>1, <1>3
<1>7. PICK t : t = SubSeq(s, k, f)
  BY Zenon
<1>8. t \in Seq(S) /\ Len(t) = e - k /\ \A n \in 1..(e - k) : t[n] = s[k + n - 1]
  BY <1>5, <1>6, <1>7, Zenon
<1>9. DOMAIN t = 1..(e - k)
  BY <1>8, LenProperties, Zenon
<1>10. Text(s, k, e) = t
  BY <1>3, <1>7 DEF Text
<1> QED
  BY <1>8, <1>9, <1>10, Zenon

(***************************************************************************)
(* The spelling of numbers and words by position.                          *)
(***************************************************************************)
LEMMA DigitsAre ==
  ASSUME NEW S, NEW s \in Seq(S), NEW k \in 1..(Len(s) + 1), NEW e \in (k - 1)..Len(s), NEW ds
  PROVE  Digits(SubSeq(s, k, e), ds) <=> \A n \in k..e : s[n] \in ds
<1>1. Len(s) \in Nat
  BY LenProperties
<1>2. PICK f \in k..(Len(s) + 1) : f = e + 1 /\ f - 1 = e
  BY <1>1
<1>3. PICK t : t = Text(s, k, f)
  BY Zenon
<1>4. t = SubSeq(s, k, e)
  BY <1>2, <1>3 DEF Text
<1>5. DOMAIN t = 1..(f - k) /\ \A n \in 1..(f - k) : t[n] = s[k + n - 1]
  <2>1. Text(s, k, f) \in Seq(S) /\ Len(Text(s, k, f)) = f - k /\ DOMAIN Text(s, k, f) = 1..(f - k)
    BY TextFacts, Zenon
  <2>2. \A n \in 1..(f - k) : Text(s, k, f)[n] = s[k + n - 1]
    BY TextFacts
  <2> QED
    BY <1>3, <2>1, <2>2, Zenon
<1>6. Digits(t, ds) <=> \A n \in DOMAIN t : t[n] \in ds
  BY DEF Digits, ToSet
<1>7. (\A n \in DOMAIN t : t[n] \in ds) <=> \A n \in k..e : s[n] \in ds
  <2>1. ASSUME \A n \in DOMAIN t : t[n] \in ds, NEW n \in k..e PROVE s[n] \in ds
    <3>1. n - k + 1 \in 1..(f - k) /\ k + (n - k + 1) - 1 = n
      BY <1>1, <1>2
    <3> QED
      BY <2>1, <1>5, <3>1
  <2>2. ASSUME \A n \in k..e : s[n] \in ds, NEW n \in DOMAIN t PROVE t[n] \in ds
    <3>1. k + n - 1 \in k..e
      BY <1>1, <1>2, <1>5
    <3> QED
      BY <2>2, <1>5, <3>1
  <2> QED
    BY <2>1, <2>2
<1> QED
  BY <1>4, <1>6, <1>7

\* All characters of s from k to e are in ds.
All(s, k, e, ds) == \A n \in k..e : s[n] \in ds

LEMMA WholeDigits ==
  ASSUME NEW S, NEW s \in Seq(S), NEW ds
  PROVE  Digits(s, ds) <=> All(s, 1, Len(s), ds)
<1>1. DOMAIN s = 1..Len(s)
  BY LenProperties
<1> QED
  BY <1>1 DEF Digits, ToSet, All

Prefixed(s, letters, ds) == Len(s) > 2 /\ s[1] = "0" /\ s[2] \in letters /\ All(s, 3, Len(s), ds)
LEMMA IntIs ==
  ASSUME NEW S, NEW s \in Seq(S)
  PROVE  IsInt(s) <=>
           \/ Len(s) > 0 /\ All(s, 1, Len(s), IF s[1] = "0" THEN Octal ELSE Decimal)
           \/ Prefixed(s, {"x", "X"}, Hex) \/ Prefixed(s, {"o", "O"}, Octal) \/ Prefixed(s, {"b", "B"}, Binary)
<1>1. Len(s) \in Nat
  BY LenProperties
<1>2. ASSUME NEW letters, NEW ds PROVE DigitsAfter(s, letters, ds) <=> Prefixed(s, letters, ds)
  <2>1. CASE Len(s) > 2
    <3>1. 3 \in 1..(Len(s) + 1) /\ Len(s) \in (3 - 1)..Len(s)
      BY <1>1, <2>1
    <3>2. Digits(SubSeq(s, 3, Len(s)), ds) <=> All(s, 3, Len(s), ds)
      BY <3>1, DigitsAre DEF All
    <3> QED
      BY <3>2, Zenon DEF DigitsAfter, Prefixed
  <2>2. CASE ~(Len(s) > 2)
    BY <2>2, Zenon DEF DigitsAfter, Prefixed
  <2> QED
    BY <2>1, <2>2, Zenon
<1>3. Digits(s, IF s[1] = "0" THEN Octal ELSE Decimal) <=> All(s, 1, Len(s), IF s[1] = "0" THEN Octal ELSE Decimal)
  BY WholeDigits
<1> QED
  BY <1>2, <1>3, Zenon DEF IsInt

\* An exponent from k on to the end.
ExponentFrom(s, k) ==
  /\ Len(s) > k /\ s[k] \in {"e", "E"}
  /\ \/ All(s, k + 1, Len(s), Decimal)
     \/ s[k + 1] \in {"+", "-"} /\ Len(s) > k + 1 /\ All(s, k + 2, Len(s), Decimal)
LEMMA ExponentIs ==
  ASSUME NEW S, NEW s \in Seq(S), NEW k \in 1..Len(s)
  PROVE  IsExponent(SubSeq(s, k, Len(s))) <=> ExponentFrom(s, k)
<1>1. Len(s) \in Nat
  BY LenProperties
<1>2. PICK c \in 1..(Len(s) + 1) : c = k
  BY <1>1
<1>3. PICK f \in c..(Len(s) + 1) : f = Len(s) + 1 /\ f - 1 = Len(s)
  BY <1>1
<1>4. PICK t, m : t = SubSeq(s, k, Len(s)) /\ m = (Len(s) + 1) - k
  BY Zenon
<1>5. m \in Nat /\ t \in Seq(S) /\ Len(t) = m /\ \A n \in 1..m : t[n] = s[k + n - 1]
  <2>1. Text(s, c, f) \in Seq(S) /\ Len(Text(s, c, f)) = f - c
    BY TextFacts, Zenon
  <2>2. \A n \in 1..(f - c) : Text(s, c, f)[n] = s[c + n - 1]
    BY TextFacts
  <2>3. t = Text(s, c, f)
    BY <1>2, <1>3, <1>4 DEF Text
  <2>4. f - c = m /\ m \in Nat
    BY <1>1, <1>2, <1>3, <1>4
  <2> QED
    BY <1>2, <2>1, <2>2, <2>3, <2>4, Zenon
<1>6. ASSUME NEW d \in 2..3, d <= m PROVE Digits(SubSeq(t, d, Len(t)), Decimal) <=> All(s, k + d - 1, Len(s), Decimal)
  <2>1. d \in 1..(Len(t) + 1) /\ Len(t) \in (d - 1)..Len(t)
    BY <1>5, <1>6
  <2>2. Digits(SubSeq(t, d, Len(t)), Decimal) <=> \A n \in d..m : t[n] \in Decimal
    BY <1>5, <2>1, DigitsAre
  <2>3. ASSUME \A n \in d..m : t[n] \in Decimal, NEW n \in (k + d - 1)..Len(s) PROVE s[n] \in Decimal
    <3>1. n - k + 1 \in d..m /\ n - k + 1 \in 1..m /\ k + (n - k + 1) - 1 = n
      BY <1>1, <1>4, <1>6
    <3> QED
      BY <1>5, <2>3, <3>1
  <2>4. ASSUME \A n \in (k + d - 1)..Len(s) : s[n] \in Decimal, NEW n \in d..m PROVE t[n] \in Decimal
    <3>1. k + n - 1 \in (k + d - 1)..Len(s) /\ n \in 1..m
      BY <1>1, <1>4, <1>6
    <3> QED
      BY <1>5, <2>4, <3>1
  <2> QED
    BY <2>2, <2>3, <2>4 DEF All
<1>7. m > 1 <=> Len(s) > k
  BY <1>1, <1>4
<1>8. CASE m > 1
  <2>1. t[1] = s[k] /\ t[2] = s[k + 1]
    <3>1. 1 \in 1..m /\ 2 \in 1..m /\ k + 1 - 1 = k /\ k + 2 - 1 = k + 1
      BY <1>1, <1>4, <1>5, <1>8
    <3> QED
      BY <1>5, <3>1
  <2>2. Digits(SubSeq(t, 2, Len(t)), Decimal) <=> All(s, k + 1, Len(s), Decimal)
    <3>1. 2 \in 2..3 /\ 2 <= m /\ k + 2 - 1 = k + 1
      BY <1>1, <1>4, <1>5, <1>8
    <3> QED
      BY <1>6, <3>1
  <2>3. m >= 3 => (Digits(SubSeq(t, 3, Len(t)), Decimal) <=> All(s, k + 2, Len(s), Decimal))
    <3>1. 3 \in 2..3 /\ k + 3 - 1 = k + 2 /\ (m >= 3 => 3 <= m)
      BY <1>8
    <3> QED
      BY <1>6, <3>1
  <2>4. m >= 3 <=> Len(s) > k + 1
    BY <1>1, <1>4
  <2> DEFINE sign == s[k + 1] \in {"+", "-"}
             D(d) == d <= Len(t) /\ Digits(SubSeq(t, d, Len(t)), Decimal)
  <2>5. IsExponent(t) <=> t[1] \in {"e", "E"} /\ \E d \in {2} \cup ({3} \cap {IF sign THEN 3 ELSE 2}) : D(d)
    BY <1>5, <1>8, <2>1 DEF IsExponent
  <2>6. (\E d \in {2} \cup ({3} \cap {IF sign THEN 3 ELSE 2}) : D(d)) <=> D(2) \/ (sign /\ D(3))
    <3> HIDE DEF D, sign
    <3> QED
      OBVIOUS
  <2>7. D(2) <=> All(s, k + 1, Len(s), Decimal)
    BY <1>5, <1>8, <2>2
  <2>8. D(3) <=> Len(s) > k + 1 /\ All(s, k + 2, Len(s), Decimal)
    BY <1>5, <2>3, <2>4
  <2> HIDE DEF D
  <2> QED
    BY <1>4, <1>7, <1>8, <2>1, <2>5, <2>6, <2>7, <2>8, Zenon DEF ExponentFrom
<1>9. CASE ~(m > 1)
  BY <1>4, <1>5, <1>7, <1>9 DEF IsExponent, ExponentFrom
<1> QED
  BY <1>8, <1>9

\* The digits before the dot end at i, those after it at j.
FloatOf(s, i, j) ==
  /\ i <= j /\ All(s, 1, i, Decimal) /\ (j > i => s[i + 1] = "." /\ All(s, i + 2, j, Decimal))
  /\ (\E n \in 1..j : s[n] # ".") /\ (j > i \/ j < Len(s))
  /\ (j < Len(s) => ExponentFrom(s, j + 1))
LEMMA FloatIs ==
  ASSUME NEW S, NEW s \in Seq(S)
  PROVE  IsFloat(s) <=> \E i \in 0..Len(s), j \in 0..Len(s) : FloatOf(s, i, j)
<1>1. Len(s) \in Nat
  BY LenProperties
<1>2. ASSUME NEW i \in 0..Len(s), NEW j \in 0..Len(s), i <= j
      PROVE  /\ Digits(SubSeq(s, 1, i), Decimal) <=> All(s, 1, i, Decimal)
             /\ j > i => (Digits(SubSeq(s, i + 2, j), Decimal) <=> All(s, i + 2, j, Decimal))
             /\ {k \in 1..j : s[k] # "."} # {} <=> \E n \in 1..j : s[n] # "."
             /\ j < Len(s) => (IsExponent(SubSeq(s, j + 1, Len(s))) <=> ExponentFrom(s, j + 1))
  <2>1. 1 \in 1..(Len(s) + 1) /\ i \in (1 - 1)..Len(s)
    BY <1>1
  <2>2. Digits(SubSeq(s, 1, i), Decimal) <=> All(s, 1, i, Decimal)
    BY <2>1, DigitsAre DEF All
  <2>3. ASSUME j > i PROVE Digits(SubSeq(s, i + 2, j), Decimal) <=> All(s, i + 2, j, Decimal)
    <3>1. i + 2 \in 1..(Len(s) + 1) /\ j \in ((i + 2) - 1)..Len(s)
      BY <1>1, <2>3
    <3> QED
      BY <3>1, DigitsAre DEF All
  <2>4. ASSUME j < Len(s) PROVE IsExponent(SubSeq(s, j + 1, Len(s))) <=> ExponentFrom(s, j + 1)
    <3>1. j + 1 \in 1..Len(s)
      BY <1>1, <2>4
    <3> QED
      BY <3>1, ExponentIs
  <2>5. {k \in 1..j : s[k] # "."} # {} <=> \E n \in 1..j : s[n] # "."
    OBVIOUS
  <2> QED
    BY <2>2, <2>3, <2>4, <2>5, Zenon
<1> QED
  BY <1>2, Zenon DEF IsFloat, FloatOf

(***************************************************************************)
(* What a token begins with.                                               *)
(***************************************************************************)
LEMMA SpellingIs ==
  /\ \A c \in (Punct \ {"!"}) \cup {"*"} : c \in Operators /\ Spelling(c) = <<c>>
  /\ \A c \in Punct : \E op \in Operators : Spelling(op) = <<c, "=">>
  /\ \E op \in Operators : Spelling(op) = <<"/", "/">>
  /\ \E op \in Operators : Spelling(op) = <<"/", "/", "=">>
  /\ \A c \in {"*", "="} : \E op \in Operators : Spelling(op) = <<"*", c>>
<1>1. \A c \in (Punct \ {"!"}) \cup {"*"} : c \in Operators /\ Spelling(c) = <<c>>
  BY DEF Punct, Operators, Spelling
<1>2. /\ Spelling("==") = <<"=", "=">> /\ Spelling("<=") = <<"<", "=">> /\ Spelling(">=") = <<">", "=">>
      /\ Spelling("!=") = <<"!", "=">> /\ Spelling("+=") = <<"+", "=">> /\ Spelling("-=") = <<"-", "=">>
      /\ Spelling("%=") = <<"%", "=">> /\ Spelling("/=") = <<"/", "=">>
  BY DEF Spelling
<1>3. /\ Spelling("//") = <<"/", "/">> /\ Spelling("//=") = <<"/", "/", "=">>
      /\ Spelling("**") = <<"*", "*">> /\ Spelling("*=") = <<"*", "=">>
  BY DEF Spelling
<1>4. \A op \in {"==", "<=", ">=", "!=", "+=", "-=", "%=", "/=", "//", "//=", "**", "*="} : op \in Operators
  BY DEF Operators
<1>5. ASSUME NEW c \in Punct PROVE \E op \in Operators : Spelling(op) = <<c, "=">>
  <2>1. c \in {"=", "<", ">", "!", "+", "-", "%", "/"}
    BY DEF Punct
  <2> QED
    BY <1>2, <1>4, <2>1
<1> QED
  BY <1>1, <1>3, <1>4, <1>5

\* The operators of several characters, by position.
Compound(t) ==
  \/ Len(t) = 2 /\ t[1] \in Punct /\ t[2] = "="
  \/ Len(t) = 2 /\ t[1] = "/" /\ t[2] = "/"
  \/ Len(t) = 2 /\ t[1] = "*" /\ t[2] \in {"*", "="}
  \/ Len(t) = 3 /\ t[1] = "/" /\ t[2] = "/" /\ t[3] = "="
LEMMA SpellingFacts ==
  ASSUME NEW op \in Operators
  PROVE  LET t == Spelling(op)
         IN  Len(t) > 0 /\ t[1] \in Punct \cup {"*"} /\ (Len(t) = 1 \/ Compound(t))
<1>1. CASE op \in {"=", "<", ">", "+", "-", "%", "/", "*"}
  <2>1. Spelling(op) = <<op>>
    BY <1>1 DEF Spelling
  <2> QED
    BY <1>1, <2>1 DEF Punct
<1>2. CASE op \in {"==", "<=", ">=", "!=", "+=", "-=", "%=", "/="}
  <2>1. PICK c \in Punct : Spelling(op) = <<c, "=">>
    BY <1>2 DEF Spelling, Punct
  <2> QED
    BY <2>1 DEF Compound
<1>3. CASE op \in {"*=", "**"}
  <2>1. PICK c \in {"*", "="} : Spelling(op) = <<"*", c>>
    BY <1>3 DEF Spelling
  <2> QED
    BY <2>1 DEF Compound
<1>4. CASE op = "//"
  <2>1. Spelling(op) = <<"/", "/">>
    BY <1>4 DEF Spelling
  <2> QED
    BY <2>1 DEF Compound, Punct
<1>5. CASE op = "//="
  <2>1. Spelling(op) = <<"/", "/", "=">>
    BY <1>5 DEF Spelling
  <2> QED
    BY <2>1 DEF Compound, Punct
<1> QED
  BY <1>1, <1>2, <1>3, <1>4, <1>5 DEF Operators

LEMMA TokenStarts ==
  ASSUME NEW S, NEW t \in Seq(S), IsToken(t)
  PROVE  /\ Len(t) \in Nat \ {0}
         /\ \/ t[1] \in Letters /\ IsWord(t)
            \/ t[1] \in Decimal \cup {"."} /\ (IsInt(t) \/ IsFloat(t) \/ t = <<".">>)
            \/ t[1] \in Punct \cup {"*"} /\ (Len(t) = 1 \/ Compound(t))
<1>1. Len(t) \in Nat
  BY LenProperties
<1>2. CASE IsWord(t)
  BY <1>1, <1>2 DEF IsWord
<1>3. CASE IsInt(t)
  <2>1. Len(t) > 0 /\ (t[1] = "0" \/ All(t, 1, Len(t), Decimal))
    <3>1. \/ Len(t) > 0 /\ All(t, 1, Len(t), IF t[1] = "0" THEN Octal ELSE Decimal)
          \/ Len(t) > 2 /\ t[1] = "0"
      BY <1>3, IntIs, Zenon DEF Prefixed
    <3> QED
      BY <1>1, <3>1
  <2>2. "0" \in Decimal
    BY DEF Decimal
  <2>3. t[1] \in Decimal
    BY <1>1, <2>1, <2>2 DEF All
  <2> QED
    BY <1>1, <1>3, <2>1, <2>3
<1>4. CASE IsFloat(t)
  <2>1. PICK i \in 0..Len(t), j \in 0..Len(t) : FloatOf(t, i, j)
    BY <1>4, FloatIs, Zenon
  <2>2. j >= 1 /\ Len(t) > 0
    BY <1>1, <2>1 DEF FloatOf
  <2>3. t[1] \in Decimal \cup {"."}
    <3>1. CASE i = 0
      BY <2>1, <2>2, <3>1 DEF FloatOf
    <3>2. CASE i # 0
      BY <1>1, <2>1, <3>2 DEF FloatOf, All
    <3> QED
      BY <3>1, <3>2
  <2> QED
    BY <1>1, <1>4, <2>2, <2>3
<1>5. CASE t = <<".">>
  BY <1>5
<1>6. CASE \E op \in Operators : t = Spelling(op)
  BY <1>1, <1>6, SpellingFacts
<1> QED
  BY <1>2, <1>3, <1>4, <1>5, <1>6, Zenon DEF IsToken

(***************************************************************************)
(* A token of s from k to e that is spelt as its kind must be and cannot   *)
(* be longer, for each case of Lex.                                        *)
(***************************************************************************)
Layouts == {"NEWLINE", "INDENT", "OUTDENT", "EOF"}
Exact(s, k, t) ==
  /\ t.kind \notin Layouts /\ t.to \in (k + 1)..(Len(s) + 1)
  /\ \A n \in k..(t.to - 1) : s[n] \notin Silent
  /\ Spells(t.kind, Text(s, k, t.to))
  /\ \A e \in (t.to + 1)..(Len(s) + 1) : ~IsToken(Text(s, k, e))

LEMMA LongerFacts ==
  ASSUME NEW S, NEW s \in Seq(S), NEW k \in 1..Len(s), NEW e \in (k + 1)..(Len(s) + 1), NEW t, t = Text(s, k, e)
  PROVE  /\ t \in Seq(S) /\ Len(t) = e - k /\ Len(t) \in Nat \ {0} /\ t[1] = s[k]
         /\ \A n \in 1..(e - k) : t[n] = s[k + n - 1]
         /\ \A n \in k..(e - 1) : n - k + 1 \in 1..(e - k) /\ t[n - k + 1] = s[n]
<1>1. Len(s) \in Nat
  BY LenProperties
<1>2. PICK c \in 1..(Len(s) + 1) : c = k
  BY <1>1
<1>3. PICK f \in c..(Len(s) + 1) : f = e
  BY <1>1, <1>2
<1>4. t = Text(s, c, f)
  BY <1>2, <1>3, Zenon
<1>5. t \in Seq(S) /\ Len(t) = f - c
  <2>1. Text(s, c, f) \in Seq(S) /\ Len(Text(s, c, f)) = f - c
    BY TextFacts, Zenon
  <2> QED
    BY <1>4, <2>1, Zenon
<1>6. \A n \in 1..(f - c) : Text(s, c, f)[n] = s[c + n - 1]
  BY TextFacts
<1>7. \A n \in 1..(e - k) : t[n] = s[k + n - 1]
  BY <1>2, <1>3, <1>4, <1>6, Zenon
<1>8. Len(t) = e - k /\ Len(t) \in Nat \ {0}
  BY <1>1, <1>2, <1>3, <1>5
<1>9. t[1] = s[k]
  <2>1. 1 \in 1..(e - k) /\ k + 1 - 1 = k
    BY <1>1
  <2> QED
    BY <1>7, <2>1
<1>10. ASSUME NEW n \in k..(e - 1) PROVE n - k + 1 \in 1..(e - k) /\ t[n - k + 1] = s[n]
  <2>1. n - k + 1 \in 1..(e - k) /\ k + (n - k + 1) - 1 = n
    BY <1>1
  <2> QED
    BY <1>7, <2>1
<1> QED
  BY <1>2, <1>3, <1>4, <1>5, <1>7, <1>8, <1>9, <1>10, Zenon

LEMMA TextIs ==
  ASSUME NEW S, NEW s \in Seq(S), NEW k \in 1..Len(s), NEW e \in (k + 1)..(Len(s) + 1)
  PROVE  /\ Text(s, k, e) \in Seq(S) /\ Len(Text(s, k, e)) = e - k
         /\ Len(Text(s, k, e)) \in Nat \ {0} /\ Text(s, k, e)[1] = s[k]
BY LongerFacts
LEMMA TextAt ==
  ASSUME NEW S, NEW s \in Seq(S), NEW k \in 1..Len(s), NEW e \in (k + 1)..(Len(s) + 1), NEW n \in 1..(e - k)
  PROVE  Text(s, k, e)[n] = s[k + n - 1]
BY LongerFacts
LEMMA TextOf ==
  ASSUME NEW S, NEW s \in Seq(S), NEW k \in 1..Len(s), NEW e \in (k + 1)..(Len(s) + 1), NEW n \in k..(e - 1)
  PROVE  n - k + 1 \in 1..(e - k) /\ Text(s, k, e)[n - k + 1] = s[n]
BY LongerFacts

LEMMA TextsFrom ==
  ASSUME NEW S, NEW s \in Seq(S), NEW k \in 1..Len(s)
  PROVE  \A g \in (k + 1)..(Len(s) + 1) :
           Text(s, k, g) \in Seq(S) /\ Len(Text(s, k, g)) = g - k /\ Text(s, k, g)[1] = s[k]
BY TextIs

LEMMA WordExact ==
  ASSUME NEW S, NEW s \in Seq(S), NEW k \in 1..Len(s), s[k] \in Letters
  PROVE  LET e == SkipOver(s, k, Letters \cup Decimal)
         IN  Exact(s, k, [kind |-> IF Text(s, k, e) \in Keywords THEN "keyword" ELSE "IDENT", to |-> e])
<1>1. Len(s) \in Nat /\ DOMAIN s = 1..Len(s)
  BY LenProperties
<1>2. PICK W : W = Letters \cup Decimal
  BY Zenon
<1>3. EOFc \notin W /\ W \cap Silent = {}
  BY <1>2, Disjoint
<1>4. PICK e : e = SkipOver(s, k, W)
  BY Zenon
<1>5. /\ e \in k..(Len(s) + 1) /\ (\A j \in k..(e - 1) : j \in 1..Len(s) /\ s[j] \in W)
      /\ CharAt(s, e) \notin W
  <2>1. k \in 1..(Len(s) + 1)
    BY <1>1
  <2> QED
    BY <1>1, <1>3, <1>4, <2>1, SkipOverFacts
<1>6. e # k
  BY <1>1, <1>2, <1>5 DEF CharAt
<1>7. e \in (k + 1)..(Len(s) + 1)
  BY <1>1, <1>5, <1>6
<1>8. PICK t : t = Text(s, k, e)
  BY Zenon
<1>9. /\ t \in Seq(S) /\ Len(t) = e - k /\ Len(t) \in Nat \ {0} /\ t[1] = s[k]
      /\ \A n \in 1..(e - k) : t[n] = s[k + n - 1]
  <2>1. Text(s, k, e) \in Seq(S) /\ Len(Text(s, k, e)) = e - k
         /\ Len(Text(s, k, e)) \in Nat \ {0} /\ Text(s, k, e)[1] = s[k]
    <3>1. \A g \in (k + 1)..(Len(s) + 1) :
            Text(s, k, g) \in Seq(S) /\ Len(Text(s, k, g)) = g - k /\ Text(s, k, g)[1] = s[k]
      BY TextsFrom, Zenon
    <3>2. e - k \in Nat \ {0}
      BY <1>1, <1>7
    <3> QED
      BY <1>7, <3>1, <3>2, Zenon
  <2>2. \A n \in 1..(e - k) : Text(s, k, e)[n] = s[k + n - 1]
    BY <1>7, TextAt
  <2> QED
    BY <1>8, <2>1, <2>2, Zenon
<1>10. IsWord(t)
  <2>1. All(t, 1, Len(t), W)
    <3> SUFFICES ASSUME NEW n \in 1..(e - k) PROVE t[n] \in W
      BY <1>9 DEF All
    <3>1. k + n - 1 \in k..(e - 1)
      BY <1>1, <1>7
    <3> QED
      BY <1>5, <1>9, <3>1
  <2>2. Digits(t, W)
    BY <1>9, <2>1, WholeDigits, Zenon
  <2> QED
    BY <1>2, <1>9, <2>2 DEF IsWord
<1>11. ASSUME NEW f \in (e + 1)..(Len(s) + 1), IsToken(Text(s, k, f)) PROVE FALSE
  <2>1. f \in (k + 1)..(Len(s) + 1)
    BY <1>1, <1>7
  <2>2. PICK u : u = Text(s, k, f)
    BY Zenon
  <2>3. u \in Seq(S) /\ Len(u) = f - k /\ u[1] = s[k] /\ \A n \in k..(f - 1) : n - k + 1 \in 1..(f - k) /\ u[n - k + 1] = s[n]
    <3>0. \A g \in (k + 1)..(Len(s) + 1) :
            Text(s, k, g) \in Seq(S) /\ Len(Text(s, k, g)) = g - k /\ Text(s, k, g)[1] = s[k]
      BY TextsFrom, Zenon
    <3>1. Text(s, k, f) \in Seq(S) /\ Len(Text(s, k, f)) = f - k /\ Text(s, k, f)[1] = s[k]
      BY <2>1, <3>0, Zenon
    <3>2. \A n \in k..(f - 1) : n - k + 1 \in 1..(f - k) /\ Text(s, k, f)[n - k + 1] = s[n]
      BY <2>1, TextOf
    <3> QED
      BY <2>2, <3>1, <3>2, Zenon
  <2>4. IsWord(u)
    BY <1>11, <2>2, <2>3, TokenStarts, Disjoint
  <2>5. All(u, 1, Len(u), W)
    BY <1>2, <2>3, <2>4, WholeDigits, Zenon DEF IsWord
  <2>6. e \in k..(f - 1) /\ e \in 1..Len(s)
    BY <1>1, <1>7
  <2>7. s[e] \in W
    BY <2>3, <2>5, <2>6 DEF All
  <2> QED
    BY <1>1, <1>5, <2>6, <2>7 DEF CharAt
<1>12. PICK kind : kind = IF t \in Keywords THEN "keyword" ELSE "IDENT"
  BY Zenon
<1>13. kind \notin Layouts /\ kind \in {"IDENT", "keyword"} /\ (kind = "keyword" <=> t \in Keywords)
  <2>1. CASE t \in Keywords
    BY <1>12, <2>1 DEF Layouts
  <2>2. CASE t \notin Keywords
    BY <1>12, <2>2 DEF Layouts
  <2> QED
    BY <2>1, <2>2
<1>14. Spells(kind, t)
  BY <1>10, <1>13 DEF Spells
<1>15. \A n \in k..(e - 1) : s[n] \notin Silent
  BY <1>3, <1>5
<1>16. PICK tok : tok = [kind |-> kind, to |-> e]
  BY Zenon
<1>17. tok.kind = kind /\ tok.to = e
  BY <1>16
<1>18. Exact(s, k, tok)
  BY <1>7, <1>8, <1>11, <1>13, <1>14, <1>15, <1>17, Zenon DEF Exact
<1> QED
  BY <1>2, <1>4, <1>8, <1>12, <1>16, <1>18, Zenon

\* A character that begins no longer token.
Singles == Brackets \cup {",", ":", ";", "|", "&"}
LEMMA SingleExact ==
  ASSUME NEW S, NEW s \in Seq(S), NEW k \in 1..Len(s), s[k] \in Singles
  PROVE  Exact(s, k, [kind |-> s[k], to |-> k + 1])
<1>1. Len(s) \in Nat
  BY LenProperties
<1>2. PICK c : c = s[k]
  BY Zenon
<1>3. /\ c \in {"(", "[", "{", ")", "]", "}", ",", ":", ";", "|", "&"}
      /\ c \notin Letters
  BY <1>2, ScannerAssumption DEF Singles, Brackets, ScannerAssumption, Special
<1>4. c \notin Layouts /\ c \notin Silent /\ c \notin Decimal \cup {"."} /\ c \notin Punct \cup {"*"}
  BY <1>3 DEF Layouts, Silent, Blanks, Decimal, Punct
<1>5. PICK e \in (k + 1)..(Len(s) + 1) : e = k + 1
  BY <1>1
<1>6. PICK t : t = Text(s, k, e)
  BY Zenon
<1>7. t \in Seq(S) /\ Len(t) = 1 /\ t[1] = c
  <2>1. t \in Seq(S) /\ Len(t) = e - k /\ t[1] = s[k]
    <3>1. e \in (k + 1)..(Len(s) + 1)
      BY <1>5
    <3>2. Text(s, k, e) \in Seq(S) /\ Len(Text(s, k, e)) = e - k /\ Text(s, k, e)[1] = s[k]
      BY <3>1, TextIs
    <3> QED
      BY <1>6, <3>2, Zenon
  <2>2. e - k = 1
    BY <1>1, <1>5
  <2> QED
    BY <1>2, <2>1, <2>2
<1>8. t = <<c>>
  BY <1>7
<1>9. Spells(c, t)
  <2>1. Spelling(c) = <<c>>
    BY <1>3 DEF Spelling
  <2>2. c \notin {"INT", "FLOAT", "IDENT", "keyword", "DOT"}
    BY <1>3
  <2> QED
    BY <1>8, <2>1, <2>2 DEF Spells
<1>10. ASSUME NEW f \in (e + 1)..(Len(s) + 1), IsToken(Text(s, k, f)) PROVE FALSE
  <2>1. f \in (k + 1)..(Len(s) + 1)
    BY <1>1, <1>5
  <2>2. PICK u : u = Text(s, k, f)
    BY Zenon
  <2>3. u \in Seq(S) /\ u[1] = c
    <3>0. \A g \in (k + 1)..(Len(s) + 1) :
            Text(s, k, g) \in Seq(S) /\ Len(Text(s, k, g)) = g - k /\ Text(s, k, g)[1] = s[k]
      BY TextsFrom, Zenon
    <3>1. Text(s, k, f) \in Seq(S) /\ Text(s, k, f)[1] = s[k]
      BY <2>1, <3>0, Zenon
    <3> QED
      BY <1>2, <2>2, <3>1, Zenon
  <2> QED
    BY <1>3, <1>4, <1>10, <2>2, <2>3, TokenStarts, Zenon
<1>11. \A n \in k..(e - 1) : s[n] \notin Silent
  <2>1. \A n \in k..(e - 1) : n = k
    BY <1>1, <1>5
  <2> QED
    BY <1>2, <1>4, <2>1, Zenon
<1>12. PICK tok : tok = [kind |-> c, to |-> e]
  BY Zenon
<1>13. tok.kind = c /\ tok.to = e
  BY <1>12
<1>14. Exact(s, k, tok)
  BY <1>4, <1>5, <1>6, <1>9, <1>10, <1>11, <1>13, Zenon DEF Exact
<1> QED
  BY <1>2, <1>5, <1>12, <1>14, Zenon

CompoundAt(s, k, e) ==
  \/ e = k + 2 /\ s[k] \in Punct /\ s[k + 1] = "="
  \/ e = k + 2 /\ s[k] = "/" /\ s[k + 1] = "/"
  \/ e = k + 2 /\ s[k] = "*" /\ s[k + 1] \in {"*", "="}
  \/ e = k + 3 /\ s[k] = "/" /\ s[k + 1] = "/" /\ s[k + 2] = "="
LEMMA CompoundIs ==
  ASSUME NEW S, NEW s \in Seq(S), NEW k \in 1..Len(s), NEW e \in (k + 1)..(Len(s) + 1), Compound(Text(s, k, e))
  PROVE  CompoundAt(s, k, e)
<1>1. Len(s) \in Nat
  BY LenProperties
<1>2. PICK t : t = Text(s, k, e)
  BY Zenon
<1>3. Len(t) = e - k /\ t[1] = s[k]
  <2>1. Len(Text(s, k, e)) = e - k /\ Text(s, k, e)[1] = s[k]
    BY TextIs
  <2> QED
    BY <1>2, <2>1, Zenon
<1>4. \A n \in 1..(e - k) : t[n] = s[k + n - 1]
  <2>1. \A n \in 1..(e - k) : Text(s, k, e)[n] = s[k + n - 1]
    BY TextAt
  <2> QED
    BY <1>2, <2>1, Zenon
<1>5. e - k > 1 => t[2] = s[k + 1]
  <2>1. e - k > 1 => 2 \in 1..(e - k) /\ k + 2 - 1 = k + 1
    BY <1>1
  <2> QED
    BY <1>4, <2>1
<1>6. e - k > 2 => t[3] = s[k + 2]
  <2>1. e - k > 2 => 3 \in 1..(e - k) /\ k + 3 - 1 = k + 2
    BY <1>1
  <2> QED
    BY <1>4, <2>1
<1>7. (e - k = 2 => e = k + 2 /\ e - k > 1) /\ (e - k = 3 => e = k + 3 /\ e - k > 1 /\ e - k > 2)
  BY <1>1
<1>8. Compound(t)
  BY <1>2, Zenon
<1> QED
  BY <1>3, <1>5, <1>6, <1>7, <1>8, Zenon DEF Compound, CompoundAt

LEMMA TextTo ==
  ASSUME NEW S, NEW s \in Seq(S), NEW k \in 1..Len(s), NEW e \in (k + 1)..(Len(s) + 1)
  PROVE  /\ e = k + 1 => Text(s, k, e) = <<s[k]>>
         /\ e = k + 2 => Text(s, k, e) = <<s[k], s[k + 1]>>
         /\ e = k + 3 => Text(s, k, e) = <<s[k], s[k + 1], s[k + 2]>>
<1>1. Len(s) \in Nat
  BY LenProperties
<1>2. PICK t : t = Text(s, k, e)
  BY Zenon
<1>3. t \in Seq(S) /\ Len(t) = e - k
  <2>1. Text(s, k, e) \in Seq(S) /\ Len(Text(s, k, e)) = e - k
    BY TextIs
  <2> QED
    BY <1>2, <2>1, Zenon
<1>4. \A n \in 1..(e - k) : t[n] = s[k + n - 1] /\ t[n] \in S
  <2>1. \A n \in 1..(e - k) : Text(s, k, e)[n] = s[k + n - 1]
    BY TextAt
  <2>2. \A n \in 1..(e - k) : t[n] \in S
    BY <1>3, ElementOfSeq, Zenon
  <2> QED
    BY <1>2, <2>1, <2>2, Zenon
<1>5. ASSUME e = k + 1 PROVE t = <<s[k]>>
  <2>1. Len(t) = 1 /\ 1 \in 1..(e - k) /\ k + 1 - 1 = k
    BY <1>1, <1>3, <1>5
  <2>2. t[1] = s[k]
    BY <1>4, <2>1
  <2> QED
    BY <1>3, <2>1, <2>2
<1>6. ASSUME e = k + 2 PROVE t = <<s[k], s[k + 1]>>
  <2>1. Len(t) = 2 /\ 1 \in 1..(e - k) /\ k + 1 - 1 = k /\ 2 \in 1..(e - k) /\ k + 2 - 1 = k + 1
    BY <1>1, <1>3, <1>6
  <2>2. t[1] = s[k] /\ t[2] = s[k + 1]
    BY <1>4, <2>1
  <2> QED
    BY <1>3, <2>1, <2>2
<1>7. ASSUME e = k + 3 PROVE t = <<s[k], s[k + 1], s[k + 2]>>
  <2>1. Len(t) = 3 /\ 1 \in 1..(e - k) /\ k + 1 - 1 = k /\ 2 \in 1..(e - k) /\ k + 2 - 1 = k + 1
        /\ 3 \in 1..(e - k) /\ k + 3 - 1 = k + 2
    BY <1>1, <1>3, <1>7
  <2>2. t[1] = s[k] /\ t[2] = s[k + 1] /\ t[3] = s[k + 2]
    BY <1>4, <2>1
  <2> QED
    BY <1>3, <2>1, <2>2
<1> QED
  BY <1>2, <1>5, <1>6, <1>7, Zenon

\* An operator that no longer one begins with.
LEMMA OperatorOf ==
  ASSUME NEW S, NEW s \in Seq(S), NEW k \in 1..Len(s), NEW e \in (k + 1)..(Len(s) + 1), s[k] \in Punct \cup {"*"},
         \A n \in k..(e - 1) : s[n] \notin Silent,
         \E op \in Operators : Spelling(op) = Text(s, k, e),
         \A f \in (e + 1)..(Len(s) + 1) : ~CompoundAt(s, k, f)
  PROVE  Exact(s, k, [kind |-> CHOOSE op \in Operators : Spelling(op) = Text(s, k, e), to |-> e])
<1>1. Len(s) \in Nat
  BY LenProperties
<1>2. PICK c : c = CHOOSE op \in Operators : Spelling(op) = Text(s, k, e)
  BY Zenon
<1>3. c \in Operators /\ Spelling(c) = Text(s, k, e)
  BY <1>2, Zenon
<1>4. c \notin Layouts /\ c \notin {"INT", "FLOAT", "IDENT", "keyword", "DOT"}
  BY <1>3 DEF Operators, Layouts
<1>5. Spells(c, Text(s, k, e))
  BY <1>3, <1>4 DEF Spells
<1>6. ASSUME NEW f \in (e + 1)..(Len(s) + 1), IsToken(Text(s, k, f)) PROVE FALSE
  <2>1. f \in (k + 1)..(Len(s) + 1)
    BY <1>1
  <2>9. f - k # 1
    BY <1>1
  <2>2. PICK t : t = Text(s, k, f)
    BY Zenon
  <2>3. t \in Seq(S) /\ t[1] = s[k] /\ Len(t) = f - k
    <3>1. \A g \in (k + 1)..(Len(s) + 1) :
            Text(s, k, g) \in Seq(S) /\ Len(Text(s, k, g)) = g - k /\ Text(s, k, g)[1] = s[k]
      BY TextsFrom, Zenon
    <3> QED
      BY <2>1, <2>2, <3>1, Zenon
  <2>4. t[1] \notin Letters /\ t[1] \notin Decimal \cup {"."}
    <3>1. "*" \notin Decimal \cup {"."}
      BY DEF Decimal
    <3> QED
      BY <2>3, <3>1, Disjoint
  <2>5. IsToken(t)
    BY <1>6, <2>2, Zenon
  <2>6. Len(t) = 1 \/ Compound(t)
    BY <2>3, <2>4, <2>5, TokenStarts, Zenon
  <2>7. Compound(Text(s, k, f))
    BY <2>2, <2>3, <2>6, <2>9, Zenon
  <2>8. CompoundAt(s, k, f)
    BY <2>1, <2>7, CompoundIs
  <2> QED
    BY <2>8
<1>7. PICK tok : tok = [kind |-> c, to |-> e]
  BY Zenon
<1>8. tok.kind = c /\ tok.to = e
  BY <1>7
<1>9. Exact(s, k, tok)
  BY <1>4, <1>5, <1>6, <1>8, Zenon DEF Exact
<1> QED
  BY <1>2, <1>7, <1>9, Zenon

LEMMA OperatorExact ==
  ASSUME NEW S, EOFc \notin S, Src \in Seq(S), NEW k \in 1..Size, Src[k] \in Punct \cup {"*"},
         Operator(k).kind \notin LexErrors
  PROVE  Exact(Src, k, Operator(k))
<1>1. PICK s : s = Src
  BY Zenon
<1>2. PICK c, d, g : c = s[k] /\ d = CharAt(s, k + 1) /\ g = CharAt(s, k + 2)
  BY Zenon
<1>3. s \in Seq(S) /\ Len(s) \in Nat /\ DOMAIN s = 1..Len(s) /\ k \in 1..Len(s)
  BY <1>1, LenProperties DEF Size
<1>4. PICK e : e = OpEnd(k)
  BY Zenon
<1>5. Char(k) = c /\ Char(k + 1) = d /\ Char(k + 2) = g
  BY <1>1, <1>2, <1>3 DEF Char, CharAt, Src
<1>6. /\ d # EOFc => k + 1 <= Len(s) /\ s[k + 1] = d
      /\ g # EOFc => k + 2 <= Len(s) /\ s[k + 2] = g
      /\ k + 1 <= Len(s) => s[k + 1] = d
      /\ k + 2 <= Len(s) => s[k + 2] = g
  BY <1>2, <1>3 DEF CharAt
<1>7. "=" # EOFc /\ "/" # EOFc /\ "*" # EOFc /\ "/" \in Punct /\ "*" \notin Punct
  BY DEF EOFc, Punct
<1>8. "=" \notin Silent /\ c \notin Silent /\ "/" \notin Silent /\ "*" \notin Silent
  BY <1>1, <1>2 DEF Silent, Blanks, Punct
<1>9. PICK x : x = CHOOSE op \in Operators : Spelling(op) = Text(Src, k, OpEnd(k))
  BY Zenon
<1>10. c = "!" => e # k + 1
  <2>1. Operator(k) = [kind |-> IF Char(k) = "!" /\ OpEnd(k) = k + 1 THEN "unexpected input character" ELSE x,
                       to |-> OpEnd(k)]
    <3>1. Operator(k) = [kind |-> IF Char(k) = "!" /\ OpEnd(k) = k + 1 THEN "unexpected input character"
                                  ELSE CHOOSE op \in Operators : Spelling(op) = Text(Src, k, OpEnd(k)),
                         to |-> OpEnd(k)]
      BY DEF Operator, Src
    <3> QED
      BY <1>9, <3>1, Zenon
  <2>2. CASE c = "!" /\ e = k + 1
    <3>1. PICK rec : rec = [kind |-> "unexpected input character", to |-> OpEnd(k)]
      BY Zenon
    <3>2. rec.kind = "unexpected input character"
      BY <3>1
    <3>3. Operator(k) = rec
      BY <1>4, <1>5, <2>1, <2>2, <3>1, Zenon
    <3>4. Operator(k).kind = "unexpected input character"
      BY <3>2, <3>3, Zenon
    <3> QED
      BY <3>4 DEF LexErrors
  <2> QED
    BY <2>2
<1>11. Operator(k) = [kind |-> x, to |-> OpEnd(k)]
  <2>1. Operator(k) = [kind |-> IF Char(k) = "!" /\ OpEnd(k) = k + 1 THEN "unexpected input character" ELSE x,
                       to |-> OpEnd(k)]
    <3>1. Operator(k) = [kind |-> IF Char(k) = "!" /\ OpEnd(k) = k + 1 THEN "unexpected input character"
                                  ELSE CHOOSE op \in Operators : Spelling(op) = Text(Src, k, OpEnd(k)),
                         to |-> OpEnd(k)]
      BY DEF Operator, Src
    <3> QED
      BY <1>9, <3>1, Zenon
  <2>2. ~(Char(k) = "!" /\ OpEnd(k) = k + 1)
    BY <1>4, <1>5, <1>10, Zenon
  <2> QED
    BY <2>1, <2>2, Zenon
<1>12. c \in Punct \cup {"*"}
  BY <1>1, <1>2, Zenon
<1>13. \/ c \in Punct /\ d = "=" /\ e = k + 2
       \/ c = "/" /\ d = "/" /\ g = "=" /\ e = k + 3
       \/ c = "/" /\ d = "/" /\ g # "=" /\ e = k + 2
       \/ c = "*" /\ d \in {"*", "="} /\ e = k + 2
       \/ ~(c \in Punct /\ d = "=") /\ ~(c = "/" /\ d = "/") /\ ~(c = "*" /\ d \in {"*", "="}) /\ e = k + 1
  <2>1. e = CASE c \in Punct /\ d = "=" -> k + 2
              [] c = "/" /\ d = "/" -> IF g = "=" THEN k + 3 ELSE k + 2
              [] c = "*" /\ d \in {"*", "="} -> k + 2
              [] OTHER -> k + 1
    BY <1>4, <1>5, Zenon DEF OpEnd
  <2> QED
    BY <1>7, <2>1
<1>14. e \in (k + 1)..(Len(s) + 1)
  BY <1>3, <1>6, <1>7, <1>13
<1>15. Text(s, k, e) = IF e = k + 1 THEN <<s[k]>> ELSE IF e = k + 2 THEN <<s[k], s[k + 1]>> ELSE <<s[k], s[k + 1], s[k + 2]>>
  <2>1. e = k + 1 \/ e = k + 2 \/ e = k + 3
    BY <1>13
  <2> QED
    BY <1>3, <1>14, <2>1, TextTo, Zenon
<1>16. \E op \in Operators : Spelling(op) = Text(s, k, e)
  <2>1. e # k + 1 => k + 1 # k + 2 /\ k + 3 # k + 2 /\ k + 3 # k + 1
    BY <1>3
  <2>2. CASE c \in Punct /\ d = "=" /\ e = k + 2
    BY <1>2, <1>3, <1>6, <1>7, <1>15, <2>2, SpellingIs
  <2>3. CASE c = "/" /\ d = "/" /\ g = "=" /\ e = k + 3
    BY <1>2, <1>3, <1>6, <1>7, <1>15, <2>3, SpellingIs
  <2>4. CASE c = "/" /\ d = "/" /\ g # "=" /\ e = k + 2
    BY <1>2, <1>3, <1>6, <1>7, <1>15, <2>4, SpellingIs
  <2>5. CASE c = "*" /\ d \in {"*", "="} /\ e = k + 2
    BY <1>2, <1>3, <1>6, <1>7, <1>15, <2>5, SpellingIs
  <2>6. CASE e = k + 1
    <3>1. c \in (Punct \ {"!"}) \cup {"*"}
      BY <1>10, <1>12, <2>6
    <3> QED
      BY <1>2, <1>15, <2>6, <3>1, SpellingIs, Zenon
  <2> QED
    BY <1>13, <2>2, <2>3, <2>4, <2>5, <2>6, Zenon
<1>17. \A n \in k..(e - 1) : s[n] \notin Silent
  <2> SUFFICES ASSUME NEW n \in k..(e - 1) PROVE s[n] \notin Silent
    OBVIOUS
  <2>1. n = k \/ (n = k + 1 /\ (e = k + 2 \/ e = k + 3)) \/ (n = k + 2 /\ e = k + 3)
    BY <1>3, <1>13
  <2> QED
    BY <1>2, <1>3, <1>6, <1>7, <1>8, <1>13, <2>1
<1>18. ASSUME NEW f \in (e + 1)..(Len(s) + 1), CompoundAt(s, k, f) PROVE FALSE
  <2>1. f \in Int /\ f > e /\ f <= Len(s) + 1
    BY <1>3, <1>14
  <2>2. CASE e = k + 3
    BY <1>3, <1>18, <2>1, <2>2 DEF CompoundAt
  <2>3. CASE e = k + 2
    <3>1. f = k + 3 /\ c = "/" /\ s[k + 1] = "/" /\ s[k + 2] = "="
      BY <1>2, <1>3, <1>18, <2>1, <2>3 DEF CompoundAt
    <3>2. k + 1 <= Len(s) /\ k + 2 <= Len(s)
      BY <1>3, <2>1, <3>1
    <3>3. d = "/" /\ g = "="
      BY <1>6, <3>1, <3>2
    <3> QED
      BY <1>3, <1>7, <1>13, <2>3, <3>1, <3>3
  <2>4. CASE e = k + 1
    <3>1. k + 1 <= Len(s)
      BY <1>3, <2>1, <2>4
    <3>2. s[k + 1] = d
      BY <1>6, <3>1
    <3>3. ~(c \in Punct /\ d = "=") /\ ~(c = "/" /\ d = "/") /\ ~(c = "*" /\ d \in {"*", "="})
      BY <1>3, <1>13, <2>4
    <3> QED
      BY <1>2, <1>18, <3>2, <3>3, Zenon DEF CompoundAt
  <2> QED
    BY <1>13, <2>2, <2>3, <2>4, Zenon
<1>19. Exact(Src, k, [kind |-> CHOOSE op \in Operators : Spelling(op) = Text(Src, k, OpEnd(k)), to |-> OpEnd(k)])
  <2>1. s[k] \in Punct \cup {"*"}
    BY <1>2, <1>12, Zenon
  <2> QED
    BY <1>1, <1>3, <1>4, <1>14, <1>16, <1>17, <1>18, <2>1, OperatorOf, Zenon
<1> QED
  BY <1>9, <1>11, <1>19, Zenon

LEMMA Shift ==
  ASSUME NEW S, NEW s \in Seq(S), NEW k \in 1..Len(s), NEW f \in (k + 1)..(Len(s) + 1), NEW t, t = Text(s, k, f),
         NEW a \in Nat, NEW b \in Int, a >= 1, b <= f - k, NEW ds
  PROVE  All(t, a, b, ds) <=> All(s, k + a - 1, k + b - 1, ds)
<1>1. Len(s) \in Nat
  BY LenProperties
<1>2. \A n \in 1..(f - k) : t[n] = s[k + n - 1]
  BY LongerFacts
<1>3. ASSUME All(t, a, b, ds), NEW n \in (k + a - 1)..(k + b - 1) PROVE s[n] \in ds
  <2>1. n - k + 1 \in a..b /\ n - k + 1 \in 1..(f - k) /\ k + (n - k + 1) - 1 = n
    BY <1>1
  <2> QED
    BY <1>2, <1>3, <2>1 DEF All
<1>4. ASSUME All(s, k + a - 1, k + b - 1, ds), NEW n \in a..b PROVE t[n] \in ds
  <2>1. k + n - 1 \in (k + a - 1)..(k + b - 1) /\ n \in 1..(f - k)
    BY <1>1
  <2> QED
    BY <1>2, <1>4, <2>1 DEF All
<1> QED
  BY <1>3, <1>4 DEF All

PrefixedAt(s, k, f, letters, ds) == f > k + 2 /\ s[k] = "0" /\ s[k + 1] \in letters /\ All(s, k + 2, f - 1, ds)
IntAt(s, k, f) ==
  \/ All(s, k, f - 1, IF s[k] = "0" THEN Octal ELSE Decimal)
  \/ PrefixedAt(s, k, f, {"x", "X"}, Hex) \/ PrefixedAt(s, k, f, {"o", "O"}, Octal)
  \/ PrefixedAt(s, k, f, {"b", "B"}, Binary)
LEMMA IntAtIs ==
  ASSUME NEW S, NEW s \in Seq(S), NEW k \in 1..Len(s), NEW f \in (k + 1)..(Len(s) + 1)
  PROVE  IsInt(Text(s, k, f)) <=> IntAt(s, k, f)
<1>1. Len(s) \in Nat
  BY LenProperties
<1>2. PICK t : t = Text(s, k, f)
  BY Zenon
<1>3. /\ t \in Seq(S) /\ Len(t) = f - k /\ t[1] = s[k] /\ Len(t) > 0
      /\ \A n \in 1..(f - k) : t[n] = s[k + n - 1]
  <2>1. \A n \in 1..(f - k) : t[n] = s[k + n - 1]
    BY <1>2, LongerFacts
  <2>2. t \in Seq(S) /\ Len(t) = f - k /\ t[1] = s[k]
    BY <1>2, TextsFrom, Zenon
  <2> QED
    BY <1>1, <2>1, <2>2
<1>4. \A ds : All(t, 1, Len(t), ds) <=> All(s, k, f - 1, ds)
  <2> SUFFICES ASSUME NEW ds PROVE All(t, 1, Len(t), ds) <=> All(s, k, f - 1, ds)
    OBVIOUS
  <2>1. k + 1 - 1 = k /\ k + (f - k) - 1 = f - 1 /\ 1 \in Nat /\ f - k \in Int /\ 1 >= 1 /\ f - k <= f - k
    BY <1>1
  <2>2. All(t, 1, f - k, ds) <=> All(s, k + 1 - 1, k + (f - k) - 1, ds)
    BY <1>2, <2>1, Shift
  <2> QED
    BY <1>3, <2>1, <2>2, Zenon
<1>5. ASSUME NEW letters, NEW ds PROVE Prefixed(t, letters, ds) <=> PrefixedAt(s, k, f, letters, ds)
  <2>1. Len(t) > 2 <=> f > k + 2
    BY <1>1, <1>3
  <2>2. CASE Len(t) > 2
    <3>1. 2 \in 1..(f - k) /\ k + 2 - 1 = k + 1
      BY <1>1, <1>3, <2>2
    <3>2. t[2] = s[k + 1]
      BY <1>3, <3>1
    <3>3. k + 3 - 1 = k + 2 /\ k + (f - k) - 1 = f - 1 /\ 3 \in Nat /\ f - k \in Int /\ 3 >= 1 /\ f - k <= f - k
      BY <1>1
    <3>4. All(t, 3, f - k, ds) <=> All(s, k + 3 - 1, k + (f - k) - 1, ds)
      BY <1>2, <3>3, Shift
    <3> QED
      BY <1>3, <2>1, <3>2, <3>3, <3>4, Zenon DEF Prefixed, PrefixedAt
  <2> QED
    BY <2>1, <2>2, Zenon DEF Prefixed, PrefixedAt
<1>6. IsInt(t) <=> IntAt(s, k, f)
  <2>1. IsInt(t) <=>
           \/ Len(t) > 0 /\ All(t, 1, Len(t), IF t[1] = "0" THEN Octal ELSE Decimal)
           \/ Prefixed(t, {"x", "X"}, Hex) \/ Prefixed(t, {"o", "O"}, Octal) \/ Prefixed(t, {"b", "B"}, Binary)
    BY <1>3, IntIs
  <2> QED
    BY <1>3, <1>4, <1>5, <2>1, Zenon DEF IntAt
<1> QED
  BY <1>2, <1>6, Zenon

ExponentAt(s, j, f) ==
  /\ f > j + 1 /\ s[j] \in {"e", "E"}
  /\ \/ All(s, j + 1, f - 1, Decimal)
     \/ s[j + 1] \in {"+", "-"} /\ f > j + 2 /\ All(s, j + 2, f - 1, Decimal)
\* The digits before the dot end before i, those after it before j.
FloatFrom(s, k, f, i, j) ==
  /\ All(s, k, i - 1, Decimal) /\ (j > i => s[i] = "." /\ All(s, i + 1, j - 1, Decimal))
  /\ (\E n \in k..(j - 1) : s[n] # ".") /\ (j > i \/ j < f)
  /\ (j < f => ExponentAt(s, j, f))
LEMMA FloatAtIs ==
  ASSUME NEW S, NEW s \in Seq(S), NEW k \in 1..Len(s), NEW f \in (k + 1)..(Len(s) + 1)
  PROVE  IsFloat(Text(s, k, f)) <=> \E i \in k..f, j \in k..f : i <= j /\ FloatFrom(s, k, f, i, j)
<1>1. Len(s) \in Nat
  BY LenProperties
<1>2. PICK t : t = Text(s, k, f)
  BY Zenon
<1>3. /\ t \in Seq(S) /\ Len(t) = f - k /\ t[1] = s[k] /\ Len(t) > 0
      /\ \A n \in 1..(f - k) : t[n] = s[k + n - 1]
  <2>1. \A n \in 1..(f - k) : t[n] = s[k + n - 1]
    BY <1>2, LongerFacts
  <2>2. t \in Seq(S) /\ Len(t) = f - k /\ t[1] = s[k]
    BY <1>2, TextsFrom, Zenon
  <2> QED
    BY <1>1, <2>1, <2>2
<1>4. ASSUME NEW a \in Nat, NEW b \in Int, a >= 1, b <= f - k, NEW u \in Int, NEW v \in Int, u = k + a - 1, v = k + b - 1, NEW ds
      PROVE  All(t, a, b, ds) <=> All(s, u, v, ds)
  BY <1>2, <1>4, Shift, Zenon
<1>5. ASSUME NEW i \in k..f, NEW j \in k..f, i <= j
      PROVE  FloatOf(t, i - k, j - k) <=> FloatFrom(s, k, f, i, j)
  <2> DEFINE a == i - k
             b == j - k
  <2>1. a \in Nat /\ b \in Nat /\ a <= b /\ i = k + a /\ j = k + b /\ (b > a <=> j > i) /\ (b < Len(t) <=> j < f)
    BY <1>1, <1>3, <1>5
  <2> HIDE DEF a, b
  <2>2. All(t, 1, a, Decimal) <=> All(s, k, i - 1, Decimal)
    <3>1. 1 \in Nat /\ a \in Int /\ 1 >= 1 /\ a <= f - k /\ k \in Int /\ i - 1 \in Int /\ k = k + 1 - 1 /\ i - 1 = k + a - 1
      BY <1>1, <2>1
    <3> QED
      BY <1>4, <3>1, Zenon
  <2>3. ASSUME j > i PROVE t[a + 1] = s[i] /\ (All(t, a + 2, b, Decimal) <=> All(s, i + 1, j - 1, Decimal))
    <3>1. a + 1 \in 1..(f - k) /\ k + (a + 1) - 1 = i
      BY <1>1, <2>1, <2>3
    <3>2. a + 2 \in Nat /\ b \in Int /\ a + 2 >= 1 /\ b <= f - k /\ i + 1 \in Int /\ j - 1 \in Int
          /\ i + 1 = k + (a + 2) - 1 /\ j - 1 = k + b - 1
      BY <1>1, <2>1
    <3>3. All(t, a + 2, b, Decimal) <=> All(s, i + 1, j - 1, Decimal)
      BY <1>4, <3>2, Zenon
    <3> QED
      BY <1>3, <3>1, <3>3
  <2>4. (\E n \in 1..b : t[n] # ".") <=> (\E n \in k..(j - 1) : s[n] # ".")
    <3>1. ASSUME NEW n \in 1..b, t[n] # "." PROVE \E m \in k..(j - 1) : s[m] # "."
      <4>1. n \in 1..(f - k) /\ k + n - 1 \in k..(j - 1)
        BY <1>1, <2>1
      <4>2. s[k + n - 1] # "."
        BY <1>3, <3>1, <4>1
      <4> QED
        BY <4>1, <4>2
    <3>2. ASSUME NEW m \in k..(j - 1), s[m] # "." PROVE \E n \in 1..b : t[n] # "."
      <4>1. m - k + 1 \in 1..(f - k) /\ m - k + 1 \in 1..b /\ k + (m - k + 1) - 1 = m
        BY <1>1, <2>1
      <4>2. t[m - k + 1] # "."
        BY <1>3, <3>2, <4>1
      <4> QED
        BY <4>1, <4>2
    <3> QED
      BY <3>1, <3>2, Zenon
  <2>5. ASSUME j < f PROVE ExponentFrom(t, b + 1) <=> ExponentAt(s, j, f)
    <3>1. b + 1 \in 1..(f - k) /\ k + (b + 1) - 1 = j
      BY <1>1, <2>1, <2>5
    <3>2. t[b + 1] = s[j]
      <4>1. t[b + 1] = s[k + (b + 1) - 1]
        BY <1>3, <3>1, Zenon
      <4> QED
        BY <3>1, <4>1, Zenon
    <3>3. (Len(t) > b + 1 <=> f > j + 1) /\ (Len(t) > (b + 1) + 1 <=> f > j + 2)
      BY <1>1, <1>3, <2>1
    <3>4. CASE f > j + 1
      <4>1. (b + 1) + 1 \in 1..(f - k) /\ k + ((b + 1) + 1) - 1 = j + 1
        BY <1>1, <2>1, <3>4
      <4>2. t[(b + 1) + 1] = s[j + 1]
        <5>1. t[(b + 1) + 1] = s[k + ((b + 1) + 1) - 1]
          BY <1>3, <4>1, Zenon
        <5> QED
          BY <4>1, <5>1, Zenon
      <4>3. (b + 1) + 1 \in Nat /\ Len(t) \in Int /\ (b + 1) + 1 >= 1 /\ Len(t) <= f - k /\ j + 1 \in Int /\ f - 1 \in Int
            /\ j + 1 = k + ((b + 1) + 1) - 1 /\ f - 1 = k + Len(t) - 1
        BY <1>1, <1>3, <2>1
      <4>4. All(t, (b + 1) + 1, Len(t), Decimal) <=> All(s, j + 1, f - 1, Decimal)
        BY <1>4, <4>3, Zenon
      <4>5. (b + 1) + 2 \in Nat /\ (b + 1) + 2 >= 1 /\ j + 2 \in Int /\ j + 2 = k + ((b + 1) + 2) - 1
        BY <1>1, <2>1
      <4>6. All(t, (b + 1) + 2, Len(t), Decimal) <=> All(s, j + 2, f - 1, Decimal)
        BY <1>4, <4>3, <4>5, Zenon
      <4> QED
        BY <3>2, <3>3, <4>2, <4>4, <4>6, Zenon DEF ExponentFrom, ExponentAt
    <3> QED
      BY <3>3, <3>4, Zenon DEF ExponentFrom, ExponentAt
  <2>6. FloatOf(t, a, b) <=> FloatFrom(s, k, f, i, j)
    BY <2>1, <2>2, <2>3, <2>4, <2>5, Zenon DEF FloatOf, FloatFrom
  <2> QED
    BY <2>6 DEF a, b
<1>6. IsFloat(t) <=> \E a \in 0..Len(t), b \in 0..Len(t) : FloatOf(t, a, b)
  BY <1>3, FloatIs
<1>7. ASSUME NEW a \in 0..Len(t), NEW b \in 0..Len(t), FloatOf(t, a, b)
      PROVE  \E i \in k..f, j \in k..f : i <= j /\ FloatFrom(s, k, f, i, j)
  <2>1. a <= b
    BY <1>7, Zenon DEF FloatOf
  <2>2. PICK i \in k..f, j \in k..f : i <= j /\ i - k = a /\ j - k = b
    <3>1. k + a \in k..f /\ k + b \in k..f /\ k + a <= k + b /\ (k + a) - k = a /\ (k + b) - k = b
      BY <1>1, <1>3, <2>1
    <3> QED
      BY <3>1, Zenon
  <2> QED
    BY <1>5, <1>7, <2>2, Zenon
<1>8. ASSUME NEW i \in k..f, NEW j \in k..f, i <= j, FloatFrom(s, k, f, i, j)
      PROVE  \E a \in 0..Len(t), b \in 0..Len(t) : FloatOf(t, a, b)
  <2>1. i - k \in 0..Len(t) /\ j - k \in 0..Len(t)
    BY <1>1, <1>3
  <2> QED
    BY <1>5, <1>8, <2>1, Zenon
<1> QED
  BY <1>2, <1>6, <1>7, <1>8, Zenon

FloatAt(s, k, f) == \E i \in k..f, j \in k..f : i <= j /\ FloatFrom(s, k, f, i, j)
LEMMA NumberOf ==
  ASSUME NEW S, NEW s \in Seq(S), NEW k \in 1..Len(s), NEW e \in (k + 1)..(Len(s) + 1), s[k] \in Decimal \cup {"."},
         \A n \in k..(e - 1) : s[n] \notin Silent,
         NEW kind \in {"INT", "FLOAT", "DOT"},
         kind = "INT" => IntAt(s, k, e), kind = "FLOAT" => FloatAt(s, k, e), kind = "DOT" => e = k + 1 /\ s[k] = ".",
         \A f \in (e + 1)..(Len(s) + 1) : ~IntAt(s, k, f) /\ ~FloatAt(s, k, f)
  PROVE  Exact(s, k, [kind |-> kind, to |-> e])
<1>1. Len(s) \in Nat
  BY LenProperties
<1>2. kind \notin Layouts
  BY DEF Layouts
<1>3. \A f \in (k + 1)..(Len(s) + 1) : /\ IsInt(Text(s, k, f)) <=> IntAt(s, k, f)
                                       /\ IsFloat(Text(s, k, f)) <=> FloatAt(s, k, f)
  <2> SUFFICES ASSUME NEW f \in (k + 1)..(Len(s) + 1)
               PROVE  /\ IsInt(Text(s, k, f)) <=> IntAt(s, k, f)
                      /\ IsFloat(Text(s, k, f)) <=> FloatAt(s, k, f)
    BY Zenon
  <2>1. IsInt(Text(s, k, f)) <=> IntAt(s, k, f)
    BY IntAtIs, Zenon
  <2>2. IsFloat(Text(s, k, f)) <=> \E i \in k..f, j \in k..f : i <= j /\ FloatFrom(s, k, f, i, j)
    BY FloatAtIs, Zenon
  <2> QED
    BY <2>1, <2>2, Zenon DEF FloatAt
<1>4. kind = "DOT" => Text(s, k, e) = <<".">>
  <2>1. kind = "DOT" => Text(s, k, e) = <<s[k]>>
    BY TextTo, Zenon
  <2> QED
    BY <2>1, Zenon
<1>5. Spells(kind, Text(s, k, e))
  BY <1>3, <1>4 DEF Spells
<1>6. ASSUME NEW f \in (e + 1)..(Len(s) + 1), IsToken(Text(s, k, f)) PROVE FALSE
  <2>1. f \in (k + 1)..(Len(s) + 1)
    BY <1>1
  <2>2. f - k # 1
    BY <1>1
  <2>3. PICK t : t = Text(s, k, f)
    BY Zenon
  <2>4. t \in Seq(S) /\ t[1] = s[k] /\ Len(t) = f - k
    <3>1. \A g \in (k + 1)..(Len(s) + 1) :
            Text(s, k, g) \in Seq(S) /\ Len(Text(s, k, g)) = g - k /\ Text(s, k, g)[1] = s[k]
      BY TextsFrom, Zenon
    <3> QED
      BY <2>1, <2>3, <3>1, Zenon
  <2>5. t[1] \notin Letters /\ t[1] \notin Punct \cup {"*"}
    <3>1. "." \notin Letters /\ "." \notin Punct \cup {"*"}
      BY Disjoint
    <3> QED
      BY <2>4, <3>1, Disjoint
  <2>6. IsInt(t) \/ IsFloat(t) \/ t = <<".">>
    BY <1>6, <2>3, <2>4, <2>5, TokenStarts, Zenon
  <2>7. t # <<".">>
    BY <2>2, <2>4
  <2> QED
    BY <1>3, <2>1, <2>3, <2>6, <2>7, Zenon
<1>7. PICK tok : tok = [kind |-> kind, to |-> e]
  BY Zenon
<1>8. tok.kind = kind /\ tok.to = e
  BY <1>7
<1>9. Exact(s, k, tok)
  BY <1>2, <1>5, <1>6, <1>8, Zenon DEF Exact
<1> QED
  BY <1>7, <1>9, Zenon

LEMMA DotExact ==
  ASSUME NEW S, NEW s \in Seq(S), NEW k \in 1..Len(s), s[k] = ".", CharAt(s, k + 1) \notin Decimal
  PROVE  Exact(s, k, [kind |-> "DOT", to |-> k + 1])
<1>1. Len(s) \in Nat /\ DOMAIN s = 1..Len(s)
  BY LenProperties
<1>2. PICK e \in (k + 1)..(Len(s) + 1) : e = k + 1
  BY <1>1
<1>3. \A n \in k..(e - 1) : n = k
  BY <1>1, <1>2
<1>4. "." \notin Silent /\ "." \notin Decimal /\ "." \notin Octal
  BY DEF Silent, Blanks, Decimal, Octal
<1>5. ASSUME NEW f \in (e + 1)..(Len(s) + 1), IntAt(s, k, f) PROVE FALSE
  <2>1. k \in k..(f - 1)
    BY <1>1
  <2>2. ~All(s, k, f - 1, IF s[k] = "0" THEN Octal ELSE Decimal)
    BY <1>4, <2>1 DEF All
  <2> QED
    BY <1>5, <2>2 DEF IntAt, PrefixedAt
<1>6. ASSUME NEW f \in (e + 1)..(Len(s) + 1), NEW i \in k..f, NEW j \in k..f, i <= j, FloatFrom(s, k, f, i, j) PROVE FALSE
  <2>1. i = k
    BY <1>1, <1>4, <1>6 DEF FloatFrom, All
  <2>2. PICK n \in k..(j - 1) : s[n] # "."
    BY <1>6, Zenon DEF FloatFrom
  <2>3. n > k /\ j > i /\ k + 1 \in (i + 1)..(j - 1) /\ k + 1 \in 1..Len(s)
    BY <1>1, <1>2, <2>1, <2>2
  <2>4. s[k + 1] \in Decimal
    BY <1>6, <2>3 DEF FloatFrom, All
  <2> QED
    BY <1>1, <2>3, <2>4 DEF CharAt
<1>7. \A f \in (e + 1)..(Len(s) + 1) : ~IntAt(s, k, f) /\ ~FloatAt(s, k, f)
  BY <1>5, <1>6, Zenon DEF FloatAt
<1>8. \A n \in k..(e - 1) : s[n] \notin Silent
  BY <1>3, <1>4, Zenon
<1>9. PICK kind \in {"INT", "FLOAT", "DOT"} : kind = "DOT" /\ kind # "INT" /\ kind # "FLOAT"
  OBVIOUS
<1>10. Exact(s, k, [kind |-> kind, to |-> e])
  BY <1>2, <1>7, <1>8, <1>9, NumberOf, Zenon
<1> QED
  BY <1>2, <1>9, <1>10, Zenon

LEMMA BasedExact ==
  ASSUME NEW S, EOFc \notin S, NEW s \in Seq(S), NEW k \in 1..Len(s), s[k] = "0",
         NEW letters, NEW digits,
         \/ letters = {"x", "X"} /\ digits = Hex
         \/ letters = {"o", "O"} /\ digits = Octal
         \/ letters = {"b", "B"} /\ digits = Binary,
         CharAt(s, k + 1) \in letters, CharAt(s, k + 2) \in digits
  PROVE  Exact(s, k, [kind |-> "INT", to |-> SkipOver(s, k + 2, digits)])
<1>1. Len(s) \in Nat /\ DOMAIN s = 1..Len(s)
  BY LenProperties
<1>2. /\ EOFc \notin letters /\ EOFc \notin digits /\ letters \cap Silent = {} /\ digits \cap Silent = {}
      /\ letters \cap {".", "e", "E"} = {} /\ letters \cap Decimal = {}
  <2>1. CASE letters = {"x", "X"} /\ digits = Hex
    BY <2>1, Disjoint DEF EOFc, Silent, Blanks, Decimal
  <2>2. CASE letters = {"o", "O"} /\ digits = Octal
    BY <2>2, Disjoint DEF EOFc, Silent, Blanks, Decimal
  <2>3. CASE letters = {"b", "B"} /\ digits = Binary
    BY <2>3, Disjoint DEF EOFc, Silent, Blanks, Decimal
  <2> QED
    BY <2>1, <2>2, <2>3
<1>3. k + 1 \in 1..Len(s) /\ k + 2 \in 1..Len(s) /\ s[k + 1] \in letters /\ s[k + 2] \in digits
  BY <1>1, <1>2 DEF CharAt
<1>4. PICK b \in 1..(Len(s) + 1) : b = k + 2
  BY <1>1, <1>3
<1>5. PICK e : e = SkipOver(s, b, digits)
  BY Zenon
<1>6. e \in b..(Len(s) + 1) /\ (\A n \in b..(e - 1) : n \in 1..Len(s) /\ s[n] \in digits) /\ CharAt(s, e) \notin digits
  BY <1>1, <1>2, <1>5, SkipOverFacts
<1>7. e \in (k + 1)..(Len(s) + 1) /\ e > k + 2
  BY <1>1, <1>3, <1>4, <1>6 DEF CharAt
<1>8. PrefixedAt(s, k, e, letters, digits)
  BY <1>3, <1>4, <1>6, <1>7 DEF PrefixedAt, All
<1>9. IntAt(s, k, e)
  BY <1>8, Zenon DEF IntAt
<1>10. "0" \notin Silent /\ "0" \in Decimal
  BY DEF Silent, Blanks, Decimal
<1>11. ASSUME NEW n \in k..(e - 1) PROVE s[n] \notin Silent
  <2>1. n = k \/ n = k + 1 \/ n \in b..(e - 1)
    BY <1>1, <1>4, <1>6
  <2> QED
    BY <1>2, <1>3, <1>6, <1>10, <2>1
<1>12. ASSUME NEW f \in (e + 1)..(Len(s) + 1), IntAt(s, k, f) PROVE FALSE
  <2>1. k + 1 \in k..(f - 1)
    BY <1>1, <1>7
  <2>2. ~All(s, k, f - 1, IF s[k] = "0" THEN Octal ELSE Decimal)
    BY <1>2, <1>3, <2>1, Disjoint DEF All
  <2>3. PrefixedAt(s, k, f, letters, digits)
    <3>1. \/ s[k + 1] \in {"x", "X"} /\ PrefixedAt(s, k, f, {"x", "X"}, Hex)
          \/ s[k + 1] \in {"o", "O"} /\ PrefixedAt(s, k, f, {"o", "O"}, Octal)
          \/ s[k + 1] \in {"b", "B"} /\ PrefixedAt(s, k, f, {"b", "B"}, Binary)
      BY <1>12, <2>2, Zenon DEF IntAt, PrefixedAt
    <3> QED
      BY <1>3, <3>1
  <2>4. e \in (k + 2)..(f - 1) /\ e \in 1..Len(s)
    BY <1>1, <1>7
  <2> QED
    BY <1>1, <1>6, <2>3, <2>4 DEF PrefixedAt, All, CharAt
<1>13. ASSUME NEW f \in (e + 1)..(Len(s) + 1), NEW i \in k..f, NEW j \in k..f, i <= j, FloatFrom(s, k, f, i, j) PROVE FALSE
  <2>1. k + 1 < f
    BY <1>1, <1>7
  <2>2. s[k + 1] \notin Decimal /\ s[k + 1] # "." /\ s[k + 1] # "e" /\ s[k + 1] # "E" /\ s[k] # "."
    BY <1>2, <1>3
  <2>3. i <= k + 1
    <3>1. \A n \in k..(i - 1) : s[n] \in Decimal
      BY <1>13 DEF FloatFrom, All
    <3> QED
      BY <1>1, <2>2, <3>1
  <2>4. i = k \/ i = k + 1
    BY <1>1, <2>3
  <2>5. ~(j > i)
    BY <1>13, <2>2, <2>4 DEF FloatFrom
  <2>6. j = i /\ j < f
    BY <1>1, <1>13, <2>1, <2>4, <2>5
  <2>7. j # k
    BY <1>1, <1>13 DEF FloatFrom
  <2> QED
    BY <1>13, <2>2, <2>4, <2>6, <2>7 DEF FloatFrom, ExponentAt
<1>14. \A f \in (e + 1)..(Len(s) + 1) : ~IntAt(s, k, f) /\ ~FloatAt(s, k, f)
  BY <1>12, <1>13, Zenon DEF FloatAt
<1>15. PICK kind \in {"INT", "FLOAT", "DOT"} : kind = "INT" /\ kind # "FLOAT" /\ kind # "DOT"
  OBVIOUS
<1>16. Exact(s, k, [kind |-> kind, to |-> e])
  <2>1. s[k] \in Decimal \cup {"."}
    BY <1>10
  <2> QED
    BY <1>7, <1>9, <1>11, <1>14, <1>15, <2>1, NumberOf, Zenon
<1> QED
  BY <1>4, <1>5, <1>15, <1>16, Zenon

\* No number that starts with an octal, hexadecimal or binary prefix.
Unprefixed(s, k) == s[k] = "0" => CharAt(s, k + 1) \notin {"x", "X", "o", "O", "b", "B"}
LEMMA NotInt ==
  ASSUME NEW S, EOFc \notin S, NEW s \in Seq(S), NEW k \in 1..Len(s), NEW f \in (k + 1)..(Len(s) + 1), Unprefixed(s, k),
         NEW n \in k..(f - 1), s[n] \notin Decimal
  PROVE  ~IntAt(s, k, f)
<1>1. Len(s) \in Nat /\ DOMAIN s = 1..Len(s)
  BY LenProperties
<1>2. ~All(s, k, f - 1, IF s[k] = "0" THEN Octal ELSE Decimal)
  BY Disjoint DEF All
<1>3. ASSUME f > k + 2, s[k] = "0" PROVE s[k + 1] \notin {"x", "X", "o", "O", "b", "B"}
  BY <1>1, <1>3 DEF Unprefixed, CharAt
<1> QED
  BY <1>2, <1>3 DEF IntAt, PrefixedAt

LEMMA DecimalExact ==
  ASSUME NEW S, EOFc \notin S, NEW s \in Seq(S), NEW k \in 1..Len(s), s[k] \in Decimal, Unprefixed(s, k),
         NEW i, i = SkipOver(s, k, Decimal), CharAt(s, i) \notin {".", "e", "E"}, DecimalInt(s, k, i).kind \notin LexErrors
  PROVE  Exact(s, k, DecimalInt(s, k, i))
<1>1. Len(s) \in Nat /\ DOMAIN s = 1..Len(s)
  BY LenProperties
<1>2. i \in k..(Len(s) + 1) /\ (\A n \in k..(i - 1) : n \in 1..Len(s) /\ s[n] \in Decimal) /\ CharAt(s, i) \notin Decimal
  <2>1. k \in 1..(Len(s) + 1) /\ EOFc \notin Decimal
    BY <1>1, Disjoint
  <2> QED
    BY <1>1, <2>1, SkipOverFacts
<1>3. i \in (k + 1)..(Len(s) + 1)
  BY <1>1, <1>2 DEF CharAt
<1>4. PICK bad : bad = (s[k] = "0" /\ i > k + 1 /\ ToSet(Text(s, k, i)) \ Octal # {})
  BY Zenon
<1>5. ~bad
  <2>1. CASE bad
    <3>1. PICK rec : rec = [kind |-> "invalid int literal", to |-> i]
      BY Zenon
    <3>2. DecimalInt(s, k, i) = rec
      BY <1>4, <2>1, <3>1, Zenon DEF DecimalInt
    <3>3. rec.kind \in LexErrors
      BY <3>1 DEF LexErrors
    <3> QED
      BY <3>2, <3>3, Zenon
  <2> QED
    BY <2>1
<1>6. DecimalInt(s, k, i) = [kind |-> "INT", to |-> i]
  BY <1>4, <1>5, Zenon DEF DecimalInt
<1>7. All(s, k, i - 1, IF s[k] = "0" THEN Octal ELSE Decimal)
  <2>1. CASE s[k] = "0" /\ i > k + 1
    <3>1. ToSet(Text(s, k, i)) \subseteq Octal
      BY <1>4, <1>5, <2>1
    <3> SUFFICES ASSUME NEW n \in k..(i - 1) PROVE s[n] \in Octal
      BY <2>1 DEF All
    <3>2. n - k + 1 \in 1..(i - k) /\ Text(s, k, i)[n - k + 1] = s[n]
      BY <1>3, TextOf
    <3>3. DOMAIN Text(s, k, i) = 1..(i - k)
      <4>1. \A g \in (k + 1)..(Len(s) + 1) :
              Text(s, k, g) \in Seq(S) /\ Len(Text(s, k, g)) = g - k /\ Text(s, k, g)[1] = s[k]
        BY TextsFrom, Zenon
      <4>2. Text(s, k, i) \in Seq(S) /\ Len(Text(s, k, i)) = i - k
        BY <1>3, <4>1, Zenon
      <4>3. DOMAIN Text(s, k, i) = 1..Len(Text(s, k, i))
        BY <4>2, LenProperties, Zenon
      <4> QED
        BY <4>2, <4>3, Zenon
    <3> QED
      BY <3>1, <3>2, <3>3 DEF ToSet
  <2>2. CASE s[k] = "0" /\ ~(i > k + 1)
    <3>1. \A n \in k..(i - 1) : n = k
      BY <1>1, <1>2, <2>2
    <3> QED
      BY <2>2, <3>1, Disjoint DEF All
  <2>3. CASE s[k] # "0"
    BY <1>2, <2>3 DEF All
  <2> QED
    BY <2>1, <2>2, <2>3
<1>8. IntAt(s, k, i)
  BY <1>7 DEF IntAt
<1>9. ASSUME NEW n \in k..(i - 1) PROVE s[n] \notin Silent
  BY <1>2, Disjoint
<1>10. ASSUME NEW f \in (i + 1)..(Len(s) + 1)
       PROVE  /\ f \in (k + 1)..(Len(s) + 1) /\ i \in k..(f - 1) /\ i \in 1..Len(s)
              /\ s[i] \notin Decimal /\ s[i] \notin {".", "e", "E"}
  BY <1>1, <1>2, <1>3 DEF CharAt
<1>11. ASSUME NEW f \in (i + 1)..(Len(s) + 1) PROVE ~IntAt(s, k, f)
  BY <1>10, NotInt
<1>12. ASSUME NEW f \in (i + 1)..(Len(s) + 1), NEW g \in k..f, NEW j \in k..f, g <= j, FloatFrom(s, k, f, g, j) PROVE FALSE
  <2>1. \A n \in k..(g - 1) : s[n] \in Decimal
    BY <1>12 DEF FloatFrom, All
  <2>2. g <= i
    BY <1>1, <1>10, <2>1
  <2>3. s[g] # "." /\ s[g] # "e" /\ s[g] # "E"
    <3>1. CASE g = i
      BY <1>10, <3>1
    <3>2. CASE g # i
      <4>1. g \in k..(i - 1)
        BY <1>1, <1>2, <2>2, <3>2
      <4> QED
        BY <1>2, <4>1, Disjoint
    <3> QED
      BY <3>1, <3>2
  <2>4. j = g /\ j < f
    BY <1>1, <1>2, <1>12, <2>2, <2>3 DEF FloatFrom
  <2> QED
    BY <1>12, <2>3, <2>4 DEF FloatFrom, ExponentAt
<1>13. \A f \in (i + 1)..(Len(s) + 1) : ~IntAt(s, k, f) /\ ~FloatAt(s, k, f)
  BY <1>11, <1>12, Zenon DEF FloatAt
<1>14. PICK kind \in {"INT", "FLOAT", "DOT"} : kind = "INT" /\ kind # "FLOAT" /\ kind # "DOT"
  OBVIOUS
<1>15. Exact(s, k, [kind |-> kind, to |-> i])
  <2>1. s[k] \in Decimal \cup {"."}
    OBVIOUS
  <2> QED
    BY <1>3, <1>8, <1>9, <1>13, <1>14, <2>1, NumberOf, Zenon
<1> QED
  BY <1>6, <1>14, <1>15, Zenon

(***************************************************************************)
(* What comes before an exponent: digits up to i, and if there is a dot it *)
(* is at i and the digits after it are up to j.                            *)
(***************************************************************************)
Mantissa(s, k, i, j) ==
  /\ All(s, k, i - 1, Decimal) /\ CharAt(s, i) \notin Decimal /\ (\E n \in k..(j - 1) : s[n] # ".")
  /\ \/ j > i /\ s[i] = "." /\ All(s, i + 1, j - 1, Decimal) /\ CharAt(s, j) \notin Decimal
     \/ j = i /\ CharAt(s, j) \in {"e", "E"}
LEMMA MantissaIs ==
  ASSUME NEW S, EOFc \notin S, NEW s \in Seq(S), NEW k \in 1..Len(s), NEW i \in k..(Len(s) + 1), NEW j \in i..(Len(s) + 1),
         Mantissa(s, k, i, j), NEW f \in (j + 1)..(Len(s) + 1), NEW g \in k..f, NEW h \in k..f, g <= h,
         FloatFrom(s, k, f, g, h)
  PROVE  g = i /\ h = j
<1>1. Len(s) \in Nat /\ DOMAIN s = 1..Len(s)
  BY LenProperties
<1>2. i \in 1..Len(s) /\ j \in 1..Len(s) /\ s[i] \notin Decimal /\ s[j] = CharAt(s, j) /\ i \in k..(f - 1)
  BY <1>1 DEF Mantissa, CharAt
<1>3. \A n \in k..(i - 1) : s[n] \in Decimal
  BY DEF Mantissa, All
<1>4. \A n \in k..(g - 1) : s[n] \in Decimal
  BY DEF FloatFrom, All
<1>5. g <= i
  BY <1>1, <1>2, <1>4
<1>6. \A n \in Int : s[n] \in Decimal => s[n] # "." /\ s[n] # "e" /\ s[n] # "E"
  BY Disjoint
<1>7. g = i
  <2>1. ASSUME g # i PROVE FALSE
    <3>1. s[g] \in Decimal /\ g \in Int
      BY <1>1, <1>3, <1>5, <2>1
    <3>2. h = g
      BY <1>1, <1>6, <3>1 DEF FloatFrom
    <3> QED
      BY <1>1, <1>2, <1>5, <1>6, <3>1, <3>2 DEF FloatFrom, ExponentAt
  <2> QED
    BY <2>1
<1>8. CASE j > i
  <2>1. s[i] = "." /\ (\A n \in (i + 1)..(j - 1) : s[n] \in Decimal) /\ s[j] \notin Decimal
    BY <1>1, <1>2, <1>8 DEF Mantissa, All
  <2>2. h # i
    BY <1>1, <1>2, <1>7, <2>1 DEF FloatFrom, ExponentAt
  <2>3. h > g
    BY <1>1, <1>7, <2>2
  <2>4. \A n \in (i + 1)..(h - 1) : s[n] \in Decimal
    BY <1>7, <2>3 DEF FloatFrom, All
  <2>5. h <= j
    BY <1>1, <1>8, <2>1, <2>4
  <2>6. h = j
    <3>1. ASSUME h # j PROVE FALSE
      <4>1. h \in (i + 1)..(j - 1) /\ h < f /\ h \in Int
        BY <1>1, <1>7, <2>3, <2>5, <3>1
      <4> QED
        BY <1>6, <2>1, <4>1 DEF FloatFrom, ExponentAt
    <3> QED
      BY <3>1
  <2> QED
    BY <1>7, <2>6
<1>9. CASE j = i
  <2>1. s[i] \in {"e", "E"}
    BY <1>1, <1>2, <1>9 DEF Mantissa
  <2> QED
    BY <1>1, <1>7, <1>9, <2>1 DEF FloatFrom
<1> QED
  BY <1>1, <1>8, <1>9

LEMMA MantissaFacts ==
  ASSUME NEW S, EOFc \notin S, NEW s \in Seq(S), NEW k \in 1..Len(s), NEW i \in k..(Len(s) + 1), NEW j \in i..(Len(s) + 1),
         Mantissa(s, k, i, j), Unprefixed(s, k)
  PROVE  /\ j >= k + 1
         /\ \A n \in k..(j - 1) : s[n] \notin Silent
         /\ \A f \in (j + 1)..(Len(s) + 1) : ~IntAt(s, k, f)
         /\ s[k] \in Decimal \cup {"."}
<1>1. Len(s) \in Nat /\ DOMAIN s = 1..Len(s)
  BY LenProperties
<1>2. \A n \in k..(i - 1) : s[n] \in Decimal
  BY DEF Mantissa, All
<1>3. j >= k + 1
  BY <1>1 DEF Mantissa
<1>4. \A n \in k..(j - 1) : s[n] \in Decimal \cup {"."}
  <2>1. CASE j > i
    <3>1. s[i] = "." /\ \A n \in (i + 1)..(j - 1) : s[n] \in Decimal
      BY <1>1, <2>1 DEF Mantissa, All
    <3> SUFFICES ASSUME NEW n \in k..(j - 1) PROVE s[n] \in Decimal \cup {"."}
      OBVIOUS
    <3>2. n \in k..(i - 1) \/ n = i \/ n \in (i + 1)..(j - 1)
      BY <1>1
    <3> QED
      BY <1>2, <3>1, <3>2
  <2>2. CASE j = i
    BY <1>2, <2>2
  <2> QED
    BY <1>1, <2>1, <2>2
<1>5. ASSUME NEW n \in k..(j - 1) PROVE s[n] \notin Silent
  BY <1>4, Disjoint
<1>6. ASSUME NEW f \in (j + 1)..(Len(s) + 1) PROVE ~IntAt(s, k, f)
  <2>1. i \in k..(f - 1) /\ i \in 1..Len(s) /\ f \in (k + 1)..(Len(s) + 1)
    BY <1>1, <1>3
  <2>2. s[i] \notin Decimal
    BY <1>1, <2>1 DEF Mantissa, CharAt
  <2> QED
    BY <2>1, <2>2, NotInt
<1>7. s[k] \in Decimal \cup {"."}
  BY <1>1, <1>3, <1>4
<1> QED
  BY <1>3, <1>5, <1>6, <1>7, Zenon

\* No exponent.
LEMMA PointExact ==
  ASSUME NEW S, EOFc \notin S, NEW s \in Seq(S), NEW k \in 1..Len(s), NEW i \in k..(Len(s) + 1), NEW j \in i..(Len(s) + 1),
         Mantissa(s, k, i, j), Unprefixed(s, k), CharAt(s, j) \notin {"e", "E"}
  PROVE  Exact(s, k, [kind |-> "FLOAT", to |-> j])
<1>1. Len(s) \in Nat /\ DOMAIN s = 1..Len(s)
  BY LenProperties
<1>2. /\ j >= k + 1
      /\ \A n \in k..(j - 1) : s[n] \notin Silent
      /\ \A f \in (j + 1)..(Len(s) + 1) : ~IntAt(s, k, f)
      /\ s[k] \in Decimal \cup {"."}
  BY MantissaFacts
<1>3. j \in (k + 1)..(Len(s) + 1) /\ i \in k..j /\ j \in k..j /\ i <= j
  BY <1>1, <1>2
<1>4. FloatFrom(s, k, j, i, j)
  <2>1. ~(j < j) /\ j > i
    BY <1>1 DEF Mantissa
  <2> QED
    BY <2>1 DEF Mantissa, FloatFrom
<1>5. FloatAt(s, k, j)
  BY <1>3, <1>4, Zenon DEF FloatAt
<1>6. ASSUME NEW f \in (j + 1)..(Len(s) + 1), NEW g \in k..f, NEW h \in k..f, g <= h, FloatFrom(s, k, f, g, h) PROVE FALSE
  <2>1. h = j
    BY <1>6, MantissaIs, Zenon
  <2>2. j < f /\ j \in 1..Len(s)
    BY <1>1, <1>2
  <2> QED
    BY <1>1, <1>6, <2>1, <2>2 DEF FloatFrom, ExponentAt, CharAt
<1>7. \A f \in (j + 1)..(Len(s) + 1) : ~IntAt(s, k, f) /\ ~FloatAt(s, k, f)
  BY <1>2, <1>6, Zenon DEF FloatAt
<1>8. PICK kind \in {"INT", "FLOAT", "DOT"} : kind = "FLOAT" /\ kind # "INT" /\ kind # "DOT"
  OBVIOUS
<1>9. Exact(s, k, [kind |-> kind, to |-> j])
  BY <1>2, <1>3, <1>5, <1>7, <1>8, NumberOf, Zenon
<1> QED
  BY <1>8, <1>9, Zenon

\* An exponent of the digits from d on, which are after its sign if it has one.
LEMMA ExponentExact ==
  ASSUME NEW S, EOFc \notin S, NEW s \in Seq(S), NEW k \in 1..Len(s), NEW i \in k..(Len(s) + 1), NEW j \in i..(Len(s) + 1),
         Mantissa(s, k, i, j), Unprefixed(s, k), CharAt(s, j) \in {"e", "E"},
         NEW d, d = (IF CharAt(s, j + 1) \in {"+", "-"} THEN j + 2 ELSE j + 1),
         NEW e \in (d + 1)..(Len(s) + 1), CharAt(s, e) \notin Decimal,
         \A n \in d..(e - 1) : s[n] \in Decimal
  PROVE  Exact(s, k, [kind |-> "FLOAT", to |-> e])
<1>1. Len(s) \in Nat /\ DOMAIN s = 1..Len(s)
  BY LenProperties
<1>2. /\ j >= k + 1
      /\ \A n \in k..(j - 1) : s[n] \notin Silent
      /\ \A f \in (j + 1)..(Len(s) + 1) : ~IntAt(s, k, f)
      /\ s[k] \in Decimal \cup {"."}
  BY MantissaFacts
<1>3. "e" # EOFc /\ "E" # EOFc /\ "+" # EOFc /\ "-" # EOFc
  BY DEF EOFc
<1>4. j \in 1..Len(s) /\ s[j] \in {"e", "E"}
  BY <1>1, <1>3 DEF CharAt
<1>5. d \in {j + 1, j + 2} /\ (d = j + 2 => s[j + 1] \in {"+", "-"}) /\ (d = j + 1 => CharAt(s, j + 1) \notin {"+", "-"})
  BY <1>1, <1>3, <1>4 DEF CharAt
<1>6. e \in (k + 1)..(Len(s) + 1) /\ e > j + 1 /\ (d = j + 2 => e > j + 2) /\ i \in k..e /\ j \in k..e /\ i <= j /\ j < e
  BY <1>1, <1>2, <1>4, <1>5
<1>7. ExponentAt(s, j, e)
  BY <1>4, <1>5, <1>6 DEF ExponentAt, All
<1>8. FloatFrom(s, k, e, i, j)
  BY <1>6, <1>7 DEF FloatFrom, Mantissa
<1>9. FloatAt(s, k, e)
  BY <1>6, <1>8, Zenon DEF FloatAt
<1>10. ASSUME NEW n \in k..(e - 1) PROVE s[n] \notin Silent
  <2>1. n \in k..(j - 1) \/ n = j \/ (n = j + 1 /\ d = j + 2) \/ n \in d..(e - 1)
    BY <1>1, <1>5, <1>6
  <2> QED
    BY <1>2, <1>4, <1>5, <2>1, Disjoint
<1>11. ASSUME NEW f \in (e + 1)..(Len(s) + 1), NEW g \in k..f, NEW h \in k..f, g <= h, FloatFrom(s, k, f, g, h) PROVE FALSE
  <2>1. f \in (j + 1)..(Len(s) + 1)
    BY <1>1, <1>6
  <2>2. h = j
    BY <1>11, <2>1, MantissaIs, Zenon
  <2>3. ExponentAt(s, j, f)
    BY <1>1, <1>6, <1>11, <2>2 DEF FloatFrom
  <2>4. e \in 1..Len(s) /\ e \in d..(f - 1) /\ j + 1 \in 1..Len(s) /\ s[e] \notin Decimal
    BY <1>1, <1>5, <1>6 DEF CharAt
  <2>5. CASE d = j + 1
    <3>1. s[j + 1] \notin {"+", "-"}
      BY <1>1, <1>5, <2>4, <2>5 DEF CharAt
    <3>2. All(s, j + 1, f - 1, Decimal)
      BY <2>3, <3>1 DEF ExponentAt
    <3> QED
      BY <2>4, <2>5, <3>2 DEF All
  <2>6. CASE d = j + 2
    <3>1. s[j + 1] \notin Decimal
      BY <1>5, <2>6, Disjoint
    <3>2. j + 1 \in (j + 1)..(f - 1)
      BY <1>1, <1>6
    <3>3. ~All(s, j + 1, f - 1, Decimal)
      BY <3>1, <3>2 DEF All
    <3>4. All(s, j + 2, f - 1, Decimal)
      BY <2>3, <3>3 DEF ExponentAt
    <3> QED
      BY <2>4, <2>6, <3>4 DEF All
  <2> QED
    BY <1>5, <2>5, <2>6
<1>12. \A f \in (e + 1)..(Len(s) + 1) : f \in (j + 1)..(Len(s) + 1)
  BY <1>1, <1>6
<1>13. \A f \in (e + 1)..(Len(s) + 1) : ~IntAt(s, k, f) /\ ~FloatAt(s, k, f)
  BY <1>2, <1>11, <1>12, Zenon DEF FloatAt
<1>14. PICK kind \in {"INT", "FLOAT", "DOT"} : kind = "FLOAT" /\ kind # "INT" /\ kind # "DOT"
  OBVIOUS
<1>15. Exact(s, k, [kind |-> kind, to |-> e])
  BY <1>2, <1>6, <1>9, <1>10, <1>13, <1>14, NumberOf, Zenon
<1> QED
  BY <1>14, <1>15, Zenon

\* The part of Float after the digits and the dot.
FloatEnd(s, j) ==
  LET e    == IF CharAt(s, j) \in {"e", "E"} THEN Exponent(s, j) ELSE [to |-> j, bad |-> FALSE]
      bare == e.to > j /\ s[e.to - 1] \notin Decimal
  IN  [kind |-> IF e.bad \/ bare THEN "invalid float literal" ELSE "FLOAT", to |-> e.to]
LEMMA FloatEndExact ==
  ASSUME NEW S, EOFc \notin S, NEW s \in Seq(S), NEW k \in 1..Len(s), NEW i \in k..(Len(s) + 1), NEW j \in i..(Len(s) + 1),
         Mantissa(s, k, i, j), Unprefixed(s, k), FloatEnd(s, j).kind \notin LexErrors
  PROVE  Exact(s, k, FloatEnd(s, j))
<1>1. Len(s) \in Nat /\ DOMAIN s = 1..Len(s)
  BY LenProperties
<1>2. PICK e : e = IF CharAt(s, j) \in {"e", "E"} THEN Exponent(s, j) ELSE [to |-> j, bad |-> FALSE]
  BY Zenon
<1>3. FloatEnd(s, j) = [kind |-> IF e.bad \/ (e.to > j /\ s[e.to - 1] \notin Decimal) THEN "invalid float literal" ELSE "FLOAT",
                        to |-> e.to]
  BY <1>2, Zenon DEF FloatEnd
<1>4. ~(e.bad \/ (e.to > j /\ s[e.to - 1] \notin Decimal))
  <2>1. CASE e.bad \/ (e.to > j /\ s[e.to - 1] \notin Decimal)
    <3>1. PICK rec : rec = [kind |-> "invalid float literal", to |-> e.to]
      BY Zenon
    <3>2. FloatEnd(s, j) = rec
      BY <1>3, <2>1, <3>1, Zenon
    <3>3. rec.kind \in LexErrors
      BY <3>1 DEF LexErrors
    <3> QED
      BY <3>2, <3>3, Zenon
  <2> QED
    BY <2>1
<1>5. FloatEnd(s, j) = [kind |-> "FLOAT", to |-> e.to]
  BY <1>3, <1>4, Zenon
<1>6. CASE CharAt(s, j) \notin {"e", "E"}
  <2>1. e.to = j
    BY <1>2, <1>6
  <2>2. Exact(s, k, [kind |-> "FLOAT", to |-> j])
    BY <1>6, PointExact, Zenon
  <2> QED
    BY <1>5, <2>1, <2>2, Zenon
<1>7. CASE CharAt(s, j) \in {"e", "E"}
  <2>1. j \in 1..Len(s)
    <3>1. "e" # EOFc /\ "E" # EOFc
      BY DEF EOFc
    <3> QED
      BY <1>1, <1>7, <3>1 DEF CharAt
  <2>2. PICK d : d = IF CharAt(s, j + 1) \in {"+", "-"} THEN j + 2 ELSE j + 1
    BY Zenon
  <2>3. e.to = SkipOver(s, d, Decimal) /\ (d = j + 2 => CharAt(s, d) \in Decimal)
    <3>1. CASE CharAt(s, j + 1) \in {"+", "-"}
      <4>1. e = [to |-> SkipOver(s, j + 2, Decimal), bad |-> CharAt(s, j + 2) \notin Decimal]
        BY <1>2, <1>7, <3>1, Zenon DEF Exponent
      <4>2. e.to = SkipOver(s, j + 2, Decimal) /\ e.bad = (CharAt(s, j + 2) \notin Decimal)
        BY <4>1
      <4>3. d = j + 2
        BY <2>2, <3>1, Zenon
      <4> QED
        BY <1>4, <4>2, <4>3, Zenon
    <3>2. CASE CharAt(s, j + 1) \notin {"+", "-"}
      <4>1. e = [to |-> SkipOver(s, j + 1, Decimal), bad |-> FALSE]
        BY <1>2, <1>7, <3>2, Zenon DEF Exponent
      <4>2. e.to = SkipOver(s, j + 1, Decimal)
        BY <4>1
      <4>3. d = j + 1
        BY <2>2, <3>2, Zenon
      <4>4. j + 1 # j + 2
        BY <2>1
      <4> QED
        BY <4>2, <4>3, <4>4, Zenon
    <3> QED
      BY <3>1, <3>2
  <2>4. d \in 1..(Len(s) + 1) /\ d \in {j + 1, j + 2}
    <3>1. CASE CharAt(s, j + 1) \in {"+", "-"}
      <4>1. "+" # EOFc /\ "-" # EOFc
        BY DEF EOFc
      <4> QED
        BY <1>1, <2>1, <2>2, <3>1, <4>1 DEF CharAt
    <3>2. CASE CharAt(s, j + 1) \notin {"+", "-"}
      BY <1>1, <2>1, <2>2, <3>2
    <3> QED
      BY <3>1, <3>2
  <2>5. PICK t : t = e.to
    BY Zenon
  <2>6. t \in d..(Len(s) + 1) /\ (\A n \in d..(t - 1) : n \in 1..Len(s) /\ s[n] \in Decimal) /\ CharAt(s, t) \notin Decimal
    <3>1. EOFc \notin Decimal
      BY Disjoint
    <3>2. t = SkipOver(s, d, Decimal)
      BY <2>3, <2>5, Zenon
    <3> QED
      BY <1>1, <2>4, <3>1, <3>2, SkipOverFacts
  <2>7. t # d
    <3>1. CASE d = j + 2
      BY <2>3, <2>6, <3>1
    <3>2. CASE d = j + 1
      <4>1. s[j] \notin Decimal
        BY <1>1, <1>7, <2>1, Disjoint DEF CharAt
      <4>2. (t = d) => t > j /\ t - 1 = j
        BY <1>1, <2>1, <3>2
      <4> QED
        BY <1>4, <2>5, <4>1, <4>2
    <3> QED
      BY <2>4, <3>1, <3>2
  <2>8. t \in (d + 1)..(Len(s) + 1)
    BY <1>1, <2>4, <2>6, <2>7
  <2>9. \A n \in d..(t - 1) : s[n] \in Decimal
    BY <2>6, Zenon
  <2>10. Exact(s, k, [kind |-> "FLOAT", to |-> t])
    BY <1>7, <2>2, <2>6, <2>8, <2>9, ExponentExact, Zenon
  <2> QED
    BY <1>5, <2>5, <2>10, Zenon
<1> QED
  BY <1>6, <1>7, Zenon

LEMMA FloatExact ==
  ASSUME NEW S, EOFc \notin S, NEW s \in Seq(S), NEW k \in 1..Len(s), NEW i, i = SkipOver(s, k, Decimal), Unprefixed(s, k),
         \/ s[k] = "." /\ CharAt(s, k + 1) \in Decimal
         \/ s[k] \in Decimal /\ CharAt(s, i) \in {".", "e", "E"},
         Float(s, k, i).kind \notin LexErrors
  PROVE  Exact(s, k, Float(s, k, i))
<1>1. Len(s) \in Nat /\ DOMAIN s = 1..Len(s)
  BY LenProperties
<1>2. i \in k..(Len(s) + 1) /\ (\A n \in k..(i - 1) : n \in 1..Len(s) /\ s[n] \in Decimal) /\ CharAt(s, i) \notin Decimal
  <2>1. k \in 1..(Len(s) + 1) /\ EOFc \notin Decimal
    BY <1>1, Disjoint
  <2> QED
    BY <1>1, <2>1, SkipOverFacts
<1>3. PICK j : j = IF i = k \/ CharAt(s, i) = "." THEN Fraction(s, IF i = k THEN k + 1 ELSE i) ELSE i
  BY Zenon
<1>4. Float(s, k, i) = FloatEnd(s, j)
  BY <1>3, Zenon DEF Float, FloatEnd
<1>5. "." # EOFc /\ "e" # EOFc /\ "E" # EOFc /\ EOFc \notin Decimal /\ "." \notin Decimal /\ "." # "e" /\ "." # "E"
  BY DEF EOFc, Decimal
<1>6. j \in i..(Len(s) + 1) /\ Mantissa(s, k, i, j)
  <2>1. CASE s[k] = "." /\ CharAt(s, k + 1) \in Decimal
    <3>1. i = k
      BY <1>1, <1>2, <1>5, <2>1
    <3>2. PICK b \in 1..(Len(s) + 1) : b = k + 2 /\ b = (k + 1) + 1 /\ k + 1 \in 1..Len(s) /\ s[k + 1] \in Decimal
      BY <1>1, <1>5, <2>1 DEF CharAt
    <3>3. j = SkipOver(s, b, Decimal)
      BY <1>3, <3>1, <3>2, Zenon DEF Fraction
    <3>4. j \in b..(Len(s) + 1) /\ (\A n \in b..(j - 1) : n \in 1..Len(s) /\ s[n] \in Decimal) /\ CharAt(s, j) \notin Decimal
      BY <1>1, <1>5, <3>2, <3>3, SkipOverFacts
    <3>5. j > i /\ j \in i..(Len(s) + 1) /\ k + 1 \in k..(j - 1) /\ s[k + 1] # "."
      BY <1>1, <1>5, <3>1, <3>2, <3>4
    <3>6. \A n \in (i + 1)..(j - 1) : n = k + 1 \/ n \in b..(j - 1)
      BY <1>1, <3>1, <3>2
    <3>7. All(s, i + 1, j - 1, Decimal)
      BY <3>2, <3>4, <3>6 DEF All
    <3>8. All(s, k, i - 1, Decimal)
      BY <1>2 DEF All
    <3> QED
      BY <1>2, <2>1, <3>1, <3>4, <3>5, <3>7, <3>8, Zenon DEF Mantissa
  <2>2. CASE s[k] \in Decimal /\ CharAt(s, i) \in {".", "e", "E"}
    <3>1. i # k /\ k \in k..(i - 1) /\ s[k] # "." /\ i \in 1..Len(s) /\ s[i] = CharAt(s, i)
      BY <1>1, <1>2, <1>5, <2>2 DEF CharAt
    <3>2. All(s, k, i - 1, Decimal)
      BY <1>2 DEF All
    <3>3. CASE CharAt(s, i) = "."
      <4>1. PICK b \in 1..(Len(s) + 1) : b = i + 1
        BY <1>1, <3>1
      <4>2. j = SkipOver(s, b, Decimal)
        BY <1>3, <3>1, <3>3, <4>1, Zenon DEF Fraction
      <4>3. j \in b..(Len(s) + 1) /\ (\A n \in b..(j - 1) : n \in 1..Len(s) /\ s[n] \in Decimal) /\ CharAt(s, j) \notin Decimal
        BY <1>1, <1>5, <4>2, SkipOverFacts
      <4>4. j > i /\ j \in i..(Len(s) + 1) /\ k \in k..(j - 1)
        BY <1>1, <3>1, <4>1, <4>3
      <4>5. All(s, i + 1, j - 1, Decimal)
        BY <4>1, <4>3 DEF All
      <4> QED
        BY <1>2, <3>1, <3>2, <3>3, <4>3, <4>4, <4>5, Zenon DEF Mantissa
    <3>4. CASE CharAt(s, i) # "."
      <4>1. j = i
        BY <1>3, <3>1, <3>4, Zenon
      <4>2. j \in i..(Len(s) + 1) /\ CharAt(s, j) \in {"e", "E"}
        BY <1>1, <2>2, <3>1, <3>4, <4>1
      <4> QED
        BY <1>2, <3>1, <3>2, <4>1, <4>2, Zenon DEF Mantissa
    <3> QED
      BY <3>3, <3>4
  <2> QED
    BY <2>1, <2>2
<1>7. FloatEnd(s, j).kind \notin LexErrors
  BY <1>4, Zenon
<1>8. Exact(s, k, FloatEnd(s, j))
  BY <1>2, <1>6, <1>7, FloatEndExact, Zenon
<1> QED
  BY <1>4, <1>8, Zenon

LEMMA NumberExact ==
  ASSUME NEW S, EOFc \notin S, NEW s \in Seq(S), NEW k \in 1..Len(s), s[k] \in Decimal \cup {"."},
         Number(s, k).kind \notin LexErrors
  PROVE  Exact(s, k, Number(s, k))
<1>1. Len(s) \in Nat /\ DOMAIN s = 1..Len(s)
  BY LenProperties
<1>2. PICK c, i : c = CharAt(s, k + 1) /\ i = SkipOver(s, k, Decimal)
  BY Zenon
<1>3. Number(s, k) = IF s[k] = "." /\ c \notin Decimal THEN [kind |-> "DOT", to |-> k + 1]
      ELSE IF s[k] = "0" /\ c \in {"x", "X"} THEN Based(s, k, Hex, "invalid hex literal")
      ELSE IF s[k] = "0" /\ c \in {"o", "O"} THEN Based(s, k, Octal, "invalid octal literal")
      ELSE IF s[k] = "0" /\ c \in {"b", "B"} THEN Based(s, k, Binary, "invalid binary literal")
      ELSE IF s[k] = "." \/ CharAt(s, i) \in {".", "e", "E"} THEN Float(s, k, i)
      ELSE DecimalInt(s, k, i)
  BY <1>2, Zenon DEF Number
<1>4. CASE s[k] = "." /\ c \notin Decimal
  <2>1. Exact(s, k, [kind |-> "DOT", to |-> k + 1])
    BY <1>2, <1>4, DotExact, Zenon
  <2> QED
    BY <1>3, <1>4, <2>1, Zenon
<1>5. ASSUME s[k] = "0", NEW letters, NEW digits, NEW what \in LexErrors, c \in letters,
             \/ letters = {"x", "X"} /\ digits = Hex
             \/ letters = {"o", "O"} /\ digits = Octal
             \/ letters = {"b", "B"} /\ digits = Binary,
             Number(s, k) = Based(s, k, digits, what)
      PROVE  Exact(s, k, Number(s, k))
  <2>1. CharAt(s, k + 2) \in digits
    <3>1. CASE CharAt(s, k + 2) \notin digits
      <4>1. PICK rec : rec = [kind |-> what, to |-> k + 2]
        BY Zenon
      <4>2. Number(s, k) = rec
        BY <1>5, <3>1, <4>1, Zenon DEF Based
      <4>3. rec.kind \in LexErrors
        BY <4>1
      <4> QED
        BY <4>2, <4>3, Zenon
    <3> QED
      BY <3>1
  <2>2. Number(s, k) = [kind |-> "INT", to |-> SkipOver(s, k + 2, digits)]
    BY <1>5, <2>1, Zenon DEF Based
  <2>3. Exact(s, k, [kind |-> "INT", to |-> SkipOver(s, k + 2, digits)])
    BY <1>2, <1>5, <2>1, BasedExact, Zenon
  <2> QED
    BY <2>2, <2>3, Zenon
<1>6. "invalid hex literal" \in LexErrors /\ "invalid octal literal" \in LexErrors /\ "invalid binary literal" \in LexErrors
  BY DEF LexErrors
<1>7. "0" # "." /\ {"x", "X"} \cap {"o", "O"} = {} /\ {"x", "X"} \cap {"b", "B"} = {} /\ {"o", "O"} \cap {"b", "B"} = {}
  OBVIOUS
<1>8. CASE s[k] = "0" /\ c \in {"x", "X"}
  <2>1. Number(s, k) = Based(s, k, Hex, "invalid hex literal")
    BY <1>3, <1>7, <1>8, Zenon
  <2> QED
    BY <1>5, <1>6, <1>8, <2>1, Zenon
<1>9. CASE s[k] = "0" /\ c \in {"o", "O"}
  <2>1. c \notin {"x", "X"}
    BY <1>9
  <2>2. Number(s, k) = Based(s, k, Octal, "invalid octal literal")
    BY <1>3, <1>7, <1>9, <2>1, Zenon
  <2> QED
    BY <1>5, <1>6, <1>9, <2>2, Zenon
<1>10. CASE s[k] = "0" /\ c \in {"b", "B"}
  <2>1. c \notin {"x", "X"} /\ c \notin {"o", "O"}
    BY <1>10
  <2>2. Number(s, k) = Based(s, k, Binary, "invalid binary literal")
    BY <1>3, <1>7, <1>10, <2>1, Zenon
  <2> QED
    BY <1>5, <1>6, <1>10, <2>2, Zenon
<1>11. ASSUME ~(s[k] = "." /\ c \notin Decimal), ~(s[k] = "0" /\ c \in {"x", "X"}), ~(s[k] = "0" /\ c \in {"o", "O"}),
              ~(s[k] = "0" /\ c \in {"b", "B"})
       PROVE  Exact(s, k, Number(s, k))
  <2>1. Unprefixed(s, k)
    BY <1>2, <1>11 DEF Unprefixed
  <2>2. CASE s[k] = "." \/ CharAt(s, i) \in {".", "e", "E"}
    <3>1. Number(s, k) = Float(s, k, i)
      BY <1>3, <1>11, <2>2, Zenon
    <3>2. \/ s[k] = "." /\ CharAt(s, k + 1) \in Decimal
          \/ s[k] \in Decimal /\ CharAt(s, i) \in {".", "e", "E"}
      BY <1>2, <1>11, <2>2
    <3>3. Float(s, k, i).kind \notin LexErrors
      BY <3>1, Zenon
    <3>4. Exact(s, k, Float(s, k, i))
      BY <1>2, <2>1, <3>2, <3>3, FloatExact, Zenon
    <3> QED
      BY <3>1, <3>4, Zenon
  <2>3. CASE ~(s[k] = "." \/ CharAt(s, i) \in {".", "e", "E"})
    <3>1. Number(s, k) = DecimalInt(s, k, i)
      BY <1>3, <1>11, <2>3, Zenon
    <3>2. DecimalInt(s, k, i).kind \notin LexErrors
      BY <3>1, Zenon
    <3>3. s[k] \in Decimal /\ CharAt(s, i) \notin {".", "e", "E"}
      BY <2>3
    <3>4. Exact(s, k, DecimalInt(s, k, i))
      BY <1>2, <2>1, <3>2, <3>3, DecimalExact, Zenon
    <3> QED
      BY <3>1, <3>4, Zenon
  <2> QED
    BY <2>2, <2>3, Zenon
<1> QED
  BY <1>4, <1>8, <1>9, <1>10, <1>11, Zenon

LEMMA NoMistake ==
  /\ "indentation error" \in LexErrors /\ "unexpected input character" \in LexErrors
BY DEF LexErrors

\* What Lex returns of a text without quotes is a token from k on, if it is no error.
LEMMA LexExact ==
  ASSUME NEW S, EOFc \notin S, Src \in Seq(S), Plain, NEW k \in 1..Size, Lex(k).kind \notin LexErrors
  PROVE  Exact(Src, k, Lex(k))
<1>1. PICK s : s = Src
  BY Zenon
<1>2. s \in Seq(S) /\ Len(s) \in Nat /\ DOMAIN s = 1..Len(s) /\ k \in 1..Len(s)
  BY <1>1, LenProperties DEF Size
<1>3. PICK c, d : c = Char(k) /\ d = Char(k + 1)
  BY Zenon
<1>4. c = s[k] /\ d = CharAt(s, k + 1)
  BY <1>1, <1>2, <1>3 DEF Char, CharAt, Src
<1>5. c \notin {"\"", "'"} /\ d \notin {"\"", "'"}
  <2>1. \A n \in 1..Len(s) : s[n] \notin {"\"", "'"}
    BY <1>1, <1>2 DEF Plain, ToSet
  <2>2. EOFc \notin {"\"", "'"}
    BY DEF EOFc
  <2> QED
    BY <1>2, <1>4, <2>1, <2>2 DEF CharAt
<1>6. PICK w, n, o, x : w = Word(k) /\ n = Number(source.text, k) /\ o = Operator(k) /\ x = Lex(k)
  BY Zenon
<1>7. x = CASE c \in {"\"", "'"} -> StringAt(k, k)
        [] c = "r" /\ d \in {"\"", "'"} -> StringAt(k, k + 1)
        [] c \in Letters /\ ~(c = "r" /\ d \in {"\"", "'"}) -> w
        [] c \in {")", "]", "}"} /\ sc.depth = 0 -> [kind |-> "indentation error", to |-> k]
        [] c \in {"(", "[", "{", ",", ":", ";", "|", "&"} -> [kind |-> c, to |-> k + 1]
        [] c \in {")", "]", "}"} /\ sc.depth > 0 -> [kind |-> c, to |-> k + 1]
        [] c \in Decimal \cup {"."} -> n
        [] c \in Punct \cup {"*"} -> o
        [] OTHER -> [kind |-> "unexpected input character", to |-> k]
  BY <1>3, <1>6, Zenon DEF Lex
<1>8. x.kind \notin LexErrors
  BY <1>6, Zenon
<1>9. /\ c \in Letters => c \notin {")", "]", "}"} /\ c \notin {"(", "[", "{", ",", ":", ";", "|", "&"}
                          /\ c \notin Decimal \cup {"."} /\ c \notin Punct \cup {"*"}
      /\ c \in Decimal \cup {"."} => c \notin {")", "]", "}"} /\ c \notin {"(", "[", "{", ",", ":", ";", "|", "&"}
                                     /\ c \notin Punct \cup {"*"}
      /\ c \in Punct \cup {"*"} => c \notin {")", "]", "}"} /\ c \notin {"(", "[", "{", ",", ":", ";", "|", "&"}
      /\ c \in {")", "]", "}"} => c \notin {"(", "[", "{", ",", ":", ";", "|", "&"}
  <2>1. c \in Letters => c \notin Decimal /\ c \notin Special
    BY ScannerAssumption DEF ScannerAssumption
  <2> QED
    BY <2>1 DEF Special, Brackets, Punct, Decimal
<1>10. CASE c \in Letters
  <2>1. x = w
    BY <1>5, <1>7, <1>9, <1>10
  <2>2. PICK e : e = SkipOver(s, k, Letters \cup Decimal)
    BY Zenon
  <2>3. w = [kind |-> IF Text(s, k, e) \in Keywords THEN "keyword" ELSE "IDENT", to |-> e]
    BY <1>1, <1>6, <2>2, Zenon DEF Word, Skip, Src
  <2>4. Exact(s, k, [kind |-> IF Text(s, k, e) \in Keywords THEN "keyword" ELSE "IDENT", to |-> e])
    BY <1>2, <1>4, <1>10, <2>2, WordExact, Zenon
  <2> QED
    BY <1>1, <1>6, <2>1, <2>3, <2>4, Zenon
<1>11. CASE c \in {"(", "[", "{", ",", ":", ";", "|", "&"} \/ (c \in {")", "]", "}"} /\ sc.depth # 0 /\ sc.depth > 0)
  <2>1. x = [kind |-> c, to |-> k + 1]
    BY <1>5, <1>7, <1>9, <1>11
  <2>2. c \in Singles
    BY <1>11 DEF Singles, Brackets
  <2>3. Exact(s, k, [kind |-> s[k], to |-> k + 1])
    BY <1>2, <1>4, <2>2, SingleExact, Zenon
  <2> QED
    BY <1>1, <1>4, <1>6, <2>1, <2>3, Zenon
<1>12. CASE c \in Decimal \cup {"."}
  <2>1. x = n
    BY <1>5, <1>7, <1>9, <1>12
  <2>2. Number(s, k).kind \notin LexErrors
    BY <1>1, <1>6, <1>8, <2>1, Zenon DEF Src
  <2>3. Exact(s, k, Number(s, k))
    BY <1>2, <1>4, <1>12, <2>2, NumberExact, Zenon
  <2> QED
    BY <1>1, <1>6, <2>1, <2>3, Zenon DEF Src
<1>13. CASE c \in Punct \cup {"*"}
  <2>1. x = o
    BY <1>5, <1>7, <1>9, <1>13
  <2>2. Operator(k).kind \notin LexErrors /\ Src[k] \in Punct \cup {"*"}
    BY <1>1, <1>4, <1>6, <1>8, <1>13, <2>1, Zenon
  <2>3. Exact(Src, k, Operator(k))
    BY <2>2, OperatorExact, Zenon
  <2> QED
    BY <1>6, <2>1, <2>3, Zenon
<1>14. CASE c \in {")", "]", "}"} /\ (sc.depth = 0 \/ ~(sc.depth > 0))
  <2>1. x.kind = "indentation error" \/ x.kind = "unexpected input character"
    <3>1. c \notin Letters /\ c \notin {"(", "[", "{", ",", ":", ";", "|", "&"} /\ c \notin Decimal \cup {"."}
          /\ c \notin Punct \cup {"*"}
      BY <1>9, <1>14
    <3>2. CASE sc.depth = 0
      <4>1. ~(sc.depth > 0)
        BY <3>2
      <4>2. x = [kind |-> "indentation error", to |-> k]
        BY <1>5, <1>7, <1>14, <3>1, <3>2, <4>1
      <4> QED
        BY <4>2
    <3>3. CASE sc.depth # 0 /\ ~(sc.depth > 0)
      BY <1>5, <1>7, <1>14, <3>1, <3>3
    <3> QED
      BY <1>14, <3>2, <3>3
  <2> QED
    BY <1>8, <2>1, NoMistake, Zenon
<1>15. CASE /\ c \notin Letters /\ c \notin {")", "]", "}"} /\ c \notin {"(", "[", "{", ",", ":", ";", "|", "&"}
            /\ c \notin Decimal \cup {"."} /\ c \notin Punct \cup {"*"}
  <2>1. x.kind = "unexpected input character"
    BY <1>5, <1>7, <1>15
  <2> QED
    BY <1>8, <2>1, NoMistake, Zenon
<1> QED
  BY <1>10, <1>11, <1>12, <1>13, <1>14, <1>15, Zenon

LEMMA GreatestNatural ==
  ASSUME NEW n \in Nat, NEW T \in SUBSET (0..n), T # {}
  PROVE  Max(T) \in T /\ \A x \in T : x <= Max(T)
<1>1. \A x \in T : x \in 0..n
  OBVIOUS
<1>2. \A x \in T : x \in Nat /\ x <= n /\ n - x \in Nat
  BY <1>1
<1> DEFINE D == {n - x : x \in T}
<1>3. D \in SUBSET Nat /\ D # {}
  BY <1>2
<1>4. PICK d \in D : \A e \in D : d <= e
  BY <1>3, LeastNatural
<1>5. PICK m \in T : d = n - m
  OBVIOUS
<1>6. ASSUME NEW x \in T PROVE x <= m
  <2>1. n - x \in D
    OBVIOUS
  <2>2. n - m <= n - x
    BY <1>4, <1>5, <2>1
  <2> QED
    BY <1>2, <2>2
<1>7. \A x \in T : (\A y \in T : x >= y) => x = m
  BY <1>2, <1>6
<1>8. \A y \in T : m >= y
  BY <1>2, <1>6
<1>9. Max(T) = m
  BY <1>7, <1>8 DEF Max
<1> QED
  BY <1>6, <1>9

\* Comments by position: p is in one, or begins one, if there is a # on its line up to p.
LEMMA NotingIs ==
  ASSUME Len(Src) \in Nat, NEW p \in 1..Size
  PROVE  Noting(p) <=> \E q \in 1..p : Src[q] = "#" /\ \A r \in q..(p - 1) : Src[r] # "\n"
<1>1. PICK s : s = Src /\ Len(s) \in Nat /\ p \in 1..Len(s)
  BY DEF Size
<1> DEFINE T == {0} \cup {j \in 1..(p - 1) : s[j] = "\n"}
<1>2. PICK m : m = Max(T)
  OBVIOUS
<1>3. m \in T /\ \A x \in T : x <= m
  <2>1. PICK n \in Nat : n = p - 1
    BY <1>1
  <2>2. T \in SUBSET (0..n) /\ T # {}
    BY <2>1
  <2> HIDE DEF T
  <2>3. Max(T) \in T /\ \A x \in T : x <= Max(T)
    BY <2>2, GreatestNatural
  <2> QED
    BY <1>2, <2>3, Zenon
<1>4. m \in 0..(p - 1) /\ (m # 0 => s[m] = "\n") /\ \A j \in (m + 1)..(p - 1) : s[j] # "\n"
  BY <1>1, <1>3
<1>5. ColAt(p) = p - m
  BY <1>1, <1>2, Zenon DEF ColAt, Src, T
<1> HIDE DEF T
<1>6. LineOf(p) = m + 1
  <2>1. LineOf(p) = p - (p - m) + 1
    BY <1>5, Zenon DEF LineOf
  <2> QED
    BY <1>1, <1>4, <2>1
<1>7. Noting(p) <=> \E q \in (m + 1)..p : s[q] = "#"
  BY <1>1, <1>6, Zenon DEF Noting
<1>8. ASSUME NEW q \in (m + 1)..p, s[q] = "#" PROVE q \in 1..p /\ \A r \in q..(p - 1) : s[r] # "\n"
  BY <1>1, <1>4, <1>8
<1>9. ASSUME NEW q \in 1..p, s[q] = "#", \A r \in q..(p - 1) : s[r] # "\n" PROVE q \in (m + 1)..p
  BY <1>1, <1>4, <1>9
<1> QED
  BY <1>1, <1>7, <1>8, <1>9, Zenon

\* No comment goes on at a.
Quiet(s, a) == \A q \in 1..(a - 1) : s[q] = "#" => \E r \in q..(a - 1) : s[r] = "\n"
\* The characters that are in tokens.
Content == {p \in 1..Size : Visible(p) /\ Src[p] # "\\"}
LEMMA InContent ==
  ASSUME Len(Src) \in Nat, NEW a \in 1..(Size + 1), Quiet(Src, a), NEW b \in a..(Size + 1),
         \A n \in a..(b - 1) : Src[n] \notin Silent
  PROVE  /\ \A n \in a..(b - 1) : n \in Content
         /\ Quiet(Src, b)
<1>1. PICK s, m : s = Src /\ m = Size /\ m \in Nat /\ a \in 1..(m + 1) /\ b \in a..(m + 1)
  BY DEF Size
<1>2. "#" \in Silent /\ "\n" \in Silent /\ "\\" \in Silent /\ Blanks \subseteq Silent
  BY DEF Silent
<1>3. ASSUME NEW n \in a..b, NEW q \in 1..(n - 1), s[q] = "#" PROVE \E r \in q..(n - 1) : s[r] = "\n"
  <2>1. q \in 1..(a - 1)
    BY <1>1, <1>2, <1>3
  <2>2. PICK r \in q..(a - 1) : s[r] = "\n"
    BY <1>1, <1>3, <2>1 DEF Quiet
  <2> QED
    BY <1>1, <2>1, <2>2
<1>4. ASSUME NEW n \in a..(b - 1) PROVE n \in Content
  <2>1. n \in 1..Size /\ n \in 1..m /\ n \in a..b
    BY <1>1
  <2>2. s[n] \notin Silent
    BY <1>1
  <2>3. ~Noting(n)
    <3>1. ASSUME NEW q \in 1..n, s[q] = "#", \A r \in q..(n - 1) : s[r] # "\n" PROVE FALSE
      <4>1. q # n
        BY <1>2, <2>2, <3>1
      <4>2. q \in 1..(n - 1)
        BY <2>1, <4>1
      <4> QED
        BY <1>3, <2>1, <3>1, <4>2
    <3>2. Noting(n) <=> \E q \in 1..n : s[q] = "#" /\ \A r \in q..(n - 1) : s[r] # "\n"
      BY <1>1, <2>1, NotingIs, Zenon
    <3> QED
      BY <3>1, <3>2, Zenon
  <2>4. Visible(n)
    BY <1>1, <1>2, <2>2, <2>3 DEF Visible
  <2> QED
    BY <1>1, <1>2, <2>1, <2>2, <2>4 DEF Content
<1>5. b \in a..b
  BY <1>1
<1>6. Quiet(s, b)
  BY <1>3, <1>5, Zenon DEF Quiet
<1> QED
  BY <1>1, <1>4, <1>6, Zenon

\* Blanks, newlines, backslashes and comments are in none.
LEMMA NotContent ==
  ASSUME Len(Src) \in Nat, NEW p \in 1..Size,
         \/ Src[p] \in Silent
         \/ \E q \in 1..p : Src[q] = "#" /\ \A r \in q..(p - 1) : Src[r] # "\n"
  PROVE  p \notin Content
<1>1. CASE Src[p] \in Silent
  <2>1. CASE Src[p] = "#"
    <3>1. p \in 1..p /\ \A r \in p..(p - 1) : Src[r] # "\n"
      BY DEF Size
    <3>2. Noting(p)
      BY <2>1, <3>1, NotingIs, Zenon
    <3> QED
      BY <3>2, Zenon DEF Content, Visible
  <2>2. CASE Src[p] # "#"
    BY <1>1, <2>2 DEF Silent, Content, Visible
  <2> QED
    BY <2>1, <2>2
<1>2. CASE \E q \in 1..p : Src[q] = "#" /\ \A r \in q..(p - 1) : Src[r] # "\n"
  <2>1. Noting(p)
    BY <1>2, NotingIs, Zenon
  <2> QED
    BY <2>1, Zenon DEF Content, Visible
<1> QED
  BY <1>1, <1>2

(***************************************************************************)
(* The tokens ts of s are those of the characters of C before a.           *)
(***************************************************************************)
Proper(ts) == {i \in DOMAIN ts : ts[i].kind \notin Layouts}
Cover(s, ts, a, C) ==
  /\ \A p \in 1..(a - 1) : p \in C <=> \E i \in Proper(ts) : p \in ts[i].from..(ts[i].to - 1)
  /\ \A i, j \in Proper(ts) : i < j => ts[i].to <= ts[j].from
  /\ \A i \in Proper(ts) : ts[i].from \in 1..Len(s) /\ ts[i].to <= a /\ Exact(s, ts[i].from, ts[i])

LEMMA AppendFacts ==
  ASSUME NEW T, NEW ts \in Seq(T), NEW e
  PROVE  /\ \E U : Append(ts, e) \in Seq(U)
         /\ Len(ts) \in Nat /\ DOMAIN ts = 1..Len(ts) /\ DOMAIN Append(ts, e) = 1..(Len(ts) + 1)
         /\ \A i \in DOMAIN ts : Append(ts, e)[i] = ts[i]
         /\ Append(ts, e)[Len(ts) + 1] = e
<1>1. PICK U : U = T \cup {e}
  OBVIOUS
<1>2. ts \in Seq(U) /\ e \in U /\ Len(ts) \in Nat /\ DOMAIN ts = 1..Len(ts)
  <2>1. \A i \in 1..Len(ts) : ts[i] \in U
    BY <1>1, ElementOfSeq
  <2> QED
    BY <1>1, <2>1, LenProperties
<1>3. /\ Append(ts, e) \in Seq(U) /\ Len(Append(ts, e)) = Len(ts) + 1
      /\ \A i \in 1..Len(ts) : Append(ts, e)[i] = ts[i]
      /\ Append(ts, e)[Len(ts) + 1] = e
  BY <1>2, AppendProperties
<1>4. DOMAIN Append(ts, e) = 1..(Len(ts) + 1)
  <2>1. DOMAIN Append(ts, e) = 1..Len(Append(ts, e))
    BY <1>3, LenProperties, Zenon
  <2> QED
    BY <1>3, <2>1, Zenon
<1> QED
  BY <1>2, <1>3, <1>4, Zenon

LEMMA CoverFurther ==
  ASSUME NEW s, Len(s) \in Nat, NEW ts, NEW C, NEW a \in 1..(Len(s) + 1), NEW b \in a..(Len(s) + 1), Cover(s, ts, a, C),
         \A p \in a..(b - 1) : p \notin C
  PROVE  Cover(s, ts, b, C)
<1>1. \A i \in Proper(ts) : ts[i].from \in 1..Len(s) /\ ts[i].to <= a /\ Exact(s, ts[i].from, ts[i])
                            /\ ts[i].to \in (ts[i].from + 1)..(Len(s) + 1)
  BY Zenon DEF Cover, Exact
<1>2. ASSUME NEW p \in 1..(b - 1) PROVE p \in C <=> \E i \in Proper(ts) : p \in ts[i].from..(ts[i].to - 1)
  <2>1. CASE p \in 1..(a - 1)
    BY <2>1, Zenon DEF Cover
  <2>2. CASE p \notin 1..(a - 1)
    <3>1. p \in a..(b - 1) /\ p >= a
      BY <2>2
    <3>2. ASSUME NEW i \in Proper(ts), p \in ts[i].from..(ts[i].to - 1) PROVE FALSE
      BY <1>1, <3>1, <3>2
    <3> QED
      BY <3>1, <3>2, Zenon
  <2> QED
    BY <2>1, <2>2, Zenon
<1>3. \A i \in Proper(ts) : ts[i].to <= b
  BY <1>1
<1> QED
  BY <1>1, <1>2, <1>3, Zenon DEF Cover

LEMMA CoverLayout ==
  ASSUME NEW s, NEW T, NEW ts \in Seq(T), NEW C, NEW a, Cover(s, ts, a, C), NEW e, e.kind \in Layouts
  PROVE  Cover(s, Append(ts, e), a, C)
<1>1. PICK us : us = Append(ts, e)
  BY Zenon
<1>2. /\ Len(ts) \in Nat /\ DOMAIN ts = 1..Len(ts) /\ DOMAIN us = 1..(Len(ts) + 1)
      /\ \A i \in DOMAIN ts : us[i] = ts[i]
      /\ us[Len(ts) + 1] = e
  <2>1. /\ \E U : Append(ts, e) \in Seq(U)
        /\ Len(ts) \in Nat /\ DOMAIN ts = 1..Len(ts) /\ DOMAIN Append(ts, e) = 1..(Len(ts) + 1)
        /\ \A i \in DOMAIN ts : Append(ts, e)[i] = ts[i]
        /\ Append(ts, e)[Len(ts) + 1] = e
    BY AppendFacts, Zenon
  <2> QED
    BY <1>1, <2>1, Zenon
<1>3. Proper(us) = Proper(ts)
  <2>1. ASSUME NEW i \in Proper(us) PROVE i \in Proper(ts)
    <3>1. i \in DOMAIN us /\ us[i].kind \notin Layouts
      BY DEF Proper
    <3>2. i # Len(ts) + 1
      BY <1>2, <3>1, Zenon
    <3>3. i \in DOMAIN ts
      BY <1>2, <3>1, <3>2
    <3> QED
      BY <1>2, <3>1, <3>3, Zenon DEF Proper
  <2>2. ASSUME NEW i \in Proper(ts) PROVE i \in Proper(us)
    <3>1. i \in DOMAIN ts /\ ts[i].kind \notin Layouts
      BY DEF Proper
    <3>2. i \in DOMAIN us
      BY <1>2, <3>1
    <3> QED
      BY <1>2, <3>1, <3>2, Zenon DEF Proper
  <2> QED
    BY <2>1, <2>2
<1>4. \A i \in Proper(ts) : us[i] = ts[i]
  BY <1>2, Zenon DEF Proper
<1>5. Cover(s, us, a, C)
  <2>1. \A p \in 1..(a - 1) : p \in C <=> \E i \in Proper(us) : p \in us[i].from..(us[i].to - 1)
    BY <1>3, <1>4, Zenon DEF Cover
  <2>2. \A i, j \in Proper(us) : i < j => us[i].to <= us[j].from
    <3> SUFFICES ASSUME NEW i \in Proper(us), NEW j \in Proper(us), i < j PROVE us[i].to <= us[j].from
      BY Zenon
    <3>1. i \in Proper(ts) /\ j \in Proper(ts)
      BY <1>3, Zenon
    <3>2. ts[i].to <= ts[j].from
      BY <3>1, Zenon DEF Cover
    <3>3. us[i] = ts[i] /\ us[j] = ts[j]
      BY <1>4, <3>1, Zenon
    <3> QED
      BY <3>2, <3>3, Zenon
  <2>3. \A i \in Proper(us) : us[i].from \in 1..Len(s) /\ us[i].to <= a /\ Exact(s, us[i].from, us[i])
    BY <1>3, <1>4, Zenon DEF Cover
  <2> QED
    BY <2>1, <2>2, <2>3, Zenon DEF Cover
<1> QED
  BY <1>1, <1>5, Zenon

LEMMA CoverToken ==
  ASSUME NEW s, Len(s) \in Nat, NEW T, NEW ts \in Seq(T), NEW C, NEW a \in 1..(Len(s) + 1), Cover(s, ts, a, C), NEW e,
         e.from \in a..Len(s), Exact(s, e.from, e), \A p \in a..(e.from - 1) : p \notin C,
         \A p \in e.from..(e.to - 1) : p \in C
  PROVE  Cover(s, Append(ts, e), e.to, C)
<1>1. PICK us, k, b, n : us = Append(ts, e) /\ k = e.from /\ b = e.to /\ n = Len(ts) + 1
  BY Zenon
<1>2. k \in a..Len(s) /\ k \in 1..Len(s) /\ b \in (k + 1)..(Len(s) + 1) /\ e.kind \notin Layouts
  <2>1. k \in a..Len(s) /\ b \in (k + 1)..(Len(s) + 1) /\ e.kind \notin Layouts
    BY <1>1, Zenon DEF Exact
  <2> QED
    BY <2>1
<1>3. /\ n \in Nat \ {0} /\ DOMAIN ts = 1..(n - 1) /\ DOMAIN us = 1..n
      /\ \A i \in DOMAIN ts : us[i] = ts[i]
      /\ us[n] = e
  <2>1. /\ Len(ts) \in Nat /\ DOMAIN ts = 1..Len(ts) /\ DOMAIN us = 1..(Len(ts) + 1)
        /\ \A i \in DOMAIN ts : us[i] = ts[i]
        /\ us[Len(ts) + 1] = e
    <3>1. /\ \E U : Append(ts, e) \in Seq(U)
          /\ Len(ts) \in Nat /\ DOMAIN ts = 1..Len(ts) /\ DOMAIN Append(ts, e) = 1..(Len(ts) + 1)
          /\ \A i \in DOMAIN ts : Append(ts, e)[i] = ts[i]
          /\ Append(ts, e)[Len(ts) + 1] = e
      BY AppendFacts, Zenon
    <3> QED
      BY <1>1, <3>1, Zenon
  <2>2. n - 1 = Len(ts) /\ n \in Nat \ {0}
    BY <1>1, <2>1
  <2> QED
    BY <1>1, <2>1, <2>2, Zenon
<1>4. Proper(us) = Proper(ts) \cup {n}
  <2>1. ASSUME NEW i \in Proper(us) PROVE i \in Proper(ts) \cup {n}
    <3>1. i \in DOMAIN us /\ us[i].kind \notin Layouts
      BY DEF Proper
    <3>2. i = n \/ i \in DOMAIN ts
      BY <1>3, <3>1
    <3> QED
      BY <1>3, <3>1, <3>2 DEF Proper
  <2>2. ASSUME NEW i \in Proper(ts) PROVE i \in Proper(us)
    <3>1. i \in DOMAIN ts /\ ts[i].kind \notin Layouts
      BY DEF Proper
    <3>2. i \in DOMAIN us
      BY <1>3, <3>1
    <3> QED
      BY <1>3, <3>1, <3>2, Zenon DEF Proper
  <2>3. n \in Proper(us)
    <3>1. n \in DOMAIN us
      BY <1>3
    <3> QED
      BY <1>2, <1>3, <3>1, Zenon DEF Proper
  <2> QED
    BY <2>1, <2>2, <2>3
<1>5. \A i \in Proper(ts) : us[i] = ts[i] /\ i \in Int /\ i < n
  <2> SUFFICES ASSUME NEW i \in Proper(ts) PROVE us[i] = ts[i] /\ i \in Int /\ i < n
    BY Zenon
  <2>1. i \in DOMAIN ts
    BY DEF Proper
  <2> QED
    BY <1>3, <2>1
<1>6. \A i \in Proper(ts) : ts[i].from \in 1..Len(s) /\ ts[i].to <= a /\ Exact(s, ts[i].from, ts[i])
                            /\ ts[i].to \in (ts[i].from + 1)..(Len(s) + 1)
  BY Zenon DEF Cover, Exact
<1>7. \A p \in a..(k - 1) : p \notin C
  BY <1>1, Zenon
<1>8. \A p \in k..(b - 1) : p \in C
  BY <1>1, Zenon
<1>9. us[n].from = k /\ us[n].to = b
  BY <1>1, <1>3, Zenon
<1>10. ASSUME NEW p \in 1..(b - 1) PROVE p \in C <=> \E i \in Proper(us) : p \in us[i].from..(us[i].to - 1)
  <2>1. (\E i \in Proper(us) : p \in us[i].from..(us[i].to - 1)) <=>
          (\E i \in Proper(ts) : p \in ts[i].from..(ts[i].to - 1)) \/ p \in k..(b - 1)
    <3>1. \A i : i \in Proper(us) <=> i \in Proper(ts) \/ i = n
      BY <1>4
    <3> QED
      BY <1>5, <1>9, <3>1, Zenon
  <2>2. CASE p \in 1..(a - 1)
    <3>1. p \in C <=> \E i \in Proper(ts) : p \in ts[i].from..(ts[i].to - 1)
      BY <2>2, Zenon DEF Cover
    <3>2. p \notin k..(b - 1)
      BY <1>2, <2>2
    <3> QED
      BY <2>1, <3>1, <3>2, Zenon
  <2>3. CASE p \notin 1..(a - 1)
    <3>1. p \in a..(k - 1) \/ p \in k..(b - 1)
      BY <1>2, <2>3
    <3>2. ASSUME NEW i \in Proper(ts), p \in ts[i].from..(ts[i].to - 1) PROVE FALSE
      <4>1. p >= a
        BY <2>3
      <4> QED
        BY <1>6, <3>2, <4>1
    <3>3. p \in a..(k - 1) => p \notin k..(b - 1)
      BY <1>2
    <3> QED
      BY <1>7, <1>8, <2>1, <3>1, <3>2, <3>3, Zenon
  <2> QED
    BY <2>2, <2>3, Zenon
<1>11. ASSUME NEW i \in Proper(us), NEW j \in Proper(us), i < j PROVE us[i].to <= us[j].from
  <2>1. CASE j = n /\ i \in Proper(ts)
    <3>1. ts[i].to <= a /\ ts[i].to \in Int
      BY <1>6, <2>1
    <3> QED
      BY <1>2, <1>5, <1>9, <2>1, <3>1
  <2>2. CASE j \in Proper(ts) /\ i \in Proper(ts)
    BY <1>5, <1>11, <2>2, Zenon DEF Cover
  <2>3. CASE i = n
    <3>1. j <= n
      BY <1>4, <1>5, <1>3
    <3> QED
      BY <1>3, <1>4, <1>5, <1>11, <2>3, <3>1
  <2> QED
    BY <1>4, <2>1, <2>2, <2>3
<1>12. ASSUME NEW i \in Proper(us) PROVE us[i].from \in 1..Len(s) /\ us[i].to <= b /\ Exact(s, us[i].from, us[i])
  <2>1. CASE i = n
    <3>1. b <= b
      BY <1>2
    <3> QED
      BY <1>1, <1>2, <1>3, <2>1, <3>1, Zenon
  <2>2. CASE i \in Proper(ts)
    <3>1. ts[i].to <= b
      BY <1>2, <1>6, <2>2
    <3> QED
      BY <1>5, <1>6, <2>2, <3>1, Zenon
  <2> QED
    BY <1>4, <2>1, <2>2
<1>13. Cover(s, us, b, C)
  BY <1>10, <1>11, <1>12, Zenon DEF Cover
<1> QED
  BY <1>1, <1>13, Zenon

(***************************************************************************)
(* Of a text without quotes: what has been read, and where the scanner is. *)
(***************************************************************************)
SoFar ==
  /\ DOMAIN sc = DOMAIN NewScanner /\ sc.at \in 1..(Size + 1) /\ (Quiet(Src, sc.at) \/ sc.at = Size + 1)
  /\ (\E T : toks \in Seq(T)) /\ (status = "ended" => sc.at = Size + 1)
  /\ Cover(Src, toks, sc.at, Content)
TokensSoFar == source \in Sources /\ (Plain => SoFar)

LEMMA TextOfSource ==
  ASSUME source \in Sources
  PROVE  /\ \E S : EOFc \notin S /\ Src \in Seq(S)
         /\ Size \in Nat /\ Len(Src) \in Nat /\ DOMAIN Src = 1..Size /\ Len(Src) = Size
         /\ \A n \in 1..Size : Src[n] # EOFc
<1>1. PICK t, S : t = Src /\ S = ToSet(t) \ {EOFc}
  BY Zenon
<1>2. t \in Seq(S) /\ EOFc \notin S
  BY <1>1, ScannerAssumption DEF ScannerAssumption, Src
<1>3. Len(t) \in Nat /\ DOMAIN t = 1..Len(t)
  BY <1>2, LenProperties
<1>4. \A n \in 1..Len(t) : t[n] # EOFc
  BY <1>2, ElementOfSeq
<1> QED
  BY <1>1, <1>2, <1>3, <1>4, Zenon DEF Size

LEMMA ScannerDomain ==
  DOMAIN NewScanner = {"at", "depth", "indentstk", "dents", "lineStart", "lineComments", "suffixComments"}
BY NewScannerFacts

LEMMA Moved ==
  ASSUME NEW s, DOMAIN s = DOMAIN NewScanner, NEW x, NEW y, NEW z
  PROVE  /\ DOMAIN [s EXCEPT !.at = x] = DOMAIN NewScanner /\ [s EXCEPT !.at = x].at = x
         /\ DOMAIN [s EXCEPT !.lineStart = y, !.at = x] = DOMAIN NewScanner /\ [s EXCEPT !.lineStart = y, !.at = x].at = x
         /\ DOMAIN [s EXCEPT !.at = x, !.lineStart = y] = DOMAIN NewScanner /\ [s EXCEPT !.at = x, !.lineStart = y].at = x
         /\ DOMAIN [s EXCEPT !.at = x, !.depth = y] = DOMAIN NewScanner /\ [s EXCEPT !.at = x, !.depth = y].at = x
         /\ DOMAIN [s EXCEPT !.at = x, !.dents = y, !.indentstk = z] = DOMAIN NewScanner
         /\ [s EXCEPT !.at = x, !.dents = y, !.indentstk = z].at = x
BY ScannerDomain

LEMMA Stayed ==
  ASSUME NEW s, DOMAIN s = DOMAIN NewScanner, NEW y, NEW z
  PROVE  /\ DOMAIN [s EXCEPT !.dents = y] = DOMAIN NewScanner /\ [s EXCEPT !.dents = y].at = s.at
         /\ DOMAIN [s EXCEPT !.dents = y, !.indentstk = z] = DOMAIN NewScanner
         /\ [s EXCEPT !.dents = y, !.indentstk = z].at = s.at
         /\ DOMAIN [s EXCEPT !.lineComments = y] = DOMAIN NewScanner /\ [s EXCEPT !.lineComments = y].at = s.at
         /\ DOMAIN [s EXCEPT !.suffixComments = y] = DOMAIN NewScanner /\ [s EXCEPT !.suffixComments = y].at = s.at
BY ScannerDomain

LEMMA NotedFacts ==
  ASSUME NEW s, DOMAIN s = DOMAIN NewScanner, NEW l
  PROVE  DOMAIN Noted(l, s) = DOMAIN NewScanner /\ Noted(l, s).at = s.at
BY Stayed, Zenon DEF Noted

LEMMA LeadFacts ==
  ASSUME DOMAIN sc = DOMAIN NewScanner, NEW f
  PROVE  DOMAIN Lead(f) = DOMAIN NewScanner /\ Lead(f).at = f.end
<1>1. PICK s : s = [sc EXCEPT !.at = f.end, !.lineStart = FALSE]
  BY Zenon
<1>2. DOMAIN s = DOMAIN NewScanner /\ s.at = f.end
  BY <1>1, ScannerDomain
<1>3. \/ Lead(f) = s
      \/ Lead(f) = [s EXCEPT !.dents = @ + 1, !.indentstk = Append(@, f.col)]
      \/ Lead(f) = [s EXCEPT !.dents = @ - (Len(sc.indentstk) - Len(Kept(f.col))), !.indentstk = Kept(f.col)]
  BY <1>1, Zenon DEF Lead
<1> QED
  BY <1>2, <1>3, ScannerDomain

\* Where a line, its comment and its end are.
LEMMA NoteFacts ==
  ASSUME source \in Sources, NEW p \in 1..(Size + 1)
  PROVE  /\ PastNote(p) \in p..(Size + 1)
         /\ Char(p) # "#" => PastNote(p) = p
         /\ Char(p) = "#" => Char(PastNote(p)) \in {"\n", EOFc} /\ \A n \in p..(PastNote(p) - 1) : Src[n] # "\n"
<1>1. PICK s, m : s = Src /\ m = Size /\ m \in Nat /\ DOMAIN s = 1..m /\ Len(s) = m
  BY TextOfSource, Zenon
<1>2. p \in 1..(m + 1)
  BY <1>1
<1>3. CASE Char(p) # "#"
  <2>1. PastNote(p) = p
    BY <1>3, Zenon DEF PastNote
  <2> QED
    BY <1>1, <1>2, <1>3, <2>1
<1>4. CASE Char(p) = "#"
  <2> DEFINE T == {j \in p..(m + 1) : CharAt(s, j) \in {"\n", EOFc}}
  <2>1. m + 1 \in T
    BY <1>1, <1>2 DEF CharAt
  <2>2. T \in SUBSET Nat /\ T # {}
    BY <1>2, <2>1
  <2>3. \A j \in p..(m + 1) : j \notin T => CharAt(s, j) \notin {"\n", EOFc}
    OBVIOUS
  <2>4. T \subseteq p..(m + 1) /\ \A j \in T : CharAt(s, j) \in {"\n", EOFc}
    OBVIOUS
  <2>5. PastNote(p) = Min(T)
    BY <1>1, <1>4, Zenon DEF PastNote, Char, Src
  <2> HIDE DEF T
  <2>6. PICK e \in T : \A n \in T : e <= n
    BY <2>2, LeastNatural
  <2>7. \A x \in T : (\A y \in T : x <= y) => x = e
    BY <1>2, <2>4, <2>6
  <2>8. Min(T) = e
    BY <2>6, <2>7 DEF Min
  <2>9. e \in p..(m + 1) /\ CharAt(s, e) \in {"\n", EOFc}
    BY <2>4
  <2>10. ASSUME NEW n \in p..(e - 1) PROVE s[n] # "\n"
    <3>1. n \in p..(m + 1) /\ ~(e <= n) /\ n \in DOMAIN s
      BY <1>1, <1>2, <2>9
    <3>2. n \notin T
      BY <2>6, <3>1
    <3>3. CharAt(s, n) \notin {"\n", EOFc}
      BY <2>3, <3>1, <3>2
    <3> QED
      BY <3>1, <3>3 DEF CharAt
  <2>11. PastNote(p) = e /\ Char(e) \in {"\n", EOFc}
    BY <1>1, <2>5, <2>8, <2>9, Zenon DEF Char, Src
  <2> QED
    BY <1>1, <1>4, <2>9, <2>10, <2>11, Zenon
<1> QED
  BY <1>3, <1>4

LEMMA SkipFacts ==
  ASSUME source \in Sources, NEW i \in 1..(Size + 1)
  PROVE  /\ Skip(i, Blanks) \in i..(Size + 1)
         /\ \A n \in i..(Skip(i, Blanks) - 1) : n \in 1..Size /\ Src[n] \in Blanks
<1>1. PICK s, m : s = Src /\ m = Size /\ m \in Nat /\ DOMAIN s = 1..m /\ Len(s) = m
  BY TextOfSource, Zenon
<1>2. EOFc \notin Blanks
  BY DEF EOFc, Blanks
<1>3. i \in 1..(Len(s) + 1) /\ Len(s) \in Nat /\ DOMAIN s = 1..Len(s)
  BY <1>1
<1>4. PICK e : e = SkipOver(s, i, Blanks)
  BY Zenon
<1>5. e \in i..(Len(s) + 1) /\ \A j \in i..(e - 1) : j \in 1..Len(s) /\ s[j] \in Blanks
  BY <1>2, <1>3, <1>4, SkipOverFacts
<1>6. Skip(i, Blanks) = e
  BY <1>1, <1>4, Zenon DEF Skip, Src
<1>7. \A j \in i..(e - 1) : j \in 1..Size /\ s[j] \in Blanks
  BY <1>1, <1>2, <1>5
<1> QED
  BY <1>1, <1>5, <1>6, <1>7, Zenon

\* The line that starts at at, or goes on there: nothing in it before note but its
\* token, which starts at proper, is read.
LineOK(l) ==
  /\ l.end \in sc.at..(Size + 1) /\ l.proper \in sc.at..(Size + 1) /\ l.note \in l.proper..(Size + 1) /\ l.end <= l.proper
  /\ \A n \in sc.at..(l.proper - 1) : n \in 1..Size /\ Src[n] \in Blanks
  /\ Char(l.proper) # "#" => l.note = l.proper
  /\ \A n \in sc.at..(l.note - 1) : n \notin Content
  /\ Char(l.proper) = "#" => Char(l.note) \in {"\n", EOFc}
  /\ DOMAIN l.lead = DOMAIN NewScanner
  /\ l.error = "none" => l.lead.at = l.end
  /\ l.error # "ended"
LEMMA LineFacts ==
  ASSUME source \in Sources, DOMAIN sc = DOMAIN NewScanner, sc.at \in 1..(Size + 1), NEW end, end = LeadEnd,
         NEW f, f.end = end, NEW l, l = LineAt(f, Skip(end, Blanks))
  PROVE  LineOK(l)
<1>1. PICK a, m, p, e : a = sc.at /\ m = Size /\ p = Skip(end, Blanks) /\ e = PastNote(p)
  BY Zenon
<1>2. m \in Nat /\ a \in 1..(m + 1) /\ Len(Src) \in Nat
  BY <1>1, TextOfSource, Zenon
<1>3. end \in a..(m + 1) /\ \A n \in a..(end - 1) : n \in 1..m /\ Src[n] \in Blanks
  <2>1. CASE end = a
    BY <1>2, <2>1
  <2>2. CASE end # a
    <3>1. end = Skip(a, Blanks)
      BY <1>1, <2>2, Zenon DEF LeadEnd
    <3> QED
      BY <1>1, <1>2, <3>1, SkipFacts, Zenon
  <2> QED
    BY <2>1, <2>2
<1>4. p \in end..(m + 1) /\ \A n \in end..(p - 1) : n \in 1..m /\ Src[n] \in Blanks
  <2>1. end \in 1..(m + 1)
    BY <1>2, <1>3
  <2> QED
    BY <1>1, <2>1, SkipFacts, Zenon
<1>5. p \in 1..(m + 1) /\ p \in a..(m + 1) /\ end <= p
  BY <1>2, <1>3, <1>4
<1>6. /\ e \in p..(m + 1)
      /\ Char(p) # "#" => e = p
      /\ Char(p) = "#" => Char(e) \in {"\n", EOFc} /\ \A n \in p..(e - 1) : Src[n] # "\n"
  BY <1>1, <1>5, NoteFacts, Zenon
<1>7. \A n \in a..(p - 1) : n \in 1..m /\ Src[n] \in Blanks
  BY <1>2, <1>3, <1>4
<1>8. ASSUME NEW n \in a..(e - 1) PROVE n \notin Content
  <2>1. CASE n \in a..(p - 1)
    <3>1. n \in 1..m /\ Src[n] \in Silent
      BY <1>7, <2>1 DEF Silent
    <3> QED
      BY <1>1, <1>2, <3>1, NotContent, Zenon
  <2>2. CASE n \notin a..(p - 1)
    <3>1. n \in p..(e - 1) /\ e # p /\ n \in 1..m /\ p \in 1..n
      BY <1>2, <1>5, <1>6, <2>2
    <3>2. Char(p) = "#"
      BY <1>6, <3>1, Zenon
    <3>3. p \in 1..m
      BY <1>2, <1>5, <3>1
    <3>4. Src[p] = "#"
      <4>1. EOFc # "#"
        BY DEF EOFc
      <4> QED
        BY <3>2, <4>1 DEF Char, CharAt, Src
    <3>5. \A r \in p..(n - 1) : r \in p..(e - 1)
      BY <1>2, <1>5, <1>6, <3>1
    <3>6. \A r \in p..(n - 1) : Src[r] # "\n"
      BY <1>6, <3>2, <3>5, Zenon
    <3> QED
      BY <1>1, <1>2, <3>1, <3>4, <3>6, NotContent, Zenon
  <2> QED
    BY <2>1, <2>2
<1>9. /\ l.end = end /\ l.proper = p /\ l.note = e /\ l.error = LeadError(f)
      /\ l.lead = IF LeadError(f) = "none" THEN Lead(f) ELSE sc
  <2>1. l = [end |-> f.end, blank |-> f.blank, error |-> LeadError(f), lead |-> IF LeadError(f) = "none" THEN Lead(f) ELSE sc,
             proper |-> p, note |-> e]
    BY <1>1, Zenon DEF LineAt
  <2> QED
    BY <2>1
<1>10. DOMAIN l.lead = DOMAIN NewScanner /\ (l.error = "none" => l.lead.at = l.end)
  BY <1>9, LeadFacts, Zenon
<1>11. l.error # "ended"
  <2>1. LeadError(f) \in {"none", "internal error", "unindent does not match any outer indentation level"}
    BY DEF LeadError
  <2>2. LeadError(f) # "ended"
    BY <2>1
  <2> QED
    BY <1>9, <2>2, Zenon
<1> QED
  BY <1>1, <1>3, <1>5, <1>6, <1>7, <1>8, <1>9, <1>10, <1>11, Zenon DEF LineOK

(***************************************************************************)
(* The steps.                                                              *)
(***************************************************************************)
LEMMA SameContent ==
  ASSUME source' = source
  PROVE  Src' = Src /\ Size' = Size /\ Content' = Content
<1>1. Src' = Src /\ Size' = Size
  BY Zenon DEF Src, Size
<1>2. \A p : Visible(p)' <=> Visible(p)
  BY <1>1, Zenon DEF Visible, Noting, LineOf, ColAt, Src
<1>3. Content' = Content
  BY <1>1, <1>2 DEF Content
<1> QED
  BY <1>1, <1>3

\* What is read is not part of a token, and at most a token of the layout is returned.
LEMMA SilentStep ==
  ASSUME source \in Sources, SoFar, source' = source, DOMAIN sc' = DOMAIN NewScanner, NEW b, sc'.at = b,
         b \in sc.at..(Size + 1), Quiet(Src, b) \/ b = Size + 1, \A n \in sc.at..(b - 1) : n \notin Content,
         \/ toks' = toks
         \/ \E e : e.kind \in Layouts /\ toks' = Append(toks, e),
         status' = "ended" => b = Size + 1
  PROVE  SoFar'
<1>1. PICK s, m, a, C, ts : s = Src /\ m = Size /\ a = sc.at /\ C = Content /\ ts = toks
  BY Zenon
<1>2. /\ m \in Nat /\ Len(s) = m /\ Len(s) \in Nat /\ a \in 1..(m + 1) /\ a \in 1..(Len(s) + 1) /\ b \in a..(Len(s) + 1)
      /\ Cover(s, ts, a, C)
  BY <1>1, TextOfSource, Zenon DEF SoFar
<1>3. Cover(s, ts, b, C)
  <2>1. \A n \in a..(b - 1) : n \notin C
    BY <1>1, Zenon
  <2> QED
    BY <1>2, <2>1, CoverFurther, Zenon
<1>4. PICK T : ts \in Seq(T)
  BY <1>1, Zenon DEF SoFar
<1>5. (\E U : toks' \in Seq(U)) /\ Cover(s, toks', b, C)
  <2>1. CASE toks' = toks
    BY <1>1, <1>3, <1>4, <2>1, Zenon
  <2>2. CASE \E e : e.kind \in Layouts /\ toks' = Append(toks, e)
    <3>1. PICK e : e.kind \in Layouts /\ toks' = Append(ts, e)
      BY <1>1, <2>2, Zenon
    <3>2. Cover(s, Append(ts, e), b, C)
      BY <1>3, <1>4, <3>1, CoverLayout, Zenon
    <3>3. /\ \E U : Append(ts, e) \in Seq(U)
          /\ Len(ts) \in Nat /\ DOMAIN ts = 1..Len(ts) /\ DOMAIN Append(ts, e) = 1..(Len(ts) + 1)
          /\ \A i \in DOMAIN ts : Append(ts, e)[i] = ts[i]
          /\ Append(ts, e)[Len(ts) + 1] = e
      BY <1>4, AppendFacts, Zenon
    <3> QED
      BY <3>1, <3>2, <3>3, Zenon
  <2> QED
    BY <2>1, <2>2
<1>6. Src' = s /\ Size' = m /\ Content' = C
  BY <1>1, SameContent, Zenon
<1>7. b \in 1..(m + 1)
  BY <1>2
<1>8. Cover(s, toks', b, C) <=> Cover(Src', toks', sc'.at, Content')
  BY <1>6, Zenon
<1>9. Quiet(s, b) \/ b = m + 1
  BY <1>1, Zenon
<1> QED
  BY <1>1, <1>5, <1>6, <1>7, <1>8, <1>9, Zenon DEF SoFar

\* A token is read.
LEMMA TokenStep ==
  ASSUME source \in Sources, SoFar, source' = source, DOMAIN sc' = DOMAIN NewScanner,
         NEW e, sc'.at = e.to, e.from \in sc.at..Size, Exact(Src, e.from, e),
         \A n \in sc.at..(e.from - 1) : Src[n] \in Blanks, toks' = Append(toks, e), status' # "ended"
  PROVE  SoFar'
<1>1. PICK s, m, a, C, ts, k, b : s = Src /\ m = Size /\ a = sc.at /\ C = Content /\ ts = toks /\ k = e.from /\ b = e.to
  BY Zenon
<1>2. /\ m \in Nat /\ Len(s) = m /\ Len(s) \in Nat /\ a \in 1..(m + 1) /\ a \in 1..(Len(s) + 1) /\ k \in a..Len(s)
      /\ Cover(s, ts, a, C) /\ Exact(s, k, e)
  BY <1>1, TextOfSource, Zenon DEF SoFar
<1>3. b \in (k + 1)..(m + 1) /\ \A n \in k..(b - 1) : s[n] \notin Silent
  BY <1>1, <1>2, Zenon DEF Exact
<1>4. \A n \in a..(k - 1) : n \in 1..m /\ s[n] \in Silent /\ s[n] # "#"
  <2>1. \A n \in a..(k - 1) : n \in 1..m /\ s[n] \in Blanks
    BY <1>1, <1>2
  <2> QED
    BY <2>1 DEF Silent, Blanks
<1>5. ASSUME NEW n \in a..(k - 1) PROVE n \notin C
  BY <1>1, <1>2, <1>4, NotContent, Zenon
<1>6. Quiet(s, k)
  <2>1. Quiet(s, a)
    <3>1. a # m + 1
      BY <1>2
    <3> QED
      BY <1>1, <3>1, Zenon DEF SoFar
  <2> SUFFICES ASSUME NEW q \in 1..(k - 1), s[q] = "#" PROVE \E r \in q..(k - 1) : s[r] = "\n"
    BY Zenon DEF Quiet
  <2>2. q \in 1..(a - 1)
    BY <1>2, <1>4
  <2>3. PICK r \in q..(a - 1) : s[r] = "\n"
    BY <2>1, <2>2, Zenon DEF Quiet
  <2> QED
    BY <1>2, <2>2, <2>3
<1>7. (\A n \in k..(b - 1) : n \in C) /\ Quiet(s, b)
  <2>1. k \in 1..(m + 1) /\ b \in k..(m + 1)
    BY <1>2, <1>3
  <2> QED
    BY <1>1, <1>2, <1>3, <1>6, <2>1, InContent, Zenon
<1>8. PICK T : ts \in Seq(T)
  BY <1>1, Zenon DEF SoFar
<1>9. Cover(s, Append(ts, e), b, C)
  BY <1>1, <1>2, <1>5, <1>7, <1>8, CoverToken, Zenon
<1>10. \E U : Append(ts, e) \in Seq(U)
  <2>1. /\ \E U : Append(ts, e) \in Seq(U)
        /\ Len(ts) \in Nat /\ DOMAIN ts = 1..Len(ts) /\ DOMAIN Append(ts, e) = 1..(Len(ts) + 1)
        /\ \A i \in DOMAIN ts : Append(ts, e)[i] = ts[i]
        /\ Append(ts, e)[Len(ts) + 1] = e
    BY <1>8, AppendFacts, Zenon
  <2> QED
    BY <2>1, Zenon
<1>11. Src' = s /\ Size' = m /\ Content' = C
  BY <1>1, SameContent, Zenon
<1>12. b \in 1..(m + 1)
  BY <1>2, <1>3
<1>13. Cover(Src', toks', sc'.at, Content') /\ Quiet(Src', sc'.at)
  BY <1>1, <1>7, <1>9, <1>11, Zenon
<1> QED
  BY <1>1, <1>10, <1>11, <1>12, <1>13, Zenon DEF SoFar

LEMMA QuietOver ==
  ASSUME NEW s, NEW a \in Nat, Quiet(s, a), NEW b \in Nat, a <= b, \A n \in a..(b - 1) : s[n] # "#"
  PROVE  Quiet(s, b)
<1> SUFFICES ASSUME NEW q \in 1..(b - 1), s[q] = "#" PROVE \E r \in q..(b - 1) : s[r] = "\n"
  BY Zenon DEF Quiet
<1>1. q \in 1..(a - 1)
  OBVIOUS
<1>2. PICK r \in q..(a - 1) : s[r] = "\n"
  BY <1>1, Zenon DEF Quiet
<1> QED
  BY <1>1, <1>2
LEMMA QuietAfter ==
  ASSUME NEW s, NEW a \in Nat \ {0}, s[a] = "\n"
  PROVE  Quiet(s, a + 1)
<1> SUFFICES ASSUME NEW q \in 1..a PROVE \E r \in q..a : s[r] = "\n"
  BY DEF Quiet
<1> QED
  OBVIOUS

\* Characters by position.
LEMMA CharFacts ==
  ASSUME source \in Sources, NEW i \in Nat \ {0}
  PROVE  /\ i \in 1..Size => Char(i) = Src[i]
         /\ i \notin 1..Size => Char(i) = EOFc
         /\ Char(i) # EOFc => i \in 1..Size
<1>1. DOMAIN Src = 1..Size
  BY TextOfSource, Zenon
<1>2. Char(i) = IF i \in 1..Size THEN Src[i] ELSE EOFc
  BY <1>1, Zenon DEF Char, CharAt, Src
<1> QED
  BY <1>2, Zenon

LEMMA StopStep ==
  ASSUME source \in Sources, SoFar, NEW why, Stop(why), why # "ended"
  PROVE  source' = source /\ SoFar'
<1>1. source' = source /\ sc' = sc /\ toks' = toks /\ status' # "ended"
  BY Zenon DEF Stop
<1>2. DOMAIN sc = DOMAIN NewScanner /\ sc.at \in 1..(Size + 1) /\ (Quiet(Src, sc.at) \/ sc.at = Size + 1)
  BY Zenon DEF SoFar
<1>3. PICK a, m : a = sc.at /\ m = Size
  BY Zenon
<1>4. m \in Nat
  BY <1>3, TextOfSource, Zenon
<1>5. a \in a..(m + 1) /\ \A n \in a..(a - 1) : n \notin Content
  BY <1>2, <1>3, <1>4
<1>6. sc'.at = a /\ DOMAIN sc' = DOMAIN NewScanner
  BY <1>1, <1>2, <1>3, Zenon
<1>7. SoFar'
  BY <1>1, <1>2, <1>3, <1>5, <1>6, SilentStep, Zenon
<1> QED
  BY <1>1, <1>7, Zenon

LEMMA LineStep ==
  ASSUME source \in Sources, Plain, SoFar, status = "scanning", NEW l, LineOK(l), ScanLine(l)
  PROVE  source' = source /\ SoFar'
<1>1. PICK a, m, p, e, s : a = sc.at /\ m = Size /\ p = l.proper /\ e = l.note /\ s = l.lead
  BY Zenon
<1>2. /\ m \in Nat /\ a \in 1..(m + 1) /\ l.end \in a..(m + 1) /\ p \in a..(m + 1) /\ e \in p..(m + 1) /\ l.end <= p
      /\ \A n \in a..(p - 1) : n \in 1..m /\ Src[n] \in Blanks
      /\ \A n \in a..(e - 1) : n \notin Content
      /\ DOMAIN s = DOMAIN NewScanner /\ (Quiet(Src, a) \/ a = m + 1)
  BY <1>1, TextOfSource, Zenon DEF LineOK, SoFar
<1>3. Len(Src) \in Nat /\ (\A n \in 1..m : Src[n] # EOFc)
  BY <1>1, TextOfSource, Zenon
<1>4. "scanning" # "ended" /\ "stray backslash in program" # "ended" /\ EOFc # "#" /\ EOFc # "\n" /\ EOFc # "\\"
  BY DEF EOFc
<1>5. "NEWLINE" \in Layouts /\ "INDENT" \in Layouts /\ "OUTDENT" \in Layouts /\ "EOF" \in Layouts
  BY DEF Layouts
<1>6. \A n \in a..(p - 1) : Src[n] # "#"
  BY <1>2 DEF Blanks
<1>7. p \in Nat \ {0} /\ e \in Nat \ {0} /\ a \in Nat /\ l.end \in Nat
  BY <1>2
<1>8. CASE Misindented(l)
  <2>1. Stop(l.error) /\ l.error # "ended"
    BY <1>8, Zenon DEF Misindented, LineOK
  <2> QED
    BY <2>1, StopStep, Zenon
<1>9. CASE StrayBackslash(l)
  <2>1. Stop("stray backslash in program")
    BY <1>9, Zenon DEF StrayBackslash
  <2> QED
    BY <1>4, <2>1, StopStep, Zenon
\* A step that returns at most a token of the layout and goes on at b.
<1>10. ASSUME source' = source, DOMAIN sc' = DOMAIN NewScanner, NEW b, sc'.at = b, b \in a..(m + 1),
              Quiet(Src, b) \/ b = m + 1, \A n \in a..(b - 1) : n \notin Content,
              \/ toks' = toks
              \/ \E kind \in Layouts : \E from, to : Return(kind, from, to),
              status' = "ended" => b = m + 1
       PROVE  source' = source /\ SoFar'
  <2>1. \/ toks' = toks
        \/ \E x : x.kind \in Layouts /\ toks' = Append(toks, x)
    <3>1. CASE \E kind \in Layouts : \E from, to : Return(kind, from, to)
      <4>0. PICK kind \in Layouts : \E from, to : Return(kind, from, to)
        BY <3>1, Zenon
      <4>1. PICK from, to : Return(kind, from, to)
        BY <4>0, Zenon
      <4>2. PICK x : x = [kind |-> kind, from |-> from, to |-> to]
        BY Zenon
      <4>3. x.kind = kind
        BY <4>2
      <4>4. toks' = Append(toks, x)
        BY <4>1, <4>2, Zenon DEF Return
      <4> QED
        BY <4>3, <4>4, Zenon
    <3> QED
      BY <1>10, <3>1, Zenon
  <2>2. SoFar'
    BY <1>1, <1>10, <2>1, SilentStep, Zenon
  <2> QED
    BY <1>10, <2>2, Zenon
<1>11. CASE Dent(l)
  <2>1. PICK y : sc' = [s EXCEPT !.dents = y]
    <3>1. sc' = [s EXCEPT !.dents = IF @ < 0 THEN @ + 1 ELSE @ - 1]
      BY <1>1, <1>11, Zenon DEF Dent
    <3> QED
      BY <3>1, Zenon
  <2>2. DOMAIN sc' = DOMAIN NewScanner /\ sc'.at = s.at
    BY <1>2, <2>1, Stayed, Zenon
  <2>3. s.at = l.end
    BY <1>1, <1>11, Zenon DEF Dent, LineOK
  <2>4. source' = source /\ status' = status /\ Return(IF l.lead.dents < 0 THEN "OUTDENT" ELSE "INDENT", l.end, l.end)
    BY <1>11, Zenon DEF Dent
  <2>5. \E kind \in Layouts : \E from, to : Return(kind, from, to)
    <3>1. (IF l.lead.dents < 0 THEN "OUTDENT" ELSE "INDENT") \in Layouts
      BY <1>5, Zenon
    <3> QED
      BY <2>4, <3>1, Zenon
  <2>6. \A n \in a..(l.end - 1) : n \in a..(e - 1) /\ n \in a..(p - 1)
    BY <1>2
  <2>7. Quiet(Src, l.end) \/ l.end = m + 1
    <3>1. CASE Quiet(Src, a)
      <4>1. a <= l.end
        BY <1>2
      <4>2. \A n \in a..(l.end - 1) : Src[n] # "#"
        BY <1>6, <2>6, Zenon
      <4> QED
        BY <1>7, <3>1, <4>1, <4>2, QuietOver, Zenon
    <3>2. CASE a = m + 1
      BY <1>2, <3>2
    <3> QED
      BY <1>2, <3>1, <3>2, Zenon
  <2>8. status' # "ended"
    BY <1>4, <2>4, Zenon
  <2> QED
    BY <1>2, <1>10, <2>2, <2>3, <2>4, <2>5, <2>6, <2>7, <2>8, Zenon
<1>12. CASE SkipLine(l) \/ Newline(l)
  <2>1. sc' = Noted(l, [s EXCEPT !.lineStart = TRUE, !.at = e + 1])
    BY <1>1, <1>12, Zenon DEF SkipLine, Newline
  <2>2. DOMAIN [s EXCEPT !.lineStart = TRUE, !.at = e + 1] = DOMAIN NewScanner
        /\ [s EXCEPT !.lineStart = TRUE, !.at = e + 1].at = e + 1
    BY <1>2, ScannerDomain
  <2>3. DOMAIN sc' = DOMAIN NewScanner /\ sc'.at = e + 1
    BY <2>1, <2>2, NotedFacts, Zenon
  <2>4. Char(e) = "\n" /\ source' = source /\ status' = status
    BY <1>1, <1>12, Zenon DEF SkipLine, Newline
  <2>5. e \in 1..m /\ Src[e] = "\n"
    BY <1>1, <1>4, <1>7, <2>4, CharFacts, Zenon
  <2>6. Quiet(Src, e + 1)
    BY <1>7, <2>5, QuietAfter, Zenon
  <2>7. \A n \in a..((e + 1) - 1) : n \notin Content
    <3> SUFFICES ASSUME NEW n \in a..((e + 1) - 1) PROVE n \notin Content
      BY Zenon
    <3>1. CASE n = e
      <4>1. Src[e] \in Silent
        BY <2>5 DEF Silent
      <4> QED
        BY <1>1, <1>3, <2>5, <3>1, <4>1, NotContent, Zenon
    <3>2. CASE n # e
      <4>1. n \in a..(e - 1)
        BY <1>2, <3>2
      <4> QED
        BY <1>2, <4>1, Zenon
    <3> QED
      BY <3>1, <3>2
  <2>8. e + 1 \in a..(m + 1)
    BY <1>2, <2>5
  <2>9. toks' = toks \/ \E kind \in Layouts : \E from, to : Return(kind, from, to)
    BY <1>5, <1>12, Zenon DEF SkipLine, Newline
  <2>10. status' # "ended"
    BY <1>4, <2>4, Zenon
  <2> QED
    BY <1>10, <2>3, <2>4, <2>6, <2>7, <2>8, <2>9, <2>10, Zenon
<1>13. CASE CloseBlocks(l) \/ NewlineAtEnd(l) \/ EndOfFile(l)
  <2>1. \/ sc' = Noted(l, [s EXCEPT !.at = e, !.dents = 1 - Len(s.indentstk), !.indentstk = Tail(@)])
        \/ sc' = Noted(l, [s EXCEPT !.at = e, !.lineStart = TRUE])
        \/ sc' = Noted(l, [s EXCEPT !.at = e])
    BY <1>1, <1>13, Zenon DEF CloseBlocks, NewlineAtEnd, EndOfFile
  <2>2. PICK x : x = [s EXCEPT !.at = e, !.dents = 1 - Len(s.indentstk), !.indentstk = Tail(@)]
    BY Zenon
  <2>3. DOMAIN x = DOMAIN NewScanner /\ x.at = e
    BY <1>2, <2>2, ScannerDomain
  <2>4. PICK y : y = [s EXCEPT !.at = e, !.lineStart = TRUE]
    BY Zenon
  <2>5. DOMAIN y = DOMAIN NewScanner /\ y.at = e
    BY <1>2, <2>4, ScannerDomain
  <2>6. PICK z : z = [s EXCEPT !.at = e]
    BY Zenon
  <2>7. DOMAIN z = DOMAIN NewScanner /\ z.at = e
    BY <1>2, <2>6, ScannerDomain
  <2>8. sc' = Noted(l, x) \/ sc' = Noted(l, y) \/ sc' = Noted(l, z)
    BY <2>1, <2>2, <2>4, <2>6, Zenon
  <2>9. DOMAIN sc' = DOMAIN NewScanner /\ sc'.at = e
    BY <2>3, <2>5, <2>7, <2>8, NotedFacts, Zenon
  <2>10. Char(e) = EOFc /\ source' = source
    BY <1>1, <1>13, Zenon DEF CloseBlocks, NewlineAtEnd, EndOfFile, AtEnd
  <2>11. e \notin 1..m
    BY <1>1, <1>3, <1>7, <2>10, CharFacts, Zenon
  <2>12. e = m + 1 /\ e \in a..(m + 1)
    BY <1>2, <2>11
  <2>13. toks' = toks \/ \E kind \in Layouts : \E from, to : Return(kind, from, to)
    BY <1>5, <1>13, Zenon DEF CloseBlocks, NewlineAtEnd, EndOfFile
  <2> QED
    BY <1>2, <1>10, <2>9, <2>10, <2>12, <2>13, Zenon
<1>14. CASE Continuation(l)
  <2>1. sc' = [s EXCEPT !.at = p + 2] /\ Char(p) = "\\" /\ Char(p + 1) = "\n"
        /\ source' = source /\ toks' = toks /\ status' = status
    BY <1>1, <1>14, Zenon DEF Continuation
  <2>2. DOMAIN sc' = DOMAIN NewScanner /\ sc'.at = p + 2
    BY <1>2, <2>1, ScannerDomain
  <2>3. PICK q \in Nat \ {0} : q = p + 1
    BY <1>7
  <2>4. p \in 1..m /\ Src[p] = "\\" /\ q \in 1..m /\ Src[q] = "\n"
    <3>1. Char(q) = "\n"
      BY <2>1, <2>3, Zenon
    <3> QED
      BY <1>1, <1>4, <1>7, <2>1, <3>1, CharFacts, Zenon
  <2>5. p + 2 = q + 1 /\ p + 2 \in a..(m + 1)
    BY <1>2, <2>3, <2>4
  <2>6. Quiet(Src, p + 2)
    <3>1. Quiet(Src, q + 1)
      BY <2>3, <2>4, QuietAfter, Zenon
    <3> QED
      BY <2>5, <3>1, Zenon
  <2>7. \A n \in a..((p + 2) - 1) : n \notin Content
    <3> SUFFICES ASSUME NEW n \in a..((p + 2) - 1) PROVE n \notin Content
      BY Zenon
    <3>1. n \in a..(p - 1) \/ n = p \/ n = q
      BY <1>2, <2>3
    <3>2. n \in 1..m /\ Src[n] \in Silent
      BY <1>2, <2>4, <3>1 DEF Silent
    <3> QED
      BY <1>1, <1>3, <3>2, NotContent, Zenon
  <2>8. status' # "ended"
    BY <1>4, <2>1, Zenon
  <2> QED
    BY <1>10, <2>1, <2>2, <2>5, <2>6, <2>7, <2>8, Zenon
<1>15. CASE AtToken(l) /\ \E t \in {Lex(l.proper)} : Token(l, t) \/ BadToken(t)
  <2>1. PICK t : t = Lex(p) /\ (Token(l, t) \/ BadToken(t))
    BY <1>1, <1>15, Zenon
  <2>2. Char(e) \notin {"\n", EOFc, "\\"}
    BY <1>1, <1>15, Zenon DEF AtToken
  <2>3. e = p /\ p \in 1..m
    <3>1. Char(p) # "#"
      <4>1. Char(p) = "#" => Char(e) \in {"\n", EOFc}
        BY <1>1, Zenon DEF LineOK
      <4> QED
        BY <2>2, <4>1
    <3>2. e = p
      BY <1>1, <3>1, Zenon DEF LineOK
    <3>3. Char(p) # EOFc
      BY <2>2, <3>2
    <3> QED
      BY <1>1, <1>7, <3>2, <3>3, CharFacts, Zenon
  <2>4. CASE BadToken(t)
    <3>1. Stop(t.kind) /\ t.kind \in LexErrors
      BY <2>4, Zenon DEF BadToken
    <3>2. "ended" \notin LexErrors
      BY DEF LexErrors
    <3> QED
      BY <3>1, <3>2, StopStep, Zenon
  <2>5. CASE Token(l, t)
    <3>1. t.kind \notin LexErrors
      BY <2>5, Zenon DEF Token
    <3>2. PICK S : EOFc \notin S /\ Src \in Seq(S)
      BY TextOfSource, Zenon
    <3>3. Exact(Src, p, t)
      <4>1. p \in 1..Size /\ Lex(p).kind \notin LexErrors
        BY <1>1, <2>1, <2>3, <3>1, Zenon
      <4>2. Exact(Src, p, Lex(p))
        BY <3>2, <4>1, LexExact, Zenon
      <4> QED
        BY <2>1, <4>2, Zenon
    <3>4. PICK x : x = [kind |-> t.kind, from |-> p, to |-> t.to]
      BY Zenon
    <3>5. x.kind = t.kind /\ x.from = p /\ x.to = t.to
      BY <3>4
    <3>6. Exact(Src, x.from, x)
      BY <3>3, <3>5, Zenon DEF Exact
    <3>7. toks' = Append(toks, x) /\ source' = source /\ status' = status
      BY <1>1, <2>5, <3>4, Zenon DEF Token, Return
    <3>8. PICK y : sc' = [s EXCEPT !.at = t.to, !.depth = y]
      <4>1. sc' = [s EXCEPT !.at = t.to,
                     !.depth = IF t.kind \in {"(", "[", "{"} THEN @ + 1
                               ELSE IF t.kind \in {")", "]", "}"} THEN @ - 1 ELSE @]
        BY <1>1, <2>5, Zenon DEF Token
      <4> QED
        BY <4>1, Zenon
    <3>9. DOMAIN sc' = DOMAIN NewScanner /\ sc'.at = t.to
      BY <1>2, <3>8, ScannerDomain
    <3>10. x.from \in sc.at..Size
      <4>1. p \in a..m
        BY <1>2, <2>3
      <4> QED
        BY <1>1, <3>5, <4>1, Zenon
    <3>11. \A n \in sc.at..(x.from - 1) : Src[n] \in Blanks
      BY <1>1, <1>2, <3>5, Zenon
    <3>12. status' # "ended" /\ sc'.at = x.to
      BY <1>4, <3>5, <3>7, <3>9, Zenon
    <3>13. SoFar'
      BY <3>6, <3>7, <3>9, <3>10, <3>11, <3>12, TokenStep, Zenon
    <3> QED
      BY <3>7, <3>13, Zenon
  <2> QED
    BY <2>1, <2>4, <2>5, Zenon
<1> QED
  BY <1>8, <1>9, <1>11, <1>12, <1>13, <1>14, <1>15, Zenon DEF ScanLine

LEMMA TokensSoFarInit == ScanInit => TokensSoFar
<1> SUFFICES ASSUME ScanInit PROVE SoFar /\ source \in Sources
  BY Zenon DEF TokensSoFar
<1>1. source \in Sources /\ sc = NewScanner /\ toks = <<>> /\ status = "scanning"
  BY Zenon DEF ScanInit
<1>2. Size \in Nat
  BY <1>1, TextOfSource, Zenon
<1>3. sc.at = 1 /\ 1 \in 1..(Size + 1)
  BY <1>1, <1>2, NewScannerFacts
<1>4. Quiet(Src, 1)
  BY DEF Quiet
<1>5. toks \in Seq({}) /\ Proper(toks) = {} /\ 1..(1 - 1) = {}
  BY <1>1 DEF Proper
<1>6. Cover(Src, toks, 1, Content)
  BY <1>5, Zenon DEF Cover
<1>7. "scanning" # "ended"
  OBVIOUS
<1> QED
  BY <1>1, <1>3, <1>4, <1>5, <1>6, <1>7, Zenon DEF SoFar

LEMMA TokensSoFarStep == TokensSoFar /\ [ScanNext]_scannerVars => TokensSoFar'
<1> SUFFICES ASSUME TokensSoFar, [ScanNext]_scannerVars PROVE TokensSoFar'
  BY Zenon
<1>1. CASE UNCHANGED scannerVars
  <2>1. source' = source /\ sc' = sc /\ toks' = toks /\ status' = status
    BY <1>1 DEF scannerVars
  <2>2. Src' = Src /\ Size' = Size /\ Content' = Content
    BY <2>1, SameContent, Zenon
  <2>3. Plain' <=> Plain
    BY <2>2, Zenon DEF Plain
  <2>4. SoFar => SoFar'
    <3>1. Cover(Src, toks, sc.at, Content) <=> Cover(Src', toks', sc'.at, Content')
      BY <2>1, <2>2, Zenon
    <3>2. Quiet(Src, sc.at) <=> Quiet(Src', sc'.at)
      BY <2>1, <2>2, Zenon
    <3> QED
      BY <2>1, <2>2, <3>1, <3>2, Zenon DEF SoFar
  <2> QED
    BY <2>1, <2>3, <2>4, Zenon DEF TokensSoFar
<1>2. CASE ScanNext
  <2>1. source' = source
    BY <1>2, Zenon DEF ScanNext, ScanLine, Misindented, Dent, SkipLine, Newline, CloseBlocks, NewlineAtEnd, EndOfFile,
                Continuation, StrayBackslash, Token, BadToken, Stop
  <2>2. Plain' <=> Plain
    <3>1. Src' = Src
      BY <2>1, Zenon DEF Src
    <3> QED
      BY <3>1, Zenon DEF Plain
  <2>3. ASSUME Plain PROVE SoFar'
    <3>1. status = "scanning" /\ source \in Sources /\ SoFar
      BY <1>2, <2>3, Zenon DEF ScanNext, TokensSoFar
    <3>2. PICK end, f, l : end = LeadEnd /\ f = LeadAt(end, LeadCol(end)) /\ l = LineAt(f, Skip(end, Blanks)) /\ ScanLine(l)
      BY <1>2, Zenon DEF ScanNext
    <3>3. f.end = end
      BY <3>2 DEF LeadAt
    <3>4. LineOK(l)
      BY <3>1, <3>2, <3>3, LineFacts, Zenon DEF SoFar
    <3> QED
      BY <2>3, <3>1, <3>2, <3>4, LineStep, Zenon
  <2> QED
    BY <2>1, <2>2, <2>3, Zenon DEF TokensSoFar
<1> QED
  BY <1>1, <1>2, Zenon

LEMMA TokensSoFarTells == TokensSoFar => TokensExact
<1> SUFFICES ASSUME TokensSoFar, Plain, status = "ended"
             PROVE  /\ UNION {toks[i].from..(toks[i].to - 1) : i \in ProperTokens} = {p \in 1..Size : Visible(p) /\ Src[p] # "\\"}
                    /\ \A i, j \in ProperTokens : i < j => toks[i].to <= toks[j].from
                    /\ \A i \in ProperTokens :
                         /\ Spells(toks[i].kind, Text(Src, toks[i].from, toks[i].to))
                         /\ ~ \E e \in (toks[i].to + 1)..(Size + 1) : IsToken(Text(Src, toks[i].from, e))
  BY Zenon DEF TokensExact
<1>1. source \in Sources /\ SoFar
  BY Zenon DEF TokensSoFar
<1>2. PICK m, ts : m = Size /\ ts = toks
  BY Zenon
<1>3. m \in Nat /\ Len(Src) = m /\ Cover(Src, ts, m + 1, Content)
  <2>1. sc.at = m + 1
    BY <1>1, <1>2, Zenon DEF SoFar
  <2> QED
    BY <1>1, <1>2, <2>1, TextOfSource, Zenon DEF SoFar
<1>4. ProperTokens = Proper(ts)
  BY <1>2, Zenon DEF ProperTokens, Proper, Layouts
<1>5. \A i \in Proper(ts) : /\ ts[i].from \in 1..m /\ ts[i].to \in (ts[i].from + 1)..(m + 1)
                            /\ Spells(ts[i].kind, Text(Src, ts[i].from, ts[i].to))
                            /\ \A e \in (ts[i].to + 1)..(m + 1) : ~IsToken(Text(Src, ts[i].from, e))
  BY <1>3, Zenon DEF Cover, Exact
<1>6. \A p \in 1..m : p \in Content <=> \E i \in Proper(ts) : p \in ts[i].from..(ts[i].to - 1)
  <2>1. (m + 1) - 1 = m
    BY <1>3
  <2> QED
    BY <1>3, <2>1, Zenon DEF Cover
<1>7. UNION {ts[i].from..(ts[i].to - 1) : i \in Proper(ts)} = Content
  <2>1. ASSUME NEW i \in Proper(ts), NEW p \in ts[i].from..(ts[i].to - 1) PROVE p \in Content
    <3>1. p \in 1..m
      BY <1>3, <1>5
    <3> QED
      BY <1>6, <3>1, Zenon
  <2>2. ASSUME NEW p \in Content PROVE \E i \in Proper(ts) : p \in ts[i].from..(ts[i].to - 1)
    <3>1. p \in 1..m
      BY <1>2, Zenon DEF Content
    <3> QED
      BY <1>6, <3>1, Zenon
  <2> QED
    BY <2>1, <2>2
<1>8. \A i, j \in Proper(ts) : i < j => ts[i].to <= ts[j].from
  <2> SUFFICES ASSUME NEW i \in Proper(ts), NEW j \in Proper(ts), i < j PROVE ts[i].to <= ts[j].from
    BY Zenon
  <2> QED
    BY <1>3, Zenon DEF Cover
<1> QED
  BY <1>2, <1>4, <1>5, <1>7, <1>8, Zenon DEF Content

\* TokensExact of every run of the scanner, for every alphabet and text without string
\* literals: what is visible is in one token, spelt as its kind must be and of full length.
THEOREM TokensAreExact == ScanSpec => []TokensExact
<1>1. ScanInit => TokensSoFar
  BY TokensSoFarInit
<1>2. TokensSoFar /\ [ScanNext]_scannerVars => TokensSoFar'
  BY TokensSoFarStep
<1>3. TokensSoFar => TokensExact
  BY TokensSoFarTells
<1> QED
  BY <1>1, <1>2, <1>3, PTL DEF ScanSpec
=============================================================================
