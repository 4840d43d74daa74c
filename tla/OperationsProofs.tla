-------------------------- MODULE OperationsProofs --------------------------
(***************************************************************************)
(* Proofs about single operations of the interpreter: slices and ranges,   *)
(* for any operands and any width of AsInt32; and the binding of           *)
(* arguments, for any functions and calls.                                 *)
(***************************************************************************)
EXTENDS Calls, Slices, Induction, FiniteSetTheorems, SequenceTheorems

(***************************************************************************)
(* Progressions: the indices of a slice, the numbers of a range.           *)
(***************************************************************************)
Progression(from, step, n) == [j \in 1..n |-> from + (j - 1) * step]

\* A progression has no terms but the members of M, and all of them.
Covers(from, step, n, M) ==
  /\ \A j \in 1..n : from + (j - 1) * step \in M
  /\ \A i \in M : \E j \in 1..n : i = from + (j - 1) * step

\* A progression is a sequence of ints.
LEMMA ProgressionIs ==
  ASSUME NEW from \in Int, NEW step \in Int, NEW n \in Nat
  PROVE  /\ Progression(from, step, n) \in Seq(Int)
         /\ Len(Progression(from, step, n)) = n
         /\ DOMAIN Progression(from, step, n) = 1..n
         /\ \A j \in 1..n : Progression(from, step, n)[j] = from + (j - 1) * step
  BY DEF Progression

\* A product grows with a factor, by the sign of the other.
LEMMA Multiples ==
  ASSUME NEW a \in Int, NEW b \in Int, NEW c \in Int, c # 0
  PROVE  /\ a * c \in Int
         /\ c > 0 => (a < b <=> a * c < b * c)
         /\ c < 0 => (a < b <=> a * c > b * c)
         /\ a * c = b * c => a = b
  OBVIOUS

\* A progression that covers a set has its members, each once, in order.
LEMMA ProgressionExact ==
  ASSUME NEW from \in Int, NEW step \in Int, step # 0, NEW n \in Nat, NEW M, Covers(from, step, n, M)
  PROVE  Exactly(Progression(from, step, n), M, step)
<1> DEFINE s == Progression(from, step, n)
<1>0. /\ \A j \in 1..n : from + (j - 1) * step \in M
      /\ \A i \in M : \E j \in 1..n : i = from + (j - 1) * step
  BY DEF Covers
<1>1. \A j \in 1..n : s[j] = from + (j - 1) * step /\ s[j] \in Int
  BY DEF Progression
<1>2. s \in Seq(Int) /\ Len(s) = n /\ DOMAIN s = 1..n
  BY <1>1 DEF Progression
<1> HIDE DEF s
<1>3. ASSUME NEW i \in 1..n, NEW j \in 1..n, i < j
      PROVE  IF step > 0 THEN s[i] < s[j] ELSE s[i] > s[j]
  <2> DEFINE a == (i - 1) * step
             b == (j - 1) * step
  <2>1. a \in Int /\ b \in Int /\ (step > 0 => a < b) /\ (step < 0 => a > b)
    <3>1. i - 1 \in Int /\ j - 1 \in Int /\ i - 1 < j - 1
      BY <1>3
    <3> QED
      BY <3>1, Multiples
  <2>2. s[i] = from + a /\ s[j] = from + b
    BY <1>1
  <2> HIDE DEF a, b
  <2> QED
    BY <2>1, <2>2
<1>4. Ordered(s, step)
  <2>1. ASSUME NEW i \in DOMAIN s, NEW j \in DOMAIN s, i < j
        PROVE  IF step > 0 THEN s[i] < s[j] ELSE s[i] > s[j]
    <3>1. i \in 1..n /\ j \in 1..n
      BY <1>2
    <3> QED
      BY <1>3, <2>1, <3>1
  <2> QED
    BY <2>1 DEF Ordered
<1>5. s \in Bijection(1..n, M)
  <2>1. s \in [1..n -> M]
    <3>1. s \in [1..n -> Int]
      BY <1>2, LenProperties
    <3>2. \A j \in 1..n : s[j] \in M
      BY <1>0, <1>1
    <3> QED
      BY <3>1, <3>2
  <2>2. \A i, j \in 1..n : i # j => s[i] # s[j]
    <3> SUFFICES ASSUME NEW i \in 1..n, NEW j \in 1..n, i # j PROVE s[i] # s[j]
      OBVIOUS
    <3>1. s[i] \in Int /\ s[j] \in Int
      BY <1>1
    <3>2. CASE i < j
      BY <1>3, <3>1, <3>2
    <3>3. CASE j < i
      BY <1>3, <3>1, <3>3
    <3> QED
      BY <3>2, <3>3
  <2>3. \A x \in M : \E j \in 1..n : s[j] = x
    BY <1>0, <1>1
  <2> QED
    BY <2>1, <2>2, <2>3 DEF Bijection, Injection, Surjection, IsInjective
<1>6. Cardinality(M) = n
  BY <1>5, FS_CountingElements DEF ExistsBijection
<1>7. Exactly(s, M, step)
  <2>1. \A i \in 1..n : s[i] \in M
    BY <1>5 DEF Bijection, Injection
  <2>2. \A i \in DOMAIN s : s[i] \in M
    BY <1>2, <2>1
  <2> QED
    BY <1>2, <1>4, <1>6, <2>2 DEF Exactly
<1> QED
  BY <1>7 DEF s

\* The turns of a loop from i to before end, by a positive step.
Turns(i, end, step) == IF i < end THEN (end - 1 - i) \div step + 1 ELSE 0

\* So many that the next index would not be before end, and the last one is.
LEMMA TurnsAre ==
  ASSUME NEW i \in Int, NEW end \in Int, NEW step \in Int, step > 0
  PROVE  LET n == Turns(i, end, step)
         IN  /\ n \in Nat /\ end <= i + n * step
             /\ \A k \in Int : 0 <= k /\ k < n => i + k * step < end
             /\ i < end => n = 1 + Turns(i + step, end, step)
<1> DEFINE n == Turns(i, end, step)
           a == end - 1 - i
<1>1. CASE i < end
  <2> DEFINE q == a \div step
  <2>1. a \in Nat /\ q \in Int /\ step * q <= a /\ a < step * q + step
    BY <1>1
  <2>2. q \in Nat /\ q * step <= a /\ (q + 1) * step > a
    BY <2>1
  <2>3. n = q + 1
    BY <1>1 DEF Turns
  <2>4. end <= i + n * step
    <3>1. (q + 1) * step \in Int
      BY <2>2
    <3> QED
      BY <2>2, <2>3, <3>1
  <2>5. ASSUME NEW k \in Int, 0 <= k, k < n PROVE i + k * step < end
    <3>1. k * step \in Int /\ q * step \in Int /\ k * step <= q * step
      BY <2>2, <2>3, <2>5, Multiples
    <3> QED
      BY <2>2, <3>1
  <2>6. n = 1 + Turns(i + step, end, step)
    <3>1. CASE i + step < end
      <4>1. end - 1 - (i + step) \in Int /\ q - 1 \in Int
        BY <2>1
      <4>2. step * (q - 1) <= end - 1 - (i + step) /\ end - 1 - (i + step) < step * (q - 1) + step
        BY <2>1
      <4>3. (end - 1 - (i + step)) \div step = q - 1
        BY <4>1, <4>2
      <4> QED
        BY <2>3, <2>1, <3>1, <4>3 DEF Turns
    <3>2. CASE ~(i + step < end)
      <4>1. a < step
        BY <3>2
      <4>2. q = 0
        BY <2>1, <4>1
      <4> QED
        BY <2>3, <3>2, <4>2 DEF Turns
    <3> QED
      BY <3>1, <3>2
  <2> QED
    BY <1>1, <2>2, <2>3, <2>4, <2>5, <2>6
<1>2. CASE ~(i < end)
  BY <1>2 DEF Turns
<1> QED
  BY <1>1, <1>2

\* A progression, one term at a time.
LEMMA ProgressionFrom ==
  ASSUME NEW i \in Int, NEW step \in Int, NEW n \in Nat
  PROVE  /\ Progression(i, step, 0) = <<>>
         /\ Progression(i, step, n + 1) = <<i>> \o Progression(i + step, step, n)
<1> DEFINE s == Progression(i, step, n + 1)
           t == Progression(i + step, step, n)
<1>1. Progression(i, step, 0) = <<>>
  BY DEF Progression
<1>2. s \in Seq(Int) /\ Len(s) = n + 1 /\ \A j \in 1..(n + 1) : s[j] = i + (j - 1) * step
  BY DEF Progression
<1>3. t \in Seq(Int) /\ Len(t) = n /\ \A j \in 1..n : t[j] = (i + step) + (j - 1) * step
  BY DEF Progression
<1> HIDE DEF s, t
<1>4. <<i>> \in Seq(Int) /\ Len(<<i>>) = 1 /\ <<i>>[1] = i
  OBVIOUS
<1>5. /\ <<i>> \o t \in Seq(Int) /\ Len(<<i>> \o t) = 1 + n
      /\ \A j \in 1..(1 + n) : (<<i>> \o t)[j] = IF j <= 1 THEN <<i>>[j] ELSE t[j - 1]
  BY <1>3, <1>4, ConcatProperties
<1>6. ASSUME NEW j \in 1..(n + 1) PROVE s[j] = (<<i>> \o t)[j]
  <2>1. CASE j = 1
    <3>1. (j - 1) * step = 0
      BY <2>1
    <3> QED
      BY <1>2, <1>4, <1>5, <2>1, <3>1
  <2>2. CASE j # 1
    <3>1. j - 1 \in 1..n /\ j \in 1..(1 + n) /\ ~(j <= 1)
      BY <2>2
    <3>2. t[j - 1] = (i + step) + ((j - 1) - 1) * step
      BY <1>3, <3>1
    <3>3. (i + step) + ((j - 1) - 1) * step = i + (j - 1) * step
      OBVIOUS
    <3> QED
      BY <1>2, <1>5, <3>1, <3>2, <3>3
  <2> QED
    BY <2>1, <2>2
<1>7. s = <<i>> \o t
  <2>1. Len(s) = Len(<<i>> \o t) /\ \A j \in 1..Len(s) : s[j] = (<<i>> \o t)[j]
    BY <1>2, <1>5, <1>6
  <2> QED
    BY <1>2, <1>5, <2>1, SeqEqual
<1> QED
  BY <1>1, <1>7 DEF s, t

(***************************************************************************)
(* The loop of slice.                                                      *)
(***************************************************************************)

\* By a positive step the loop has the indices before end.
LEMMA UpwardIs ==
  ASSUME NEW start \in Int, NEW end \in Int, NEW step \in Int, step > 0, start <= end
  PROVE  Upward(start, end, step) = Progression(start, step, Turns(start, end, step))
<1> DEFINE D       == start..(end + step)
           G(i)    == Progression(i, step, Turns(i, end, step))
           Step(w) == [i \in D |-> IF i < end THEN <<i>> \o w[i + step] ELSE <<>>]
           g       == [i \in D |-> G(i)]
<1>1. \A i \in D : G(i) = IF i < end THEN <<i>> \o G(i + step) ELSE <<>>
  <2> SUFFICES ASSUME NEW i \in D PROVE G(i) = IF i < end THEN <<i>> \o G(i + step) ELSE <<>>
    OBVIOUS
  <2>0. i \in Int /\ i + step \in Int
    OBVIOUS
  <2> HIDE DEF D
  <2>1. CASE i < end
    <3> DEFINE n == Turns(i + step, end, step)
    <3>1. n \in Nat /\ Turns(i, end, step) = n + 1
      <4>1. n \in Nat
        BY <2>0, TurnsAre
      <4>2. Turns(i, end, step) = 1 + n
        BY <2>0, <2>1, TurnsAre
      <4> HIDE DEF n
      <4> QED
        BY <4>1, <4>2
    <3> HIDE DEF n
    <3>2. Progression(i, step, n + 1) = <<i>> \o Progression(i + step, step, n)
      BY <2>0, <3>1, ProgressionFrom
    <3> QED
      BY <2>1, <3>1, <3>2 DEF n
  <2>2. CASE ~(i < end)
    <3>1. Turns(i, end, step) = 0
      BY <2>2 DEF Turns
    <3>2. Progression(i, step, 0) = <<>>
      BY <2>0, ProgressionFrom
    <3> QED
      BY <2>2, <3>1, <3>2
  <2> QED
    BY <2>1, <2>2
<1>2. \A i \in D : i < end => i + step \in D
  OBVIOUS
<1> HIDE DEF G
<1>3. g = Step(g)
  <2>1. \A i \in D : g[i] = G(i)
    OBVIOUS
  <2>2. ASSUME NEW i \in D PROVE g[i] = IF i < end THEN <<i>> \o g[i + step] ELSE <<>>
    BY <1>1, <1>2, <2>1
  <2>3. g = [i \in D |-> g[i]]
    OBVIOUS
  <2> HIDE DEF g, D
  <2> QED
    BY <2>2, <2>3
<1>4. PICK w : Upward(start, end, step) = w[start] /\ w = Step(w)
  <2>1. Upward(start, end, step) = (CHOOSE w : w = Step(w))[start]
    BY DEF Upward
  <2> HIDE DEF Step, g
  <2>2. (CHOOSE w : w = Step(w)) = Step(CHOOSE w : w = Step(w))
    BY <1>3
  <2> QED
    BY <2>1, <2>2
<1>5. \A i \in D : w[i] = IF i < end THEN <<i>> \o w[i + step] ELSE <<>>
  <2>1. \A i \in D : Step(w)[i] = IF i < end THEN <<i>> \o w[i + step] ELSE <<>>
    OBVIOUS
  <2> HIDE DEF Step
  <2> QED
    BY <1>4, <2>1
<1> DEFINE u == end + step + 1
           T == {d \in 1..(u - start) : w[u - d] = G(u - d)}
<1>6. 1..(u - start) \subseteq T
  <2>1. u - start \in Nat
    OBVIOUS
  <2>2. ASSUME NEW d \in 1..(u - start), \A c \in 1..(d - 1) : c \in T PROVE d \in T
    <3> DEFINE i == u - d
    <3>1. i \in D
      OBVIOUS
    <3>2. CASE i < end
      <4>1. d - step \in 1..(d - 1) /\ u - (d - step) = i + step
        BY <3>2
      <4>2. w[i + step] = G(i + step)
        BY <2>2, <4>1
      <4>3. w[i] = G(i)
        BY <1>1, <1>5, <3>1, <3>2, <4>2
      <4> QED
        BY <4>3
    <3>3. CASE ~(i < end)
      <4>1. w[i] = G(i)
        BY <1>1, <1>5, <3>1, <3>3
      <4> QED
        BY <4>1
    <3> QED
      BY <3>2, <3>3
  <2> HIDE DEF T, u
  <2> QED
    BY <2>1, <2>2, StrongInduction
<1>7. w[start] = G(start)
  <2>1. u - start \in 1..(u - start) /\ u - (u - start) = start
    OBVIOUS
  <2> QED
    BY <1>6, <2>1
<1> QED
  BY <1>4, <1>7 DEF G
\* By a negative step it has the indices after end.
LEMMA DownwardIs ==
  ASSUME NEW start \in Int, NEW end \in Int, NEW step \in Int, step < 0, start >= end
  PROVE  Downward(start, end, step) = Progression(start, step, Turns(-start, -end, -step))
<1> DEFINE D       == (end + step)..start
           G(i)    == Progression(i, step, Turns(-i, -end, -step))
           Step(w) == [i \in D |-> IF i > end THEN <<i>> \o w[i + step] ELSE <<>>]
           g       == [i \in D |-> G(i)]
<1>1. \A i \in D : G(i) = IF i > end THEN <<i>> \o G(i + step) ELSE <<>>
  <2> SUFFICES ASSUME NEW i \in D PROVE G(i) = IF i > end THEN <<i>> \o G(i + step) ELSE <<>>
    OBVIOUS
  <2>0. i \in Int /\ i + step \in Int /\ -i \in Int /\ -end \in Int /\ -step \in Int /\ -step > 0 /\ -(i + step) = (-i) + (-step)
    OBVIOUS
  <2> HIDE DEF D
  <2>1. CASE i > end
    <3> DEFINE n == Turns(-(i + step), -end, -step)
    <3>1. n \in Nat /\ Turns(-i, -end, -step) = n + 1
      <4>1. n \in Nat
        BY <2>0, TurnsAre
      <4>2. Turns(-i, -end, -step) = 1 + n
        BY <2>0, <2>1, TurnsAre
      <4> HIDE DEF n
      <4> QED
        BY <4>1, <4>2
    <3> HIDE DEF n
    <3>2. Progression(i, step, n + 1) = <<i>> \o Progression(i + step, step, n)
      BY <2>0, <3>1, ProgressionFrom
    <3> QED
      BY <2>1, <3>1, <3>2 DEF n
  <2>2. CASE ~(i > end)
    <3>0. ~(-i < -end)
      BY <2>0, <2>2
    <3>1. Turns(-i, -end, -step) = 0
      BY <3>0 DEF Turns
    <3>2. Progression(i, step, 0) = <<>>
      BY <2>0, ProgressionFrom
    <3> QED
      BY <2>2, <3>1, <3>2
  <2> QED
    BY <2>1, <2>2
<1>2. \A i \in D : i > end => i + step \in D
  OBVIOUS
<1> HIDE DEF G
<1>3. g = Step(g)
  <2>1. \A i \in D : g[i] = G(i)
    OBVIOUS
  <2>2. ASSUME NEW i \in D PROVE g[i] = IF i > end THEN <<i>> \o g[i + step] ELSE <<>>
    BY <1>1, <1>2, <2>1
  <2>3. g = [i \in D |-> g[i]]
    OBVIOUS
  <2> HIDE DEF g, D
  <2> QED
    BY <2>2, <2>3
<1>4. PICK w : Downward(start, end, step) = w[start] /\ w = Step(w)
  <2>1. Downward(start, end, step) = (CHOOSE w : w = Step(w))[start]
    BY DEF Downward
  <2> HIDE DEF Step, g
  <2>2. (CHOOSE w : w = Step(w)) = Step(CHOOSE w : w = Step(w))
    BY <1>3
  <2> QED
    BY <2>1, <2>2
<1>5. \A i \in D : w[i] = IF i > end THEN <<i>> \o w[i + step] ELSE <<>>
  <2>1. \A i \in D : Step(w)[i] = IF i > end THEN <<i>> \o w[i + step] ELSE <<>>
    OBVIOUS
  <2> HIDE DEF Step
  <2> QED
    BY <1>4, <2>1
<1> DEFINE u == end + step - 1
           T == {d \in 1..(start - u) : w[u + d] = G(u + d)}
<1>6. 1..(start - u) \subseteq T
  <2>1. start - u \in Nat
    OBVIOUS
  <2>2. ASSUME NEW d \in 1..(start - u), \A c \in 1..(d - 1) : c \in T PROVE d \in T
    <3> DEFINE i == u + d
    <3>1. i \in D
      OBVIOUS
    <3>2. CASE i > end
      <4>1. d + step \in 1..(d - 1) /\ u + (d + step) = i + step
        BY <3>2
      <4>2. w[i + step] = G(i + step)
        BY <2>2, <4>1
      <4>3. w[i] = G(i)
        BY <1>1, <1>5, <3>1, <3>2, <4>2
      <4> QED
        BY <4>3
    <3>3. CASE ~(i > end)
      <4>1. w[i] = G(i)
        BY <1>1, <1>5, <3>1, <3>3
      <4> QED
        BY <4>1
    <3> QED
      BY <3>2, <3>3
  <2> HIDE DEF T, u
  <2> QED
    BY <2>1, <2>2, StrongInduction
<1>7. w[start] = G(start)
  <2>1. start - u \in 1..(start - u) /\ u + (start - u) = start
    OBVIOUS
  <2> QED
    BY <1>6, <2>1
<1> QED
  BY <1>4, <1>7 DEF G

(***************************************************************************)
(* What a loop reaches.                                                    *)
(***************************************************************************)

\* By a positive step: the numbers from the first to before the end, at multiples of it.
LEMMA ReachedUpward ==
  ASSUME NEW from \in Int, NEW end \in Int, NEW step \in Int, step > 0
  PROVE  LET n == Turns(from, end, step)
         IN  /\ n \in Nat
             /\ \A j \in 1..n : LET i == from + (j - 1) * step
                                IN  i \in Int /\ from <= i /\ i < end /\ Apart(i, from, step)
             /\ \A i \in Int : from <= i /\ i < end /\ Apart(i, from, step) =>
                  \E j \in 1..n : i = from + (j - 1) * step
<1> DEFINE n == Turns(from, end, step)
<1>1. n \in Nat /\ end <= from + n * step
  BY TurnsAre
<1>2. \A k \in Int : 0 <= k /\ k < n => from + k * step < end
  BY TurnsAre
<1> HIDE DEF n
<1>3. ASSUME NEW j \in 1..n
      PROVE  LET i == from + (j - 1) * step
             IN  i \in Int /\ from <= i /\ i < end /\ Apart(i, from, step)
  <2> DEFINE k == j - 1
             i == from + k * step
  <2>1. k \in Nat /\ k < n
    BY <1>1, <1>3
  <2> HIDE DEF k
  <2>2. k * step \in Int /\ k <= k * step
    BY <2>1
  <2>3. i \in Int /\ from <= i /\ k \in 0..(i - from)
    BY <2>1, <2>2
  <2>4. i < end
    BY <1>2, <2>1
  <2>5. Apart(i, from, step)
    <3>1. k \in 0..(IF i > from THEN i - from ELSE from - i)
      BY <2>1, <2>3
    <3> QED
      BY <3>1 DEF Apart
  <2> QED
    BY <2>3, <2>4, <2>5 DEF k
<1>4. ASSUME NEW i \in Int, from <= i, i < end, Apart(i, from, step)
      PROVE  \E j \in 1..n : i = from + (j - 1) * step
  <2>1. PICK k \in 0..(IF i > from THEN i - from ELSE from - i) : i = from + k * step
    BY <1>4 DEF Apart
  <2>2. k \in Nat
    OBVIOUS
  <2>3. k < n
    <3>1. k * step \in Int /\ n * step \in Int /\ k * step < n * step
      BY <1>1, <1>4, <2>1, <2>2
    <3> QED
      BY <1>1, <2>2, <3>1, Multiples
  <2>4. k + 1 \in 1..n /\ (k + 1) - 1 = k
    BY <1>1, <2>2, <2>3
  <2> QED
    BY <2>1, <2>4
<1> QED
  BY <1>1, <1>3, <1>4 DEF n

\* By a negative step: those from the first down to after the end.
LEMMA ReachedDownward ==
  ASSUME NEW from \in Int, NEW end \in Int, NEW step \in Int, step < 0
  PROVE  LET n == Turns(-from, -end, -step)
         IN  /\ n \in Nat
             /\ \A j \in 1..n : LET i == from + (j - 1) * step
                                IN  i \in Int /\ from >= i /\ i > end /\ Apart(i, from, step)
             /\ \A i \in Int : from >= i /\ i > end /\ Apart(i, from, step) =>
                  \E j \in 1..n : i = from + (j - 1) * step
<1> DEFINE n == Turns(-from, -end, -step)
<1>0. -from \in Int /\ -end \in Int /\ -step \in Int /\ -step > 0
  OBVIOUS
<1>m. \A k \in Int : k * (-step) = -(k * step) /\ k * step \in Int
  OBVIOUS
<1>1. n \in Nat /\ end >= from + n * step
  <2>1. n \in Nat /\ -end <= -from + n * (-step)
    BY <1>0, TurnsAre
  <2> HIDE DEF n
  <2>2. n * (-step) = -(n * step) /\ n * step \in Int
    BY <2>1, <1>m
  <2> QED
    BY <2>1, <2>2
<1>2. \A k \in Int : 0 <= k /\ k < n => from + k * step > end
  <2>1. \A k \in Int : 0 <= k /\ k < n => -from + k * (-step) < -end
    BY <1>0, TurnsAre
  <2> HIDE DEF n
  <2> SUFFICES ASSUME NEW k \in Int, 0 <= k, k < n PROVE from + k * step > end
    OBVIOUS
  <2>2. -from + k * (-step) < -end
    BY <2>1
  <2>3. k * (-step) = -(k * step) /\ k * step \in Int
    BY <1>m
  <2> QED
    BY <2>2, <2>3
<1> HIDE DEF n
<1>3. ASSUME NEW j \in 1..n
      PROVE  LET i == from + (j - 1) * step
             IN  i \in Int /\ from >= i /\ i > end /\ Apart(i, from, step)
  <2> DEFINE k == j - 1
             i == from + k * step
  <2>1. k \in Nat /\ k < n
    BY <1>1, <1>3
  <2> HIDE DEF k
  <2>2. k * step \in Int /\ k <= -(k * step)
    BY <2>1
  <2>3. i \in Int /\ from >= i /\ k \in 0..(from - i)
    BY <2>1, <2>2
  <2>4. i > end
    BY <1>2, <2>1
  <2>5. Apart(i, from, step)
    <3>1. k \in 0..(IF i > from THEN i - from ELSE from - i)
      BY <2>1, <2>3
    <3> QED
      BY <3>1 DEF Apart
  <2> QED
    BY <2>3, <2>4, <2>5 DEF k
<1>4. ASSUME NEW i \in Int, from >= i, i > end, Apart(i, from, step)
      PROVE  \E j \in 1..n : i = from + (j - 1) * step
  <2>1. PICK k \in 0..(IF i > from THEN i - from ELSE from - i) : i = from + k * step
    BY <1>4 DEF Apart
  <2>2. k \in Nat
    OBVIOUS
  <2>3. k < n
    <3>1. k * step \in Int /\ n * step \in Int /\ k * step > n * step
      BY <1>1, <1>4, <2>1, <2>2
    <3> QED
      BY <1>1, <2>2, <3>1, Multiples
  <2>4. k + 1 \in 1..n /\ (k + 1) - 1 = k
    BY <1>1, <2>2, <2>3
  <2> QED
    BY <2>1, <2>4
<1> QED
  BY <1>1, <1>3, <1>4 DEF n

(***************************************************************************)
(* Slices.                                                                 *)
(***************************************************************************)

\* The slices that the model takes.
Sliced(c) == c.n \in Nat /\ SliceOperand(c.lo) /\ SliceOperand(c.hi) /\ SliceOperand(c.step)

\* An operand is left out, or an int.
LEMMA OperandIs ==
  ASSUME NEW a, SliceOperand(a)
  PROVE  a = <<>> \/ (a # <<>> /\ a[1] \in Int)
<1>1. a \in Seq(Int) /\ Len(a) \in Nat /\ Len(a) <= 1
  BY DEF SliceOperand
<1>2. CASE a # <<>>
  <2>1. 1 \in 1..Len(a)
    BY <1>1, <1>2, EmptySeq
  <2> QED
    BY <1>1, <1>2, <2>1
<1> QED
  BY <1>2

\* With a positive step.
LEMMA SliceUp ==
  ASSUME NEW c, Sliced(c), NEW step \in Int, step > 0
  PROVE  LET at    == Indices(c.lo, c.hi, c.n)
             end   == IF at.end < at.start THEN at.start ELSE at.end
         IN  Exactly(Upward(at.start, end, step), Selected(c, step), step)
<1> DEFINE n     == c.n
           start == Indices(c.lo, c.hi, c.n).start
           stop  == Indices(c.lo, c.hi, c.n).end
           end   == IF stop < start THEN start ELSE stop
           turns == Turns(start, end, step)
           M     == Selected(c, step)
<1>1. n \in Nat /\ (c.lo = <<>> \/ (c.lo # <<>> /\ c.lo[1] \in Int)) /\ (c.hi = <<>> \/ (c.hi # <<>> /\ c.hi[1] \in Int))
  BY OperandIs DEF Sliced
<1>2. /\ start = Effective(c.lo, n, 0, 0, n) /\ start \in 0..n
      /\ stop = Effective(c.hi, n, n, 0, n) /\ stop \in 0..n
  BY <1>1 DEF Indices, AsIndex, Clamp, Effective
<1>3. M = {i \in 0..(n - 1) : start <= i /\ i < stop /\ Apart(i, start, step)}
  BY <1>2 DEF Selected
<1> HIDE DEF start, stop, M
<1>4. end \in Int /\ start \in Int /\ start <= end
  BY <1>2
<1>5. \A i \in Int : start <= i => (i < end <=> i < stop)
  BY <1>2
<1> HIDE DEF end
<1>6. Upward(start, end, step) = Progression(start, step, turns)
  BY <1>4, UpwardIs
<1>7. turns \in Nat
  BY <1>4, ReachedUpward
<1>8. \A j \in 1..turns : LET i == start + (j - 1) * step
                          IN  i \in Int /\ start <= i /\ i < end /\ Apart(i, start, step)
  BY <1>4, ReachedUpward
<1>9. \A i \in Int : start <= i /\ i < end /\ Apart(i, start, step) =>
        \E j \in 1..turns : i = start + (j - 1) * step
  BY <1>4, ReachedUpward
<1> HIDE DEF turns, n
<1>10. ASSUME NEW j \in 1..turns PROVE start + (j - 1) * step \in M
  <2> DEFINE i == start + (j - 1) * step
  <2>1. i \in Int /\ start <= i /\ i < end /\ Apart(i, start, step)
    BY <1>8
  <2> HIDE DEF i
  <2>2. i < stop /\ i \in 0..(n - 1)
    BY <1>1, <1>2, <1>5, <2>1
  <2>3. i \in M
    BY <1>3, <2>1, <2>2
  <2> QED
    BY <2>3 DEF i
<1>11. ASSUME NEW i \in M PROVE \E j \in 1..turns : i = start + (j - 1) * step
  <2>1. i \in Int /\ start <= i /\ i < stop /\ Apart(i, start, step)
    BY <1>3
  <2> QED
    BY <1>5, <1>9, <2>1
<1>12. Exactly(Progression(start, step, turns), M, step)
  <2>1. Covers(start, step, turns, M) /\ step # 0
    BY <1>10, <1>11 DEF Covers
  <2> QED
    BY <1>4, <1>7, <2>1, ProgressionExact
<1> QED
  BY <1>6, <1>12 DEF start, stop, end, M

\* With a negative one.
LEMMA SliceDown ==
  ASSUME NEW c, Sliced(c), NEW step \in Int, step < 0
  PROVE  LET at    == NegativeIndices(c.lo, c.hi, c.n)
             start == IF at.start < at.end THEN at.end ELSE at.start
         IN  Exactly(Downward(start, at.end, step), Selected(c, step), step)
<1> DEFINE n     == c.n
           first == NegativeIndices(c.lo, c.hi, c.n).start
           end   == NegativeIndices(c.lo, c.hi, c.n).end
           start == IF first < end THEN end ELSE first
           from  == Effective(c.lo, n, n - 1, -1, n - 1)
           to    == Effective(c.hi, n, -1, -1, n - 1)
           turns == Turns(-start, -end, -step)
           M     == Selected(c, step)
<1>1. n \in Nat /\ (c.lo = <<>> \/ (c.lo # <<>> /\ c.lo[1] \in Int)) /\ (c.hi = <<>> \/ (c.hi # <<>> /\ c.hi[1] \in Int))
  BY OperandIs DEF Sliced
<1>2. first \in Int /\ first <= n - 1 /\ from = IF first < -1 THEN -1 ELSE first
  BY <1>1 DEF NegativeIndices, AsIndex, Clamp, Effective
<1>3. end \in Int /\ end >= -1 /\ to = IF end > n - 1 THEN n - 1 ELSE end
  BY <1>1 DEF NegativeIndices, AsIndex, Clamp, Effective
<1>4. M = {i \in 0..(n - 1) : from >= i /\ i > to /\ Apart(i, from, step)}
  BY DEF Selected
<1> HIDE DEF first, end, M, from, to, n
<1>5. start \in Int /\ start >= end
  BY <1>2, <1>3
\* Where there is anything between the bounds, they are those of the definition.
<1>6. \A i \in Int : (start >= i /\ i > end) <=> (i \in 0..(n - 1) /\ from >= i /\ i > to)
  BY <1>1, <1>2, <1>3
<1>7. \A i \in Int : start >= i /\ i > end => start = from
  BY <1>1, <1>2, <1>3
<1> HIDE DEF start
<1>8. Downward(start, end, step) = Progression(start, step, turns)
  BY <1>3, <1>5, DownwardIs
<1>9. turns \in Nat
  BY <1>3, <1>5, ReachedDownward
<1>10. \A j \in 1..turns : LET i == start + (j - 1) * step
                           IN  i \in Int /\ start >= i /\ i > end /\ Apart(i, start, step)
  BY <1>3, <1>5, ReachedDownward
<1>11. \A i \in Int : start >= i /\ i > end /\ Apart(i, start, step) =>
         \E j \in 1..turns : i = start + (j - 1) * step
  BY <1>3, <1>5, ReachedDownward
<1> HIDE DEF turns
<1>12. ASSUME NEW j \in 1..turns PROVE start + (j - 1) * step \in M
  <2> DEFINE i == start + (j - 1) * step
  <2>1. i \in Int /\ start >= i /\ i > end /\ Apart(i, start, step)
    BY <1>10
  <2> HIDE DEF i
  <2>2. i \in 0..(n - 1) /\ from >= i /\ i > to /\ start = from
    BY <1>6, <1>7, <2>1
  <2>3. i \in M
    BY <1>4, <2>1, <2>2
  <2> QED
    BY <2>3 DEF i
<1>13. ASSUME NEW i \in M PROVE \E j \in 1..turns : i = start + (j - 1) * step
  <2>1. i \in Int /\ i \in 0..(n - 1) /\ from >= i /\ i > to /\ Apart(i, from, step)
    BY <1>4
  <2>2. start >= i /\ i > end
    BY <1>6, <2>1
  <2>3. start = from
    BY <1>7, <2>1, <2>2
  <2> QED
    BY <1>11, <2>1, <2>2, <2>3
<1>14. Exactly(Progression(start, step, turns), M, step)
  <2>1. Covers(start, step, turns, M) /\ step # 0
    BY <1>12, <1>13 DEF Covers
  <2> QED
    BY <1>5, <1>9, <2>1, ProgressionExact
<1> QED
  BY <1>8, <1>14 DEF first, end, start, M

\* Every slice is refused or has its elements.
LEMMA SliceIs ==
  ASSUME NEW c, Sliced(c), outcome' = Slice(c.n, c.lo, c.hi, c.step)
  PROVE  SliceExact(c)'
<1> DEFINE step == IF c.step = <<>> THEN 1 ELSE c.step[1]
           OK   == step # 0 /\ AsInt32OK(c.lo) /\ AsInt32OK(c.hi) /\ AsInt32OK(c.step)
           at   == Indices(c.lo, c.hi, c.n)
           end  == IF at.end < at.start THEN at.start ELSE at.end
           down == NegativeIndices(c.lo, c.hi, c.n)
           from == IF down.start < down.end THEN down.end ELSE down.start
           value == IF step > 0 THEN Upward(at.start, end, step) ELSE Downward(from, down.end, step)
<1>1. step \in Int
  BY OperandIs DEF Sliced
<1>2. outcome' = IF OK THEN Result(value) ELSE Rejected
  BY DEF Slice
<1>3. OK => Exactly(value, Selected(c, step), step)
  <2> SUFFICES ASSUME OK PROVE Exactly(value, Selected(c, step), step)
    OBVIOUS
  <2>1. CASE step > 0
    <3>1. Exactly(Upward(at.start, end, step), Selected(c, step), step)
      BY <1>1, <2>1, SliceUp
    <3> QED
      BY <2>1, <3>1
  <2>2. CASE step < 0
    <3>1. Exactly(Downward(from, down.end, step), Selected(c, step), step)
      BY <1>1, <2>2, SliceDown
    <3> QED
      BY <1>1, <2>2, <3>1
  <2> QED
    BY <1>1, <2>1, <2>2
<1>4. SliceExact(c)' = IF OK THEN outcome'.status = "done" /\ Exactly(outcome'.value, Selected(c, step), step)
                       ELSE outcome'.status = "error"
  BY DEF SliceExact
<1> HIDE DEF value, OK, step
<1>5. CASE OK
  <2>1. outcome'.status = "done" /\ outcome'.value = value
    BY <1>2, <1>5 DEF Result
  <2> QED
    BY <1>3, <1>4, <1>5, <2>1
<1>6. CASE ~OK
  <2>1. outcome'.status = "error"
    BY <1>2, <1>6 DEF Rejected
  <2> QED
    BY <1>4, <1>6, <2>1
<1> QED
  BY <1>5, <1>6

(***************************************************************************)
(* Ranges.                                                                 *)
(***************************************************************************)

\* The operands of a call of range.
RangeArgs(args) == args \in Seq(Int) /\ Len(args) \in 1..3 /\ \A k \in DOMAIN args : AsInt32OK(<<args[k]>>)
Fits(i) == -MaxInt32 - 1 <= i /\ i <= MaxInt32

\* A value of range: its length is the number of turns of the loop that it stands for.
Ranged(rv) ==
  /\ rv.start \in Int /\ rv.stop \in Int /\ rv.step \in Int /\ rv.step # 0
  /\ Fits(rv.start) /\ Fits(rv.stop)
  /\ rv.len = IF rv.step > 0 THEN Turns(rv.start, rv.stop, rv.step) ELSE Turns(-rv.start, -rv.stop, -rv.step)

\* range makes such values, or refuses a step of zero.
LEMMA RangeCallIs ==
  ASSUME NEW args, RangeArgs(args)
  PROVE  LET made == RangeCall(args)
         IN  IF Len(args) = 3 /\ args[3] = 0 THEN made.status = "error"
             ELSE made.status = "done" /\ Ranged(made.value)
<1>1. /\ args \in Seq(Int) /\ Len(args) \in 1..3 /\ MaxInt32 \in Nat
      /\ \A k \in 1..Len(args) : args[k] \in Int /\ Fits(args[k])
  <2>1. args \in Seq(Int) /\ Len(args) \in 1..3 /\ MaxInt32 \in Nat
    BY SlicesAssumption DEF RangeArgs
  <2>2. ASSUME NEW k \in 1..Len(args) PROVE args[k] \in Int /\ Fits(args[k])
    <3>1. args[k] \in Int /\ k \in DOMAIN args /\ AsInt32OK(<<args[k]>>)
      BY <2>1 DEF RangeArgs
    <3>2. <<args[k]>> # <<>> /\ <<args[k]>>[1] = args[k]
      OBVIOUS
    <3> QED
      BY <3>1, <3>2 DEF AsInt32OK, Fits
  <2> QED
    BY <2>1, <2>2
<1> DEFINE start == IF Len(args) = 1 THEN 0 ELSE args[1]
           stop  == IF Len(args) = 1 THEN args[1] ELSE args[2]
           step  == IF Len(args) = 3 THEN args[3] ELSE 1
           n     == CASE Len(args) < 3 /\ stop > start             -> stop - start
                      [] Len(args) = 3 /\ step > 0 /\ stop > start -> Quo(stop - 1 - start, step) + 1
                      [] Len(args) = 3 /\ step < 0 /\ start > stop -> Quo(start - 1 - stop, -step) + 1
                      [] OTHER                                     -> 0
<1>2. start \in Int /\ stop \in Int /\ step \in Int /\ Fits(start) /\ Fits(stop)
  <2>1. Fits(0)
    BY <1>1 DEF Fits
  <2> QED
    BY <1>1, <2>1
<1>3. RangeCall(args) = IF Len(args) = 3 /\ step = 0 THEN Rejected ELSE Result(RangeValue(start, stop, step, n))
  BY DEF RangeCall
<1>4. CASE Len(args) = 3 /\ step = 0
  BY <1>3, <1>4 DEF Rejected
<1>5. CASE ~(Len(args) = 3 /\ step = 0)
  <2>1. step # 0 /\ (Len(args) # 3 => step = 1) /\ (Len(args) < 3 \/ Len(args) = 3)
    BY <1>1, <1>5
  <2>2. n = CASE Len(args) < 3 /\ stop > start             -> stop - start
              [] Len(args) = 3 /\ step > 0 /\ stop > start -> Quo(stop - 1 - start, step) + 1
              [] Len(args) = 3 /\ step < 0 /\ start > stop -> Quo(start - 1 - stop, -step) + 1
              [] OTHER                                     -> 0
    OBVIOUS
  <2> HIDE DEF n
  <2>3. n = IF step > 0 THEN Turns(start, stop, step) ELSE Turns(-start, -stop, -step)
    <3> HIDE DEF start, stop, step
    <3>1. CASE Len(args) < 3
      <4>1. step = 1
        BY <2>1, <3>1
      <4>2. n = IF stop > start THEN stop - start ELSE 0
        <5>0. Len(args) # 3
          BY <1>1, <3>1
        <5>1. CASE stop > start
          BY <2>2, <3>1, <5>0, <5>1
        <5>2. CASE ~(stop > start)
          BY <2>2, <3>1, <5>0, <5>2
        <5> QED
          BY <5>1, <5>2
      <4> QED
        BY <1>2, <4>1, <4>2 DEF Turns
    <3>2. CASE Len(args) = 3 /\ step > 0
      <4>1. n = IF stop > start THEN Quo(stop - 1 - start, step) + 1 ELSE 0
        BY <1>2, <2>2, <3>2
      <4>2. stop > start => Quo(stop - 1 - start, step) = (stop - 1 - start) \div step
        BY <1>2, <3>2 DEF Quo
      <4> QED
        BY <1>2, <3>2, <4>1, <4>2 DEF Turns
    <3>3. CASE Len(args) = 3 /\ step < 0
      <4>1. n = IF start > stop THEN Quo(start - 1 - stop, -step) + 1 ELSE 0
        BY <1>2, <2>2, <3>3
      <4>2. start > stop => Quo(start - 1 - stop, -step) = (start - 1 - stop) \div (-step)
        BY <1>2, <3>3 DEF Quo
      <4>3. -stop - 1 - (-start) = start - 1 - stop /\ (-start < -stop <=> start > stop)
        BY <1>2
      <4> QED
        BY <1>2, <3>3, <4>1, <4>2, <4>3 DEF Turns
    <3> QED
      BY <1>2, <2>1, <3>1, <3>2, <3>3
  <2>4. RangeCall(args) = Result(RangeValue(start, stop, step, n))
    BY <1>3, <1>5
  <2> HIDE DEF start, stop, step
  <2> DEFINE rv == RangeValue(start, stop, step, n)
  <2>5. rv.start = start /\ rv.stop = stop /\ rv.step = step /\ rv.len = n
    BY DEF RangeValue
  <2> HIDE DEF rv
  <2>6. Ranged(rv)
    BY <1>2, <2>1, <2>3, <2>5 DEF Ranged
  <2>7. RangeCall(args).status = "done" /\ RangeCall(args).value = rv
    BY <2>4 DEF Result, rv
  <2> QED
    BY <1>5, <2>6, <2>7 DEF step
<1> QED
  BY <1>4, <1>5

\* Division that leaves no remainder.
LEMMA QuoExact ==
  ASSUME NEW a \in Int, NEW b \in Int, b # 0
  PROVE  /\ Quo(a, b) \in Int
         /\ Rem(a, b) = 0 <=> a = b * Quo(a, b)
         /\ \A k \in Nat : a = k * b => Quo(a, b) = k
<1> DEFINE p == IF a < 0 THEN -a ELSE a
           d == IF b < 0 THEN -b ELSE b
           q == p \div d
<1>1. p \in Nat /\ d \in Nat /\ d > 0
  OBVIOUS
<1>2. Quo(a, b) = IF (a < 0) = (b < 0) THEN q ELSE -q
  BY DEF Quo
<1> HIDE DEF p, d
<1>3. q \in Int
  BY <1>1
<1>4. ASSUME NEW k \in Nat, a = k * b PROVE Quo(a, b) = k
  <2>1. p = d * k
    BY <1>4 DEF p, d
  <2>2. q = k
    <3>1. d * k <= p /\ p < d * k + d
      BY <1>1, <2>1
    <3> QED
      BY <1>1, <3>1
  <2>3. CASE (a < 0) = (b < 0)
    BY <1>2, <2>2, <2>3
  <2>4. CASE (a < 0) # (b < 0)
    <3>1. k = 0
      <4>1. ~(k > 0 /\ b > 0 /\ a < 0) /\ ~(k > 0 /\ b < 0 /\ ~(a < 0))
        BY <1>4
      <4> QED
        BY <2>4, <4>1
    <3> QED
      BY <1>2, <2>2, <2>4, <3>1
  <2> QED
    BY <2>3, <2>4
<1>5. Quo(a, b) \in Int
  BY <1>2, <1>3
<1>6. Rem(a, b) = a - b * Quo(a, b) /\ b * Quo(a, b) \in Int
  BY <1>5 DEF Rem
<1> QED
  BY <1>4, <1>5, <1>6

\* A whole number is what its integral part is.
LEMMA Halved ==
  ASSUME NEW h \in Int, h % 2 = 0
  PROVE  Quo(h, 2) \in Int /\ Quo(h, 2) = h \div 2
<1>1. Quo(h, 2) = IF h < 0 THEN -((-h) \div 2) ELSE h \div 2
  BY DEF Quo
<1>2. h = 2 * (h \div 2) /\ h \div 2 \in Int
  OBVIOUS
<1> QED
  BY <1>1, <1>2

\* A range has the numbers between its bounds, and of the whole numbers `in` finds those.
LEMMA RangedExact ==
  ASSUME NEW rv, Ranged(rv)
  PROVE  RangeExact(rv) /\ rv.len \in Nat /\ Elements(rv) = Progression(rv.start, rv.step, rv.len)
<1> DEFINE start == rv.start
           stop  == rv.stop
           step  == rv.step
           n     == rv.len
           M     == {x \in Between(rv) : Apart(x, start, step)}
<1>1. start \in Int /\ stop \in Int /\ step \in Int /\ step # 0 /\ Fits(start) /\ Fits(stop) /\ MaxInt32 \in Nat
  BY SlicesAssumption DEF Ranged
<1>2. n = IF step > 0 THEN Turns(start, stop, step) ELSE Turns(-start, -stop, -step)
  BY DEF Ranged
<1>3. \A x : x \in M <=> /\ x \in Int /\ Apart(x, start, step)
                         /\ IF step > 0 THEN start <= x /\ x < stop ELSE start >= x /\ x > stop
  BY <1>1 DEF Between
<1>4. Elements(rv) = Progression(start, step, n)
  BY DEF Elements, Progression
<1>5. RangeExact(rv) = (/\ Exactly(Elements(rv), M, step)
                        /\ \A h \in Halves : h % 2 = 0 => (In(h, rv) <=> h \div 2 \in M))
  BY DEF RangeExact
<1>6. \A h : In(h, rv) <=> /\ AsInt32OK(<<Quo(h, 2)>>) /\ Rem(Quo(h, 2) - start, step) = 0
                           /\ 0 <= Quo(Quo(h, 2) - start, step) /\ Quo(Quo(h, 2) - start, step) < n
  BY DEF In, RangeContains
<1> HIDE DEF start, stop, step, n, M
<1>7. n \in Nat /\ Covers(start, step, n, M)
  <2>1. CASE step > 0
    <3>1. n = Turns(start, stop, step)
      BY <1>2, <2>1
    <3>2. n \in Nat
      BY <1>1, <2>1, <3>1, ReachedUpward
    <3>3. \A j \in 1..n : LET i == start + (j - 1) * step
                          IN  i \in Int /\ start <= i /\ i < stop /\ Apart(i, start, step)
      BY <1>1, <2>1, <3>1, ReachedUpward
    <3>4. \A i \in Int : start <= i /\ i < stop /\ Apart(i, start, step) =>
            \E j \in 1..n : i = start + (j - 1) * step
      BY <1>1, <2>1, <3>1, ReachedUpward
    <3>5. ASSUME NEW j \in 1..n PROVE start + (j - 1) * step \in M
      <4> DEFINE i == start + (j - 1) * step
      <4>1. i \in Int /\ start <= i /\ i < stop /\ Apart(i, start, step)
        BY <3>3
      <4> HIDE DEF i
      <4>2. i \in M
        BY <1>3, <2>1, <4>1
      <4> QED
        BY <4>2 DEF i
    <3>6. ASSUME NEW i \in M PROVE \E j \in 1..n : i = start + (j - 1) * step
      BY <1>3, <2>1, <3>4
    <3> QED
      BY <3>2, <3>5, <3>6 DEF Covers
  <2>2. CASE step < 0
    <3>1. n = Turns(-start, -stop, -step)
      BY <1>1, <1>2, <2>2
    <3>2. n \in Nat
      BY <1>1, <2>2, <3>1, ReachedDownward
    <3>3. \A j \in 1..n : LET i == start + (j - 1) * step
                          IN  i \in Int /\ start >= i /\ i > stop /\ Apart(i, start, step)
      BY <1>1, <2>2, <3>1, ReachedDownward
    <3>4. \A i \in Int : start >= i /\ i > stop /\ Apart(i, start, step) =>
            \E j \in 1..n : i = start + (j - 1) * step
      BY <1>1, <2>2, <3>1, ReachedDownward
    <3>0. ~(step > 0)
      BY <1>1, <2>2
    <3>5. ASSUME NEW j \in 1..n PROVE start + (j - 1) * step \in M
      <4> DEFINE i == start + (j - 1) * step
      <4>1. i \in Int /\ start >= i /\ i > stop /\ Apart(i, start, step)
        BY <3>3
      <4> HIDE DEF i
      <4>2. i \in M
        BY <1>3, <3>0, <4>1
      <4> QED
        BY <4>2 DEF i
    <3>6. ASSUME NEW i \in M PROVE \E j \in 1..n : i = start + (j - 1) * step
      BY <1>3, <3>0, <3>4
    <3> QED
      BY <3>2, <3>5, <3>6 DEF Covers
  <2> QED
    BY <1>1, <2>1, <2>2
<1>8. Exactly(Elements(rv), M, step)
  BY <1>1, <1>4, <1>7, ProgressionExact
<1>9. ASSUME NEW h \in Halves, h % 2 = 0
      PROVE  In(h, rv) <=> h \div 2 \in M
  <2> DEFINE x == Quo(h, 2)
             k == Quo(x - start, step)
  <2>0. h \in Int
    BY SlicesAssumption
  <2>1. x \in Int /\ x = h \div 2
    BY <2>0, <1>9, Halved
  <2>2. In(h, rv) <=> AsInt32OK(<<x>>) /\ Rem(x - start, step) = 0 /\ 0 <= k /\ k < n
    BY <1>6
  <2> HIDE DEF x
  <2>3. /\ k \in Int /\ (Rem(x - start, step) = 0 <=> x - start = step * k)
        /\ \A l \in Nat : x - start = l * step => k = l
    <3>1. x - start \in Int
      BY <1>1, <2>1
    <3> QED
      BY <1>1, <3>1, QuoExact
  <2> HIDE DEF k
  <2>4. ASSUME In(h, rv) PROVE x \in M
    <3>1. k + 1 \in 1..n /\ (k + 1) - 1 = k /\ x = start + k * step
      <4>1. x - start = step * k /\ 0 <= k /\ k < n
        BY <2>2, <2>3, <2>4
      <4>2. step * k = k * step /\ k * step \in Int
        BY <1>1, <2>3
      <4> QED
        BY <1>1, <1>7, <2>1, <2>3, <4>1, <4>2
    <3>2. start + ((k + 1) - 1) * step \in M
      BY <1>7, <3>1 DEF Covers
    <3> QED
      BY <3>1, <3>2
  <2>5. ASSUME x \in M PROVE In(h, rv)
    <3>1. PICK j \in 1..n : x = start + (j - 1) * step
      BY <1>7, <2>5 DEF Covers
    <3> DEFINE l == j - 1
    <3>2. l \in Nat /\ l < n
      BY <1>7
    <3>2a. x = start + l * step
      BY <3>1
    <3> HIDE DEF l
    <3>3. x - start = l * step /\ l * step \in Int /\ step * l = l * step
      BY <1>1, <3>2, <3>2a
    <3>4. k = l
      BY <2>3, <3>2, <3>3
    <3>5. Rem(x - start, step) = 0 /\ 0 <= k /\ k < n
      BY <2>3, <3>2, <3>3, <3>4
    <3>6. AsInt32OK(<<x>>)
      <4>1. -MaxInt32 - 1 <= x /\ x <= MaxInt32
        BY <1>1, <1>3, <2>1, <2>5 DEF Fits
      <4> QED
        BY <4>1 DEF AsInt32OK
    <3> QED
      BY <2>2, <3>5, <3>6
  <2> QED
    BY <2>1, <2>4, <2>5
<1>10. RangeExact(rv)
  BY <1>5, <1>8, <1>9
<1> QED
  BY <1>4, <1>7, <1>10 DEF start, step, n

\* Two ranges are equal if and only if they have the same elements, and the same step
\* where they have only one.
LEMMA RangeEqualIs ==
  ASSUME NEW x, Ranged(x), NEW y, Ranged(y)
  PROVE  RangeEqual(x, y) <=> (Elements(x) = Elements(y) /\ (x.len = 1 => x.step = y.step))
<1> DEFINE s == Elements(x)
           t == Elements(y)
<1>1. x.start \in Int /\ x.step \in Int /\ y.start \in Int /\ y.step \in Int
  BY DEF Ranged
<1>2. x.len \in Nat /\ y.len \in Nat
  BY RangedExact
<1>3. /\ DOMAIN s = 1..x.len /\ \A j \in 1..x.len : s[j] = x.start + (j - 1) * x.step
      /\ DOMAIN t = 1..y.len /\ \A j \in 1..y.len : t[j] = y.start + (j - 1) * y.step
  BY DEF Elements
<1>4. s \in Seq(Int) /\ Len(s) = x.len /\ t \in Seq(Int) /\ Len(t) = y.len
  <2>1. s = Progression(x.start, x.step, x.len) /\ t = Progression(y.start, y.step, y.len)
    BY RangedExact
  <2> HIDE DEF s, t
  <2>2. \A a, d \in Int, m \in Nat : Progression(a, d, m) \in Seq(Int) /\ Len(Progression(a, d, m)) = m
    BY ProgressionIs
  <2>3. s \in Seq(Int) /\ Len(s) = x.len
    BY <1>1, <1>2, <2>1, <2>2, ZenonT(30)
  <2>4. t \in Seq(Int) /\ Len(t) = y.len
    BY <1>1, <1>2, <2>1, <2>2, ZenonT(30)
  <2> QED
    BY <2>3, <2>4
<1>5. ASSUME RangeEqual(x, y) PROVE s = t /\ (x.len = 1 => x.step = y.step)
  <2>1. CASE x.len = 0
    <3>1. y.len = 0
      BY <1>5, <2>1 DEF RangeEqual
    <3>2. s = <<>> /\ t = <<>>
      BY <1>4, <2>1, <3>1, EmptySeq
    <3> QED
      BY <2>1, <3>2
  <2>2. CASE x.len # 0
    <3>1. x.len = y.len /\ x.start = y.start /\ x.step = y.step
      BY <1>5, <2>2 DEF RangeEqual
    <3>2. s = t
      BY <3>1 DEF Elements
    <3> QED
      BY <3>1, <3>2
  <2> QED
    BY <2>1, <2>2
<1> HIDE DEF s, t
<1>6. ASSUME s = t, x.len = 1 => x.step = y.step PROVE RangeEqual(x, y)
  <2>1. x.len = y.len
    BY <1>4, <1>6
  <2>2. CASE x.len = 0
    BY <2>1, <2>2 DEF RangeEqual
  <2>3. CASE x.len # 0
    <3>1. x.start = y.start
      <4>1. 1 \in 1..x.len /\ (1 - 1) * x.step = 0 /\ (1 - 1) * y.step = 0
        BY <1>1, <1>2, <2>3
      <4>2. s[1] = x.start + (1 - 1) * x.step /\ t[1] = y.start + (1 - 1) * y.step
        BY <1>3, <2>1, <4>1
      <4> QED
        BY <1>1, <1>6, <4>1, <4>2
    <3>2. x.step = y.step
      <4>1. CASE x.len = 1
        BY <1>6, <4>1
      <4>2. CASE x.len # 1
        <5>1. 2 \in 1..x.len /\ (2 - 1) * x.step = x.step /\ (2 - 1) * y.step = y.step
          BY <1>1, <1>2, <2>3, <4>2
        <5>2. s[2] = x.start + (2 - 1) * x.step /\ t[2] = y.start + (2 - 1) * y.step
          BY <1>3, <2>1, <5>1
        <5>3. s[2] = x.start + x.step /\ t[2] = y.start + y.step
          BY <5>1, <5>2
        <5> QED
          BY <1>1, <1>6, <3>1, <5>3
      <4> QED
        BY <4>1, <4>2
    <3> QED
      BY <2>1, <3>1, <3>2 DEF RangeEqual
  <2> QED
    BY <2>2, <2>3
<1> QED
  BY <1>5, <1>6 DEF s, t

\* Two calls of range.
LEMMA RangesAre ==
  ASSUME NEW args, RangeArgs(args[1]), RangeArgs(args[2]),
         outcome' = Result([i \in 1..2 |-> RangeCall(args[i])])
  PROVE  RangesExact(args)'
<1> DEFINE made   == outcome'.value
           Bad(i) == Len(args[i]) = 3 /\ args[i][3] = 0
<1>1. made[1] = RangeCall(args[1]) /\ made[2] = RangeCall(args[2])
  BY DEF Result
<1>2. \A i \in 1..2 : IF Bad(i) THEN made[i].status = "error" ELSE made[i].status = "done" /\ Ranged(made[i].value)
  <2>1. \A i \in 1..2 : i = 1 \/ i = 2
    OBVIOUS
  <2>2. IF Bad(1) THEN made[1].status = "error" ELSE made[1].status = "done" /\ Ranged(made[1].value)
    BY <1>1, RangeCallIs
  <2>3. IF Bad(2) THEN made[2].status = "error" ELSE made[2].status = "done" /\ Ranged(made[2].value)
    BY <1>1, RangeCallIs
  <2> HIDE DEF made, Bad
  <2> QED
    BY <2>1, <2>2, <2>3
<1>3. RangesExact(args)' =
        (/\ \A i \in 1..2 : made[i].status = (IF Bad(i) THEN "error" ELSE "done")
         /\ \A i \in 1..2 : made[i].status = "done" => RangeExact(made[i].value)
         /\ made[1].status = "done" /\ made[2].status = "done" =>
              /\ RangeEqual(made[1].value, made[2].value) => Elements(made[1].value) = Elements(made[2].value)
              /\ Elements(made[1].value) = Elements(made[2].value) /\ made[1].value.len # 1 =>
                   RangeEqual(made[1].value, made[2].value))
  BY DEF RangesExact
<1> HIDE DEF made, Bad
<1>4. \A i \in 1..2 : made[i].status = (IF Bad(i) THEN "error" ELSE "done")
  BY <1>2
<1>5. \A i \in 1..2 : made[i].status = "done" => Ranged(made[i].value)
  BY <1>2
<1>6. \A i \in 1..2 : made[i].status = "done" => RangeExact(made[i].value)
  BY <1>5, RangedExact
<1>7. made[1].status = "done" /\ made[2].status = "done" =>
          /\ RangeEqual(made[1].value, made[2].value) => Elements(made[1].value) = Elements(made[2].value)
          /\ Elements(made[1].value) = Elements(made[2].value) /\ made[1].value.len # 1 =>
               RangeEqual(made[1].value, made[2].value)
  <2>1. 1 \in 1..2 /\ 2 \in 1..2
    OBVIOUS
  <2> QED
    BY <1>5, <2>1, RangeEqualIs
<1> QED
  BY <1>3, <1>4, <1>6, <1>7

\* A slice has the elements between its effective bounds, at multiples of the step and
\* in its order; a range has the numbers from its start to before its stop, and of the
\* whole numbers `in` finds those and no others; equal ranges have the same elements,
\* and ranges with the same elements are equal unless they have one element.
THEOREM SlicesAreExact == SliceSpec => []SlicesExact
<1> DEFINE Of == \/ operation.kind = "slice" /\ operation.of \in SliceCases
                 \/ operation.kind = "ranges" /\ operation.of \in RangeCases
           Inv == Of /\ SlicesExact
<1>1. SliceInit => Inv
  <2> SUFFICES ASSUME SliceInit PROVE Inv
    OBVIOUS
  <2>1. outcome.status = "none"
    BY DEF SliceInit, NoOutcome
  <2>2. Of
    <3>1. CASE \E c \in SliceCases : operation = [kind |-> "slice", of |-> c]
      BY <3>1
    <3>2. CASE \E c \in RangeCases : operation = [kind |-> "ranges", of |-> c]
      BY <3>2
    <3> QED
      BY <3>1, <3>2 DEF SliceInit
  <2> QED
    BY <2>1, <2>2 DEF SlicesExact
<1>2. Inv /\ [TakeSlice \/ MakeRanges]_sliceVars => Inv'
  <2> SUFFICES ASSUME Inv, [TakeSlice \/ MakeRanges]_sliceVars PROVE Inv'
    OBVIOUS
  <2>0. Of'
    BY DEF TakeSlice, MakeRanges, sliceVars
  <2>1. CASE TakeSlice
    <3>1. operation.of \in SliceCases /\ operation.kind = "slice" /\ operation' = operation
      BY <2>1 DEF TakeSlice
    <3>2. Sliced(operation.of)
      BY <3>1, SlicesAssumption DEF Sliced
    <3>3. outcome' = Slice(operation.of.n, operation.of.lo, operation.of.hi, operation.of.step)
      BY <2>1 DEF TakeSlice
    <3> DEFINE c == operation.of
    <3>4. ASSUME NEW d, d = c PROVE SliceExact(d)'
      BY <3>2, <3>3, <3>4, SliceIs
    <3>5. SliceExact(operation.of)'
      BY <3>1, <3>4 DEF SliceExact
    <3>6. SlicesExact'
      BY <3>1, <3>5 DEF SlicesExact
    <3> QED
      BY <2>0, <3>6
  <2>2. CASE MakeRanges
    <3>1. operation.of \in RangeCases /\ operation.kind = "ranges" /\ operation' = operation
      BY <2>2 DEF MakeRanges
    <3>2. RangeArgs(operation.of[1]) /\ RangeArgs(operation.of[2])
      <4>1. 1 \in 1..2 /\ 2 \in 1..2
        OBVIOUS
      <4>2. \A i \in 1..2 : RangeArgs(operation.of[i])
        BY <3>1, SlicesAssumption DEF RangeArgs
      <4> QED
        BY <4>1, <4>2
    <3>3. outcome' = Result([i \in 1..2 |-> RangeCall(operation.of[i])])
      BY <2>2 DEF MakeRanges
    <3>5. RangesExact(operation.of)'
      BY <3>1, <3>2, <3>3, RangesAre DEF RangesExact
    <3>6. SlicesExact'
      BY <3>1, <3>5 DEF SlicesExact
    <3> QED
      BY <2>0, <3>6
  <2>3. CASE UNCHANGED sliceVars
    BY <2>3 DEF sliceVars, SlicesExact, SliceExact, RangesExact
  <2> QED
    BY <2>1, <2>2, <2>3
<1>3. Inv => SlicesExact
  OBVIOUS
<1> QED
  BY <1>1, <1>2, <1>3, PTL DEF SliceSpec

(***************************************************************************)
(* Calls: the arguments.                                                   *)
(***************************************************************************)

\* A function, and the arguments of a call of it.
Callable(fn) ==
  /\ fn.params \in Seq(STRING) /\ \A i, j \in DOMAIN fn.params : fn.params[i] = fn.params[j] => i = j
  /\ fn.defaults \in Seq(Value) /\ Len(fn.defaults) <= Len(fn.params)
  /\ fn.varargs \in BOOLEAN /\ fn.kwargs \in BOOLEAN
Keyword == STRING \X Value

\* What one argument gives: values by position, or pairs.
ByPositionOf(a) == CASE a.kind = "positional" -> <<a.value>>
                     [] a.kind = "star"       -> a.values
                     [] OTHER                 -> <<>>
ByNameOf(a)     == CASE a.kind = "named"    -> <<<<a.name, a.value>>>>
                     [] a.kind = "starstar" -> a.items
                     [] OTHER               -> <<>>
LEMMA PartsAre ==
  ASSUME NEW a \in CallArgument
  PROVE  ByPositionOf(a) \in Seq(Value) /\ ByNameOf(a) \in Seq(Keyword)
<1>1. CASE a \in [kind : {"positional"}, value : Value]
  BY <1>1 DEF ByPositionOf, ByNameOf
<1>2. CASE a \in [kind : {"named"}, name : STRING, value : Value]
  <2>1. <<a.name, a.value>> \in Keyword
    BY <1>2 DEF Keyword
  <2>2. ByPositionOf(a) = <<>> /\ ByNameOf(a) = <<<<a.name, a.value>>>>
    BY <1>2 DEF ByPositionOf, ByNameOf
  <2> QED
    BY <2>1, <2>2
<1>3. CASE a \in [kind : {"star"}, values : Seq(Value)]
  <2>1. ByPositionOf(a) = a.values /\ ByNameOf(a) = <<>> /\ a.values \in Seq(Value)
    BY <1>3 DEF ByPositionOf, ByNameOf
  <2> QED
    BY <2>1
<1>4. CASE a \in [kind : {"starstar"}, items : Seq(STRING \X Value)]
  <2>1. ByPositionOf(a) = <<>> /\ ByNameOf(a) = a.items /\ a.items \in Seq(Keyword)
    BY <1>4 DEF ByPositionOf, ByNameOf, Keyword
  <2> QED
    BY <2>1
<1>5. CASE a \in [kind : {"unusable"}, why : Unusable]
  <2>1. ByPositionOf(a) = <<>> /\ ByNameOf(a) = <<>>
    BY <1>5 DEF ByPositionOf, ByNameOf
  <2> QED
    BY <2>1
<1> QED
  BY <1>1, <1>2, <1>3, <1>4, <1>5 DEF CallArgument

\* The concatenation of parts of a call, as evalArgs makes it, is a sequence of their kind.
Concatenated(w, n, part) == w = [k \in 0..n |-> IF k = 0 THEN <<>> ELSE w[k - 1] \o part[k]]
LEMMA ConcatenatedIs ==
  ASSUME NEW S, NEW n \in Nat, NEW part \in [1..n -> Seq(S)]
  PROVE  /\ \E w : Concatenated(w, n, part)
         /\ \A w : Concatenated(w, n, part) => w[n] \in Seq(S)
<1>1. \E w : Concatenated(w, n, part)
  <2> DEFINE A  == Seq(S)
             F  == [p \in (1..n) \X A |-> p[2] \o part[p[1]]]
             s0 == <<>>
  <2>1. s0 \in A /\ F \in [(1..n) \X A -> A]
    <3>1. \A i \in 1..n, s \in Seq(S) : s \o part[i] \in Seq(S)
      OBVIOUS
    <3> QED
      BY <3>1
  <2>2. PICK f : Solution(f, n, A, s0, F)
    <3> HIDE DEF F, A, s0
    <3> QED
      BY <2>1, Recursion
  <2>3. f \in [0..n -> A] /\ f[0] = s0 /\ \A i \in 1..n : f[i] = F[<<i, f[i - 1]>>]
    BY <2>2 DEF Solution
  <2>4. ASSUME NEW k \in 0..n PROVE f[k] = IF k = 0 THEN <<>> ELSE f[k - 1] \o part[k]
    <3>1. CASE k = 0
      BY <2>3, <3>1
    <3>2. CASE k # 0
      <4>1. k \in 1..n /\ k - 1 \in 0..n
        BY <3>2
      <4>2. f[k - 1] \in A
        BY <2>3, <4>1
      <4>3. F[<<k, f[k - 1]>>] = f[k - 1] \o part[k]
        BY <4>1, <4>2
      <4> QED
        BY <2>3, <3>2, <4>1, <4>3
    <3> QED
      BY <3>1, <3>2
  <2>5. f = [k \in 0..n |-> f[k]]
    BY <2>3
  <2> QED
    BY <2>4, <2>5 DEF Concatenated
<1>2. ASSUME NEW w, Concatenated(w, n, part) PROVE w[n] \in Seq(S)
  <2> DEFINE T == {k \in 0..n : w[k] \in Seq(S)}
  <2>1. \A k \in 0..n : w[k] = IF k = 0 THEN <<>> ELSE w[k - 1] \o part[k]
    <3> DEFINE v == [k \in 0..n |-> IF k = 0 THEN <<>> ELSE w[k - 1] \o part[k]]
    <3>1. \A k \in 0..n : v[k] = IF k = 0 THEN <<>> ELSE w[k - 1] \o part[k]
      OBVIOUS
    <3>2. w = v
      BY <1>2 DEF Concatenated
    <3> HIDE DEF v
    <3> QED
      BY <3>1, <3>2
  <2>2. 0 \in T
    <3>1. 0 \in 0..n
      OBVIOUS
    <3>2. w[0] = <<>>
      BY ONLY <2>1, <3>1
    <3>3. w[0] \in Seq(S)
      BY <3>2
    <3> QED
      BY <3>1, <3>3
  <2>3. ASSUME NEW k \in 1..n, k - 1 \in T PROVE k \in T
    <3>0. k \in 0..n /\ k # 0
      BY <2>3
    <3>1. w[k] = w[k - 1] \o part[k]
      BY ONLY <2>1, <3>0
    <3>2. w[k - 1] \in Seq(S) /\ part[k] \in Seq(S)
      BY <2>3
    <3>3. w[k] \in Seq(S)
      BY <3>1, <3>2
    <3> QED
      BY <3>0, <3>3
  <2> HIDE DEF T
  <2>4. 0..n \subseteq T
    BY <2>2, <2>3, BoundedInduction
  <2> QED
    BY <2>4 DEF T
<1> QED
  BY <1>1, <1>2

\* What evalArgs returns.
LEMMA ArgumentsAre ==
  ASSUME NEW call \in Seq(CallArgument)
  PROVE  Positional(call) \in Seq(Value) /\ Keywords(call) \in Seq(Keyword)
<1> DEFINE n  == Len(call)
           P  == [k \in 1..n |-> ByPositionOf(call[k])]
           K  == [k \in 1..n |-> ByNameOf(call[k])]
           PW(w) == [k \in 0..n |-> IF k = 0 THEN <<>> ELSE w[k - 1] \o ByPositionOf(call[k])]
           KW(w) == [k \in 0..n |-> IF k = 0 THEN <<>> ELSE w[k - 1] \o ByNameOf(call[k])]
<1>1. n \in Nat /\ \A k \in 1..n : call[k] \in CallArgument
  OBVIOUS
<1>2. P \in [1..n -> Seq(Value)] /\ K \in [1..n -> Seq(Keyword)]
  BY <1>1, PartsAre
<1>3. Positional(call) = (CHOOSE w : w = PW(w))[n]
  BY DEF Positional, ByPositionOf
<1>4. Keywords(call) = (CHOOSE w : w = KW(w))[n]
  BY DEF Keywords, ByNameOf
<1>5. \A w : Concatenated(w, n, P) <=> w = PW(w)
  <2>1. ASSUME NEW w PROVE [k \in 0..n |-> IF k = 0 THEN <<>> ELSE w[k - 1] \o P[k]] = PW(w)
    <3>1. \A k \in 0..n : k # 0 => P[k] = ByPositionOf(call[k])
      BY <1>1
    <3> HIDE DEF P
    <3>2. \A k \in 0..n : (IF k = 0 THEN <<>> ELSE w[k - 1] \o P[k])
                          = (IF k = 0 THEN <<>> ELSE w[k - 1] \o ByPositionOf(call[k]))
      BY <3>1
    <3> QED
      BY <3>2
  <2> HIDE DEF P, PW
  <2>2. ASSUME NEW w PROVE Concatenated(w, n, P) <=> w = PW(w)
    BY <2>1 DEF Concatenated
  <2> QED
    BY <2>2
<1>6. \A w : Concatenated(w, n, K) <=> w = KW(w)
  <2>1. ASSUME NEW w PROVE [k \in 0..n |-> IF k = 0 THEN <<>> ELSE w[k - 1] \o K[k]] = KW(w)
    <3>1. \A k \in 0..n : k # 0 => K[k] = ByNameOf(call[k])
      BY <1>1
    <3> HIDE DEF K
    <3>2. \A k \in 0..n : (IF k = 0 THEN <<>> ELSE w[k - 1] \o K[k])
                          = (IF k = 0 THEN <<>> ELSE w[k - 1] \o ByNameOf(call[k]))
      BY <3>1
    <3> QED
      BY <3>2
  <2> HIDE DEF K, KW
  <2>2. ASSUME NEW w PROVE Concatenated(w, n, K) <=> w = KW(w)
    BY <2>1 DEF Concatenated
  <2> QED
    BY <2>2
<1> HIDE DEF P, K, PW, KW, n
<1>7. Positional(call) \in Seq(Value)
  <2>1. (CHOOSE w : w = PW(w)) = PW(CHOOSE w : w = PW(w))
    BY <1>1, <1>2, <1>5, ConcatenatedIs
  <2>2. Concatenated((CHOOSE w : w = PW(w)), n, P)
    BY <1>5, <2>1
  <2> QED
    BY <1>1, <1>2, <1>3, <2>2, ConcatenatedIs
<1>8. Keywords(call) \in Seq(Keyword)
  <2>1. (CHOOSE w : w = KW(w)) = KW(CHOOSE w : w = KW(w))
    BY <1>1, <1>2, <1>6, ConcatenatedIs
  <2>2. Concatenated((CHOOSE w : w = KW(w)), n, K)
    BY <1>6, <2>1
  <2> QED
    BY <1>1, <1>2, <1>4, <2>2, ConcatenatedIs
<1> QED
  BY <1>7, <1>8

(***************************************************************************)
(* Calls: the binding, after every keyword argument.                       *)
(***************************************************************************)
Bindings(fn) ==
  [locals : [1..NParams(fn) -> Value \cup {Unset}], defined : SUBSET (1..NParams(fn)), dict : Seq(Keyword),
   error : {"", "multiple values", "unexpected keyword"}]

\* The keyword arguments up to k for parameter i, and those for no parameter.
NamedFor(fn, kwargs, k, i) == {q \in 1..k : kwargs[q][1] = fn.params[i]}
SpareOf(fn, kwargs, k)     == {q \in 1..k : q \in Unclaimed(fn, kwargs)}

\* The binding so far: every parameter has what is for it, the dict the rest; or an
\* argument has nowhere to go, or a place that is taken.
Placed(fn, args, kwargs, k, b) ==
  /\ \A i \in 1..NParams(fn) :
       /\ i \in b.defined <=> i <= Len(args) \/ NamedFor(fn, kwargs, k, i) # {}
       /\ i <= Len(args) => NamedFor(fn, kwargs, k, i) = {} /\ b.locals[i] = args[i]
       /\ \A p, q \in NamedFor(fn, kwargs, k, i) : p = q
       /\ \A q \in NamedFor(fn, kwargs, k, i) : b.locals[i] = kwargs[q][2]
  /\ SpareOf(fn, kwargs, k) # {} => fn.kwargs
  /\ MeantDict(SpareOf(fn, kwargs, k), kwargs, b.dict)
Displaced(fn, args, kwargs, k) ==
  \/ SpareOf(fn, kwargs, k) # {} /\ ~fn.kwargs
  \/ \E i \in 1..NParams(fn) : \E q \in NamedFor(fn, kwargs, k, i) :
       i <= Len(args) \/ \E p \in NamedFor(fn, kwargs, k, i) : p # q
BoundSoFar(fn, args, kwargs, k, b) ==
  b \in Bindings(fn) /\ IF b.error = "" THEN Placed(fn, args, kwargs, k, b) ELSE Displaced(fn, args, kwargs, k)

\* The number of parameters, and the parameter of a name.
LEMMA ParametersAre ==
  ASSUME NEW fn, Callable(fn)
  PROVE  /\ NParams(fn) \in Nat /\ DOMAIN fn.params = 1..NParams(fn)
         /\ \A i \in 1..NParams(fn) : fn.params[i] \in STRING
         /\ \A name : Parameters(fn, name) \subseteq 1..NParams(fn)
         /\ \A name : \A i \in Parameters(fn, name) : fn.params[i] = name /\ \A j \in 1..NParams(fn) : fn.params[j] = name => j = i
<1>1. fn.params \in Seq(STRING) /\ \A i, j \in DOMAIN fn.params : fn.params[i] = fn.params[j] => i = j
  BY DEF Callable
<1>2. NParams(fn) \in Nat /\ DOMAIN fn.params = 1..NParams(fn) /\ \A i \in 1..NParams(fn) : fn.params[i] \in STRING
  BY <1>1 DEF NParams
<1>3. \A name : Parameters(fn, name) = {i \in 1..NParams(fn) : fn.params[i] = name}
  BY <1>2 DEF Parameters
<1> QED
  BY <1>1, <1>2, <1>3

\* MeantDict of a dict of n pairs.
MeantPairs(n, spare, kwargs, d) ==
  /\ \A j \in 1..n : \E q \in spare :
       d[j] = kwargs[q] /\ \A o \in spare : kwargs[o][1] = kwargs[q][1] => o <= q
  /\ \A q \in spare : \E j \in 1..n : d[j][1] = kwargs[q][1]
  /\ \A j, l \in 1..n : j < l =>
       \E p \in spare : kwargs[p][1] = d[j][1] /\ \A q \in spare : kwargs[q][1] = d[l][1] => p < q
LEMMA MeantIs ==
  ASSUME NEW spare, NEW kwargs, NEW d, NEW n \in Nat, DOMAIN d = 1..n
  PROVE  MeantDict(spare, kwargs, d) <=> MeantPairs(n, spare, kwargs, d)
<1> DEFINE D == DOMAIN d
<1>1. MeantDict(spare, kwargs, d) <=>
        /\ \A j \in D : \E q \in spare :
             d[j] = kwargs[q] /\ \A o \in spare : kwargs[o][1] = kwargs[q][1] => o <= q
        /\ \A q \in spare : \E j \in D : d[j][1] = kwargs[q][1]
        /\ \A j, l \in D : j < l =>
             \E p \in spare : kwargs[p][1] = d[j][1] /\ \A q \in spare : kwargs[q][1] = d[l][1] => p < q
  BY DEF MeantDict
<1>2. D = 1..n
  OBVIOUS
<1> HIDE DEF D
<1> QED
  BY <1>1, <1>2 DEF MeantPairs

\* The dict that gets one more pair.
LEMMA DictSetMeant ==
  ASSUME NEW kwargs \in Seq(Keyword), NEW k \in 1..Len(kwargs), NEW spare \in SUBSET (1..(k - 1)),
         NEW d \in Seq(Keyword), MeantDict(spare, kwargs, d)
  PROVE  /\ DictSet(d, kwargs[k][1], kwargs[k][2]) \in Seq(Keyword)
         /\ MeantDict(spare \cup {k}, kwargs, DictSet(d, kwargs[k][1], kwargs[k][2]))
<1> DEFINE name  == kwargs[k][1]
           value == kwargs[k][2]
           e     == DictSet(d, name, value)
           n     == Len(d)
           new   == spare \cup {k}
<1>1. Len(kwargs) \in Nat /\ k \in Nat /\ kwargs[k] \in Keyword /\ kwargs[k] = <<name, value>> /\ <<name, value>> \in Keyword
  BY DEF Keyword
<1>2. n \in Nat /\ DOMAIN d = 1..n /\ \A j \in 1..n : d[j] \in Keyword /\ d[j] = <<d[j][1], d[j][2]>>
  BY DEF Keyword
<1>m. MeantPairs(n, spare, kwargs, d)
  BY <1>2, MeantIs
<1>3. \A j \in 1..n : \E q \in spare : d[j] = kwargs[q] /\ \A o \in spare : kwargs[o][1] = kwargs[q][1] => o <= q
  BY <1>m DEF MeantPairs
<1>4. \A q \in spare : \E j \in 1..n : d[j][1] = kwargs[q][1]
  BY <1>m DEF MeantPairs
<1>5. \A j, l \in 1..n : j < l =>
        \E p \in spare : kwargs[p][1] = d[j][1] /\ \A q \in spare : kwargs[q][1] = d[l][1] => p < q
  BY <1>m DEF MeantPairs
<1>6. \A q \in spare : q \in Nat /\ q < k
  BY <1>1
<1> HIDE DEF name, value, n
<1>7. CASE \E j \in 1..n : d[j][1] = name
  <2>1. PICK h \in 1..n : d[h][1] = name
    BY <1>7
  <2>2. e = [j \in 1..n |-> IF d[j][1] = name THEN <<name, value>> ELSE d[j]]
    BY <1>2, <1>7 DEF DictSet
  <2>3. e \in Seq(Keyword) /\ DOMAIN e = 1..n /\ \A j \in 1..n : e[j] = IF d[j][1] = name THEN <<name, value>> ELSE d[j]
    <3>1. \A j \in 1..n : (IF d[j][1] = name THEN <<name, value>> ELSE d[j]) \in Keyword
      BY <1>1, <1>2
    <3>2. \A j \in 1..n : e[j] = IF d[j][1] = name THEN <<name, value>> ELSE d[j]
      BY <2>2
    <3>3. e = [j \in 1..n |-> e[j]]
      BY <2>2
    <3> HIDE DEF e
    <3>4. \A j \in 1..n : e[j] \in Keyword
      BY <3>1, <3>2
    <3>5. e \in [1..n -> Keyword]
      BY <3>3, <3>4
    <3>6. e \in Seq(Keyword)
      BY <1>2, <3>5
    <3> QED
      BY <3>2, <3>5, <3>6
  <2> HIDE DEF e
  <2>4. \A j \in 1..n : e[j][1] = d[j][1]
    BY <2>3
  <2>5. \A j \in 1..n : \E q \in new : e[j] = kwargs[q] /\ \A o \in new : kwargs[o][1] = kwargs[q][1] => o <= q
    <3> SUFFICES ASSUME NEW j \in 1..n
                 PROVE  \E q \in new : e[j] = kwargs[q] /\ \A o \in new : kwargs[o][1] = kwargs[q][1] => o <= q
      OBVIOUS
    <3>1. CASE d[j][1] = name
      <4>1. e[j] = kwargs[k] /\ k \in new
        BY <1>1, <2>3, <3>1
      <4>2. \A o \in new : o <= k
        BY <1>1, <1>6
      <4> QED
        BY <4>1, <4>2
    <3>2. CASE d[j][1] # name
      <4>1. PICK q \in spare : d[j] = kwargs[q] /\ \A o \in spare : kwargs[o][1] = kwargs[q][1] => o <= q
        BY <1>3
      <4>2. e[j] = kwargs[q] /\ q \in new
        BY <2>3, <3>2, <4>1
      <4>3. kwargs[k][1] # kwargs[q][1]
        BY <3>2, <4>1 DEF name
      <4>4. \A o \in new : kwargs[o][1] = kwargs[q][1] => o <= q
        BY <4>1, <4>3
      <4> QED
        BY <4>2, <4>4
    <3> QED
      BY <3>1, <3>2
  <2>6. \A q \in new : \E j \in 1..n : e[j][1] = kwargs[q][1]
    BY <1>4, <2>1, <2>4 DEF name
  <2>7. ASSUME NEW j \in 1..n, NEW l \in 1..n, j < l
        PROVE  \E p \in new : kwargs[p][1] = e[j][1] /\ \A q \in new : kwargs[q][1] = e[l][1] => p < q
    <3>1. PICK p \in spare : kwargs[p][1] = d[j][1] /\ \A q \in spare : kwargs[q][1] = d[l][1] => p < q
      BY <1>5, <2>7
    <3>2. p < k /\ p \in new
      BY <1>6
    <3>3. \A q \in new : kwargs[q][1] = e[l][1] => p < q
      BY <2>4, <3>1, <3>2
    <3> QED
      BY <2>4, <3>1, <3>2, <3>3
  <2>8. MeantDict(new, kwargs, e)
    <3>1. MeantPairs(n, new, kwargs, e)
      BY <2>5, <2>6, <2>7 DEF MeantPairs
    <3> QED
      BY <1>2, <2>3, <3>1, MeantIs
  <2> QED
    BY <2>3, <2>8 DEF e, name, value
<1>8. CASE ~ \E j \in 1..n : d[j][1] = name
  <2>1. e = Append(d, <<name, value>>)
    BY <1>2, <1>8 DEF DictSet
  <2>2. /\ e \in Seq(Keyword) /\ DOMAIN e = 1..(n + 1) /\ e[n + 1] = kwargs[k]
        /\ \A j \in 1..n : e[j] = d[j]
    <3> HIDE DEF e
    <3>1. Len(e) = n + 1
      BY <1>1, <2>1, AppendProperties DEF n
    <3> QED
      BY <1>1, <2>1, <3>1, AppendProperties, LenProperties DEF n
  <2> HIDE DEF e
  <2>3. \A o \in spare : kwargs[o][1] # kwargs[k][1]
    BY <1>4, <1>8 DEF name
  <2>4. \A j \in 1..(n + 1) : j \in 1..n \/ j = n + 1
    BY <1>2
  <2>5. \A j \in 1..(n + 1) : \E q \in new : e[j] = kwargs[q] /\ \A o \in new : kwargs[o][1] = kwargs[q][1] => o <= q
    <3> SUFFICES ASSUME NEW j \in 1..(n + 1)
                 PROVE  \E q \in new : e[j] = kwargs[q] /\ \A o \in new : kwargs[o][1] = kwargs[q][1] => o <= q
      OBVIOUS
    <3>1. CASE j = n + 1
      <4>1. e[j] = kwargs[k] /\ k \in new
        BY <2>2, <3>1
      <4>2. \A o \in new : o <= k
        BY <1>1, <1>6
      <4> QED
        BY <4>1, <4>2
    <3>2. CASE j \in 1..n
      <4>1. PICK q \in spare : d[j] = kwargs[q] /\ \A o \in spare : kwargs[o][1] = kwargs[q][1] => o <= q
        BY <1>3, <3>2
      <4>2. e[j] = kwargs[q] /\ q \in new
        BY <2>2, <3>2, <4>1
      <4>3. \A o \in new : kwargs[o][1] = kwargs[q][1] => o <= q
        BY <2>3, <4>1
      <4> QED
        BY <4>2, <4>3
    <3> QED
      BY <2>4, <3>1, <3>2
  <2>6. \A q \in new : \E j \in 1..(n + 1) : e[j][1] = kwargs[q][1]
    <3> SUFFICES ASSUME NEW q \in new PROVE \E j \in 1..(n + 1) : e[j][1] = kwargs[q][1]
      OBVIOUS
    <3>1. CASE q = k
      <4>1. n + 1 \in 1..(n + 1)
        BY <1>2
      <4> QED
        BY <2>2, <3>1, <4>1
    <3>2. CASE q \in spare
      <4>1. PICK j \in 1..n : d[j][1] = kwargs[q][1]
        BY <1>4, <3>2
      <4>2. j \in 1..(n + 1) /\ e[j] = d[j]
        BY <1>2, <2>2
      <4> QED
        BY <4>1, <4>2
    <3> QED
      BY <3>1, <3>2
  <2>7. ASSUME NEW j \in 1..(n + 1), NEW l \in 1..(n + 1), j < l
        PROVE  \E p \in new : kwargs[p][1] = e[j][1] /\ \A q \in new : kwargs[q][1] = e[l][1] => p < q
    <3>1. j \in 1..n /\ e[j] = d[j]
      BY <1>2, <2>2, <2>7
    <3>2. CASE l \in 1..n
      <4>1. PICK p \in spare : kwargs[p][1] = d[j][1] /\ \A q \in spare : kwargs[q][1] = d[l][1] => p < q
        BY <1>5, <2>7, <3>1, <3>2
      <4>2. p < k /\ p \in new
        BY <1>6
      <4>3. e[l] = d[l]
        BY <2>2, <3>2
      <4>4. \A q \in new : kwargs[q][1] = e[l][1] => p < q
        BY <4>1, <4>2, <4>3
      <4> QED
        BY <3>1, <4>1, <4>2, <4>4
    <3>3. CASE l = n + 1
      <4>1. PICK p \in spare : d[j] = kwargs[p]
        BY <1>3, <3>1
      <4>2. p < k /\ p \in new
        BY <1>6
      <4>3. \A q \in new : kwargs[q][1] = e[l][1] => p < q
        BY <2>2, <2>3, <3>3, <4>2
      <4> QED
        BY <3>1, <4>1, <4>2, <4>3
    <3> QED
      BY <2>4, <3>2, <3>3
  <2>8. MeantDict(new, kwargs, e)
    <3>1. n + 1 \in Nat /\ DOMAIN e = 1..(n + 1)
      BY <1>2, <2>2
    <3>2. MeantPairs(n + 1, new, kwargs, e)
      BY <2>5, <2>6, <2>7 DEF MeantPairs
    <3> QED
      BY <3>1, <3>2, MeantIs
  <2> QED
    BY <2>2, <2>8 DEF e, name, value
<1> QED
  BY <1>7, <1>8

\* The types.
LEMMA BindKeywordType ==
  ASSUME NEW fn, Callable(fn), NEW b \in Bindings(fn), NEW pair, pair[1] \in STRING, pair[2] \in Value
  PROVE  BindKeyword(fn, b, pair) \in Bindings(fn)
<1> DEFINE np    == NParams(fn)
           found == Parameters(fn, pair[1])
           c     == BindKeyword(fn, b, pair)
<1>1. /\ b.locals \in [1..np -> Value \cup {Unset}] /\ b.defined \in SUBSET (1..np)
      /\ b.dict \in Seq(Keyword)
  BY DEF Bindings
<1>2. CASE b.error # ""
  BY <1>2 DEF BindKeyword
<1>3. CASE b.error = "" /\ found # {}
  <2> DEFINE i == CHOOSE j \in found : TRUE
  <2>1. i \in 1..np
    BY <1>3, ParametersAre
  <2>2. c = IF i \in b.defined THEN [b EXCEPT !.error = "multiple values"]
            ELSE [b EXCEPT !.defined = @ \cup {i}, !.locals[i] = pair[2]]
    BY <1>3 DEF BindKeyword
  <2> HIDE DEF i
  <2>3. [b.locals EXCEPT ![i] = pair[2]] \in [1..np -> Value \cup {Unset}]
    BY <1>1, <2>1
  <2>4. b.defined \cup {i} \in SUBSET (1..np)
    BY <1>1, <2>1
  <2> QED
    BY <2>2, <2>3, <2>4 DEF Bindings
<1>4. CASE b.error = "" /\ found = {} /\ ~fn.kwargs
  BY <1>4 DEF BindKeyword, Bindings
<1>5. CASE b.error = "" /\ found = {} /\ fn.kwargs
  <2>1. c = [b EXCEPT !.dict = DictSet(@, pair[1], pair[2])]
    <3>1. ~(b.error # "") /\ ~(b.error = "" /\ found # {}) /\ ~(b.error = "" /\ found = {} /\ ~fn.kwargs)
      BY <1>5
    <3> QED
      BY <3>1 DEF BindKeyword
  <2>2. DictSet(b.dict, pair[1], pair[2]) \in Seq(Keyword)
    <3> DEFINE x == <<pair[1], pair[2]>>
               d == b.dict
    <3>1. x \in Keyword /\ Append(d, x) \in Seq(Keyword)
      BY <1>1 DEF Keyword
    <3>2. [j \in DOMAIN d |-> IF d[j][1] = pair[1] THEN x ELSE d[j]] \in Seq(Keyword)
      <4> HIDE DEF x, d
      <4>1. d \in Seq(Keyword)
        BY <1>1 DEF d
      <4>2. DOMAIN d = 1..Len(d) /\ Len(d) \in Nat /\ \A j \in 1..Len(d) : (IF d[j][1] = pair[1] THEN x ELSE d[j]) \in Keyword
        BY <3>1, <4>1
      <4>3. [j \in 1..Len(d) |-> IF d[j][1] = pair[1] THEN x ELSE d[j]] \in [1..Len(d) -> Keyword]
        BY <4>2
      <4> QED
        BY <4>2, <4>3
    <3> QED
      BY <3>1, <3>2 DEF DictSet
  <2> QED
    BY <2>1, <2>2 DEF Bindings
<1> QED
  BY <1>2, <1>3, <1>4, <1>5

\* The step of the loop: one more keyword argument.
LEMMA KeywordBound ==
  ASSUME NEW fn, Callable(fn), NEW args \in Seq(Value), NEW kwargs \in Seq(Keyword),
         NEW k \in 1..Len(kwargs), NEW b, BoundSoFar(fn, args, kwargs, k - 1, b)
  PROVE  BoundSoFar(fn, args, kwargs, k, BindKeyword(fn, b, kwargs[k]))
<1> DEFINE np    == NParams(fn)
           name  == kwargs[k][1]
           value == kwargs[k][2]
           found == Parameters(fn, name)
           Old(i) == NamedFor(fn, kwargs, k - 1, i)
           New(i) == NamedFor(fn, kwargs, k, i)
           OldSpare == SpareOf(fn, kwargs, k - 1)
           NewSpare == SpareOf(fn, kwargs, k)
           c     == BindKeyword(fn, b, kwargs[k])
<1>1. /\ np \in Nat /\ found \subseteq 1..np
      /\ \A i \in found : fn.params[i] = name /\ \A j \in 1..np : fn.params[j] = name => j = i
      /\ \A i \in 1..np : fn.params[i] = name => i \in found
  <2>1. DOMAIN fn.params = 1..np
    BY ParametersAre
  <2>2. \A i \in 1..np : fn.params[i] = name => i \in found
    BY <2>1 DEF Parameters
  <2>3. np \in Nat /\ found \subseteq 1..np
    BY ParametersAre
  <2>4. \A i \in found : fn.params[i] = name /\ \A j \in 1..np : fn.params[j] = name => j = i
    BY ParametersAre
  <2> QED
    BY <2>2, <2>3, <2>4
<1>2. Len(kwargs) \in Nat /\ k \in Nat /\ kwargs[k] \in Keyword /\ name \in STRING /\ value \in Value /\ kwargs[k] = <<name, value>>
  BY DEF Keyword
<1>3. b \in Bindings(fn) /\ IF b.error = "" THEN Placed(fn, args, kwargs, k - 1, b) ELSE Displaced(fn, args, kwargs, k - 1)
  BY DEF BoundSoFar
<1>4. \A i \in 1..np : New(i) = Old(i) \cup (IF i \in found THEN {k} ELSE {})
  <2> SUFFICES ASSUME NEW i \in 1..np PROVE New(i) = Old(i) \cup (IF i \in found THEN {k} ELSE {})
    OBVIOUS
  <2>1. \A q : q \in 1..k <=> q \in 1..(k - 1) \/ q = k
    BY <1>2
  <2>2. kwargs[k][1] = fn.params[i] <=> i \in found
    BY <1>1
  <2> QED
    BY <2>1, <2>2 DEF NamedFor
<1>5. NewSpare = OldSpare \cup (IF found = {} THEN {k} ELSE {}) /\ OldSpare \in SUBSET (1..(k - 1))
  <2>1. \A q : q \in 1..k <=> q \in 1..(k - 1) \/ q = k
    BY <1>2
  <2>2. k \in Unclaimed(fn, kwargs) <=> found = {}
    <3>1. DOMAIN fn.params = 1..np /\ DOMAIN kwargs = 1..Len(kwargs)
      BY ParametersAre, LenProperties
    <3>2. k \in Unclaimed(fn, kwargs) <=> \A i \in 1..np : fn.params[i] # name
      BY <3>1 DEF Unclaimed
    <3> QED
      BY <1>1, <3>2
  <2> QED
    BY <2>1, <2>2 DEF SpareOf
<1>6. CASE b.error # ""
  <2>1. c = b
    BY <1>6 DEF BindKeyword
  <2>2. Displaced(fn, args, kwargs, k)
    <3>1. Displaced(fn, args, kwargs, k - 1)
      BY <1>3, <1>6
    <3>2. CASE OldSpare # {} /\ ~fn.kwargs
      BY <1>5, <3>2 DEF Displaced
    <3>3. CASE \E i \in 1..np : \E q \in Old(i) : i <= Len(args) \/ \E p \in Old(i) : p # q
      <4>0. PICK i \in 1..np : \E q \in Old(i) : i <= Len(args) \/ \E p \in Old(i) : p # q
        BY <3>3
      <4>1. PICK q \in Old(i) : i <= Len(args) \/ \E p \in Old(i) : p # q
        BY <4>0
      <4>2. Old(i) \subseteq New(i)
        BY <1>4
      <4> HIDE DEF Old, New, np
      <4>3. \E j \in 1..np : \E o \in New(j) : j <= Len(args) \/ \E p \in New(j) : p # o
        BY <4>1, <4>2
      <4> QED
        BY <4>3 DEF Displaced, New, np
    <3> QED
      BY <3>1, <3>2, <3>3 DEF Displaced
  <2> QED
    BY <1>3, <1>6, <2>1, <2>2 DEF BoundSoFar
<1>7. CASE b.error = ""
  <2>1. Placed(fn, args, kwargs, k - 1, b)
    BY <1>3, <1>7
  <2>2. /\ b.locals \in [1..np -> Value \cup {Unset}] /\ b.defined \in SUBSET (1..np)
        /\ b.dict \in Seq(Keyword) /\ b.error \in {"", "multiple values", "unexpected keyword"}
    BY <1>3 DEF Bindings
  <2>3. \A i \in 1..np :
          /\ i \in b.defined <=> i <= Len(args) \/ Old(i) # {}
          /\ i <= Len(args) => Old(i) = {} /\ b.locals[i] = args[i]
          /\ \A p, q \in Old(i) : p = q
          /\ \A q \in Old(i) : b.locals[i] = kwargs[q][2]
    BY <2>1 DEF Placed
  <2>4. (OldSpare # {} => fn.kwargs) /\ MeantDict(OldSpare, kwargs, b.dict)
    BY <2>1 DEF Placed
  <2>5. CASE found # {}
    <3> DEFINE i == CHOOSE j \in found : TRUE
    <3>1. i \in found /\ i \in 1..np /\ found = {i}
      BY <1>1, <2>5
    <3>2. c = IF i \in b.defined THEN [b EXCEPT !.error = "multiple values"]
              ELSE [b EXCEPT !.defined = @ \cup {i}, !.locals[i] = value]
      BY <1>7, <2>5 DEF BindKeyword
    <3> HIDE DEF i
    <3>3. CASE i \in b.defined
      <4>1. c \in Bindings(fn) /\ c.error = "multiple values"
        BY <1>3, <3>2, <3>3 DEF Bindings
      <4>2. i <= Len(args) \/ Old(i) # {}
        BY <2>3, <3>1, <3>3
      <4>3. k \in New(i) /\ Old(i) \subseteq New(i) /\ \A p \in Old(i) : p # k
        <5>1. New(i) = Old(i) \cup {k}
          BY <1>4, <3>1
        <5>2. Old(i) \subseteq 1..(k - 1)
          BY DEF NamedFor
        <5> QED
          BY <1>2, <5>1, <5>2
      <4>4. Displaced(fn, args, kwargs, k)
        BY <3>1, <4>2, <4>3 DEF Displaced
      <4> QED
        BY <4>1, <4>4 DEF BoundSoFar
    <3>4. CASE i \notin b.defined
      <4>1. c = [b EXCEPT !.defined = @ \cup {i}, !.locals[i] = value]
        BY <3>2, <3>4
      <4>2. /\ c.defined = b.defined \cup {i} /\ c.locals = [b.locals EXCEPT ![i] = value]
            /\ c.dict = b.dict /\ c.error = ""
        BY <1>3, <1>7, <4>1 DEF Bindings
      <4>3. c \in Bindings(fn)
        <5>1. [b.locals EXCEPT ![i] = value] \in [1..np -> Value \cup {Unset}]
          BY <1>2, <2>2, <3>1
        <5>2. b.defined \cup {i} \in SUBSET (1..np)
          BY <2>2, <3>1
        <5> QED
          BY <1>3, <4>1, <5>1, <5>2 DEF Bindings
      <4>4. ~(i <= Len(args)) /\ Old(i) = {} /\ New(i) = {k}
        BY <1>4, <2>3, <3>1, <3>4
      <4>5. c.locals[i] = value /\ \A j \in 1..np : j # i => c.locals[j] = b.locals[j]
        BY <2>2, <3>1, <4>2
      <4>6. \A j \in 1..np : j # i => New(j) = Old(j)
        BY <1>4, <3>1
      <4>7. \A j \in 1..np :
              /\ j \in c.defined <=> j <= Len(args) \/ New(j) # {}
              /\ j <= Len(args) => New(j) = {} /\ c.locals[j] = args[j]
              /\ \A p, q \in New(j) : p = q
              /\ \A q \in New(j) : c.locals[j] = kwargs[q][2]
        <5> SUFFICES ASSUME NEW j \in 1..np
                     PROVE  /\ j \in c.defined <=> j <= Len(args) \/ New(j) # {}
                            /\ j <= Len(args) => New(j) = {} /\ c.locals[j] = args[j]
                            /\ \A p, q \in New(j) : p = q
                            /\ \A q \in New(j) : c.locals[j] = kwargs[q][2]
          OBVIOUS
        <5> HIDE DEF New, Old, c, np
        <5>1. CASE j = i
          BY <4>2, <4>4, <4>5, <5>1
        <5>2. CASE j # i
          <6>1. New(j) = Old(j) /\ c.locals[j] = b.locals[j] /\ (j \in c.defined <=> j \in b.defined)
            BY <4>2, <4>5, <4>6, <5>2
          <6>2. /\ j \in b.defined <=> j <= Len(args) \/ Old(j) # {}
                /\ j <= Len(args) => Old(j) = {} /\ b.locals[j] = args[j]
                /\ \A p, q \in Old(j) : p = q
                /\ \A q \in Old(j) : b.locals[j] = kwargs[q][2]
            BY <2>3
          <6> QED
            BY ONLY <6>1, <6>2
        <5> QED
          BY <5>1, <5>2
      <4>8. NewSpare = OldSpare
        BY <1>5, <2>5
      <4>9. Placed(fn, args, kwargs, k, c)
        BY <2>4, <4>2, <4>7, <4>8 DEF Placed
      <4> QED
        BY <4>2, <4>3, <4>9 DEF BoundSoFar
    <3> QED
      BY <3>3, <3>4
  <2>6. CASE found = {}
    <3>1. \A i \in 1..np : New(i) = Old(i)
      BY <1>4, <2>6
    <3>2. NewSpare = OldSpare \cup {k}
      BY <1>5, <2>6
    <3>3. CASE ~fn.kwargs
      <4>1. c = [b EXCEPT !.error = "unexpected keyword"]
        BY <1>7, <2>6, <3>3 DEF BindKeyword
      <4>2. c \in Bindings(fn) /\ c.error = "unexpected keyword"
        BY <1>3, <4>1 DEF Bindings
      <4>3. Displaced(fn, args, kwargs, k)
        BY <3>2, <3>3 DEF Displaced
      <4> QED
        BY <4>2, <4>3 DEF BoundSoFar
    <3>4. CASE fn.kwargs
      <4> DEFINE d == DictSet(b.dict, name, value)
      <4>1. c = [b EXCEPT !.dict = d]
        <5>1. ~(b.error # "") /\ ~(b.error = "" /\ found # {}) /\ ~(b.error = "" /\ found = {} /\ ~fn.kwargs)
          BY <1>7, <2>6, <3>4
        <5> QED
          BY <5>1 DEF BindKeyword
      <4>2. d \in Seq(Keyword) /\ MeantDict(NewSpare, kwargs, d)
        BY <1>5, <2>2, <2>4, <3>2, DictSetMeant
      <4> HIDE DEF d
      <4>3. c.defined = b.defined /\ c.locals = b.locals /\ c.dict = d /\ c.error = ""
        BY <1>3, <1>7, <4>1 DEF Bindings
      <4>4. c \in Bindings(fn)
        BY <1>3, <4>1, <4>2 DEF Bindings
      <4>5. \A j \in 1..np :
              /\ j \in c.defined <=> j <= Len(args) \/ New(j) # {}
              /\ j <= Len(args) => New(j) = {} /\ c.locals[j] = args[j]
              /\ \A p, q \in New(j) : p = q
              /\ \A q \in New(j) : c.locals[j] = kwargs[q][2]
        <5> SUFFICES ASSUME NEW j \in 1..np
                     PROVE  /\ j \in c.defined <=> j <= Len(args) \/ New(j) # {}
                            /\ j <= Len(args) => New(j) = {} /\ c.locals[j] = args[j]
                            /\ \A p, q \in New(j) : p = q
                            /\ \A q \in New(j) : c.locals[j] = kwargs[q][2]
          OBVIOUS
        <5> HIDE DEF New, Old, c, np
        <5>1. New(j) = Old(j) /\ c.locals[j] = b.locals[j] /\ (j \in c.defined <=> j \in b.defined)
          BY <3>1, <4>3
        <5>2. /\ j \in b.defined <=> j <= Len(args) \/ Old(j) # {}
              /\ j <= Len(args) => Old(j) = {} /\ b.locals[j] = args[j]
              /\ \A p, q \in Old(j) : p = q
              /\ \A q \in Old(j) : b.locals[j] = kwargs[q][2]
          BY <2>3
        <5> QED
          BY ONLY <5>1, <5>2
      <4>6. Placed(fn, args, kwargs, k, c)
        BY <3>4, <4>2, <4>3, <4>5 DEF Placed
      <4> QED
        BY <4>3, <4>4, <4>6 DEF BoundSoFar
    <3> QED
      BY <3>3, <3>4
  <2> QED
    BY <2>5, <2>6
<1> QED
  BY <1>6, <1>7

\* All of the loop.
LEMMA NamesBound ==
  ASSUME NEW fn, Callable(fn), NEW args \in Seq(Value), NEW kwargs \in Seq(Keyword)
  PROVE  BoundSoFar(fn, args, kwargs, Len(kwargs), BindNames(fn, args, kwargs))
<1> DEFINE np    == NParams(fn)
           n     == Len(kwargs)
           start == [locals  |-> [i \in 1..np |-> IF i <= Len(args) THEN args[i] ELSE Unset],
                     defined |-> ByPosition(fn, args), dict |-> <<>>, error |-> ""]
           B       == Bindings(fn)
           F       == [p \in (1..n) \X B |-> BindKeyword(fn, p[2], kwargs[p[1]])]
           Step(w) == [k \in 0..n |-> IF k = 0 THEN start ELSE BindKeyword(fn, w[k - 1], kwargs[k])]
<1>1. np \in Nat /\ n \in Nat /\ Len(args) \in Nat /\ \A i \in 1..Len(args) : args[i] \in Value
  BY ParametersAre
<1>2. start \in B /\ start.error = "" /\ BoundSoFar(fn, args, kwargs, 0, start)
  <2>1. [i \in 1..np |-> IF i <= Len(args) THEN args[i] ELSE Unset] \in [1..np -> Value \cup {Unset}]
    BY <1>1
  <2>2. ByPosition(fn, args) \in SUBSET (1..np) /\ \A i \in 1..np : i \in ByPosition(fn, args) <=> i <= Len(args)
    BY <1>1 DEF ByPosition
  <2>3. start \in B
    BY <2>1, <2>2 DEF Bindings
  <2>4. \A i : NamedFor(fn, kwargs, 0, i) = {}
    BY DEF NamedFor
  <2>5. SpareOf(fn, kwargs, 0) = {}
    BY DEF SpareOf
  <2>6. MeantDict({}, kwargs, <<>>)
    <3>1. DOMAIN <<>> = 1..0 /\ MeantPairs(0, {}, kwargs, <<>>)
      BY DEF MeantPairs
    <3> QED
      BY <3>1, MeantIs
  <2>7. \A i \in 1..np : i <= Len(args) => start.locals[i] = args[i]
    OBVIOUS
  <2>8. start.defined = ByPosition(fn, args) /\ start.dict = <<>> /\ start.error = ""
    OBVIOUS
  <2> HIDE DEF start
  <2>9. \A i \in 1..np :
          /\ i \in start.defined <=> i <= Len(args) \/ NamedFor(fn, kwargs, 0, i) # {}
          /\ i <= Len(args) => NamedFor(fn, kwargs, 0, i) = {} /\ start.locals[i] = args[i]
          /\ \A p, q \in NamedFor(fn, kwargs, 0, i) : p = q
          /\ \A q \in NamedFor(fn, kwargs, 0, i) : start.locals[i] = kwargs[q][2]
    BY <2>2, <2>4, <2>7, <2>8
  <2>10. Placed(fn, args, kwargs, 0, start)
    BY <2>5, <2>6, <2>8, <2>9 DEF Placed
  <2> QED
    BY <2>3, <2>8, <2>10 DEF BoundSoFar
<1>3. BindNames(fn, args, kwargs) = (CHOOSE w : w = Step(w))[n]
  BY DEF BindNames
<1>4. \A k \in 1..n, b \in B : BindKeyword(fn, b, kwargs[k]) \in B
  <2> SUFFICES ASSUME NEW k \in 1..n, NEW b \in B PROVE BindKeyword(fn, b, kwargs[k]) \in B
    OBVIOUS
  <2>1. kwargs[k] \in Keyword /\ kwargs[k][1] \in STRING /\ kwargs[k][2] \in Value
    BY DEF Keyword
  <2> QED
    BY <2>1, BindKeywordType
<1> HIDE DEF start, B
<1>5. PICK f : f \in [0..n -> B] /\ f[0] = start /\ \A k \in 1..n : f[k] = F[<<k, f[k - 1]>>]
  <2>1. F \in [(1..n) \X B -> B]
    BY <1>4
  <2> HIDE DEF F, n, Step
  <2>2. \E f : Solution(f, n, B, start, F)
    BY <1>1, <1>2, <2>1, Recursion
  <2> QED
    BY <2>2 DEF Solution
<1>6. f = Step(f)
  <2>1. ASSUME NEW k \in 0..n PROVE f[k] = IF k = 0 THEN start ELSE BindKeyword(fn, f[k - 1], kwargs[k])
    <3>1. CASE k = 0
      BY <1>5, <3>1
    <3>2. CASE k # 0
      <4>1. k \in 1..n /\ k - 1 \in 0..n /\ f[k - 1] \in B
        BY <1>1, <1>5, <3>2
      <4>2. F[<<k, f[k - 1]>>] = BindKeyword(fn, f[k - 1], kwargs[k])
        BY <4>1
      <4> QED
        BY <1>5, <3>2, <4>1, <4>2
    <3> QED
      BY <3>1, <3>2
  <2>2. f = [k \in 0..n |-> f[k]]
    BY <1>5
  <2> QED
    BY <2>1, <2>2
<1>7. PICK w : BindNames(fn, args, kwargs) = w[n] /\ w = Step(w)
  <2> HIDE DEF Step, n
  <2>1. (CHOOSE w : w = Step(w)) = Step(CHOOSE w : w = Step(w))
    BY <1>6
  <2> QED
    BY <1>3, <2>1
<1>8. w[0] = start /\ \A k \in 1..n : w[k] = BindKeyword(fn, w[k - 1], kwargs[k])
  <2>1. \A k \in 0..n : Step(w)[k] = IF k = 0 THEN start ELSE BindKeyword(fn, w[k - 1], kwargs[k])
    OBVIOUS
  <2> HIDE DEF Step
  <2>2. \A k \in 0..n : w[k] = IF k = 0 THEN start ELSE BindKeyword(fn, w[k - 1], kwargs[k])
    BY <1>7, <2>1
  <2>3. 0 \in 0..n /\ \A k \in 1..n : k \in 0..n /\ k # 0
    BY <1>1
  <2> QED
    BY <2>2, <2>3
<1> DEFINE T == {k \in 0..n : BoundSoFar(fn, args, kwargs, k, w[k])}
<1>9. 0 \in T
  <2> HIDE DEF n
  <2>1. w[0] = start
    BY <1>8
  <2>2. BoundSoFar(fn, args, kwargs, 0, start)
    BY <1>2
  <2>3. BoundSoFar(fn, args, kwargs, 0, w[0])
    BY ONLY <2>1, <2>2
  <2>4. 0 \in 0..n
    BY <1>1
  <2> QED
    BY <2>3, <2>4
<1>10. ASSUME NEW k \in 1..n, k - 1 \in T PROVE k \in T
  <2>1. BoundSoFar(fn, args, kwargs, k, BindKeyword(fn, w[k - 1], kwargs[k]))
    BY <1>10, KeywordBound
  <2>2. BoundSoFar(fn, args, kwargs, k, w[k])
    BY <1>8, <2>1
  <2> QED
    BY <2>2
<1> HIDE DEF T
<1>11. 0..n \subseteq T
  BY <1>1, <1>9, <1>10, BoundedInduction
<1>12. n \in T
  <2> HIDE DEF n
  <2> QED
    BY <1>1, <1>11
<1> QED
  BY <1>7, <1>12 DEF T

(***************************************************************************)
(* Calls: what is meant.                                                   *)
(***************************************************************************)

\* How many arguments are for a parameter: one by position, or one for each of its names.
Counted(fn, args, kwargs, i) ==
  LET c     == Claims(fn, args, kwargs, i)
      named == NamedFor(fn, kwargs, Len(kwargs), i)
  IN  /\ Cardinality(c) = 0 <=> ~(i <= Len(args)) /\ named = {}
      /\ Cardinality(c) = 1 <=> \/ i <= Len(args) /\ named = {}
                                \/ ~(i <= Len(args)) /\ \E q : named = {q}
LEMMA ClaimsAre ==
  ASSUME NEW fn, Callable(fn), NEW args \in Seq(Value), NEW kwargs \in Seq(Keyword), NEW i \in 1..NParams(fn)
  PROVE  LET c     == Claims(fn, args, kwargs, i)
             named == NamedFor(fn, kwargs, Len(kwargs), i)
         IN  /\ Counted(fn, args, kwargs, i)
             /\ c # {} <=> i <= Len(args) \/ named # {}
             /\ named = {q \in DOMAIN kwargs : kwargs[q][1] = fn.params[i]}
<1> DEFINE c     == Claims(fn, args, kwargs, i)
           n     == Len(kwargs)
           named == NamedFor(fn, kwargs, n, i)
           byPosition == {<<"position", p>> : p \in {i} \cap DOMAIN args}
           byName     == {<<"keyword", q>> : q \in named}
<1>1. /\ n \in Nat /\ DOMAIN kwargs = 1..n /\ DOMAIN args = 1..Len(args) /\ Len(args) \in Nat
      /\ i \in Nat /\ i >= 1 /\ named \subseteq 1..n
  <2>1. NParams(fn) \in Nat
    BY ParametersAre
  <2> QED
    BY <2>1, LenProperties DEF NamedFor
<1>2. named = {q \in DOMAIN kwargs : kwargs[q][1] = fn.params[i]}
  BY <1>1 DEF NamedFor
<1>3. c = byPosition \cup byName
  BY <1>2 DEF Claims
<1> HIDE DEF c, named, n
<1>4. byPosition = IF i <= Len(args) THEN {<<"position", i>>} ELSE {}
  <2>1. {i} \cap DOMAIN args = IF i <= Len(args) THEN {i} ELSE {}
    BY <1>1
  <2> QED
    BY <2>1
<1>5. IsFiniteSet(c)
  <2> DEFINE f == [x \in c |-> IF x[1] = "position" THEN 0 ELSE x[2]]
  <2>1. \A x \in c : x = <<"position", i>> \/ \E q \in named : x = <<"keyword", q>>
    BY <1>3, <1>4
  <2>2. f \in [c -> 0..n]
    <3>1. ASSUME NEW x \in c PROVE (IF x[1] = "position" THEN 0 ELSE x[2]) \in 0..n
      <4>1. CASE x = <<"position", i>>
        BY <1>1, <4>1
      <4>2. CASE \E q \in named : x = <<"keyword", q>>
        BY <1>1, <4>2
      <4> QED
        BY <2>1, <4>1, <4>2
    <3> QED
      BY <3>1
  <2>3. ASSUME NEW x \in c, NEW y \in c, f[x] = f[y] PROVE x = y
    <3>1. \A z \in c : f[z] = IF z[1] = "position" THEN 0 ELSE z[2]
      OBVIOUS
    <3> HIDE DEF f
    <3>2. \A q \in named : q # 0
      BY <1>1
    <3>3. \A z \in c : \/ z = <<"position", i>> /\ f[z] = 0
                       \/ \E q \in named : z = <<"keyword", q>> /\ f[z] = q
      <4> SUFFICES ASSUME NEW z \in c
                   PROVE  \/ z = <<"position", i>> /\ f[z] = 0
                          \/ \E q \in named : z = <<"keyword", q>> /\ f[z] = q
        OBVIOUS
      <4>1. CASE z = <<"position", i>>
        <5>1. z[1] = "position"
          BY <4>1
        <5> QED
          BY <3>1, <4>1, <5>1
      <4>2. CASE \E q \in named : z = <<"keyword", q>>
        <5>1. PICK q \in named : z = <<"keyword", q>>
          BY <4>2
        <5>2. z[1] = "keyword" /\ z[2] = q
          BY <5>1
        <5>3. f[z] = q
          BY <3>1, <5>2
        <5> QED
          BY <5>1, <5>3
      <4> QED
        BY <2>1, <4>1, <4>2
    <3>4. CASE x = <<"position", i>> /\ f[x] = 0
      BY <2>3, <3>2, <3>3, <3>4
    <3>5. CASE \E q \in named : x = <<"keyword", q>> /\ f[x] = q
      <4>1. PICK q \in named : x = <<"keyword", q>> /\ f[x] = q
        BY <3>5
      <4>2. f[y] = q /\ q # 0
        BY <2>3, <3>2, <4>1
      <4>3. y = <<"keyword", q>>
        BY <3>3, <4>2
      <4> QED
        BY <4>1, <4>3
    <3> QED
      BY <3>3, <3>4, <3>5
  <2> HIDE DEF f
  <2>4. f \in Injection(c, 0..n)
    BY <2>2, <2>3 DEF Injection, IsInjective
  <2>5. IsFiniteSet(0..n)
    BY <1>1, FS_Interval
  <2> QED
    BY <2>4, <2>5, FS_Injection
<1>6. c = {} <=> ~(i <= Len(args)) /\ named = {}
  BY <1>3, <1>4
<1>7. Cardinality(c) = 0 <=> c = {}
  BY <1>5, FS_EmptySet
<1>8. Cardinality(c) = 1 <=> \E x : c = {x}
  BY <1>5, FS_Singleton
<1>9. (\E x : c = {x}) <=> \/ i <= Len(args) /\ named = {}
                           \/ ~(i <= Len(args)) /\ \E q : named = {q}
  <2>1. CASE i <= Len(args)
    <3>1. <<"position", i>> \in c /\ \A q \in named : <<"keyword", q>> \in c
      BY <1>3, <1>4, <2>1
    <3>2. named = {} => c = {<<"position", i>>}
      BY <1>3, <1>4, <2>1
    <3>3. \A q : <<"keyword", q>> # <<"position", i>>
      OBVIOUS
    <3> QED
      BY <2>1, <3>1, <3>2, <3>3
  <2>2. CASE ~(i <= Len(args))
    <3>1. c = byName
      BY <1>3, <1>4, <2>2
    <3>2. \A q : named = {q} => c = {<<"keyword", q>>}
      BY <3>1
    <3>3. ASSUME NEW x, c = {x} PROVE \E q : named = {q}
      <4>1. PICK q \in named : x = <<"keyword", q>>
        BY <3>1, <3>3
      <4>2. ASSUME NEW p \in named PROVE p = q
        <5>1. <<"keyword", p>> \in c
          BY <3>1
        <5> QED
          BY <3>3, <4>1, <5>1
      <4>3. named = {q}
        BY <4>1, <4>2
      <4> QED
        BY <4>3
    <3> QED
      BY <2>2, <3>2, <3>3
  <2> QED
    BY <2>1, <2>2
<1>10. Counted(fn, args, kwargs, i)
  BY <1>6, <1>7, <1>8, <1>9 DEF Counted, c, named, n
<1> QED
  BY <1>2, <1>6, <1>10 DEF c, named, n

\* When a call is proper: *args and **kwargs are there if they are needed, and a parameter at a time.
RoomByPosition(fn, args) == Len(args) > NParams(fn) => fn.varargs
RoomByName(fn, kwargs)   == Unclaimed(fn, kwargs) # {} => fn.kwargs
Filled(fn, args, kwargs, i) ==
  LET named == NamedFor(fn, kwargs, Len(kwargs), i)
  IN  \/ i <= Len(args) /\ named = {}
      \/ ~(i <= Len(args)) /\ \E q : named = {q}
      \/ ~(i <= Len(args)) /\ named = {} /\ i >= FirstDefault(fn)
LEMMA ProperIs ==
  ASSUME NEW fn, Callable(fn), NEW args \in Seq(Value), NEW kwargs \in Seq(Keyword)
  PROVE  Proper(fn, args, kwargs) <=>
           RoomByPosition(fn, args) /\ RoomByName(fn, kwargs) /\ \A i \in 1..NParams(fn) : Filled(fn, args, kwargs, i)
<1> DEFINE Claimed(i) == LET c == Cardinality(Claims(fn, args, kwargs, i))
                         IN  c = 1 \/ (c = 0 /\ Optional(fn, i))
<1>1. /\ NParams(fn) \in Nat /\ Len(fn.defaults) \in Nat /\ DOMAIN fn.params = 1..NParams(fn)
  BY ParametersAre DEF Callable
<1>2. ASSUME NEW i \in 1..NParams(fn) PROVE Claimed(i) <=> Filled(fn, args, kwargs, i)
  <2>1. Optional(fn, i) <=> i >= FirstDefault(fn)
    BY <1>1 DEF Optional, FirstDefault
  <2> DEFINE c     == Claims(fn, args, kwargs, i)
             named == NamedFor(fn, kwargs, Len(kwargs), i)
  <2>2. /\ Cardinality(c) = 0 <=> ~(i <= Len(args)) /\ named = {}
        /\ Cardinality(c) = 1 <=> \/ i <= Len(args) /\ named = {}
                                  \/ ~(i <= Len(args)) /\ \E q : named = {q}
    <3>1. Counted(fn, args, kwargs, i)
      <4> HIDE DEF Claimed
      <4> QED
        BY ClaimsAre
    <3> QED
      BY <3>1 DEF Counted
  <2>3. Claimed(i) <=> Cardinality(c) = 1 \/ (Cardinality(c) = 0 /\ Optional(fn, i))
    OBVIOUS
  <2>4. Filled(fn, args, kwargs, i) <=> \/ i <= Len(args) /\ named = {}
                                        \/ ~(i <= Len(args)) /\ \E q : named = {q}
                                        \/ ~(i <= Len(args)) /\ named = {} /\ i >= FirstDefault(fn)
    BY DEF Filled
  <2> HIDE DEF c, named, Claimed
  <2> QED
    BY <2>1, <2>2, <2>3, <2>4
<1>3. Proper(fn, args, kwargs) <=>
        RoomByPosition(fn, args) /\ RoomByName(fn, kwargs) /\ \A i \in DOMAIN fn.params : Claimed(i)
  BY DEF Proper, RoomByPosition, RoomByName
<1> HIDE DEF Claimed
<1> QED
  BY <1>1, <1>2, <1>3

\* The keyword arguments for no parameter, after the last.
LEMMA SpareAll ==
  ASSUME NEW fn, NEW kwargs \in Seq(Keyword)
  PROVE  SpareOf(fn, kwargs, Len(kwargs)) = Unclaimed(fn, kwargs)
<1>1. Unclaimed(fn, kwargs) \subseteq 1..Len(kwargs)
  BY DEF Unclaimed
<1> QED
  BY <1>1 DEF SpareOf

\* An argument that has no place makes the call improper.
LEMMA DisplacedIs ==
  ASSUME NEW fn, Callable(fn), NEW args \in Seq(Value), NEW kwargs \in Seq(Keyword),
         Displaced(fn, args, kwargs, Len(kwargs))
  PROVE  ~Proper(fn, args, kwargs)
<1>1. CASE SpareOf(fn, kwargs, Len(kwargs)) # {} /\ ~fn.kwargs
  BY <1>1, ProperIs, SpareAll DEF RoomByName
<1>2. CASE \E i \in 1..NParams(fn) : \E q \in NamedFor(fn, kwargs, Len(kwargs), i) :
             i <= Len(args) \/ \E p \in NamedFor(fn, kwargs, Len(kwargs), i) : p # q
  <2>1. PICK i \in 1..NParams(fn) : \E q \in NamedFor(fn, kwargs, Len(kwargs), i) :
               i <= Len(args) \/ \E p \in NamedFor(fn, kwargs, Len(kwargs), i) : p # q
    BY <1>2
  <2>2. ~Filled(fn, args, kwargs, i)
    BY <2>1 DEF Filled
  <2> QED
    BY <2>2, ProperIs
<1> QED
  BY <1>1, <1>2 DEF Displaced

\* The ordinary parameters, once the defaults are in.
Settled(fn, args, kwargs, b) == b.error = "" /\ Placed(fn, args, kwargs, Len(kwargs), b)
LEMMA DefaultsBound ==
  ASSUME NEW fn, Callable(fn), NEW args \in Seq(Value), NEW kwargs \in Seq(Keyword), NEW b \in Bindings(fn),
         Settled(fn, args, kwargs, b), RoomByPosition(fn, args)
  PROVE  LET final == BindDefaults(fn, args, b)
         IN  IF final.error = ""
             THEN /\ Proper(fn, args, kwargs)
                  /\ final.locals \in [1..NParams(fn) -> Value] /\ final.dict = b.dict
                  /\ \A i \in 1..NParams(fn) : final.locals[i] = Meant(fn, args, kwargs, i)
             ELSE ~Proper(fn, args, kwargs)
<1> DEFINE np    == NParams(fn)
           n     == Len(kwargs)
           final == BindDefaults(fn, args, b)
           Named(i) == NamedFor(fn, kwargs, n, i)
           first == FirstDefault(fn)
           m     == Len(fn.defaults)
           here  == Len(args)
<1>1. /\ n \in Nat /\ DOMAIN args = 1..here /\ DOMAIN kwargs = 1..n
      /\ \A i \in 1..here : args[i] \in Value
  OBVIOUS
<1>a. np \in Nat /\ m \in Nat /\ here \in Nat /\ m <= np /\ first = np - m + 1
  <2>1. np \in Nat /\ first = np - m + 1
    BY ParametersAre DEF FirstDefault
  <2>2. fn.defaults \in Seq(Value) /\ m <= np
    BY DEF Callable, NParams
  <2> QED
    BY <2>1, <2>2
<1>b. \A i \in 1..m : fn.defaults[i] \in Value
  BY DEF Callable
<1>2. /\ DOMAIN b.locals = 1..np /\ b.locals \in [1..np -> Value \cup {Unset}] /\ b.defined \subseteq 1..np
      /\ b = [locals |-> b.locals, defined |-> b.defined, dict |-> b.dict, error |-> b.error] /\ b.error = ""
  BY DEF Bindings, Settled
<1>3. \A i \in 1..np :
        /\ i \in b.defined <=> i <= here \/ Named(i) # {}
        /\ i <= here => Named(i) = {} /\ b.locals[i] = args[i]
        /\ \A p, q \in Named(i) : p = q
        /\ \A q \in Named(i) : b.locals[i] = kwargs[q][2]
  BY DEF Settled, Placed
<1>4. RoomByName(fn, kwargs)
  BY SpareAll DEF Settled, Placed, RoomByName
<1>5. ASSUME NEW i \in 1..np PROVE /\ Claims(fn, args, kwargs, i) # {} <=> i <= here \/ Named(i) # {}
                                   /\ Named(i) = {q \in DOMAIN kwargs : kwargs[q][1] = fn.params[i]}
  BY ClaimsAre
<1>6. \A i \in 1..np : \A q \in Named(i) : kwargs[q][2] \in Value
  <2>1. \A q \in 1..n : kwargs[q] \in STRING \X Value
    BY DEF Keyword
  <2>2. \A q \in 1..n : kwargs[q][2] \in Value
    BY <2>1
  <2> QED
    BY <2>2 DEF NamedFor
<1> HIDE DEF np, n, Named, first, m, here
\* what is meant, of a parameter that has an argument
<1>7. ASSUME NEW i \in 1..np, i \in b.defined
      PROVE  b.locals[i] = Meant(fn, args, kwargs, i) /\ b.locals[i] \in Value /\ Filled(fn, args, kwargs, i)
  <2>1. CASE i <= here
    <3>1. i \in DOMAIN args
      BY <1>1, <1>a, <2>1
    <3>2. b.locals[i] = args[i] /\ Named(i) = {}
      BY <1>3, <2>1
    <3> QED
      BY <1>1, <2>1, <3>1, <3>2 DEF Meant, Filled, Named, n, here
  <2>2. CASE ~(i <= here)
    <3>1. PICK q \in Named(i) : TRUE
      BY <1>3, <1>7, <2>2
    <3>2. Named(i) = {q}
      BY <1>3, <3>1
    <3>3. i \notin DOMAIN args /\ Claims(fn, args, kwargs, i) # {}
      BY <1>1, <1>a, <1>5, <2>2, <3>1
    <3>4. (CHOOSE o \in DOMAIN kwargs : kwargs[o][1] = fn.params[i]) = q
      <4>1. {o \in DOMAIN kwargs : kwargs[o][1] = fn.params[i]} = {q}
        BY <1>5, <3>2
      <4> QED
        BY <4>1
    <3>5. Meant(fn, args, kwargs, i) = kwargs[q][2]
      BY <3>3, <3>4 DEF Meant
    <3>6. b.locals[i] = kwargs[q][2]
      BY <1>3, <3>1
    <3>7. kwargs[q][2] \in Value
      BY <1>6, <3>1
    <3>8. Filled(fn, args, kwargs, i)
      BY <2>2, <3>2 DEF Filled, Named, n, here
    <3> QED
      BY <3>5, <3>6, <3>7, <3>8
  <2> QED
    BY <2>1, <2>2
\* and of one that has none
<1>8. ASSUME NEW i \in 1..np, i \notin b.defined
      PROVE  /\ ~(i <= here) /\ (Filled(fn, args, kwargs, i) <=> i >= first)
             /\ Meant(fn, args, kwargs, i) = fn.defaults[i - first + 1]
             /\ i >= first => fn.defaults[i - first + 1] \in Value
  <2>1. ~(i <= here) /\ Named(i) = {}
    BY <1>3, <1>8
  <2>2. i \notin DOMAIN args /\ ~(Claims(fn, args, kwargs, i) # {})
    BY <1>1, <1>a, <1>5, <2>1
  <2>3. Meant(fn, args, kwargs, i) = fn.defaults[i - (np - m)]
    BY <2>2 DEF Meant, np, m
  <2>4. i - (np - m) = i - first + 1
    BY <1>a
  <2>5. Filled(fn, args, kwargs, i) <=> i >= first
    BY <2>1 DEF Filled, Named, n, first, here
  <2>6. i >= first => i - first + 1 \in 1..m
    BY <1>a
  <2> QED
    BY <1>b, <2>1, <2>3, <2>4, <2>5, <2>6
<1>9. CASE here >= np
  <2>1. final = b
    BY <1>9 DEF BindDefaults, np, here
  <2>2. \A i \in 1..np : i \in b.defined
    BY <1>a, <1>3, <1>9
  <2>3. \A i \in 1..np : b.locals[i] = Meant(fn, args, kwargs, i) /\ b.locals[i] \in Value /\ Filled(fn, args, kwargs, i)
    BY <1>7, <2>2
  <2>4. Proper(fn, args, kwargs)
    BY <1>4, <2>3, ProperIs DEF np
  <2>5. b.locals \in [1..np -> Value]
    BY <1>2, <2>3
  <2> HIDE DEF final
  <2>6. final.error = "" /\ final.dict = b.dict /\ final.locals = b.locals
    BY <1>2, <2>1
  <2> QED
    BY <2>3, <2>4, <2>5, <2>6 DEF np, final
<1>10. CASE ~(here >= np) /\ \E i \in (here + 1)..(first - 1) : i \notin b.defined
  <2>1. final = [b EXCEPT !.error = "missing argument"]
    BY <1>10 DEF BindDefaults, np, here, first
  <2>2. final.error = "missing argument"
    BY <1>2, <2>1
  <2>3. PICK i \in (here + 1)..(first - 1) : i \notin b.defined
    BY <1>10
  <2>4. i \in 1..np /\ ~(i >= first)
    BY <1>a, <2>3
  <2>5. ~Filled(fn, args, kwargs, i)
    BY <1>8, <2>3, <2>4
  <2>6. ~Proper(fn, args, kwargs)
    BY <2>4, <2>5, ProperIs DEF np
  <2> QED
    BY <2>2, <2>6
<1>11. CASE ~(here >= np) /\ ~ \E i \in (here + 1)..(first - 1) : i \notin b.defined
  <2> DEFINE locals == [i \in 1..np |-> IF i \in b.defined \/ i <= here THEN b.locals[i] ELSE fn.defaults[i - first + 1]]
  <2>1. final = [b EXCEPT !.locals = [i \in DOMAIN @ |-> IF i \in b.defined \/ i <= here THEN @[i]
                                                         ELSE fn.defaults[i - first + 1]]]
    BY <1>11 DEF BindDefaults, np, here, first
  <2>2. final.error = "" /\ final.dict = b.dict /\ final.locals = locals
    BY <1>2, <2>1
  <2>3. ASSUME NEW i \in 1..np
        PROVE  locals[i] = Meant(fn, args, kwargs, i) /\ locals[i] \in Value /\ Filled(fn, args, kwargs, i)
    <3>0. locals[i] = IF i \in b.defined \/ i <= here THEN b.locals[i] ELSE fn.defaults[i - first + 1]
      OBVIOUS
    <3> HIDE DEF locals
    <3>1. CASE i \in b.defined
      BY <1>7, <3>0, <3>1
    <3>2. CASE i \notin b.defined
      <4>1. ~(i <= here)
        BY <1>8, <3>2
      <4>2. i >= first
        BY <1>a, <1>11, <3>2, <4>1
      <4> QED
        BY <1>8, <3>0, <3>2, <4>1, <4>2
    <3> QED
      BY <3>1, <3>2
  <2>4. Proper(fn, args, kwargs)
    <3>1. \A i \in 1..NParams(fn) : Filled(fn, args, kwargs, i)
      BY <2>3 DEF np
    <3> QED
      BY <1>4, <3>1, ProperIs
  <2>5. locals \in [1..np -> Value]
    BY <2>3
  <2> HIDE DEF locals, final
  <2>6. final.locals \in [1..np -> Value] /\ \A i \in 1..np : final.locals[i] = Meant(fn, args, kwargs, i)
    BY <2>2, <2>3, <2>5
  <2> QED
    BY <2>2, <2>4, <2>6 DEF np, final
<1> QED
  BY <1>9, <1>10, <1>11

\* The places of *args and **kwargs, after the ordinary parameters.
LEMMA SlotsFilled ==
  ASSUME NEW fn, Callable(fn), NEW locals \in [1..NParams(fn) -> Value], NEW rest \in Seq(Value), NEW dict \in Seq(Keyword)
  PROVE  LET all == locals \o (IF fn.varargs THEN <<rest>> ELSE <<>>) \o (IF fn.kwargs THEN <<dict>> ELSE <<>>)
         IN  /\ Len(all) = Slots(fn)
             /\ \A i \in 1..NParams(fn) : all[i] = locals[i]
             /\ fn.varargs => all[NParams(fn) + 1] = rest
             /\ fn.kwargs => all[Slots(fn)] = dict
<1> DEFINE np == NParams(fn)
           U  == Value \cup Seq(Value) \cup Seq(Keyword)
           v  == IF fn.varargs THEN <<rest>> ELSE <<>>
           d  == IF fn.kwargs THEN <<dict>> ELSE <<>>
<1>1. np \in Nat /\ fn.varargs \in BOOLEAN /\ fn.kwargs \in BOOLEAN
  BY ParametersAre DEF Callable
<1>2. locals \in Seq(U) /\ Len(locals) = np
  <2>1. locals \in [1..np -> U]
    OBVIOUS
  <2> HIDE DEF np, U
  <2> QED
    BY <1>1, <2>1
<1>3. v \in Seq(U) /\ Len(v) = (IF fn.varargs THEN 1 ELSE 0) /\ (fn.varargs => v[1] = rest)
  <2>1. rest \in U
    OBVIOUS
  <2> HIDE DEF U
  <2> QED
    BY <2>1
<1>4. d \in Seq(U) /\ Len(d) = (IF fn.kwargs THEN 1 ELSE 0) /\ (fn.kwargs => d[1] = dict)
  <2>1. dict \in U
    OBVIOUS
  <2> HIDE DEF U
  <2> QED
    BY <2>1
<1> HIDE DEF np, U, v, d
<1>5. /\ locals \o v \in Seq(U) /\ Len(locals \o v) = np + Len(v)
      /\ \A i \in 1..(np + Len(v)) : (locals \o v)[i] = IF i <= np THEN locals[i] ELSE v[i - np]
  BY <1>2, <1>3, ConcatProperties
<1> DEFINE w == locals \o v
<1>6. /\ Len(w \o d) = Len(w) + Len(d)
      /\ \A i \in 1..(Len(w) + Len(d)) : (w \o d)[i] = IF i <= Len(w) THEN w[i] ELSE d[i - Len(w)]
  <2>1. w \in Seq(U)
    BY <1>5
  <2> HIDE DEF w
  <2> QED
    BY <1>4, <2>1, ConcatProperties
<1>7. Slots(fn) = np + Len(v) + Len(d)
  BY <1>1, <1>3, <1>4 DEF Slots, np
<1>8. Len(w) = np + Len(v) /\ \A i \in 1..(np + Len(v)) : w[i] = IF i <= np THEN locals[i] ELSE v[i - np]
  BY <1>5
<1> HIDE DEF w
<1>9. Len(w \o d) = Slots(fn)
  BY <1>1, <1>3, <1>4, <1>6, <1>7, <1>8
<1>10. ASSUME NEW i \in 1..np PROVE (w \o d)[i] = locals[i]
  <2>1. i \in 1..(Len(w) + Len(d)) /\ i <= Len(w) /\ i \in 1..(np + Len(v)) /\ i <= np
    BY <1>1, <1>3, <1>4, <1>8
  <2> QED
    BY <1>6, <1>8, <2>1
<1>11. ASSUME fn.varargs PROVE (w \o d)[np + 1] = rest
  <2>1. /\ np + 1 \in 1..(Len(w) + Len(d)) /\ np + 1 <= Len(w) /\ np + 1 \in 1..(np + Len(v)) /\ ~(np + 1 <= np)
        /\ (np + 1) - np = 1
    BY <1>1, <1>3, <1>4, <1>8, <1>11
  <2>2. (w \o d)[np + 1] = w[np + 1]
    BY <1>6, <2>1
  <2>3. w[np + 1] = v[1]
    BY <1>8, <2>1
  <2> QED
    BY <1>3, <1>11, <2>2, <2>3
<1>12. ASSUME fn.kwargs PROVE (w \o d)[Slots(fn)] = dict
  <2>1. /\ Slots(fn) \in 1..(Len(w) + Len(d)) /\ ~(Slots(fn) <= Len(w)) /\ Slots(fn) - Len(w) = 1
    BY <1>1, <1>3, <1>4, <1>7, <1>8, <1>12
  <2>2. (w \o d)[Slots(fn)] = d[1]
    BY <1>6, <2>1
  <2> QED
    BY <1>4, <1>12, <2>2
<1> QED
  BY <1>9, <1>10, <1>11, <1>12 DEF np, v, d, w

\* setArgs does what is meant.
LEMMA SetArgsIs ==
  ASSUME NEW fn, Callable(fn), NEW args \in Seq(Value), NEW kwargs \in Seq(Keyword)
  PROVE  BoundAs(fn, args, kwargs, SetArgs(fn, args, kwargs))
<1> DEFINE np    == NParams(fn)
           named == BindNames(fn, args, kwargs)
           final == IF named.error = "" THEN BindDefaults(fn, args, named) ELSE named
           rest  == SubSeq(args, np + 1, Len(args))
<1>0. SUFFICES ASSUME NEW b, b = SetArgs(fn, args, kwargs) PROVE BoundAs(fn, args, kwargs, b)
  OBVIOUS
<1>1. np \in Nat /\ Len(args) \in Nat /\ Len(kwargs) \in Nat
  BY ParametersAre
<1>2. named \in Bindings(fn) /\ IF named.error = "" THEN Placed(fn, args, kwargs, Len(kwargs), named)
                                ELSE Displaced(fn, args, kwargs, Len(kwargs))
  BY NamesBound DEF BoundSoFar
<1>3. CASE Slots(fn) = 0
  <2>1. np = 0 /\ ~fn.varargs /\ ~fn.kwargs
    BY <1>1, <1>3 DEF Slots, Callable
  <2>2. b = [error |-> IF Len(args) + Len(kwargs) > 0 THEN "takes no arguments" ELSE "", locals |-> <<>>]
    BY <1>0, <1>3 DEF SetArgs
  <2>3. Unclaimed(fn, kwargs) = 1..Len(kwargs)
    <3>1. DOMAIN fn.params = {}
      BY <2>1, ParametersAre
    <3> QED
      BY <1>1, <3>1 DEF Unclaimed
  <2>4. Proper(fn, args, kwargs) <=> Len(args) = 0 /\ Len(kwargs) = 0
    <3>1. Proper(fn, args, kwargs) <=> ~(Len(args) > 0) /\ Unclaimed(fn, kwargs) = {}
      BY <2>1, ProperIs DEF RoomByPosition, RoomByName
    <3>2. Unclaimed(fn, kwargs) = {} <=> Len(kwargs) = 0
      <4> DEFINE n == Len(kwargs)
      <4>1. n \in Nat /\ Unclaimed(fn, kwargs) = 1..n
        BY <1>1, <2>3
      <4> HIDE DEF n
      <4>2. Unclaimed(fn, kwargs) = {} <=> n = 0
        BY <4>1
      <4> QED
        BY <4>2 DEF n
    <3> QED
      BY <1>1, <3>1, <3>2
  <2>5. CASE Len(args) = 0 /\ Len(kwargs) = 0
    <3>1. b.error = "" /\ b.locals = <<>>
      <4>1. ~(Len(args) + Len(kwargs) > 0)
        BY <2>5
      <4> QED
        BY <2>2, <4>1
    <3>2. Proper(fn, args, kwargs)
      BY <2>4, <2>5
    <3>3. Len(b.locals) = Slots(fn)
      <4> DEFINE locals == b.locals
      <4>1. locals = <<>>
        BY <3>1
      <4> HIDE DEF locals
      <4>2. Len(locals) = 0
        BY <4>1
      <4> QED
        BY <1>3, <4>2 DEF locals
    <3>4. \A i \in 1..np : b.locals[i] = Meant(fn, args, kwargs, i)
      BY <2>1
    <3> QED
      BY <2>1, <3>1, <3>2, <3>3, <3>4 DEF BoundAs
  <2>6. CASE ~(Len(args) = 0 /\ Len(kwargs) = 0)
    <3>1. b.error = "takes no arguments"
      <4>1. Len(args) + Len(kwargs) > 0
        BY <1>1, <2>6
      <4> QED
        BY <2>2, <4>1
    <3> QED
      BY <2>4, <2>6, <3>1 DEF BoundAs
  <2> QED
    BY <2>5, <2>6
<1>4. CASE Slots(fn) # 0 /\ Len(args) > np /\ ~fn.varargs
  <2>1. b = [error |-> "too many arguments", locals |-> <<>>]
    BY <1>0, <1>4 DEF SetArgs
  <2>2. ~Proper(fn, args, kwargs)
    BY <1>4, ProperIs DEF RoomByPosition
  <2>3. b.error = "too many arguments"
    BY <2>1
  <2> QED
    BY <2>2, <2>3 DEF BoundAs
<1>5. CASE Slots(fn) # 0 /\ ~(Len(args) > np /\ ~fn.varargs)
  <2> DEFINE all == final.locals \o (IF fn.varargs THEN <<rest>> ELSE <<>>) \o (IF fn.kwargs THEN <<final.dict>> ELSE <<>>)
  <2>1. b = IF final.error # "" THEN [error |-> final.error, locals |-> <<>>] ELSE [error |-> "", locals |-> all]
    BY <1>0, <1>5 DEF SetArgs
  <2>2. CASE named.error # ""
    <3>1. ~Proper(fn, args, kwargs)
      BY <1>2, <2>2, DisplacedIs
    <3>2. final.error # "" /\ b.error = final.error
      BY <2>1, <2>2
    <3> HIDE DEF final, named
    <3> QED
      BY <3>1, <3>2 DEF BoundAs
  <2>3. CASE named.error = ""
    <3>1. IF final.error = ""
          THEN /\ Proper(fn, args, kwargs)
               /\ final.locals \in [1..np -> Value] /\ final.dict = named.dict
               /\ \A i \in 1..np : final.locals[i] = Meant(fn, args, kwargs, i)
          ELSE ~Proper(fn, args, kwargs)
      <4>1. final = BindDefaults(fn, args, named)
        BY <2>3
      <4> HIDE DEF final, named
      <4>2. RoomByPosition(fn, args)
        BY <1>5 DEF RoomByPosition
      <4>3. Settled(fn, args, kwargs, named)
        BY <1>2, <2>3 DEF Settled
      <4> QED
        BY <1>2, <4>1, <4>2, <4>3, DefaultsBound
    <3>2. named.dict \in Seq(Keyword) /\ MeantDict(Unclaimed(fn, kwargs), kwargs, named.dict)
      <4> HIDE DEF named
      <4>1. named.dict \in Seq(Keyword)
        BY <1>2 DEF Bindings
      <4>2. MeantDict(SpareOf(fn, kwargs, Len(kwargs)), kwargs, named.dict)
        BY <1>2, <2>3 DEF Placed
      <4> QED
        BY <4>1, <4>2, SpareAll
    <3> HIDE DEF final, named
    <3>3. CASE final.error # ""
      BY <2>1, <3>1, <3>3 DEF BoundAs
    <3>4. CASE final.error = ""
      <4>1. b.error = "" /\ b.locals = all
        BY <2>1, <3>4
      <4>2. rest \in Seq(Value)
        BY <1>1
      <4> HIDE DEF rest
      <4>3. /\ Len(all) = Slots(fn)
            /\ \A i \in 1..np : all[i] = final.locals[i]
            /\ fn.varargs => all[np + 1] = rest
            /\ fn.kwargs => all[Slots(fn)] = final.dict
        <5> DEFINE f == final.locals
                   dict == final.dict
        <5>1. f \in [1..NParams(fn) -> Value] /\ dict \in Seq(Keyword)
          BY <3>1, <3>2, <3>4
        <5> HIDE DEF f, dict
        <5>2. LET whole == f \o (IF fn.varargs THEN <<rest>> ELSE <<>>) \o (IF fn.kwargs THEN <<dict>> ELSE <<>>)
              IN  /\ Len(whole) = Slots(fn)
                  /\ \A i \in 1..NParams(fn) : whole[i] = f[i]
                  /\ fn.varargs => whole[NParams(fn) + 1] = rest
                  /\ fn.kwargs => whole[Slots(fn)] = dict
          BY <4>2, <5>1, SlotsFilled
        <5> QED
          BY <5>2 DEF f, dict
      <4> HIDE DEF all
      <4> DEFINE locals == b.locals
      <4>4. Proper(fn, args, kwargs) /\ Len(locals) = Slots(fn)
        BY <3>1, <3>4, <4>1, <4>3
      <4>5. \A i \in 1..np : locals[i] = Meant(fn, args, kwargs, i)
        BY <3>1, <3>4, <4>1, <4>3
      <4>6. fn.varargs => locals[np + 1] = SubSeq(args, np + 1, Len(args))
        BY <4>1, <4>3 DEF rest
      <4>7. fn.kwargs => MeantDict(Unclaimed(fn, kwargs), kwargs, locals[Slots(fn)])
        BY <3>1, <3>2, <3>4, <4>1, <4>3
      <4> QED
        BY <4>1, <4>4, <4>5, <4>6, <4>7 DEF BoundAs
    <3> QED
      BY <3>3, <3>4
  <2> QED
    BY <2>2, <2>3
<1> QED
  BY <1>3, <1>4, <1>5

\* An argument of no use says why.
LEMMA RefusalIs ==
  ASSUME NEW call \in Seq(CallArgument), Refused(call) # {}
  PROVE  Refusal(call) \in Unusable
<1> DEFINE bad == Refused(call)
<1>1. bad \in SUBSET Nat /\ bad \subseteq DOMAIN call
  BY DEF Refused
<1>2. \E k \in bad : \A j \in bad : k <= j
  <2> HIDE DEF bad
  <2>1. bad # {}
    BY DEF bad
  <2> QED
    BY <1>1, <2>1, LeastNatural
<1>3. PICK k \in bad : Refusal(call) = call[k].why
  BY <1>2 DEF Refusal
<1>4. call[k] \in CallArgument /\ call[k].kind = "unusable"
  BY <1>1, <1>3 DEF Refused
<1> QED
  BY <1>3, <1>4 DEF CallArgument

(***************************************************************************)
(* Whatever the functions and the argument lists: a call is accepted if    *)
(* and only if every * and ** has what it can take arguments from, every   *)
(* argument has a place and every parameter has one argument or a default  *)
(* value, and every place gets what is meant for it. The lemma of a loop   *)
(* is BoundSoFar: after k keyword arguments, every parameter that is       *)
(* marked as defined has the value of the one argument for it, and the     *)
(* dict has the others.                                                    *)
(***************************************************************************)
THEOREM CallsBind == CallSpec => []CallBinding
<1> DEFINE Inv == called \in [fn : Functions, args : Arguments] /\ CallBinding
<1>1. CallInit => Inv
  BY DEF CallInit, CallBinding, Unbound
<1>2. Inv /\ [Call]_callVars => Inv'
  <2> SUFFICES ASSUME Inv, [Call]_callVars PROVE Inv'
    OBVIOUS
  <2>1. CASE Call
    <3>1. called' = called /\ called.fn \in Functions /\ called.args \in Arguments
      BY <2>1 DEF Call
    <3>2. Callable(called.fn) /\ called.args \in Seq(CallArgument)
      BY <3>1, CallsAssumption DEF Callable
    <3>3. Positional(called.args) \in Seq(Value) /\ Keywords(called.args) \in Seq(Keyword)
      BY <3>2, ArgumentsAre
    <3>4. CASE Refused(called.args) = {}
      <4>1. BoundAs(called.fn, Positional(called.args), Keywords(called.args), binding')
        BY <2>1, <3>2, <3>3, <3>4, SetArgsIs DEF Call
      <4> QED
        BY <3>1, <3>4, <4>1 DEF CallBinding
    <3>5. CASE Refused(called.args) # {}
      <4>1. Refusal(called.args) \in Unusable
        BY <3>2, <3>5, RefusalIs
      <4>2. binding'.error = Refusal(called.args)
        BY <2>1, <3>5 DEF Call
      <4> QED
        BY <3>1, <3>5, <4>1, <4>2 DEF CallBinding
    <3> QED
      BY <3>4, <3>5
  <2>2. CASE UNCHANGED callVars
    BY <2>2 DEF callVars, CallBinding
  <2> QED
    BY <2>1, <2>2
<1> QED
  BY <1>1, <1>2, PTL DEF CallSpec
=============================================================================
