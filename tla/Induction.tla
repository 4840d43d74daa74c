------------------------------ MODULE Induction ------------------------------
(***************************************************************************)
(* Induction over the naturals, on a set instead of a predicate, and       *)
(* functions that are defined by recursion: what the proofs share.         *)
(***************************************************************************)
EXTENDS Integers, WellFoundedInduction, TLAPS

\* A set of naturals has a least element.
LEMMA LeastNatural ==
  ASSUME NEW T \in SUBSET Nat, T # {}
  PROVE  \E m \in T : \A n \in T : m <= n
<1> DEFINE R == OpToRel(<, Nat)
<1>1. \A m, n \in Nat : m < n => <<m, n>> \in R
  BY DEF OpToRel
<1>2. IsWellFoundedOn(R, Nat)
  BY NatLessThanWellFounded
<1> HIDE DEF R
<1>3. PICK m \in T : \A n \in T : ~(<<n, m>> \in R)
  BY <1>2, WFMin
<1>4. ASSUME NEW n \in T PROVE m <= n
  <2>1. ~(n < m)
    BY <1>1, <1>3
  <2> QED
    BY <2>1
<1> QED
  BY <1>4

\* Induction, on a set instead of a predicate.
LEMMA SetInduction ==
  ASSUME NEW S, 0 \in S, \A n \in Nat : n \in S => n + 1 \in S
  PROVE  Nat \subseteq S
<1> DEFINE T == Nat \ S
<1>1. SUFFICES ASSUME T # {} PROVE FALSE
  OBVIOUS
<1>2. PICK m \in T : \A n \in T : m <= n
  BY <1>1, LeastNatural
<1>3. m # 0 /\ m - 1 \in Nat /\ m - 1 \notin T
  BY <1>2
<1> QED
  BY <1>2, <1>3

\* The same up to a bound.
LEMMA BoundedInduction ==
  ASSUME NEW n \in Nat, NEW S, 0 \in S, \A i \in 1..n : i - 1 \in S => i \in S
  PROVE  0..n \subseteq S
<1> DEFINE T == S \cup {i \in Nat : i > n}
<1>1. \A i \in Nat : i \in T => i + 1 \in T
  <2> SUFFICES ASSUME NEW i \in Nat, i \in T PROVE i + 1 \in T
    OBVIOUS
  <2>1. CASE i + 1 > n
    BY <2>1
  <2>2. CASE i + 1 <= n
    <3>1. i + 1 \in 1..n /\ (i + 1) - 1 = i /\ i \in S
      BY <2>2
    <3> QED
      BY <3>1
  <2> QED
    BY <2>1, <2>2
<1>2. Nat \subseteq T
  BY <1>1, SetInduction
<1> QED
  BY <1>2

\* Induction over the naturals up to n, from all smaller ones; on a set, not a predicate.
LEMMA StrongInduction ==
  ASSUME NEW n \in Nat, NEW S, \A b \in 1..n : (\A c \in 1..(b - 1) : c \in S) => b \in S
  PROVE  1..n \subseteq S
<1> DEFINE T == (1..n) \ S
<1>1. SUFFICES ASSUME T # {} PROVE FALSE
  OBVIOUS
<1>2. T \in SUBSET Nat
  OBVIOUS
<1>3. PICK m \in T : \A b \in T : m <= b
  <2> HIDE DEF T
  <2> QED
    BY <1>1, <1>2, LeastNatural
<1>4. \A c \in 1..(m - 1) : c \in 1..n /\ ~(m <= c)
  BY <1>3
<1> QED
  BY <1>3, <1>4

\* The same downwards.
LEMMA DownwardInduction ==
  ASSUME NEW n \in Nat, NEW S, \A b \in 1..n : (\A c \in (b + 1)..n : c \in S) => b \in S
  PROVE  1..n \subseteq S
<1> DEFINE T == {d \in 1..n : (n + 1) - d \in S}
<1>1. ASSUME NEW d \in 1..n, \A c \in 1..(d - 1) : c \in T PROVE d \in T
  <2> DEFINE b == (n + 1) - d
  <2>1. b \in 1..n
    OBVIOUS
  <2>2. ASSUME NEW c \in (b + 1)..n PROVE c \in S
    <3>1. (n + 1) - c \in 1..(d - 1) /\ (n + 1) - ((n + 1) - c) = c
      BY <2>1
    <3> QED
      BY <1>1, <3>1
  <2> QED
    BY <2>1, <2>2
<1>2. 1..n \subseteq T
  <2> HIDE DEF T
  <2> QED
    BY <1>1, StrongInduction
<1>3. ASSUME NEW b \in 1..n PROVE b \in S
  <2>1. (n + 1) - b \in 1..n /\ (n + 1) - ((n + 1) - b) = b
    OBVIOUS
  <2> QED
    BY <1>2, <2>1
<1> QED
  BY <1>3

\* f is a recursion over 0..n in a set S, from s0 by F; there is one.
Solution(f, n, S, s0, F) == f \in [0..n -> S] /\ f[0] = s0 /\ \A i \in 1..n : f[i] = F[<<i, f[i - 1]>>]

\* There is one, whatever F is.
LEMMA Recursion ==
  ASSUME NEW n, NEW S, NEW s0, NEW F, n \in Nat, s0 \in S, F \in [(1..n) \X S -> S]
  PROVE  \E f : Solution(f, n, S, s0, F)
<1> DEFINE Solves(f, m) == Solution(f, m, S, s0, F)
           T == {m \in 0..n : \E f : Solves(f, m)}
<1>1. 0 \in T
  <2>1. Solves([i \in 0..0 |-> s0], 0)
    BY DEF Solution
  <2> HIDE DEF Solves
  <2> QED
    BY <2>1
<1>2. ASSUME NEW m \in 1..n, m - 1 \in T PROVE m \in T
  <2>1. PICK f : Solves(f, m - 1)
    BY <1>2
  <2>0. f \in [0..(m - 1) -> S] /\ f[0] = s0 /\ \A i \in 1..(m - 1) : f[i] = F[<<i, f[i - 1]>>]
    BY <2>1 DEF Solution
  <2> HIDE DEF Solves
  <2> DEFINE g == [i \in 0..m |-> IF i = m THEN F[<<m, f[m - 1]>>] ELSE f[i]]
  <2>2. f[m - 1] \in S /\ F[<<m, f[m - 1]>>] \in S
    BY <2>0
  <2>3. g \in [0..m -> S] /\ g[0] = s0
    BY <2>0, <2>2
  <2>4. ASSUME NEW i \in 1..m PROVE g[i] = F[<<i, g[i - 1]>>]
    <3>1. CASE i = m
      BY <3>1
    <3>2. CASE i # m
      <4>1. i \in 1..(m - 1) /\ i - 1 # m /\ i - 1 \in 0..m /\ i \in 0..m
        BY <3>2
      <4> QED
        BY <2>0, <4>1
    <3> QED
      BY <3>1, <3>2
  <2>5. Solves(g, m)
    BY <2>3, <2>4 DEF Solves, Solution
  <2> HIDE DEF g
  <2> QED
    BY <2>5
<1> HIDE DEF T
<1>3. 0..n \subseteq T
  BY <1>1, <1>2, BoundedInduction
<1>4. n \in T
  BY <1>3
<1> QED
  BY <1>4 DEF T

\* Two solutions of a recursion are the same.
LEMMA RecursionUnique ==
  ASSUME NEW n \in Nat, NEW S, NEW f, NEW g \in [0..n -> S], f[0] = g[0],
         \A i \in 1..n : f[i - 1] = g[i - 1] => f[i] = g[i]
  PROVE  \A i \in 0..n : f[i] = g[i]
<1> DEFINE T == {i \in 0..n : f[i] = g[i]}
<1>1. 0 \in T /\ \A i \in 1..n : i - 1 \in T => i \in T
  OBVIOUS
<1> HIDE DEF T
<1>2. 0..n \subseteq T
  BY <1>1, BoundedInduction
<1> QED
  BY <1>2 DEF T

\* f is a recursion over a set D, each value from the value at the next element.
DescendsBy(f, D, S, Stop, base, next, F) ==
  f \in [D -> S] /\ \A x \in D : f[x] = IF x \in Stop THEN base[x] ELSE F[<<x, f[next[x]]>>]

\* There is one if the next element ranks lower.
LEMMA Descent ==
  ASSUME NEW D, NEW S, NEW Stop, NEW base \in [D -> S], NEW next \in [D -> D], NEW F \in [D \X S -> S],
         NEW rank \in [D -> Nat], NEW n \in Nat, \A x \in D : rank[x] <= n,
         \A x \in D \ Stop : rank[next[x]] < rank[x]
  PROVE  \E f : DescendsBy(f, D, S, Stop, base, next, F)
<1> DEFINE Value(f, x) == IF x \in Stop THEN base[x] ELSE F[<<x, f[next[x]]>>]
           T == {k \in Nat : \E f \in [D -> S] : \A x \in D : rank[x] < k => f[x] = Value(f, x)}
<1>1. 0 \in T
  OBVIOUS
<1>2. ASSUME NEW k \in Nat, k \in T PROVE k + 1 \in T
  <2>1. PICK f \in [D -> S] : \A x \in D : rank[x] < k => f[x] = Value(f, x)
    BY <1>2
  <2> DEFINE g == [x \in D |-> IF rank[x] < k THEN f[x] ELSE Value(f, x)]
  <2>2. \A x \in D : Value(f, x) \in S
    OBVIOUS
  <2>3. g \in [D -> S]
    <3> HIDE DEF Value
    <3> QED
      BY <2>2
  <2>4. ASSUME NEW x \in D, rank[x] < k + 1 PROVE g[x] = Value(g, x)
    <3>1. g[x] = Value(f, x)
      <4> HIDE DEF Value
      <4> QED
        BY <2>1
    <3>2. CASE x \in Stop
      BY <3>1, <3>2
    <3>3. CASE x \notin Stop
      <4>1. rank[next[x]] < k
        BY <3>3, <2>4
      <4>2. g[next[x]] = f[next[x]]
        BY <4>1
      <4> HIDE DEF g
      <4> QED
        BY <3>1, <4>2
    <3> QED
      BY <3>2, <3>3
  <2> HIDE DEF g, Value
  <2> QED
    BY <2>3, <2>4
<1> HIDE DEF T
<1>3. n + 1 \in T
  BY <1>1, <1>2, SetInduction
<1>4. PICK f \in [D -> S] : \A x \in D : rank[x] < n + 1 => f[x] = Value(f, x)
  <2> HIDE DEF Value
  <2> QED
    BY <1>3 DEF T
<1>5. \A x \in D : rank[x] < n + 1
  OBVIOUS
<1> QED
  BY <1>4, <1>5 DEF DescendsBy
=============================================================================
