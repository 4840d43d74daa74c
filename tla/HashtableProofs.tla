--------------------------- MODULE HashtableProofs ---------------------------
(***************************************************************************)
(* Proofs about Hashtable, for any keys, hashes and bucket size: IInv is   *)
(* inductive, the properties of the table follow, and it implements the    *)
(* ordered map of OrderedDict.                                             *)
(***************************************************************************)
EXTENDS HashtableDict, Induction, FiniteSetTheorems, SequenceTheorems

(***************************************************************************)
(* Arithmetic.                                                             *)
(***************************************************************************)

\* The least and the greatest of a set of positions.
LEMMA MinFacts ==
  ASSUME NEW T \in SUBSET Nat, T # {}
  PROVE  Min(T) \in T /\ \A n \in T : Min(T) <= n
  BY LeastNatural DEF Min

\* The greatest of a nonempty set of positions is one of them.
LEMMA MaxFacts ==
  ASSUME NEW n \in Nat, NEW T \in SUBSET (1..n), T # {}
  PROVE  Max(T) \in T
<1> DEFINE U == {u \in Nat : n - u \in T}
<1>1. PICK x : x \in T
  OBVIOUS
<1>2. n - x \in U
  BY <1>1
<1>3. PICK m \in U : \A u \in U : m <= u
  BY <1>2, LeastNatural
<1>4. n - m \in T /\ m \in Nat
  OBVIOUS
<1>5. ASSUME NEW y \in T PROVE n - m >= y
  <2>1. n - y \in U /\ y \in Nat
    OBVIOUS
  <2>2. m <= n - y
    BY <1>3, <2>1
  <2> QED
    BY <1>4, <2>1, <2>2
<1> HIDE DEF U
<1> QED
  BY <1>4, <1>5 DEF Max

\* A chain's length stays a multiple of BucketSize when a bucket is added.
LEMMA WholeBuckets ==
  ASSUME NEW n \in Nat, NEW b \in Nat \ {0}, n % b = 0
  PROVE  (n + b) % b = 0
<1>1. n = b * (n \div b) + (n % b) /\ n \div b \in Int
  OBVIOUS
<1>2. n + b = b * ((n + b) \div b) + ((n + b) % b) /\ (n + b) \div b \in Int /\ (n + b) % b \in 0..(b - 1)
  OBVIOUS
<1> DEFINE q == ((n + b) \div b) - (n \div b) - 1
<1>3. q \in Int /\ b * q = -((n + b) % b)
  BY <1>1, <1>2
<1> HIDE DEF q
<1>4. q >= 0
  BY <1>2, <1>3
<1>5. q <= 0
  BY <1>2, <1>3
<1> QED
  BY <1>2, <1>3, <1>4, <1>5

(***************************************************************************)
(* Addresses and entries.                                                  *)
(***************************************************************************)

\* An address is a position of a chain, and none of them is Nil or NoLink.
LEMMA AddressFacts ==
  ASSUME NEW t \in Tables, NEW a \in Addresses(t)
  PROVE  /\ a[1] \in 1..Len(t.chains) /\ t.chains[a[1]] \in Seq(Entries)
         /\ a[2] \in 1..Len(t.chains[a[1]]) /\ a = <<a[1], a[2]>>
         /\ a \in Link /\ a # Nil /\ a # NoLink /\ a # HeadLink
         /\ At(t, a) \in Entries
<1>1. t.chains \in Seq(Seq(Entries))
  BY DEF Tables
<1>2. PICK c \in DOMAIN t.chains : a \in {c} \X DOMAIN t.chains[c]
  BY DEF Addresses
<1>3. c \in 1..Len(t.chains) /\ t.chains[c] \in Seq(Entries)
  BY <1>1
<1>4. a[1] = c /\ a[2] \in 1..Len(t.chains[c]) /\ a = <<a[1], a[2]>>
  BY <1>2, <1>3
<1>5. a \in Link /\ a # Nil /\ a # NoLink /\ a # HeadLink
  BY <1>3, <1>4 DEF Link, Nil, NoLink, HeadLink
<1>6. At(t, a) \in Entries
  BY <1>3, <1>4 DEF At
<1> QED
  BY <1>3, <1>4, <1>5, <1>6

\* Every position of a chain is an address.
LEMMA AddressIntro ==
  ASSUME NEW t \in Tables, NEW c \in 1..Len(t.chains), NEW i \in 1..Len(t.chains[c])
  PROVE  <<c, i>> \in Addresses(t)
<1>1. t.chains \in Seq(Seq(Entries)) /\ t.chains[c] \in Seq(Entries)
  BY DEF Tables
<1>2. c \in DOMAIN t.chains /\ <<c, i>> \in {c} \X DOMAIN t.chains[c]
  BY <1>1
<1> QED
  BY <1>2 DEF Addresses

\* Two tables with chains of the same lengths.
SameShape(t, u) ==
  /\ Len(u.chains) = Len(t.chains)
  /\ \A c \in 1..Len(t.chains) : Len(u.chains[c]) = Len(t.chains[c])

\* Tables of the same shape have the same addresses and chains.
LEMMA SameAddresses ==
  ASSUME NEW t \in Tables, NEW u \in Tables, SameShape(t, u)
  PROVE  /\ Addresses(u) = Addresses(t)
         /\ Whole(t) => Whole(u)
         /\ \A k : ChainOf(u, k) = ChainOf(t, k)
         /\ u.chains = <<>> <=> t.chains = <<>>
<1>1. t.chains \in Seq(Seq(Entries)) /\ u.chains \in Seq(Seq(Entries))
  BY DEF Tables
<1>2. DOMAIN t.chains = 1..Len(t.chains) /\ DOMAIN u.chains = 1..Len(t.chains)
  BY <1>1 DEF SameShape
<1>3. \A c \in 1..Len(t.chains) : DOMAIN u.chains[c] = DOMAIN t.chains[c]
  <2> SUFFICES ASSUME NEW c \in 1..Len(t.chains) PROVE DOMAIN u.chains[c] = DOMAIN t.chains[c]
    OBVIOUS
  <2>1. t.chains[c] \in Seq(Entries) /\ u.chains[c] \in Seq(Entries)
    BY <1>1, <1>2
  <2> QED
    BY <2>1 DEF SameShape
<1>4. Addresses(u) = Addresses(t)
  BY <1>2, <1>3 DEF Addresses
<1>5. Whole(t) => Whole(u)
  BY <1>2 DEF Whole, SameShape
<1>6. \A k : ChainOf(u, k) = ChainOf(t, k)
  BY DEF ChainOf, SameShape
<1>7. u.chains = <<>> <=> t.chains = <<>>
  BY <1>1 DEF SameShape
<1> QED
  BY <1>4, <1>5, <1>6, <1>7

\* The entry at a is overwritten.
SetEntry(t, a, e) == [t EXCEPT !.chains[a[1]][a[2]] = e]

\* Writing an entry changes that entry only.
LEMMA SetEntryFacts ==
  ASSUME NEW t \in Tables, NEW a \in Addresses(t), NEW e \in Entries
  PROVE  LET u == SetEntry(t, a, e)
         IN  /\ u \in Tables /\ SameShape(t, u)
             /\ u.head = t.head /\ u.tail = t.tail /\ u.len = t.len
             /\ At(u, a) = e
             /\ \A b \in Addresses(t) : b # a => At(u, b) = At(t, b)
<1> DEFINE u == SetEntry(t, a, e)
           c == a[1]
           row == [t.chains[c] EXCEPT ![a[2]] = e]
<1>1. t.chains \in Seq(Seq(Entries)) /\ t.head \in Link /\ t.tail \in Link /\ t.len \in Nat
  BY DEF Tables
<1>2. c \in 1..Len(t.chains) /\ t.chains[c] \in Seq(Entries) /\ a[2] \in 1..Len(t.chains[c])
  BY AddressFacts
<1>3. row \in Seq(Entries) /\ Len(row) = Len(t.chains[c]) /\ row[a[2]] = e
      /\ \A j \in 1..Len(t.chains[c]) : j # a[2] => row[j] = t.chains[c][j]
  BY <1>2, ExceptSeq
<1>4. u = [t EXCEPT !.chains = [t.chains EXCEPT ![c] = row]]
  BY <1>1, <1>2 DEF SetEntry, Tables
<1> HIDE DEF row, c
<1> DEFINE rows == [t.chains EXCEPT ![c] = row]
<1>5. rows \in Seq(Seq(Entries)) /\ Len(rows) = Len(t.chains) /\ rows[c] = row
      /\ \A d \in 1..Len(t.chains) : d # c => rows[d] = t.chains[d]
  BY <1>1, <1>2, <1>3, ExceptSeq
<1> HIDE DEF rows
<1>6. u \in Tables /\ u.head = t.head /\ u.tail = t.tail /\ u.len = t.len /\ u.chains = rows
  BY <1>1, <1>4, <1>5 DEF Tables, rows
<1> HIDE DEF u
<1>7. SameShape(t, u)
  BY <1>3, <1>5, <1>6 DEF SameShape
<1>8. At(u, a) = e
  BY <1>3, <1>5, <1>6 DEF At, c
<1>9. ASSUME NEW b \in Addresses(t), b # a PROVE At(u, b) = At(t, b)
  <2>1. b[1] \in 1..Len(t.chains) /\ b[2] \in 1..Len(t.chains[b[1]]) /\ b = <<b[1], b[2]>> /\ a = <<a[1], a[2]>>
    BY AddressFacts
  <2>2. b[1] # c \/ b[2] # a[2]
    BY <1>9, <2>1 DEF c
  <2> QED
    BY <1>3, <1>5, <1>6, <2>1, <2>2 DEF At
<1> QED
  BY <1>6, <1>7, <1>8, <1>9 DEF u

(***************************************************************************)
(* The list through the table.                                             *)
(***************************************************************************)

\* What ListFrom does with the part of the list that it has walked.
Walked(t, e, s) ==
  LET a == IF s = <<>> THEN e ELSE At(t, Last(s)).next
  IN  IF a = Nil THEN s ELSE Append(s, a)

\* The addresses of a list are those of used entries.
LEMMA LinkedFacts ==
  ASSUME NEW t \in Tables, NEW o, Linked(t, o)
  PROVE  /\ o \in Seq(Addresses(t)) /\ Len(o) = t.len /\ Len(o) \in Nat /\ DOMAIN o = 1..Len(o)
         /\ \A i \in 1..Len(o) : o[i] \in Used(t) /\ o[i] \in Addresses(t) /\ o[i] # Nil /\ o[i] # HeadLink
         /\ \A a \in Used(t) : \E i \in 1..Len(o) : o[i] = a
<1>1. o \in Seq(Addresses(t)) /\ Len(o) = t.len /\ Len(o) \in Nat /\ DOMAIN o = 1..Len(o)
  BY DEF Linked
<1>2. Used(t) = {o[i] : i \in 1..Len(o)}
  BY <1>1 DEF Linked, ToSet
<1>3. \A i \in 1..Len(o) : o[i] \in Addresses(t)
  BY <1>1
<1>4. \A i \in 1..Len(o) : o[i] # Nil /\ o[i] # HeadLink
  BY <1>3, AddressFacts
<1> QED
  BY <1>1, <1>2, <1>3, <1>4

\* One step of the walk along the list.
LEMMA WalkStep ==
  ASSUME NEW t \in Tables, NEW o, Linked(t, o), NEW j \in 1..(Len(o) + 1), NEW m \in (j - 1)..Len(o)
  PROVE  Walked(t, LinkAt(o, j), SubSeq(o, j, m)) = IF m < Len(o) THEN SubSeq(o, j, m + 1) ELSE SubSeq(o, j, m)
<1> DEFINE A == Addresses(t)
           s == SubSeq(o, j, m)
<1>1. o \in Seq(A) /\ Len(o) \in Nat /\ DOMAIN o = 1..Len(o) /\ \A i \in 1..Len(o) : o[i] \in A /\ o[i] # Nil
  BY LinkedFacts
<1>2. \A i \in 1..Len(o) : At(t, o[i]).next = LinkAt(o, i + 1)
  BY <1>1 DEF Linked
<1> HIDE DEF A
<1>3. s \in Seq(A) /\ Len(s) = (m - j) + 1 /\ \A i \in 1..Len(s) : s[i] = o[(j + i) - 1]
  <2>1. \A i \in j..m : o[i] \in A
    BY <1>1
  <2>2. j \in Int /\ m \in Int /\ j <= m + 1
    BY <1>1
  <2> QED
    BY <2>1, <2>2, SubSeqProperties
<1>4. (IF s = <<>> THEN LinkAt(o, j) ELSE At(t, Last(s)).next) = LinkAt(o, m + 1)
  <2>1. CASE m = j - 1
    <3>1. s = <<>>
      BY <1>3, <2>1
    <3> QED
      BY <3>1, <2>1
  <2>2. CASE m # j - 1
    <3>1. Len(s) >= 1 /\ s # <<>>
      BY <1>1, <1>3, <2>2
    <3>2. Last(s) = o[m]
      BY <1>3, <3>1 DEF Last
    <3>3. m \in 1..Len(o)
      BY <1>1, <2>2
    <3> QED
      BY <1>2, <3>1, <3>2, <3>3
  <2> QED
    BY <2>1, <2>2
<1>5. CASE m < Len(o)
  <2>1. m + 1 \in 1..Len(o)
    BY <1>1, <1>5
  <2>2. LinkAt(o, m + 1) = o[m + 1] /\ o[m + 1] # Nil /\ o[m + 1] \in A
    BY <1>1, <2>1 DEF LinkAt
  <2>3. Walked(t, LinkAt(o, j), s) = Append(s, o[m + 1])
    BY <1>4, <2>2 DEF Walked
  <2> DEFINE r == SubSeq(o, j, m + 1)
  <2>4. r \in Seq(A) /\ Len(r) = (m - j) + 2 /\ \A i \in 1..Len(r) : r[i] = o[(j + i) - 1]
    <3>1. \A i \in j..(m + 1) : o[i] \in A
      BY <1>1, <2>1
    <3> DEFINE z == m + 1
    <3>2. j \in Int /\ z \in Int /\ j <= z /\ (z - j) + 1 = (m - j) + 2
      BY <1>1
    <3>3. \A i \in j..z : o[i] \in A
      BY <3>1
    <3> HIDE DEF z, r
    <3>4. SubSeq(o, j, z) \in Seq(A) /\ Len(SubSeq(o, j, z)) = (z - j) + 1 /\ \A i \in 1..((z - j) + 1) : SubSeq(o, j, z)[i] = o[(j + i) - 1]
      BY <3>2, <3>3, SubSeqProperties
    <3> QED
      BY <3>2, <3>4 DEF z, r
  <2> HIDE DEF r, s
  <2> DEFINE x == o[m + 1]
             q == Append(s, x)
  <2>a. x \in A /\ s \in Seq(A)
    BY <1>3, <2>2
  <2> HIDE DEF x
  <2>5. q \in Seq(A) /\ Len(q) = Len(s) + 1 /\ q[Len(s) + 1] = x /\ \A i \in 1..Len(s) : q[i] = s[i]
    BY <2>a, AppendProperties
  <2> HIDE DEF q
  <2>6. ASSUME NEW i \in 1..Len(q) PROVE q[i] = r[i]
    <3>1. Len(s) \in Nat /\ Len(q) = Len(r) /\ (j + (Len(s) + 1)) - 1 = m + 1
      BY <1>1, <1>3, <2>4, <2>5
    <3>2. CASE i \in 1..Len(s)
      BY <1>3, <2>4, <2>5, <3>1, <3>2
    <3>3. CASE i = Len(s) + 1
      BY <2>4, <2>5, <3>1, <3>3 DEF x
    <3> QED
      BY <2>5, <3>1, <3>2, <3>3
  <2>7. q = r
    <3>1. q \in Seq(A) /\ r \in Seq(A) /\ Len(q) = Len(r)
      BY <1>1, <1>3, <2>4, <2>5
    <3> QED
      BY ONLY <2>6, <3>1, SeqEqual
  <2> QED
    BY <1>5, <2>3, <2>7 DEF q, r, s, x
<1>6. CASE ~(m < Len(o))
  <2>1. m + 1 \notin 1..Len(o)
    BY <1>1, <1>6
  <2>2. LinkAt(o, m + 1) = Nil
    BY <1>1, <2>1 DEF LinkAt
  <2> QED
    BY <1>4, <1>6, <2>2 DEF Walked
<1> QED
  BY <1>5, <1>6

\* Walking from the j-th entry of the list gives the list from there on.
LEMMA ListFromIs ==
  ASSUME NEW t \in Tables, NEW o, Linked(t, o), NEW j \in 1..(Len(o) + 1)
  PROVE  ListFrom(t, LinkAt(o, j)) = SubSeq(o, j, Len(o))
<1> DEFINE e == LinkAt(o, j)
           n == t.len + 1
           upto(i) == IF (j + i) - 1 <= Len(o) THEN (j + i) - 1 ELSE Len(o)
           g == [i \in 0..n |-> SubSeq(o, j, upto(i))]
           Walk(w) == [i \in 0..n |-> IF i = 0 THEN <<>> ELSE Walked(t, e, w[i - 1])]
<1>1. Len(o) = t.len /\ Len(o) \in Nat /\ n \in Nat
  BY LinkedFacts
<1>2. ListFrom(t, e) = (CHOOSE w : w = Walk(w))[n]
  BY DEF ListFrom, Walked
<1> HIDE DEF e
<1>3. g[0] = <<>>
  <2>1. upto(0) = j - 1 /\ 0 \in 0..n
    BY <1>1
  <2> QED
    BY <2>1, SubSeqEmpty
<1>4. ASSUME NEW i \in 1..n PROVE g[i] = Walked(t, e, g[i - 1])
  <2>1. i \in 0..n /\ i - 1 \in 0..n /\ upto(i - 1) \in (j - 1)..Len(o)
    BY <1>1
  <2>2. Walked(t, e, SubSeq(o, j, upto(i - 1))) =
          IF upto(i - 1) < Len(o) THEN SubSeq(o, j, upto(i - 1) + 1) ELSE SubSeq(o, j, upto(i - 1))
    BY <2>1, WalkStep DEF e
  <2>3. upto(i) = IF upto(i - 1) < Len(o) THEN upto(i - 1) + 1 ELSE upto(i - 1)
    BY <1>1
  <2> HIDE DEF upto
  <2> QED
    BY <2>1, <2>2, <2>3
<1>5. \A i \in 0..n : g[i] = IF i = 0 THEN <<>> ELSE Walked(t, e, g[i - 1])
  <2> HIDE DEF g
  <2> SUFFICES ASSUME NEW i \in 0..n PROVE g[i] = IF i = 0 THEN <<>> ELSE Walked(t, e, g[i - 1])
    OBVIOUS
  <2>1. i = 0 \/ i \in 1..n
    BY <1>1
  <2> QED
    BY <1>3, <1>4, <2>1
<1>6. g = Walk(g)
  <2>1. g = [i \in 0..n |-> g[i]]
    OBVIOUS
  <2> HIDE DEF g
  <2> QED
    BY <1>5, <2>1
<1>7. PICK w : ListFrom(t, e) = w[n] /\ w = Walk(w)
  <2> HIDE DEF Walk, g, n
  <2>1. (CHOOSE w : w = Walk(w)) = Walk(CHOOSE w : w = Walk(w))
    BY <1>6
  <2> QED
    BY <1>2, <2>1
<1>8. w[0] = <<>> /\ \A i \in 1..n : w[i] = Walked(t, e, w[i - 1])
  <2>1. \A i \in 0..n : Walk(w)[i] = IF i = 0 THEN <<>> ELSE Walked(t, e, w[i - 1])
    OBVIOUS
  <2> HIDE DEF Walk
  <2>2. \A i \in 0..n : w[i] = IF i = 0 THEN <<>> ELSE Walked(t, e, w[i - 1])
    BY <1>7, <2>1
  <2> QED
    BY <1>1, <2>2
<1>9. \A i \in 0..n : w[i] = g[i]
  <2> DEFINE T == {i \in 0..n : w[i] = g[i]}
  <2> HIDE DEF g
  <2>1. 0 \in T
    BY <1>1, <1>3, <1>8
  <2>2. \A i \in 1..n : i - 1 \in T => i \in T
    BY <1>1, <1>4, <1>8
  <2> HIDE DEF T
  <2>3. 0..n \subseteq T
    BY <1>1, <2>1, <2>2, BoundedInduction
  <2> QED
    BY <2>3 DEF T
<1>10. g[n] = SubSeq(o, j, Len(o))
  <2>1. n \in 0..n /\ upto(n) = Len(o)
    BY <1>1
  <2> HIDE DEF upto, n
  <2> QED
    BY <2>1
<1>11. n \in 0..n
  BY <1>1
<1> HIDE DEF g, n, Walk
<1>12. ListFrom(t, e) = w[n] /\ w[n] = g[n]
  BY <1>7, <1>9, <1>11
<1> QED
  BY <1>10, <1>12 DEF e

\* The walk from the head finds the list.
LEMMA OrderIs ==
  ASSUME NEW t \in Tables, NEW o, Linked(t, o)
  PROVE  Order(t) = o
<1>1. o \in Seq(Addresses(t)) /\ Len(o) \in Nat
  BY LinkedFacts
<1>2. 1 \in 1..(Len(o) + 1)
  BY <1>1
<1>3. ListFrom(t, LinkAt(o, 1)) = SubSeq(o, 1, Len(o))
  BY <1>2, ListFromIs
<1>4. t.head = LinkAt(o, 1)
  BY DEF Linked
<1>5. SubSeq(o, 1, Len(o)) = o
  BY <1>1, SubSeqFull
<1> QED
  BY <1>3, <1>4, <1>5 DEF Order

\* A table whose list and entries are in order.
Good(t) == TableOf(t, Order(t))

\* A table is in order when some list orders it.
LEMMA GoodIs ==
  ASSUME NEW t, NEW o, TableOf(t, o)
  PROVE  Good(t) /\ Order(t) = o
<1>1. t \in Tables /\ Linked(t, o)
  BY DEF TableOf
<1> QED
  BY <1>1, OrderIs DEF Good

\* What an entry holds.
LEMMA EntryFacts ==
  ASSUME NEW t, NEW o, TableOf(t, o), NEW a \in Used(t)
  PROVE  /\ t \in Tables /\ a \in Addresses(t) /\ At(t, a) \in Entries
         /\ At(t, a).key \in Key /\ At(t, a).value \in Value /\ HashOf[At(t, a).key] # Unhashable
         /\ At(t, a).hash = SlotHash(At(t, a).key) /\ a[1] = ChainOf(t, At(t, a).key)
         /\ \E i \in 1..Len(o) : o[i] = a
<1>1. t \in Tables /\ Filled(t) /\ Linked(t, o) /\ a \in Addresses(t)
  BY DEF TableOf, Used
<1>2. At(t, a) \in Entries
  BY <1>1, AddressFacts
<1>3. \E i \in 1..Len(o) : o[i] = a
  BY <1>1, LinkedFacts
<1> QED
  BY <1>1, <1>2, <1>3 DEF Filled

\* The items are those of the entries of the list, and all hashable.
LEMMA ItemsAre ==
  ASSUME NEW t, NEW o, TableOf(t, o)
  PROVE  /\ Items(t) = [i \in 1..Len(o) |-> <<At(t, o[i]).key, At(t, o[i]).value>>]
         /\ Keys(t) = [i \in 1..Len(o) |-> At(t, o[i]).key]
         /\ Len(o) \in Nat /\ Items(t) \in Seq(Key \X Value) /\ Len(Items(t)) = Len(o)
         /\ Keys(t) \in Seq(Key) /\ Len(Keys(t)) = Len(o)
         /\ \A i \in 1..Len(o) : HashOf[Items(t)[i][1]] # Unhashable
<1>1. t \in Tables /\ Linked(t, o) /\ Order(t) = o
  BY GoodIs DEF TableOf
<1>2. o \in Seq(Addresses(t)) /\ Len(o) \in Nat /\ DOMAIN o = 1..Len(o) /\ \A i \in 1..Len(o) : o[i] \in Used(t)
  BY <1>1, LinkedFacts
<1>3. \A i \in 1..Len(o) : At(t, o[i]).key \in Key /\ At(t, o[i]).value \in Value /\ HashOf[At(t, o[i]).key] # Unhashable
  BY <1>2, EntryFacts
<1>4. Items(t) = [i \in 1..Len(o) |-> <<At(t, o[i]).key, At(t, o[i]).value>>]
  BY <1>1, <1>2 DEF Items
<1>5. Keys(t) = [i \in 1..Len(o) |-> At(t, o[i]).key]
  BY <1>1, <1>2 DEF Keys, KeysFrom, Order
<1>6. Items(t) \in [1..Len(o) -> Key \X Value] /\ Keys(t) \in [1..Len(o) -> Key]
  BY <1>3, <1>4, <1>5
<1>7. Items(t) \in Seq(Key \X Value) /\ Len(Items(t)) = Len(o) /\ Keys(t) \in Seq(Key) /\ Len(Keys(t)) = Len(o)
  BY <1>2, <1>6
<1> QED
  BY <1>2, <1>3, <1>4, <1>5, <1>7

(***************************************************************************)
(* Searching.                                                              *)
(***************************************************************************)

\* A stored hash is not zero, which marks unused entries.
LEMMA SlotFacts ==
  ASSUME NEW k \in Key, HashOf[k] # Unhashable
  PROVE  SlotHash(k) \in Nat /\ SlotHash(k) # 0
  BY HashtableAssumption DEF SlotHash, Unhashable

\* The chain of a key is one of the chains.
LEMMA ChainFacts ==
  ASSUME NEW t \in Tables, t.chains # <<>>, NEW k \in Key, HashOf[k] # Unhashable
  PROVE  /\ Len(t.chains) \in Nat \ {0} /\ ChainOf(t, k) \in 1..Len(t.chains)
         /\ t.chains[ChainOf(t, k)] \in Seq(Entries)
<1>1. t.chains \in Seq(Seq(Entries)) /\ Len(t.chains) \in Nat \ {0}
  BY DEF Tables
<1>2. ChainOf(t, k) \in 1..Len(t.chains)
  BY <1>1, SlotFacts DEF ChainOf
<1> QED
  BY <1>1, <1>2

\* A search for k stops at the used entries whose key collides with k, and no others.
LEMMA HitsAre ==
  ASSUME NEW t, NEW o, TableOf(t, o), t.chains # <<>>, NEW k \in Key, HashOf[k] # Unhashable
  PROVE  /\ \A i \in Hits(t, k) : LET a == <<ChainOf(t, k), i>> IN a \in Used(t) /\ Collide(k, At(t, a).key)
         /\ \A a \in Used(t) : Collide(k, At(t, a).key) => a[2] \in Hits(t, k) /\ a = <<ChainOf(t, k), a[2]>>
<1> DEFINE c == ChainOf(t, k)
<1>1. t \in Tables /\ t.chains \in Seq(Seq(Entries)) /\ c \in 1..Len(t.chains) /\ t.chains[c] \in Seq(Entries)
  BY ChainFacts DEF TableOf, Tables
<1> HIDE DEF c
<1>2. ASSUME NEW i \in Hits(t, k) PROVE <<c, i>> \in Used(t) /\ Collide(k, At(t, <<c, i>>).key)
  <2>1. /\ i \in 1..Len(t.chains[c]) /\ t.chains[c][i].hash = SlotHash(k)
        /\ SameKey(k, t.chains[c][i].key) \/ EqualFails(k, t.chains[c][i].key)
    BY <1>1 DEF Hits, c
  <2>2. <<c, i>> \in Addresses(t) /\ At(t, <<c, i>>) = t.chains[c][i]
    BY <1>1, <2>1, AddressIntro DEF At
  <2>3. <<c, i>> \in Used(t)
    BY <2>1, <2>2, SlotFacts DEF Used
  <2>4. At(t, <<c, i>>).hash = SlotHash(At(t, <<c, i>>).key)
    BY <2>3, EntryFacts
  <2> QED
    BY <2>1, <2>2, <2>3, <2>4 DEF Collide
<1>3. ASSUME NEW a \in Used(t), Collide(k, At(t, a).key) PROVE a[2] \in Hits(t, k) /\ a = <<c, a[2]>>
  <2>1. a \in Addresses(t) /\ At(t, a).hash = SlotHash(At(t, a).key) /\ a[1] = ChainOf(t, At(t, a).key)
    BY EntryFacts
  <2>2. a[1] = c
    BY <1>3, <2>1 DEF Collide, ChainOf, c
  <2>3. a[2] \in 1..Len(t.chains[c]) /\ a = <<c, a[2]>>
    BY <1>1, <2>1, <2>2, AddressFacts
  <2>4. a[2] \in DOMAIN t.chains[c] /\ t.chains[c][a[2]] = At(t, a)
    BY <1>1, <2>2, <2>3 DEF At
  <2> QED
    BY <1>3, <2>1, <2>3, <2>4 DEF Hits, Collide, c
<1> QED
  BY <1>2, <1>3 DEF c

\* The entry at which it stops.
LEMMA HitIs ==
  ASSUME NEW t, NEW o, TableOf(t, o), t.chains # <<>>, NEW k \in Key, HashOf[k] # Unhashable, Hits(t, k) # {}
  PROVE  Hit(t, k) \in Used(t) /\ Collide(k, At(t, Hit(t, k)).key)
<1>1. t \in Tables /\ t.chains[ChainOf(t, k)] \in Seq(Entries)
  BY ChainFacts DEF TableOf
<1>2. Hits(t, k) \in SUBSET Nat
  BY <1>1 DEF Hits
<1>3. Min(Hits(t, k)) \in Hits(t, k)
  BY <1>2, MinFacts
<1> QED
  BY <1>3, HitsAre DEF Hit

(***************************************************************************)
(* insert: a value is replaced.                                            *)
(***************************************************************************)

Replaced(t, a, v) == [t EXCEPT !.chains[a[1]][a[2]].value = v]

\* Replacing a value leaves the rest of the table as it is.
LEMMA ReplaceKeeps ==
  ASSUME NEW t, NEW o, TableOf(t, o), NEW a \in Used(t), NEW v \in Value
  PROVE  LET u == Replaced(t, a, v)
         IN  /\ TableOf(u, o) /\ u.chains # <<>> /\ Len(u.chains) = Len(t.chains)
             /\ \A b \in Used(t) : At(u, b).key = At(t, b).key /\ At(u, b).value = IF b = a THEN v ELSE At(t, b).value
<1> DEFINE e == [At(t, a) EXCEPT !.value = v]
           u == SetEntry(t, a, e)
<1>1. /\ t \in Tables /\ Whole(t) /\ Linked(t, o) /\ Filled(t) /\ Apart(t)
      /\ a \in Addresses(t) /\ At(t, a) \in Entries
  BY EntryFacts DEF TableOf
<1>2. /\ e \in Entries /\ e.hash = At(t, a).hash /\ e.key = At(t, a).key /\ e.value = v
      /\ e.next = At(t, a).next /\ e.prev = At(t, a).prev
  BY <1>1 DEF Entries
<1> HIDE DEF e
<1>3. /\ u \in Tables /\ SameShape(t, u) /\ u.head = t.head /\ u.tail = t.tail /\ u.len = t.len
      /\ At(u, a) = e /\ \A b \in Addresses(t) : b # a => At(u, b) = At(t, b)
  BY <1>1, <1>2, SetEntryFacts
<1> HIDE DEF u
<1>4. /\ Addresses(u) = Addresses(t) /\ Whole(u) /\ \A k : ChainOf(u, k) = ChainOf(t, k)
      /\ u.chains = <<>> <=> t.chains = <<>>
  BY <1>1, <1>3, SameAddresses
<1>5. \A b \in Addresses(t) :
        /\ At(u, b).hash = At(t, b).hash /\ At(u, b).key = At(t, b).key
        /\ At(u, b).value = IF b = a THEN v ELSE At(t, b).value
        /\ At(u, b).next = At(t, b).next /\ At(u, b).prev = At(t, b).prev
  BY <1>2, <1>3
<1>6. Used(u) = Used(t)
  BY <1>4, <1>5 DEF Used
<1>7. \A b \in Used(t) : b \in Addresses(t)
  BY DEF Used
<1>8. Linked(u, o)
  <2>1. \A i \in DOMAIN o : o[i] \in Addresses(t)
    BY <1>1, LinkedFacts
  <2> QED
    BY <1>1, <1>3, <1>4, <1>5, <1>6, <2>1 DEF Linked
<1>9. Filled(u)
  <2> SUFFICES ASSUME NEW b \in Used(u)
               PROVE  /\ At(u, b).key \in Key /\ At(u, b).value \in Value /\ HashOf[At(u, b).key] # Unhashable
                      /\ At(u, b).hash = SlotHash(At(u, b).key) /\ b[1] = ChainOf(u, At(u, b).key)
    BY DEF Filled
  <2>1. b \in Used(t) /\ b \in Addresses(t)
    BY <1>6, <1>7
  <2> QED
    BY <1>4, <1>5, <2>1, EntryFacts
<1>10. Apart(u)
  BY <1>1, <1>5, <1>6, <1>7 DEF Apart
<1>11. u.chains # <<>> /\ Len(u.chains) = Len(t.chains)
  <2>1. t.chains # <<>>
    BY <1>1, AddressFacts
  <2> QED
    BY <1>3, <1>4, <2>1 DEF SameShape
<1>12. Replaced(t, a, v) = u
  <2>1. t.chains \in Seq(Seq(Entries)) /\ a[1] \in DOMAIN t.chains /\ a[2] \in DOMAIN t.chains[a[1]]
    BY <1>1, AddressFacts DEF Tables
  <2> QED
    BY <1>1, <2>1 DEF u, e, Replaced, SetEntry, At, Tables
<1>13. TableOf(u, o)
  BY <1>3, <1>4, <1>8, <1>9, <1>10 DEF TableOf
<1> QED
  BY <1>5, <1>7, <1>11, <1>12, <1>13

(***************************************************************************)
(* insert: an entry is added.                                              *)
(***************************************************************************)

\* What is asked of a table u with an entry at a that t does not have.
Extends(t, u, a, k, v) ==
  /\ u \in Tables /\ Whole(u) /\ u.chains # <<>>
  /\ a \in Addresses(u) /\ a \notin Used(t) /\ Used(u) = Used(t) \cup {a} /\ Addresses(t) \subseteq Addresses(u)
  /\ \A x : ChainOf(u, x) = ChainOf(t, x)
  /\ u.len = t.len + 1 /\ u.tail = a
  /\ u.head = IF t.tail = HeadLink THEN a ELSE t.head
  /\ At(u, a) = [hash |-> SlotHash(k), key |-> k, value |-> v, next |-> Nil, prev |-> t.tail]
  /\ \A b \in Used(t) : At(u, b) = IF b = t.tail THEN [At(t, b) EXCEPT !.next = a] ELSE At(t, b)

\* The links of the longer list.
LEMMA ExtendsLinked ==
  ASSUME NEW t, NEW o, TableOf(t, o), t.chains # <<>>, NEW u, NEW a, NEW k, NEW v, Extends(t, u, a, k, v)
  PROVE  Linked(u, Append(o, a))
<1> DEFINE A == Addresses(u)
           n == Len(o)
           q == Append(o, a)
<1>1. /\ t \in Tables /\ Linked(t, o) /\ o \in Seq(Addresses(t)) /\ n = t.len /\ n \in Nat /\ DOMAIN o = 1..n
      /\ \A i \in 1..n : o[i] \in Used(t) /\ o[i] # HeadLink
      /\ \A b \in Used(t) : \E i \in 1..n : o[i] = b
  BY LinkedFacts DEF TableOf
<1>2. \A i \in 1..n : o[i] \in A
  BY <1>1 DEF Extends, Used
<1>3. o \in Seq(A) /\ a \in A
  BY <1>1, <1>2 DEF Extends
<1> HIDE DEF A
<1>4. q \in Seq(A) /\ Len(q) = n + 1 /\ q[n + 1] = a /\ \A i \in 1..n : q[i] = o[i]
  BY <1>3, AppendProperties
<1>5. DOMAIN q = 1..(n + 1)
  BY <1>1, <1>4
<1> HIDE DEF q
<1>6. \A i \in 1..n : o[i] # a
  BY <1>1 DEF Extends
<1>7. ToSet(q) = Used(u)
  <2>1. ToSet(q) = {q[i] : i \in 1..(n + 1)}
    BY <1>5 DEF ToSet
  <2>2. ASSUME NEW b \in Used(u) PROVE b \in ToSet(q)
    <3>1. b \in Used(t) \/ b = a
      BY DEF Extends
    <3>2. \A i \in 1..n : i \in 1..(n + 1)
      BY <1>1
    <3>3. n + 1 \in 1..(n + 1)
      BY <1>1
    <3> QED
      BY <1>1, <1>4, <2>1, <3>1, <3>2, <3>3
  <2>3. ASSUME NEW i \in 1..(n + 1) PROVE q[i] \in Used(u)
    <3>1. i \in 1..n \/ i = n + 1
      BY <1>1
    <3> QED
      BY <1>1, <1>4, <3>1 DEF Extends
  <2> QED
    BY <2>1, <2>2, <2>3
<1>8. ASSUME NEW i \in DOMAIN q, NEW j \in DOMAIN q, q[i] = q[j] PROVE i = j
  <2>1. i \in 1..n \/ i = n + 1
    BY <1>1, <1>5
  <2>2. j \in 1..n \/ j = n + 1
    BY <1>1, <1>5
  <2>3. \A x, y \in 1..n : o[x] = o[y] => x = y
    BY <1>1 DEF Linked
  <2> QED
    BY <1>4, <1>6, <1>8, <2>1, <2>2, <2>3
<1>9. t.tail = BackLink(o, n + 1) /\ t.head = LinkAt(o, 1)
  BY <1>1 DEF Linked
<1>10. n = 0 \/ n \in 1..n
  BY <1>1
<1>11. t.tail = IF n = 0 THEN HeadLink ELSE o[n]
  BY <1>1, <1>9 DEF BackLink
<1>12. u.head = LinkAt(q, 1)
  <2>1. 1 \in DOMAIN q /\ (n # 0 => 1 \in DOMAIN o)
    BY <1>1, <1>5
  <2>2. CASE n = 0
    <3>1. u.head = a /\ q[1] = a
      BY <1>4, <1>11, <2>2 DEF Extends
    <3> QED
      BY <2>1, <3>1 DEF LinkAt
  <2>3. CASE n # 0
    <3>1. t.tail # HeadLink /\ u.head = t.head /\ t.head = o[1] /\ q[1] = o[1]
      BY <1>1, <1>4, <1>9, <1>10, <1>11, <2>1, <2>3 DEF Extends, LinkAt
    <3> QED
      BY <2>1, <3>1 DEF LinkAt
  <2> QED
    BY <2>2, <2>3
<1>13. ASSUME NEW i \in DOMAIN q PROVE At(u, q[i]).next = LinkAt(q, i + 1) /\ At(u, q[i]).prev = BackLink(q, i)
  <2>1. CASE i = n + 1
    <3>1. At(u, q[i]).next = Nil /\ At(u, q[i]).prev = t.tail
      BY <1>4, <2>1 DEF Extends
    <3>2. i + 1 \notin DOMAIN q
      BY <1>1, <1>5, <2>1
    <3>3. BackLink(q, i) = t.tail
      <4>1. i = 1 <=> n = 0
        BY <1>1, <2>1
      <4>2. i - 1 = n
        BY <1>1, <2>1
      <4>3. n # 0 => q[n] = o[n]
        BY <1>4, <1>10
      <4> QED
        BY <1>11, <4>1, <4>2, <4>3 DEF BackLink
    <3> QED
      BY <3>1, <3>2, <3>3 DEF LinkAt
  <2>2. CASE i # n + 1
    <3>1. i \in 1..n /\ q[i] = o[i] /\ o[i] \in Used(t)
      BY <1>1, <1>4, <1>5, <2>2
    <3>2. At(t, o[i]).next = LinkAt(o, i + 1) /\ At(t, o[i]).prev = BackLink(o, i)
      BY <1>1, <3>1 DEF Linked
    <3>3. At(t, o[i]) \in Entries
      BY <3>1, EntryFacts
    <3>4. At(u, o[i]).prev = At(t, o[i]).prev
      BY <3>1, <3>3 DEF Extends, Entries
    <3>5. BackLink(q, i) = BackLink(o, i)
      <4>1. i = 1 \/ i - 1 \in 1..n
        BY <1>1, <3>1
      <4> QED
        BY <1>4, <4>1 DEF BackLink
    <3>6. CASE i = n
      <4>1. o[i] = t.tail /\ LinkAt(q, i + 1) = a
        BY <1>1, <1>4, <1>5, <1>11, <3>1, <3>6 DEF LinkAt
      <4>2. At(u, o[i]).next = a
        BY <3>1, <3>3, <4>1 DEF Extends, Entries
      <4> QED
        BY <3>1, <3>2, <3>4, <3>5, <4>1, <4>2
    <3>7. CASE i # n
      <4>1. n \in 1..n /\ o[i] # o[n] /\ n # 0
        BY <1>1, <3>1, <3>7 DEF Linked
      <4>2. o[i] # t.tail
        BY <1>11, <4>1
      <4>3. At(u, o[i]) = At(t, o[i])
        BY <3>1, <4>2 DEF Extends
      <4>4. i + 1 \in 1..n /\ i + 1 \in 1..(n + 1)
        BY <1>1, <3>1, <3>7
      <4>5. LinkAt(q, i + 1) = LinkAt(o, i + 1)
        BY <1>1, <1>4, <1>5, <4>4 DEF LinkAt
      <4> QED
        BY <3>1, <3>2, <3>5, <4>3, <4>5
    <3> QED
      BY <3>6, <3>7
  <2> QED
    BY <2>1, <2>2
<1>14. u.tail = BackLink(q, Len(q) + 1)
  <2>1. Len(q) + 1 # 1 /\ (Len(q) + 1) - 1 = n + 1
    BY <1>1, <1>4
  <2> QED
    BY <1>4, <2>1 DEF BackLink, Extends
<1>15. Len(q) = u.len
  BY <1>1, <1>4 DEF Extends
<1> QED
  BY <1>4, <1>7, <1>8, <1>12, <1>13, <1>14, <1>15 DEF Linked, q, A

\* A table to which a key that stops at no entry is added stays in order.
LEMMA ExtendsKeeps ==
  ASSUME NEW t, NEW o, TableOf(t, o), t.chains # <<>>, NEW u, NEW a,
         NEW k \in Key, HashOf[k] # Unhashable, NEW v \in Value, Extends(t, u, a, k, v),
         a[1] = ChainOf(t, k), \A b \in Used(t) : ~Collide(k, At(t, b).key)
  PROVE  /\ TableOf(u, Append(o, a)) /\ a \notin Used(t)
         /\ At(u, a).key = k /\ At(u, a).value = v
         /\ \A b \in Used(t) : At(u, b).key = At(t, b).key /\ At(u, b).value = At(t, b).value
<1>1. /\ At(u, a).key = k /\ At(u, a).value = v /\ At(u, a).hash = SlotHash(k) /\ ChainOf(u, k) = ChainOf(t, k)
      /\ a \notin Used(t) /\ Used(u) = Used(t) \cup {a}
  BY DEF Extends
<1>2. \A b \in Used(t) : /\ At(u, b).key = At(t, b).key /\ At(u, b).value = At(t, b).value
                         /\ At(u, b).hash = At(t, b).hash
  <2> SUFFICES ASSUME NEW b \in Used(t)
               PROVE  /\ At(u, b).key = At(t, b).key /\ At(u, b).value = At(t, b).value
                      /\ At(u, b).hash = At(t, b).hash
    OBVIOUS
  <2>1. At(t, b) \in Entries
    BY EntryFacts
  <2> QED
    BY <2>1 DEF Extends, Entries
<1>3. Filled(u)
  <2> SUFFICES ASSUME NEW b \in Used(u)
               PROVE  /\ At(u, b).key \in Key /\ At(u, b).value \in Value /\ HashOf[At(u, b).key] # Unhashable
                      /\ At(u, b).hash = SlotHash(At(u, b).key) /\ b[1] = ChainOf(u, At(u, b).key)
    BY DEF Filled
  <2>1. CASE b = a
    BY <1>1, <2>1
  <2>2. CASE b \in Used(t)
    <3>1. ChainOf(u, At(u, b).key) = ChainOf(t, At(t, b).key)
      BY <1>2, <2>2 DEF Extends
    <3> QED
      BY <1>2, <2>2, <3>1, EntryFacts
  <2> QED
    BY <1>1, <2>1, <2>2
<1>4. \A x, y : Collide(x, y) => Collide(y, x)
  BY DEF Collide, SameKey, EqualFails
<1>5. Apart(u)
  <2> SUFFICES ASSUME NEW b \in Used(u), NEW c \in Used(u), b # c
               PROVE  ~Collide(At(u, b).key, At(u, c).key)
    BY DEF Apart
  <2>1. CASE b = a
    <3>1. c \in Used(t)
      BY <1>1, <2>1
    <3> QED
      BY <1>1, <1>2, <2>1, <3>1
  <2>2. CASE c = a
    <3>1. b \in Used(t)
      BY <1>1, <2>2
    <3> QED
      BY <1>1, <1>2, <1>4, <2>2, <3>1
  <2>3. CASE b # a /\ c # a
    <3>1. b \in Used(t) /\ c \in Used(t)
      BY <1>1, <2>3
    <3> QED
      BY <1>2, <3>1 DEF TableOf, Apart
  <2> QED
    BY <2>1, <2>2, <2>3
<1>6. Linked(u, Append(o, a)) /\ u \in Tables /\ Whole(u)
  BY ExtendsLinked DEF Extends
<1> QED
  BY <1>1, <1>2, <1>3, <1>5, <1>6 DEF TableOf

\* A bucket of unused entries.
LEMMA NewBucketFacts ==
  /\ Unused \in Entries /\ Unused.hash = 0
  /\ NewBucket \in Seq(Entries) /\ Len(NewBucket) = BucketSize /\ \A i \in 1..BucketSize : NewBucket[i] = Unused
<1>1. Unused \in Entries /\ Unused.hash = 0
  BY DEF Unused, Entries, Nil, NoLink, Link
<1>2. BucketSize \in Nat \ {0}
  BY HashtableAssumption
<1>3. NewBucket \in [1..BucketSize -> Entries]
  BY <1>1 DEF NewBucket
<1> QED
  BY <1>1, <1>2, <1>3 DEF NewBucket

\* A bucket is added to the c-th chain.
LEMMA WidenFacts ==
  ASSUME NEW t \in Tables, Whole(t), NEW c \in 1..Len(t.chains)
  PROVE  LET w == [t EXCEPT !.chains[c] = @ \o NewBucket]
         IN  /\ w \in Tables /\ Whole(w) /\ w.chains # <<>> /\ Len(w.chains) = Len(t.chains)
             /\ w.head = t.head /\ w.tail = t.tail /\ w.len = t.len
             /\ Addresses(t) \subseteq Addresses(w) /\ \A b \in Addresses(t) : At(w, b) = At(t, b)
             /\ Used(w) = Used(t)
             /\ \A k : ChainOf(w, k) = ChainOf(t, k)
             /\ LET a == <<c, Len(t.chains[c]) + 1>> IN a \in Addresses(w) /\ At(w, a).hash = 0
<1> DEFINE w == [t EXCEPT !.chains[c] = @ \o NewBucket]
           n == Len(t.chains[c])
           row == t.chains[c] \o NewBucket
           rows == [t.chains EXCEPT ![c] = row]
<1>1. /\ t.chains \in Seq(Seq(Entries)) /\ t.chains[c] \in Seq(Entries) /\ n \in Nat /\ BucketSize \in Nat \ {0}
      /\ DOMAIN t.chains = 1..Len(t.chains)
  BY HashtableAssumption DEF Tables
<1>2. /\ row \in Seq(Entries) /\ Len(row) = n + BucketSize
      /\ \A i \in 1..(n + BucketSize) : row[i] = IF i <= n THEN t.chains[c][i] ELSE NewBucket[i - n]
  <2> DEFINE old == t.chains[c]
             m   == Len(NewBucket)
  <2>1. old \in Seq(Entries) /\ NewBucket \in Seq(Entries) /\ m = BucketSize /\ Len(old) = n
    BY <1>1, NewBucketFacts
  <2> HIDE DEF old
  <2>2. /\ old \o NewBucket \in Seq(Entries) /\ Len(old \o NewBucket) = Len(old) + m
        /\ \A i \in 1..(Len(old) + m) : (old \o NewBucket)[i] = IF i <= Len(old) THEN old[i] ELSE NewBucket[i - Len(old)]
    BY <2>1, ConcatProperties
  <2> HIDE DEF m, n
  <2> QED
    BY <2>1, <2>2 DEF old
<1> HIDE DEF row
<1>3. rows \in Seq(Seq(Entries)) /\ Len(rows) = Len(t.chains) /\ rows[c] = row
      /\ \A d \in 1..Len(t.chains) : d # c => rows[d] = t.chains[d]
  BY <1>1, <1>2, ExceptSeq
<1>4. w = [t EXCEPT !.chains = rows]
  BY <1>1 DEF Tables, row
<1> HIDE DEF rows
<1>5. w \in Tables /\ w.chains = rows /\ w.head = t.head /\ w.tail = t.tail /\ w.len = t.len
  BY <1>3, <1>4 DEF Tables
<1> HIDE DEF w
<1>6. Whole(w)
  <2> SUFFICES ASSUME NEW d \in DOMAIN w.chains PROVE Len(w.chains[d]) % BucketSize = 0
    BY DEF Whole
  <2>1. d \in 1..Len(t.chains) /\ d \in DOMAIN t.chains
    BY <1>1, <1>3, <1>5
  <2>2. Len(t.chains[d]) % BucketSize = 0 /\ n % BucketSize = 0
    BY <1>1, <2>1 DEF Whole
  <2>3. (n + BucketSize) % BucketSize = 0
    BY <1>1, <2>2, WholeBuckets
  <2> QED
    BY <1>2, <1>3, <1>5, <2>1, <2>2, <2>3
<1>7. ASSUME NEW b \in Addresses(t) PROVE b \in Addresses(w) /\ At(w, b) = At(t, b)
  <2>1. b[1] \in 1..Len(t.chains) /\ b[2] \in 1..Len(t.chains[b[1]]) /\ b = <<b[1], b[2]>>
    BY AddressFacts
  <2>2. CASE b[1] = c
    <3>1. b[2] \in 1..(n + BucketSize) /\ b[2] <= n
      BY <1>1, <2>1, <2>2
    <3>2. row[b[2]] = t.chains[c][b[2]] /\ b[2] \in 1..Len(row)
      BY <1>2, <3>1
    <3>3. <<b[1], b[2]>> \in Addresses(w)
      BY <1>3, <1>5, <2>1, <2>2, <3>2, AddressIntro
    <3> QED
      BY <1>3, <1>5, <2>1, <2>2, <3>2, <3>3 DEF At
  <2>3. CASE b[1] # c
    <3>1. w.chains[b[1]] = t.chains[b[1]]
      BY <1>3, <1>5, <2>1, <2>3
    <3>2. <<b[1], b[2]>> \in Addresses(w)
      BY <1>3, <1>5, <2>1, <3>1, AddressIntro
    <3> QED
      BY <2>1, <3>1, <3>2 DEF At
  <2> QED
    BY <2>2, <2>3
<1>8. ASSUME NEW b \in Addresses(w), b \notin Addresses(t) PROVE At(w, b).hash = 0
  <2>1. b[1] \in 1..Len(t.chains) /\ b[2] \in 1..Len(rows[b[1]]) /\ b = <<b[1], b[2]>>
    BY <1>3, <1>5, AddressFacts
  <2>2. ~(b[2] \in 1..Len(t.chains[b[1]]))
    BY <1>8, <2>1, AddressIntro
  <2>3. b[1] = c
    BY <1>3, <2>1, <2>2
  <2>4. b[2] \in 1..(n + BucketSize) /\ ~(b[2] <= n) /\ b[2] - n \in 1..BucketSize
    <3> DEFINE z == b[2]
    <3>1. z \in 1..Len(row) /\ ~(z \in 1..n) /\ Len(row) = n + BucketSize
      BY <1>2, <1>3, <2>1, <2>2, <2>3
    <3>2. n \in Nat /\ BucketSize \in Nat
      BY <1>1
    <3> HIDE DEF z, n
    <3>3. z \in 1..(n + BucketSize) /\ ~(z <= n) /\ z - n \in 1..BucketSize
      BY <3>1, <3>2
    <3> QED
      BY <3>3 DEF z
  <2>5. row[b[2]] = Unused
    BY <1>2, <2>4, NewBucketFacts
  <2> QED
    BY <1>3, <1>5, <2>3, <2>5, NewBucketFacts DEF At
<1>9. Used(w) = Used(t)
  BY <1>7, <1>8 DEF Used
<1>10. \A k : ChainOf(w, k) = ChainOf(t, k)
  BY <1>3, <1>5 DEF ChainOf
<1>11. w.chains # <<>>
  BY <1>1, <1>3, <1>5
<1>12. <<c, n + 1>> \in Addresses(w) /\ At(w, <<c, n + 1>>).hash = 0
  <2>1. n + 1 \in 1..Len(row) /\ c \in 1..Len(w.chains) /\ w.chains[c] = row
    BY <1>1, <1>2, <1>3, <1>5
  <2>2. <<c, n + 1>> \in Addresses(w)
    BY <1>5, <2>1, AddressIntro
  <2>3. <<c, n + 1>> \notin Addresses(t)
    <3>1. ASSUME <<c, n + 1>> \in Addresses(t) PROVE FALSE
      <4>1. <<c, n + 1>>[2] \in 1..Len(t.chains[<<c, n + 1>>[1]])
        BY <3>1, AddressFacts
      <4> QED
        BY <1>1, <4>1
    <3> QED
      BY <3>1
  <2> QED
    BY <1>8, <2>2, <2>3
<1> QED
  BY <1>3, <1>5, <1>6, <1>7, <1>9, <1>10, <1>11, <1>12 DEF w

\* Entries and addresses are those of the chains.
LEMMA SameChains ==
  ASSUME NEW t \in Tables, NEW u \in Tables, u.chains = t.chains
  PROVE  SameShape(t, u) /\ Addresses(u) = Addresses(t) /\ \A b : At(u, b) = At(t, b)
  BY DEF SameShape, Addresses, At

\* Writing the link of an entry, or the head of the list.
LinkWritten(t, u, l, x) ==
  /\ u \in Tables /\ SameShape(t, u) /\ u.tail = t.tail /\ u.len = t.len
  /\ u.head = IF l = HeadLink THEN x ELSE t.head
  /\ \A b \in Addresses(t) : At(u, b) = IF b = l THEN [At(t, b) EXCEPT !.next = x] ELSE At(t, b)

\* It writes that link only.
LEMMA SetLinkIs ==
  ASSUME NEW t \in Tables, NEW l \in Addresses(t) \cup {HeadLink}, NEW x \in Link, NEW u, u = SetLink(t, l, x)
  PROVE  LinkWritten(t, u, l, x)
<1>1. CASE l = HeadLink
  <2>1. u = [t EXCEPT !.head = x]
    BY <1>1 DEF SetLink
  <2>2. u \in Tables /\ u.chains = t.chains /\ u.head = x /\ u.tail = t.tail /\ u.len = t.len
    BY ONLY t \in Tables, x \in Link, <2>1 DEF Tables
  <2>3. SameShape(t, u) /\ \A b : At(u, b) = At(t, b)
    BY <2>2, SameChains
  <2>4. \A b \in Addresses(t) : b # l
    BY <1>1, AddressFacts
  <2> QED
    BY <1>1, <2>2, <2>3, <2>4 DEF LinkWritten
<1>2. CASE l # HeadLink
  <2> DEFINE e == [At(t, l) EXCEPT !.next = x]
  <2>1. l \in Addresses(t) /\ At(t, l) \in Entries
    BY <1>2, AddressFacts
  <2>2. u = [t EXCEPT !.chains[l[1]][l[2]].next = x]
    BY <1>2 DEF SetLink
  <2>3. e \in Entries
    BY <2>1 DEF Entries
  <2>4. u = SetEntry(t, l, e)
    <3>1. t.chains \in Seq(Seq(Entries)) /\ l[1] \in DOMAIN t.chains /\ l[2] \in DOMAIN t.chains[l[1]]
      BY <2>1, AddressFacts DEF Tables
    <3> QED
      BY <2>2, <3>1 DEF SetEntry, At, Tables
  <2> HIDE DEF e
  <2>5. /\ u \in Tables /\ SameShape(t, u) /\ u.head = t.head /\ u.tail = t.tail /\ u.len = t.len
        /\ At(u, l) = e /\ \A b \in Addresses(t) : b # l => At(u, b) = At(t, b)
    BY <2>1, <2>3, <2>4, SetEntryFacts
  <2> QED
    BY <1>2, <2>5 DEF e, LinkWritten
<1> QED
  BY <1>1, <1>2

\* w is t, perhaps with more unused entries.
Widens(t, w) ==
  /\ w \in Tables /\ Whole(w) /\ w.chains # <<>> /\ Len(w.chains) = Len(t.chains)
  /\ w.head = t.head /\ w.tail = t.tail /\ w.len = t.len
  /\ Addresses(t) \subseteq Addresses(w) /\ \A b \in Addresses(t) : At(w, b) = At(t, b)
  /\ Used(w) = Used(t)
  /\ \A k : ChainOf(w, k) = ChainOf(t, k)

\* The unused entry at a of w is filled, and linked at the end.
Added(w, a, k, v) ==
  LET e    == [hash |-> SlotHash(k), key |-> k, value |-> v, next |-> Nil, prev |-> w.tail]
      full == [w EXCEPT !.chains[a[1]][a[2]] = e, !.tail = a, !.len = @ + 1]
  IN  SetLink(full, w.tail, a)

\* Filling an unused entry of the key's chain adds it at the end of the list.
LEMMA AddedExtends ==
  ASSUME NEW t, NEW o, TableOf(t, o), t.chains # <<>>, NEW w, Widens(t, w),
         NEW a \in Addresses(w), At(w, a).hash = 0, NEW k \in Key, HashOf[k] # Unhashable, NEW v \in Value
  PROVE  Extends(t, Added(w, a, k, v), a, k, v)
<1> DEFINE e    == [hash |-> SlotHash(k), key |-> k, value |-> v, next |-> Nil, prev |-> w.tail]
           w1   == SetEntry(w, a, e)
           full == [w EXCEPT !.chains[a[1]][a[2]] = e, !.tail = a, !.len = @ + 1]
           u    == SetLink(full, w.tail, a)
<1>1. t \in Tables /\ w \in Tables /\ w.tail \in Link /\ w.len \in Nat /\ t.tail = w.tail
  BY DEF TableOf, Widens, Tables
<1>2. e \in Entries /\ e.hash = SlotHash(k) /\ e.hash # 0
  BY <1>1, SlotFacts DEF Entries, Link, Nil
<1>3. a \in Link /\ a # HeadLink
  BY <1>1, AddressFacts
<1> HIDE DEF e
<1>4. /\ w1 \in Tables /\ SameShape(w, w1) /\ w1.head = w.head /\ w1.tail = w.tail /\ w1.len = w.len
      /\ At(w1, a) = e /\ \A b \in Addresses(w) : b # a => At(w1, b) = At(w, b)
  BY <1>1, <1>2, SetEntryFacts
<1>5. full = [w1 EXCEPT !.tail = a, !.len = w.len + 1]
  BY <1>1 DEF SetEntry, Tables
<1> HIDE DEF w1, full
<1>6. full \in Tables /\ full.chains = w1.chains /\ full.head = w.head /\ full.tail = a /\ full.len = w.len + 1
  <2> DEFINE x == w1.head
             n == w.len + 1
  <2>1. x \in Link /\ n \in Nat
    BY <1>1, <1>4 DEF Tables
  <2>2. full = [w1 EXCEPT !.tail = a, !.len = n]
    BY <1>5
  <2> HIDE DEF u, n
  <2>3. w1 \in Tables /\ a \in Link
    BY <1>3, <1>4
  <2>4. x = w.head
    BY <1>4
  <2> HIDE DEF x
  <2>5. full \in Tables /\ full.chains = w1.chains /\ full.head = w1.head /\ full.tail = a /\ full.len = n
    BY ONLY <2>1, <2>2, <2>3 DEF Tables
  <2> QED
    BY <1>4, <2>4, <2>5 DEF n, x
<1>7. /\ SameShape(w, full) /\ Addresses(full) = Addresses(w) /\ Whole(full) /\ full.chains # <<>>
      /\ \A x : ChainOf(full, x) = ChainOf(t, x)
  <2>1. SameShape(w, full)
    BY <1>4, <1>6 DEF SameShape
  <2> QED
    BY <1>1, <1>6, <2>1, SameAddresses DEF Widens
<1>8. At(full, a) = e /\ \A b \in Addresses(w) : b # a => At(full, b) = At(w, b)
  BY <1>4, <1>6 DEF At
<1>9. a \notin Used(t) /\ \A b \in Used(t) : b \in Addresses(w) /\ b # a /\ At(w, b) = At(t, b)
  BY DEF Widens, Used
<1>10. t.tail = HeadLink \/ t.tail \in Used(t)
  <2>1. Linked(t, o) /\ Len(o) \in Nat /\ \A i \in 1..Len(o) : o[i] \in Used(t)
    BY <1>1, LinkedFacts DEF TableOf
  <2>2. t.tail = IF Len(o) = 0 THEN HeadLink ELSE o[Len(o)]
    BY <2>1 DEF Linked, BackLink
  <2>3. Len(o) # 0 => Len(o) \in 1..Len(o)
    BY <2>1
  <2> QED
    BY <2>1, <2>2, <2>3
<1>11. /\ u \in Tables /\ SameShape(full, u) /\ u.tail = a /\ u.len = t.len + 1
       /\ u.head = IF t.tail = HeadLink THEN a ELSE t.head
       /\ \A b \in Addresses(full) : At(u, b) = IF b = t.tail THEN [At(full, b) EXCEPT !.next = a] ELSE At(full, b)
  <2> DEFINE l == w.tail
  <2>1. l \in Addresses(full) \cup {HeadLink} /\ l = t.tail /\ u = SetLink(full, l, a) /\ full \in Tables /\ a \in Link
    BY <1>1, <1>3, <1>6, <1>7, <1>9, <1>10
  <2> HIDE DEF l, u
  <2>2. LinkWritten(full, u, l, a)
    BY ONLY <2>1, SetLinkIs
  <2>3. w.len = t.len /\ w.head = t.head
    BY DEF Widens
  <2> QED
    BY <1>6, <2>1, <2>2, <2>3 DEF LinkWritten
<1> HIDE DEF u
<1>12. Addresses(u) = Addresses(w) /\ Whole(u) /\ u.chains # <<>> /\ \A x : ChainOf(u, x) = ChainOf(t, x)
  BY <1>6, <1>7, <1>11, SameAddresses
<1>13. a # t.tail /\ At(u, a) = e
  <2>1. a # t.tail
    BY <1>3, <1>9, <1>10
  <2> QED
    BY <1>7, <1>8, <1>11, <2>1
<1>14. \A b \in Addresses(w) : At(full, b) \in Entries
  BY <1>6, <1>7, AddressFacts
<1>15. \A b \in Addresses(w) : At(u, b).hash = At(full, b).hash
  BY <1>7, <1>11, <1>14 DEF Entries
<1>16. Used(u) = Used(t) \cup {a}
  <2>1. \A b \in Addresses(w) : At(u, b).hash # 0 <=> b = a \/ At(w, b).hash # 0
    BY <1>2, <1>8, <1>15
  <2>2. Used(u) = Used(w) \cup {a}
    BY <1>12, <2>1 DEF Used
  <2> QED
    BY <2>2 DEF Widens
<1>17. \A b \in Used(t) : At(u, b) = IF b = t.tail THEN [At(t, b) EXCEPT !.next = a] ELSE At(t, b)
  BY <1>7, <1>8, <1>9, <1>11
<1> HIDE DEF full
<1>18. Extends(t, u, a, k, v)
  BY <1>1, <1>9, <1>11, <1>12, <1>13, <1>16, <1>17 DEF Extends, Widens, e
<1> QED
  BY <1>18 DEF u, full, Added, e

\* The items of a table to which an entry was added at the end.
LEMMA ItemsExtend ==
  ASSUME NEW t, NEW o, TableOf(t, o), NEW u, NEW a, NEW k \in Key, NEW v \in Value,
         TableOf(u, Append(o, a)), At(u, a).key = k, At(u, a).value = v,
         \A b \in Used(t) : At(u, b).key = At(t, b).key /\ At(u, b).value = At(t, b).value
  PROVE  Items(u) = Append(Items(t), <<k, v>>)
<1> DEFINE p == Append(o, a)
<1>1. o \in Seq(Addresses(t)) /\ Len(o) \in Nat /\ \A i \in 1..Len(o) : o[i] \in Used(t)
  BY LinkedFacts DEF TableOf
<1>2. Len(p) = Len(o) + 1 /\ (\A i \in 1..Len(o) : p[i] = o[i]) /\ p[Len(o) + 1] = a
  BY <1>1, AppendProperties
<1>3. Items(t) = [i \in 1..Len(o) |-> <<At(t, o[i]).key, At(t, o[i]).value>>]
  BY ItemsAre
<1>4. Items(u) = [i \in 1..Len(p) |-> <<At(u, p[i]).key, At(u, p[i]).value>>]
  <2>1. TableOf(u, p)
    OBVIOUS
  <2> HIDE DEF p
  <2> QED
    BY ONLY <2>1, ItemsAre
<1> HIDE DEF p
<1> DEFINE x    == <<k, v>>
           more == Append(Items(t), x)
<1>5. Items(t) \in Seq(Key \X Value) /\ Len(Items(t)) = Len(o)
  BY ItemsAre
<1> HIDE DEF x
<1>6. /\ DOMAIN more = 1..(Len(o) + 1) /\ more = [i \in DOMAIN more |-> more[i]]
      /\ (\A i \in 1..Len(o) : more[i] = Items(t)[i]) /\ more[Len(o) + 1] = x
  <2>1. x \in Key \X Value
    BY DEF x
  <2> DEFINE y == Items(t)
  <2>2. y \in Seq(Key \X Value) /\ Len(y) = Len(o)
    BY <1>5
  <2>3. more = Append(y, x)
    OBVIOUS
  <2> HIDE DEF more, y
  <2>4. more \in Seq(Key \X Value) /\ Len(more) = Len(y) + 1 /\ (\A i \in 1..Len(y) : more[i] = y[i]) /\ more[Len(y) + 1] = x
    BY <2>1, <2>2, <2>3, AppendProperties
  <2>5. DOMAIN more = 1..(Len(o) + 1) /\ more = [i \in DOMAIN more |-> more[i]]
    BY <2>2, <2>4
  <2> QED
    BY <2>2, <2>4, <2>5 DEF y
<1> HIDE DEF more
<1>7. \A i \in 1..Len(o) : <<At(u, p[i]).key, At(u, p[i]).value>> = more[i]
  BY <1>1, <1>2, <1>3, <1>6
<1>8. <<At(u, p[Len(o) + 1]).key, At(u, p[Len(o) + 1]).value>> = more[Len(o) + 1]
  BY <1>2, <1>6 DEF x
<1>9. \A i \in 1..(Len(o) + 1) : i \in 1..Len(o) \/ i = Len(o) + 1
  BY <1>1
<1>10. \A i \in 1..(Len(o) + 1) : <<At(u, p[i]).key, At(u, p[i]).value>> = more[i]
  BY <1>7, <1>8, <1>9
<1>11. Items(u) = more
  BY <1>2, <1>4, <1>6, <1>10
<1> QED
  BY <1>11 DEF more, x

\* insert of a key that is not there puts its item last.
LEMMA PlaceNew ==
  ASSUME NEW t, NEW o, TableOf(t, o), t.chains # <<>>,
         NEW k \in Key, HashOf[k] # Unhashable, NEW v \in Value, Hits(t, k) = {}
  PROVE  LET u == Place(t, k, v)
         IN  Good(u) /\ u.chains # <<>> /\ Items(u) = Append(Items(t), <<k, v>>)
<1> DEFINE c    == ChainOf(t, k)
           n    == Len(t.chains[c])
           room == {i \in DOMAIN t.chains[c] : t.chains[c][i].hash = 0}
           a    == IF room # {} THEN <<c, Max(room)>> ELSE <<c, n + 1>>
           w    == IF room # {} THEN t ELSE [t EXCEPT !.chains[c] = @ \o NewBucket]
           u    == Added(w, a, k, v)
<1>1. t \in Tables /\ Whole(t) /\ c \in 1..Len(t.chains) /\ t.chains[c] \in Seq(Entries)
  BY ChainFacts DEF TableOf
<1>2. Widens(t, w) /\ a \in Addresses(w) /\ At(w, a).hash = 0 /\ a[1] = c
  <2>1. CASE room # {}
    <3>1. n \in Nat /\ room \in SUBSET (1..n)
      BY <1>1
    <3>2. Max(room) \in room
      BY <2>1, <3>1, MaxFacts
    <3>3. Max(room) \in 1..n /\ t.chains[c][Max(room)].hash = 0
      BY <1>1, <3>2
    <3> HIDE DEF room
    <3>4. a = <<c, Max(room)>> /\ w = t
      BY <2>1
    <3>5. a \in Addresses(w) /\ At(w, a).hash = 0 /\ a[1] = c
      BY <1>1, <3>3, <3>4, AddressIntro DEF At
    <3> HIDE DEF a, w
    <3> QED
      BY <1>1, <3>4, <3>5 DEF Widens
  <2>2. CASE room = {}
    <3> HIDE DEF room
    <3>1. a = <<c, n + 1>> /\ w = [t EXCEPT !.chains[c] = @ \o NewBucket]
      BY <2>2
    <3> HIDE DEF a, w, c
    <3> QED
      BY <1>1, <3>1, WidenFacts DEF Widens
  <2> QED
    BY <2>1, <2>2
<1>3. Place(t, k, v) = u
  <2>1. t.tail = w.tail
    BY <1>2 DEF Widens
  <2> QED
    BY <2>1 DEF Place, Added
<1> HIDE DEF a, w, u
<1>4. Extends(t, u, a, k, v)
  BY <1>2, AddedExtends DEF u
<1>5. \A b \in Used(t) : ~Collide(k, At(t, b).key)
  BY HitsAre
<1>6. /\ TableOf(u, Append(o, a)) /\ At(u, a).key = k /\ At(u, a).value = v
      /\ \A b \in Used(t) : At(u, b).key = At(t, b).key /\ At(u, b).value = At(t, b).value
  <2>1. a[1] = ChainOf(t, k)
    BY <1>2
  <2> HIDE DEF c
  <2> QED
    BY <1>4, <1>5, <2>1, ExtendsKeeps
<1>7. Items(u) = Append(Items(t), <<k, v>>)
  BY <1>6, ItemsExtend
<1> QED
  BY <1>3, <1>4, <1>6, <1>7, GoodIs DEF Extends

\* A key at which a search for k stops is the only one in the table.
LEMMA StopsOnce ==
  ASSUME NEW t, NEW o, TableOf(t, o), NEW a \in Used(t), NEW b \in Used(t), NEW k \in Key,
         Collide(k, At(t, a).key), Collide(k, At(t, b).key)
  PROVE  a = b
<1> DEFINE x == At(t, a).key
           y == At(t, b).key
<1>1. x \in Key /\ y \in Key
  BY EntryFacts
<1> HIDE DEF x, y
<1>2. Collide(k, x) /\ Collide(k, y)
  BY DEF x, y
<1>3. Collide(x, y)
  BY <1>1, <1>2, HashtableAssumption DEF Collide, SameKey, EqualFails
<1> QED
  BY <1>3 DEF x, y, TableOf, Apart

\* Where a search for k ends, as a position in the list.
LEMMA FoundAt ==
  ASSUME NEW t, NEW o, TableOf(t, o), t.chains # <<>>, NEW k \in Key, HashOf[k] # Unhashable
  PROVE  /\ Hits(t, k) = {} <=> \A i \in 1..Len(o) : ~Collide(k, Items(t)[i][1])
         /\ Hits(t, k) # {} =>
              \E p \in 1..Len(o) :
                /\ o[p] = Hit(t, k) /\ Collide(k, Items(t)[p][1])
                /\ At(t, Hit(t, k)).key = Items(t)[p][1] /\ At(t, Hit(t, k)).value = Items(t)[p][2]
                /\ \A i \in 1..Len(o) : Collide(k, Items(t)[i][1]) => i = p
<1>1. t \in Tables /\ Linked(t, o)
  BY DEF TableOf
<1>2. /\ \A i \in 1..Len(o) : o[i] \in Used(t)
      /\ \A a \in Used(t) : \E i \in 1..Len(o) : o[i] = a
      /\ \A i, j \in 1..Len(o) : o[i] = o[j] => i = j
  <2>1. DOMAIN o = 1..Len(o) /\ \A i \in 1..Len(o) : o[i] \in Used(t)
    BY <1>1, LinkedFacts
  <2>2. \A a \in Used(t) : \E i \in 1..Len(o) : o[i] = a
    BY <1>1, LinkedFacts
  <2>3. \A i, j \in DOMAIN o : o[i] = o[j] => i = j
    BY <1>1 DEF Linked
  <2> QED
    BY <2>1, <2>2, <2>3
<1>3. \A i \in 1..Len(o) : Items(t)[i][1] = At(t, o[i]).key /\ Items(t)[i][2] = At(t, o[i]).value
  BY ItemsAre
<1>4. (\E i \in 1..Len(o) : Collide(k, Items(t)[i][1])) => Hits(t, k) # {}
  BY <1>2, <1>3, HitsAre
<1>5. ASSUME Hits(t, k) # {}
      PROVE  \E p \in 1..Len(o) :
                /\ o[p] = Hit(t, k) /\ Collide(k, Items(t)[p][1])
                /\ At(t, Hit(t, k)).key = Items(t)[p][1] /\ At(t, Hit(t, k)).value = Items(t)[p][2]
                /\ \A i \in 1..Len(o) : Collide(k, Items(t)[i][1]) => i = p
  <2>1. Hit(t, k) \in Used(t) /\ Collide(k, At(t, Hit(t, k)).key)
    BY <1>5, HitIs
  <2>2. PICK p \in 1..Len(o) : o[p] = Hit(t, k)
    BY <1>2, <2>1
  <2>3. \A i \in 1..Len(o) : Collide(k, Items(t)[i][1]) => i = p
    BY <1>2, <1>3, <2>1, <2>2, StopsOnce
  <2> QED
    BY <1>3, <2>1, <2>2, <2>3
<1> QED
  BY <1>4, <1>5

\* insert of a key that is there changes the value of its item, in place.
LEMMA PlaceFound ==
  ASSUME NEW t, NEW o, TableOf(t, o), t.chains # <<>>,
         NEW k \in Key, HashOf[k] # Unhashable, NEW v \in Value, Hits(t, k) # {}, ~HitFails(t, k)
  PROVE  LET u == Place(t, k, v)
         IN  /\ TableOf(u, o) /\ u.chains # <<>>
             /\ Items(u) = [i \in 1..Len(o) |-> IF o[i] = Hit(t, k) THEN <<Items(t)[i][1], v>> ELSE Items(t)[i]]
<1> DEFINE a == Hit(t, k)
           u == Replaced(t, a, v)
<1>1. a \in Used(t)
  BY HitIs
<1>2. Place(t, k, v) = u
  BY DEF Place, Replaced
<1> HIDE DEF a
<1>3. /\ TableOf(u, o) /\ u.chains # <<>>
      /\ \A b \in Used(t) : At(u, b).key = At(t, b).key /\ At(u, b).value = IF b = a THEN v ELSE At(t, b).value
  <2>1. TableOf(t, o) /\ a \in Used(t) /\ v \in Value
    BY <1>1
  <2> QED
    BY ONLY <2>1, ReplaceKeeps
<1> HIDE DEF u
<1>4. \A i \in 1..Len(o) : o[i] \in Used(t)
  BY LinkedFacts DEF TableOf
<1>5. Items(t) = [i \in 1..Len(o) |-> <<At(t, o[i]).key, At(t, o[i]).value>>]
  BY ItemsAre
<1>6. Items(u) = [i \in 1..Len(o) |-> <<At(u, o[i]).key, At(u, o[i]).value>>]
  BY <1>3, ItemsAre
<1>7. \A i \in 1..Len(o) : <<At(u, o[i]).key, At(u, o[i]).value>> = IF o[i] = a THEN <<Items(t)[i][1], v>> ELSE Items(t)[i]
  BY <1>3, <1>4, <1>5
<1>8. Items(u) = [i \in 1..Len(o) |-> IF o[i] = a THEN <<Items(t)[i][1], v>> ELSE Items(t)[i]]
  BY <1>6, <1>7
<1> QED
  BY <1>2, <1>3, <1>8 DEF a

\* insert of a key that cannot be compared with one that is there does nothing.
LEMMA PlaceFails ==
  ASSUME NEW t, NEW k, NEW v, Hits(t, k) # {}, HitFails(t, k)
  PROVE  Place(t, k, v) = t
  BY DEF Place

\* A fresh table is empty.
LEMMA FreshIs ==
  ASSUME NEW n \in Nat
  PROVE  /\ TableOf(Fresh(n), <<>>) /\ Len(Fresh(n).chains) = n /\ (n # 0 => Fresh(n).chains # <<>>)
         /\ Items(Fresh(n)) = <<>> /\ Keys(Fresh(n)) = <<>> /\ Used(Fresh(n)) = {}
<1> DEFINE t == Fresh(n)
<1>1. t.chains = [i \in 1..n |-> NewBucket] /\ t.head = Nil /\ t.tail = HeadLink /\ t.len = 0
  BY DEF Fresh
<1>2. t.chains \in Seq(Seq(Entries)) /\ Len(t.chains) = n /\ DOMAIN t.chains = 1..n
  BY <1>1, NewBucketFacts
<1>3. t \in Tables
  BY <1>2 DEF Tables, Fresh, Link, Nil, HeadLink
<1> HIDE DEF t
<1>4. Whole(t)
  <2>1. BucketSize % BucketSize = 0
    BY HashtableAssumption
  <2> QED
    BY <1>1, <1>2, <2>1, NewBucketFacts DEF Whole
<1>5. \A a \in Addresses(t) : At(t, a).hash = 0
  <2> SUFFICES ASSUME NEW a \in Addresses(t) PROVE At(t, a).hash = 0
    OBVIOUS
  <2>1. a[1] \in 1..n /\ a[2] \in 1..Len(t.chains[a[1]])
    BY <1>2, <1>3, AddressFacts
  <2>2. t.chains[a[1]] = NewBucket /\ a[2] \in 1..BucketSize
    BY <1>1, <2>1, NewBucketFacts
  <2> QED
    BY <2>2, NewBucketFacts DEF At
<1>6. Used(t) = {}
  BY <1>5 DEF Used
<1>7. TableOf(t, <<>>)
  <2>1. ToSet(<<>>) = {}
    BY DEF ToSet
  <2>2. <<>> \in Seq(Addresses(t)) /\ Len(<<>>) = 0
    OBVIOUS
  <2>3. Linked(t, <<>>)
    BY <1>1, <1>6, <2>1, <2>2 DEF Linked, LinkAt, BackLink
  <2> QED
    BY <1>3, <1>4, <1>6, <2>3 DEF TableOf, Filled, Apart
<1>8. Items(t) = <<>> /\ Keys(t) = <<>>
  BY <1>7, ItemsAre
<1>9. n # 0 => t.chains # <<>>
  BY <1>2
<1> QED
  BY <1>2, <1>6, <1>7, <1>8, <1>9 DEF t

\* A table that was never used is empty, and so is the one that Ready makes of it.
LEMMA NilIs ==
  /\ TableOf(NilTable, <<>>) /\ NilTable.chains = <<>> /\ Used(NilTable) = {}
  /\ Items(NilTable) = <<>> /\ Keys(NilTable) = <<>>
<1>1. NilTable \in Tables
  BY DEF Tables, NilTable, Link, Nil, NoLink
<1>2. NilTable.chains = <<>> /\ NilTable.head = Nil /\ NilTable.len = 0
  BY DEF NilTable
<1>3. Addresses(NilTable) = {} /\ Used(NilTable) = {}
  BY <1>2 DEF Addresses, Used
<1>4. ToSet(<<>>) = {} /\ <<>> \in Seq(Addresses(NilTable)) /\ Len(<<>>) = 0
  BY DEF ToSet
<1>5. Linked(NilTable, <<>>)
  BY <1>2, <1>3, <1>4 DEF Linked, LinkAt, BackLink
<1>6. TableOf(NilTable, <<>>)
  BY <1>1, <1>2, <1>3, <1>5 DEF TableOf, Whole, Filled, Apart
<1> QED
  BY <1>2, <1>3, <1>6, ItemsAre

(***************************************************************************)
(* grow.                                                                   *)
(***************************************************************************)

\* The tables that were used, in order.
GoodTables == {t \in Tables : t.chains # <<>> /\ Good(t)}

\* insert, past its checks, keeps a table in order.
LEMMA PlaceKeeps ==
  ASSUME NEW t \in GoodTables, NEW k \in Key, HashOf[k] # Unhashable, NEW v \in Value
  PROVE  Place(t, k, v) \in GoodTables
<1> DEFINE o == Order(t)
           u == Place(t, k, v)
<1>1. TableOf(t, o) /\ t.chains # <<>>
  BY DEF GoodTables, Good
<1> HIDE DEF o, u
<1>2. Good(u) /\ u.chains # <<>>
  <2>1. CASE Hits(t, k) = {}
    BY <1>1, <2>1, PlaceNew DEF u
  <2>2. CASE Hits(t, k) # {} /\ HitFails(t, k)
    <3>1. u = t
      BY <2>2, PlaceFails DEF u
    <3> QED
      BY <1>1, <3>1, GoodIs
  <2>3. CASE Hits(t, k) # {} /\ ~HitFails(t, k)
    <3>1. TableOf(u, o) /\ u.chains # <<>>
      BY <1>1, <2>3, PlaceFound DEF u
    <3> QED
      BY <3>1, GoodIs
  <2> QED
    BY <2>1, <2>2, <2>3
<1>3. u \in Tables
  BY <1>2 DEF Good, TableOf
<1> QED
  BY <1>2, <1>3 DEF GoodTables, u

\* Items none of whose keys stops the search for another, inserted in turn, are the
\* items of the table.
LEMMA RefilledIs ==
  ASSUME NEW n \in Nat \ {0}, NEW items \in Seq(Key \X Value),
         \A i \in 1..Len(items) : HashOf[items[i][1]] # Unhashable,
         \A i, j \in 1..Len(items) : i # j => ~Collide(items[i][1], items[j][1])
  PROVE  LET t == Refilled(n, items) IN Good(t) /\ t.chains # <<>> /\ Items(t) = items
<1> DEFINE m       == Len(items)
           At1(t, i) == Place(t, items[i][1], items[i][2])
           F       == [p \in (1..m) \X GoodTables |-> At1(p[2], p[1])]
           Step(w) == [i \in 0..m |-> IF i = 0 THEN Fresh(n) ELSE At1(w[i - 1], i)]
<1>1. m \in Nat /\ \A i \in 1..m : items[i] \in Key \X Value /\ items[i] = <<items[i][1], items[i][2]>>
  BY ElementOfSeq
<1>2. Fresh(n) \in GoodTables
  <2>1. TableOf(Fresh(n), <<>>) /\ Fresh(n).chains # <<>>
    BY FreshIs
  <2>2. Good(Fresh(n)) /\ Fresh(n) \in Tables
    BY <2>1, GoodIs DEF TableOf
  <2> QED
    BY <2>1, <2>2 DEF GoodTables
<1>3. \A i \in 1..m, t \in GoodTables : At1(t, i) \in GoodTables
  BY <1>1, PlaceKeeps
<1>4. Refilled(n, items) = (CHOOSE w : w = Step(w))[m]
  BY DEF Refilled
<1> HIDE DEF At1
<1>5. F \in [(1..m) \X GoodTables -> GoodTables]
  BY <1>3
<1>6. PICK f \in [0..m -> GoodTables] : f[0] = Fresh(n) /\ \A i \in 1..m : f[i] = F[<<i, f[i - 1]>>]
  <2> DEFINE s0 == Fresh(n)
  <2>1. s0 \in GoodTables /\ m \in Nat /\ F \in [(1..m) \X GoodTables -> GoodTables]
    BY <1>1, <1>2, <1>5
  <2> HIDE DEF F, m, s0, Step
  <2>2. \E f : Solution(f, m, GoodTables, s0, F)
    BY ONLY <2>1, Recursion
  <2> QED
    BY <2>2 DEF s0, Solution
<1>7. f = Step(f)
  <2>1. ASSUME NEW i \in 0..m PROVE f[i] = IF i = 0 THEN Fresh(n) ELSE At1(f[i - 1], i)
    <3>1. CASE i = 0
      BY <1>6, <3>1
    <3>2. CASE i # 0
      <4>1. i \in 1..m /\ i - 1 \in 0..m /\ f[i - 1] \in GoodTables
        BY <1>1, <1>6, <3>2
      <4>2. F[<<i, f[i - 1]>>] = At1(f[i - 1], i)
        BY <4>1
      <4> QED
        BY <1>6, <3>2, <4>1, <4>2
    <3> QED
      BY <3>1, <3>2
  <2>2. f = [i \in 0..m |-> f[i]]
    BY <1>6
  <2> QED
    BY <2>1, <2>2
<1>8. PICK w : Refilled(n, items) = w[m] /\ w = Step(w)
  <2> HIDE DEF Step, m
  <2>1. (CHOOSE w : w = Step(w)) = Step(CHOOSE w : w = Step(w))
    BY <1>7
  <2> QED
    BY <1>4, <2>1
<1>9. w[0] = Fresh(n) /\ \A i \in 1..m : w[i] = At1(w[i - 1], i)
  <2>1. \A i \in 0..m : Step(w)[i] = IF i = 0 THEN Fresh(n) ELSE At1(w[i - 1], i)
    OBVIOUS
  <2> HIDE DEF Step
  <2>2. \A i \in 0..m : w[i] = IF i = 0 THEN Fresh(n) ELSE At1(w[i - 1], i)
    BY <1>8, <2>1
  <2> QED
    BY <1>1, <2>2
<1> HIDE DEF F, Step
<1> DEFINE T == {i \in 0..m : w[i] \in GoodTables /\ Items(w[i]) = SubSeq(items, 1, i)}
<1>10. 0 \in T
  <2>1. Items(Fresh(n)) = <<>> /\ SubSeq(items, 1, 0) = <<>>
    BY FreshIs, SubSeqEmpty
  <2>2. 0 \in 0..m /\ w[0] \in GoodTables /\ Items(w[0]) = SubSeq(items, 1, 0)
    BY <1>1, <1>2, <1>9, <2>1
  <2> HIDE DEF m
  <2> QED
    BY <2>2
<1>11. ASSUME NEW i \in 1..m, i - 1 \in T PROVE i \in T
  <2> DEFINE t == w[i - 1]
             k == items[i][1]
             v == items[i][2]
             o == Order(t)
             u == w[i]
             done == SubSeq(items, 1, i - 1)
  <2>1. t \in GoodTables /\ Items(t) = done /\ k \in Key /\ v \in Value /\ HashOf[k] # Unhashable /\ <<k, v>> = items[i]
    BY <1>1, <1>11
  <2>2. u = Place(t, k, v)
    BY <1>9 DEF At1
  <2>3. Len(done) = i - 1 /\ \A j \in 1..(i - 1) : done[j] = items[j]
    BY <1>1, SubSeqProperties
  <2>4. \A j \in 1..(i - 1) : ~Collide(k, done[j][1])
    <3>1. \A j \in 1..(i - 1) : j \in 1..m /\ j # i
      BY <1>1
    <3> HIDE DEF done
    <3> QED
      BY <2>3, <3>1
  <2>5. Append(done, <<k, v>>) = SubSeq(items, 1, i)
    <3>1. i \in 1..Len(items) /\ items \in Seq(Key \X Value) /\ done \in Seq(Key \X Value) /\ items[i] \in Key \X Value
      BY <1>1, SubSeqProperties
    <3>2. SubSeq(items, 1, i) = done \o <<items[i]>>
      BY <3>1, SubSeqRecursiveSecond
    <3> DEFINE x == items[i]
    <3> HIDE DEF done, x
    <3>3. done \o <<x>> = Append(done, x)
      BY <3>1, AppendIsConcat DEF x
    <3> QED
      BY <2>1, <3>2, <3>3 DEF x
  <2> HIDE DEF t, k, v, u, done
  <2>6. TableOf(t, o) /\ t.chains # <<>>
    BY <2>1 DEF GoodTables, Good
  <2> HIDE DEF o
  <2>7. Len(o) = i - 1
    BY <2>1, <2>3, <2>6, ItemsAre
  <2>8. Hits(t, k) = {}
    BY <2>1, <2>4, <2>6, <2>7, FoundAt
  <2>9. Items(u) = Append(done, <<k, v>>)
    BY <2>1, <2>2, <2>6, <2>8, PlaceNew
  <2>10. u \in GoodTables
    BY <2>1, <2>2, PlaceKeeps
  <2>11. i \in 0..m /\ w[i] \in GoodTables /\ Items(w[i]) = SubSeq(items, 1, i)
    <3>1. i \in 0..m
      BY <1>1
    <3>2. w[i] = u
      BY DEF u
    <3> QED
      BY <2>5, <2>9, <2>10, <3>1, <3>2
  <2> HIDE DEF m
  <2> QED
    BY <2>11
<1> HIDE DEF T, m
<1>12. 0..m \subseteq T
  BY <1>1, <1>10, <1>11, BoundedInduction
<1>13. w[m] \in GoodTables /\ Items(w[m]) = SubSeq(items, 1, m)
  BY <1>1, <1>12 DEF T
<1>14. SubSeq(items, 1, m) = items
  BY SubSeqFull DEF m
<1> QED
  BY <1>8, <1>13, <1>14 DEF GoodTables

\* grow keeps the items, in order.
LEMMA GrowKeeps ==
  ASSUME NEW t, NEW o, TableOf(t, o), t.chains # <<>>
  PROVE  Good(Grow(t)) /\ Grow(t).chains # <<>> /\ Items(Grow(t)) = Items(t)
<1> DEFINE n == 2 * Len(t.chains)
           m == Items(t)
<1>1. t \in Tables /\ Linked(t, o) /\ Apart(t) /\ n \in Nat \ {0}
  BY DEF TableOf, Tables
<1>2. /\ m \in Seq(Key \X Value) /\ Len(m) = Len(o) /\ Len(o) \in Nat
      /\ \A i \in 1..Len(o) : HashOf[m[i][1]] # Unhashable
      /\ m = [i \in 1..Len(o) |-> <<At(t, o[i]).key, At(t, o[i]).value>>]
  BY ItemsAre
<1>3. /\ \A i \in 1..Len(o) : o[i] \in Used(t)
      /\ \A i, j \in 1..Len(o) : o[i] = o[j] => i = j
  <2>1. t \in Tables /\ Linked(t, o)
    BY <1>1
  <2>2. DOMAIN o = 1..Len(o) /\ \A i \in 1..Len(o) : o[i] \in Used(t)
    BY <2>1, LinkedFacts
  <2>3. \A i, j \in DOMAIN o : o[i] = o[j] => i = j
    BY <2>1 DEF Linked
  <2> QED
    BY <2>2, <2>3
<1>4. \A i, j \in 1..Len(o) : i # j => ~Collide(At(t, o[i]).key, At(t, o[j]).key)
  BY <1>1, <1>3 DEF Apart
<1>5. Grow(t) = Refilled(n, m)
  BY DEF Grow
<1> HIDE DEF n, m
<1>6. \A i, j \in 1..Len(m) : i # j => ~Collide(m[i][1], m[j][1])
  BY <1>2, <1>4
<1>7. \A i \in 1..Len(m) : HashOf[m[i][1]] # Unhashable
  BY <1>2
<1>8. LET u == Refilled(n, m) IN Good(u) /\ u.chains # <<>> /\ Items(u) = m
  BY <1>1, <1>2, <1>6, <1>7, RefilledIs
<1> QED
  BY <1>5, <1>8 DEF m

\* The first bucket of a table that was never used.
LEMMA ReadyIs ==
  ASSUME NEW t, NEW o, TableOf(t, o)
  PROVE  TableOf(Ready(t), o) /\ Ready(t).chains # <<>> /\ Items(Ready(t)) = Items(t)
<1>1. CASE t.chains # <<>>
  <2>1. Ready(t) = t
    BY <1>1 DEF Ready
  <2> QED
    BY <1>1, <2>1
<1>2. CASE t.chains = <<>>
  <2>1. t \in Tables /\ Linked(t, o) /\ Used(t) = {}
    BY <1>2 DEF TableOf, Used, Addresses
  <2>2. o \in Seq(Addresses(t)) /\ Len(o) = t.len /\ Len(o) \in Nat /\ \A i \in 1..Len(o) : o[i] \in Used(t)
    BY <2>1, LinkedFacts
  <2>3. Len(o) = 0 /\ o = <<>> /\ t.len = 0
    <3>1. \A i \in 1..Len(o) : FALSE
      BY <2>1, <2>2
    <3>2. Len(o) # 0 => 1 \in 1..Len(o)
      BY <2>2
    <3> QED
      BY <2>2, <3>1, <3>2
  <2>4. t.head = Nil
    BY <2>1, <2>3 DEF Linked, LinkAt
  <2>5. Fresh(1).chains = <<NewBucket>>
    BY DEF Fresh
  <2>6. Ready(t) = Fresh(1)
    <3>1. Ready(t) = [t EXCEPT !.chains = <<NewBucket>>, !.tail = HeadLink]
      BY <1>2 DEF Ready
    <3>2. Fresh(1) = [chains |-> <<NewBucket>>, head |-> Nil, tail |-> HeadLink, len |-> 0]
      BY DEF Fresh
    <3> HIDE DEF NewBucket
    <3> QED
      BY <2>1, <2>3, <2>4, <3>1, <3>2 DEF Tables
  <2>7. TableOf(Fresh(1), <<>>) /\ Fresh(1).chains # <<>> /\ Items(Fresh(1)) = <<>>
    BY FreshIs
  <2>8. Items(t) = <<>>
    BY <2>3, ItemsAre
  <2> QED
    BY <2>3, <2>6, <2>7, <2>8
<1> QED
  BY <1>1, <1>2

(***************************************************************************)
(* What insert, delete and lookup do to the items.                         *)
(***************************************************************************)

\* The positions of the items that stop a search for k, and those of k's own.
Stops(m, k)     == {i \in DOMAIN m : Collide(k, m[i][1])}
Placed(m, k, v) ==
  IF Stops(m, k) = {} THEN Append(m, <<k, v>>)
  ELSE [i \in DOMAIN m |-> IF i \in Stops(m, k) THEN <<m[i][1], v>> ELSE m[i]]
Failing(m, k)   == \E i \in Stops(m, k) : EqualFails(k, m[i][1])

\* The search, as a question about the items.
LEMMA SearchIs ==
  ASSUME NEW t, NEW o, TableOf(t, o), t.chains # <<>>, NEW k \in Key, HashOf[k] # Unhashable
  PROVE  /\ Hits(t, k) = {} <=> Stops(Items(t), k) = {}
         /\ Hits(t, k) # {} =>
              /\ HitFails(t, k) <=> Failing(Items(t), k)
              /\ \E p \in 1..Len(o) : /\ o[p] = Hit(t, k) /\ Stops(Items(t), k) = {p}
                                      /\ At(t, Hit(t, k)).value = Items(t)[p][2]
<1>1. Items(t) \in Seq(Key \X Value) /\ Len(Items(t)) = Len(o) /\ Len(o) \in Nat /\ DOMAIN Items(t) = 1..Len(o)
  BY ItemsAre
<1>2. Hits(t, k) = {} <=> Stops(Items(t), k) = {}
  BY <1>1, FoundAt DEF Stops
<1>3. ASSUME Hits(t, k) # {}
      PROVE  /\ HitFails(t, k) <=> Failing(Items(t), k)
             /\ \E p \in 1..Len(o) : /\ o[p] = Hit(t, k) /\ Stops(Items(t), k) = {p}
                                     /\ At(t, Hit(t, k)).value = Items(t)[p][2]
  <2>1. PICK p \in 1..Len(o) :
                /\ o[p] = Hit(t, k) /\ Collide(k, Items(t)[p][1])
                /\ At(t, Hit(t, k)).key = Items(t)[p][1] /\ At(t, Hit(t, k)).value = Items(t)[p][2]
                /\ \A i \in 1..Len(o) : Collide(k, Items(t)[i][1]) => i = p
    BY <1>3, FoundAt
  <2>2. Stops(Items(t), k) = {p}
    BY <1>1, <2>1 DEF Stops
  <2>3. HitFails(t, k) <=> EqualFails(k, Items(t)[p][1])
    BY <2>1 DEF HitFails
  <2>4. HitFails(t, k) <=> Failing(Items(t), k)
    BY <2>2, <2>3 DEF Failing
  <2> QED
    BY <2>1, <2>2, <2>4
<1> QED
  BY <1>2, <1>3

\* Past its checks, insert places the item.
LEMMA PlaceIs ==
  ASSUME NEW t, NEW o, TableOf(t, o), t.chains # <<>>,
         NEW k \in Key, HashOf[k] # Unhashable, NEW v \in Value, Hits(t, k) = {} \/ ~HitFails(t, k)
  PROVE  LET u == Place(t, k, v)
         IN  Good(u) /\ u.chains # <<>> /\ Items(u) = Placed(Items(t), k, v)
<1> DEFINE u == Place(t, k, v)
<1>1. CASE Hits(t, k) = {}
  <2>1. Good(u) /\ u.chains # <<>> /\ Items(u) = Append(Items(t), <<k, v>>)
    BY <1>1, PlaceNew
  <2>2. Stops(Items(t), k) = {}
    BY <1>1, SearchIs
  <2> HIDE DEF u
  <2>3. Items(u) = Placed(Items(t), k, v)
    BY <2>1, <2>2 DEF Placed
  <2> QED
    BY <2>1, <2>3 DEF u
<1>2. CASE Hits(t, k) # {}
  <2>1. /\ TableOf(u, o) /\ u.chains # <<>>
        /\ Items(u) = [i \in 1..Len(o) |-> IF o[i] = Hit(t, k) THEN <<Items(t)[i][1], v>> ELSE Items(t)[i]]
    BY <1>2, PlaceFound
  <2> HIDE DEF u
  <2>2. PICK p \in 1..Len(o) : o[p] = Hit(t, k) /\ Stops(Items(t), k) = {p}
    BY <1>2, SearchIs
  <2>3. \A i \in 1..Len(o) : o[i] = o[p] => i = p
    BY LinkedFacts DEF TableOf, Linked
  <2>4. DOMAIN Items(t) = 1..Len(o)
    BY ItemsAre
  <2>5. Items(u) = [i \in 1..Len(o) |-> IF i \in Stops(Items(t), k) THEN <<Items(t)[i][1], v>> ELSE Items(t)[i]]
    BY <2>1, <2>2, <2>3
  <2>6. Items(u) = Placed(Items(t), k, v)
    BY <2>2, <2>4, <2>5 DEF Placed
  <2> QED
    BY <2>1, <2>6, GoodIs DEF u
<1> QED
  BY <1>1, <1>2

\* insert, all of it.
LEMMA InsertedIs ==
  ASSUME NEW t, NEW o, TableOf(t, o), NEW k \in Key, NEW v \in Value
  PROVE  LET u == Inserted(t, k, v)
         IN  /\ Good(u) /\ u.chains # <<>>
             /\ Items(u) = IF InsertError(t, k) = <<"ok">> THEN Placed(Items(t), k, v) ELSE Items(t)
             /\ InsertError(t, k) = IF HashOf[k] = Unhashable THEN <<"unhashable">>
                                    ELSE IF Failing(Items(t), k) THEN <<"too deep">> ELSE <<"ok">>
<1> DEFINE r == Ready(t)
           g == Grown(r)
           u == Inserted(t, k, v)
           e == InsertError(t, k)
<1>1. TableOf(r, o) /\ r.chains # <<>> /\ Items(r) = Items(t)
  BY ReadyIs
<1>2. Good(r)
  BY <1>1, GoodIs
<1>3. e = IF HashOf[k] = Unhashable THEN <<"unhashable">>
          ELSE IF Hits(r, k) # {} /\ HitFails(r, k) THEN <<"too deep">> ELSE <<"ok">>
  BY DEF InsertError
<1>4. u = IF e # <<"ok">> THEN r ELSE IF Hits(r, k) # {} THEN Place(r, k, v) ELSE Place(g, k, v)
  BY DEF Inserted
<1> HIDE DEF r, g, u, e
<1>5. CASE HashOf[k] = Unhashable
  <2>1. e = <<"unhashable">> /\ e # <<"ok">> /\ u = r
    BY <1>3, <1>4, <1>5
  <2> QED
    BY <1>1, <1>2, <1>5, <2>1 DEF e, u
<1>6. CASE HashOf[k] # Unhashable /\ Hits(r, k) # {}
  <2>1. HitFails(r, k) <=> Failing(Items(t), k)
    BY <1>1, <1>6, SearchIs
  <2>2. CASE HitFails(r, k)
    <3>1. e = <<"too deep">> /\ e # <<"ok">> /\ u = r
      BY <1>3, <1>4, <1>6, <2>2
    <3> QED
      BY <1>1, <1>2, <1>6, <2>1, <2>2, <3>1 DEF e, u
  <2>3. CASE ~HitFails(r, k)
    <3>1. e = <<"ok">> /\ u = Place(r, k, v)
      BY <1>3, <1>4, <1>6, <2>3
    <3>2. Good(u) /\ u.chains # <<>> /\ Items(u) = Placed(Items(t), k, v)
      BY <1>1, <1>6, <2>3, <3>1, PlaceIs
    <3> QED
      BY <1>6, <2>1, <2>3, <3>1, <3>2 DEF e, u
  <2> QED
    BY <2>2, <2>3
<1>7. CASE HashOf[k] # Unhashable /\ Hits(r, k) = {}
  <2>1. e = <<"ok">> /\ u = Place(g, k, v)
    BY <1>3, <1>4, <1>7
  <2>2. Good(g) /\ g.chains # <<>> /\ Items(g) = Items(t)
    BY <1>1, <1>2, GrowKeeps DEF Grown, g
  <2>3. Stops(Items(t), k) = {}
    BY <1>1, <1>7, SearchIs
  <2>4. ~Failing(Items(t), k)
    BY <2>3 DEF Failing
  <2> DEFINE w == Order(g)
  <2>5. TableOf(g, w)
    BY <2>2 DEF Good
  <2> HIDE DEF w
  <2>6. Hits(g, k) = {}
    BY <1>7, <2>2, <2>3, <2>5, SearchIs
  <2>7. Good(u) /\ u.chains # <<>> /\ Items(u) = Placed(Items(t), k, v)
    BY <1>7, <2>1, <2>2, <2>5, <2>6, PlaceIs
  <2> QED
    BY <1>7, <2>1, <2>4, <2>7 DEF e, u
<1> QED
  BY <1>5, <1>6, <1>7

(***************************************************************************)
(* delete.                                                                 *)
(***************************************************************************)

\* Writing the back link of an entry, or the tail of the list.
SetBack(t, l, y) ==
  IF l = Nil THEN [t EXCEPT !.tail = y] ELSE [t EXCEPT !.chains[l[1]][l[2]].prev = y]

BackWritten(t, u, l, y) ==
  /\ u \in Tables /\ SameShape(t, u) /\ u.head = t.head /\ u.len = t.len
  /\ u.tail = IF l = Nil THEN y ELSE t.tail
  /\ \A b \in Addresses(t) : At(u, b) = IF b = l THEN [At(t, b) EXCEPT !.prev = y] ELSE At(t, b)

\* It writes that back link only.
LEMMA SetBackIs ==
  ASSUME NEW t \in Tables, NEW l \in Addresses(t) \cup {Nil}, NEW y \in Link, NEW u, u = SetBack(t, l, y)
  PROVE  BackWritten(t, u, l, y)
<1>1. CASE l = Nil
  <2>1. u = [t EXCEPT !.tail = y]
    BY <1>1 DEF SetBack
  <2>2. u \in Tables /\ u.chains = t.chains /\ u.head = t.head /\ u.tail = y /\ u.len = t.len
    BY ONLY t \in Tables, y \in Link, <2>1 DEF Tables
  <2>3. SameShape(t, u) /\ \A b : At(u, b) = At(t, b)
    BY <2>2, SameChains
  <2>4. \A b \in Addresses(t) : b # l
    BY <1>1, AddressFacts
  <2> QED
    BY <1>1, <2>2, <2>3, <2>4 DEF BackWritten
<1>2. CASE l # Nil
  <2> DEFINE e == [At(t, l) EXCEPT !.prev = y]
  <2>1. l \in Addresses(t) /\ At(t, l) \in Entries
    BY <1>2, AddressFacts
  <2>2. u = [t EXCEPT !.chains[l[1]][l[2]].prev = y]
    BY <1>2 DEF SetBack
  <2>3. e \in Entries
    BY <2>1 DEF Entries
  <2>4. u = SetEntry(t, l, e)
    <3>1. t.chains \in Seq(Seq(Entries)) /\ l[1] \in DOMAIN t.chains /\ l[2] \in DOMAIN t.chains[l[1]]
      BY <2>1, AddressFacts DEF Tables
    <3> QED
      BY <2>2, <3>1 DEF SetEntry, At, Tables
  <2> HIDE DEF e
  <2>5. /\ u \in Tables /\ SameShape(t, u) /\ u.head = t.head /\ u.tail = t.tail /\ u.len = t.len
        /\ At(u, l) = e /\ \A b \in Addresses(t) : b # l => At(u, b) = At(t, b)
    BY <2>1, <2>3, <2>4, SetEntryFacts
  <2> QED
    BY <1>2, <2>5 DEF e, BackWritten
<1> QED
  BY <1>1, <1>2

\* Dropping an entry, once nothing links to it.
Dropped(t, a) == [t EXCEPT !.chains[a[1]][a[2]] = Unused, !.len = @ - 1]

\* The entry is unused afterwards, and the others are as they were.
LEMMA DroppedIs ==
  ASSUME NEW t \in Tables, t.len # 0, NEW a \in Addresses(t), NEW u, u = Dropped(t, a)
  PROVE  /\ u \in Tables /\ SameShape(t, u) /\ u.head = t.head /\ u.tail = t.tail /\ u.len = t.len - 1
         /\ At(u, a).hash = 0 /\ \A b \in Addresses(t) : b # a => At(u, b) = At(t, b)
<1> DEFINE w == SetEntry(t, a, Unused)
           n == t.len - 1
<1>1. t.len \in Nat /\ n \in Nat /\ Unused \in Entries /\ Unused.hash = 0
  BY NewBucketFacts DEF Tables
<1>2. u = [w EXCEPT !.len = n]
  BY <1>1 DEF SetEntry, Dropped, Tables
<1> HIDE DEF w
<1>3. /\ w \in Tables /\ SameShape(t, w) /\ w.head = t.head /\ w.tail = t.tail
      /\ At(w, a) = Unused /\ \A b \in Addresses(t) : b # a => At(w, b) = At(t, b)
  BY <1>1, SetEntryFacts DEF w
<1> HIDE DEF n
<1>4. u \in Tables /\ u.chains = w.chains /\ u.head = w.head /\ u.tail = w.tail /\ u.len = n
  BY ONLY <1>1, <1>2, <1>3 DEF Tables
<1>5. \A b : At(u, b) = At(w, b)
  BY <1>4 DEF At
<1> QED
  BY <1>1, <1>3, <1>4, <1>5 DEF SameShape, n

\* u is t without the entry at a.
Shrinks(t, u, a) ==
  LET e == At(t, a)
  IN  /\ u \in Tables /\ SameShape(t, u) /\ u.len = t.len - 1
      /\ u.head = IF e.prev = HeadLink THEN e.next ELSE t.head
      /\ u.tail = IF e.next = Nil THEN e.prev ELSE t.tail
      /\ Used(u) = Used(t) \ {a}
      /\ \A b \in Used(t) \ {a} :
           /\ At(u, b).hash = At(t, b).hash /\ At(u, b).key = At(t, b).key /\ At(u, b).value = At(t, b).value
           /\ At(u, b).next = IF b = e.prev THEN e.next ELSE At(t, b).next
           /\ At(u, b).prev = IF b = e.next THEN e.prev ELSE At(t, b).prev

\* delete unlinks the entry from its two neighbours.
LEMMA RemovedShrinks ==
  ASSUME NEW t, NEW o, TableOf(t, o), NEW a \in Used(t)
  PROVE  Shrinks(t, Removed(t, a), a)
<1> DEFINE e  == At(t, a)
           x  == e.next
           y  == e.prev
           t1 == SetLink(t, y, x)
           t2 == SetBack(t1, x, y)
           u  == Dropped(t2, a)
<1>1. t \in Tables /\ Linked(t, o) /\ a \in Addresses(t) /\ e \in Entries /\ x \in Link /\ y \in Link
  BY AddressFacts DEF TableOf, Used, Entries
<1>2. PICK p \in 1..Len(o) : o[p] = a
  BY <1>1, LinkedFacts
<1>3. Len(o) = t.len /\ Len(o) \in Nat /\ DOMAIN o = 1..Len(o) /\ \A i \in 1..Len(o) : o[i] \in Addresses(t)
  BY <1>1, LinkedFacts
<1>4. x = LinkAt(o, p + 1) /\ y = BackLink(o, p)
  BY <1>1, <1>2, <1>3 DEF Linked
<1>5. x \in Addresses(t) \cup {Nil} /\ y \in Addresses(t) \cup {HeadLink} /\ t.len # 0
  <2>1. p # 1 => p - 1 \in 1..Len(o)
    BY <1>3
  <2> QED
    BY <1>3, <1>4, <2>1 DEF LinkAt, BackLink
<1>6. Removed(t, a) = u
  BY DEF Removed, SetBack, Dropped
<1> HIDE DEF x, y, t1, t2, u, e
<1>7. /\ t1 \in Tables /\ SameShape(t, t1) /\ t1.tail = t.tail /\ t1.len = t.len
      /\ t1.head = IF y = HeadLink THEN x ELSE t.head
      /\ \A b \in Addresses(t) : At(t1, b) = IF b = y THEN [At(t, b) EXCEPT !.next = x] ELSE At(t, b)
  <2>1. t1 = SetLink(t, y, x)
    BY DEF t1
  <2>2. LinkWritten(t, t1, y, x)
    BY ONLY <1>1, <1>5, <2>1, SetLinkIs
  <2> QED
    BY <2>2 DEF LinkWritten
<1>8. Addresses(t1) = Addresses(t)
  BY <1>1, <1>7, SameAddresses
<1>9. /\ t2 \in Tables /\ SameShape(t1, t2) /\ t2.head = t1.head /\ t2.len = t1.len
      /\ t2.tail = IF x = Nil THEN y ELSE t1.tail
      /\ \A b \in Addresses(t1) : At(t2, b) = IF b = x THEN [At(t1, b) EXCEPT !.prev = y] ELSE At(t1, b)
  <2>1. t2 = SetBack(t1, x, y)
    BY DEF t2
  <2>2. t1 \in Tables /\ x \in Addresses(t1) \cup {Nil} /\ y \in Link
    BY <1>1, <1>5, <1>7, <1>8
  <2>3. BackWritten(t1, t2, x, y)
    BY ONLY <2>1, <2>2, SetBackIs
  <2> QED
    BY <2>3 DEF BackWritten
<1>10. Addresses(t2) = Addresses(t)
  BY <1>7, <1>8, <1>9, SameAddresses
<1>11. /\ u \in Tables /\ SameShape(t2, u) /\ u.head = t2.head /\ u.tail = t2.tail /\ u.len = t2.len - 1
       /\ At(u, a).hash = 0 /\ \A b \in Addresses(t2) : b # a => At(u, b) = At(t2, b)
  <2>1. u = Dropped(t2, a)
    BY DEF u
  <2> QED
    BY ONLY <1>1, <1>5, <1>7, <1>9, <1>10, <2>1, DroppedIs
<1>12. Addresses(u) = Addresses(t)
  BY <1>9, <1>10, <1>11, SameAddresses
<1>13. \A b \in Addresses(t) : At(t, b) \in Entries
  BY <1>1, AddressFacts
<1>14. ASSUME NEW b \in Addresses(t), b # a
       PROVE  /\ At(u, b).hash = At(t, b).hash /\ At(u, b).key = At(t, b).key /\ At(u, b).value = At(t, b).value
              /\ At(u, b).next = IF b = y THEN x ELSE At(t, b).next
              /\ At(u, b).prev = IF b = x THEN y ELSE At(t, b).prev
  <2> DEFINE b0 == At(t, b)
             b1 == At(t1, b)
             b2 == At(t2, b)
  <2>1. b0 \in Entries /\ b1 = (IF b = y THEN [b0 EXCEPT !.next = x] ELSE b0)
    BY <1>7, <1>13
  <2>2. At(u, b) = b2 /\ b2 = (IF b = x THEN [b1 EXCEPT !.prev = y] ELSE b1)
    BY <1>8, <1>9, <1>10, <1>11, <1>14
  <2> HIDE DEF b0, b1, b2
  <2>3. b1 \in Entries
    BY <1>1, <2>1 DEF Entries
  <2>4. /\ b1.hash = b0.hash /\ b1.key = b0.key /\ b1.value = b0.value /\ b1.prev = b0.prev
        /\ b1.next = IF b = y THEN x ELSE b0.next
    BY <2>1 DEF Entries
  <2>5. /\ b2.hash = b1.hash /\ b2.key = b1.key /\ b2.value = b1.value /\ b2.next = b1.next
        /\ b2.prev = IF b = x THEN y ELSE b1.prev
    BY <2>2, <2>3 DEF Entries
  <2> QED
    BY <2>2, <2>4, <2>5 DEF b0
<1>15. Used(u) = Used(t) \ {a}
  BY <1>1, <1>11, <1>12, <1>14 DEF Used
<1>16. SameShape(t, u)
  BY <1>7, <1>9, <1>11 DEF SameShape
<1>17. \A b \in Used(t) \ {a} : b \in Addresses(t) /\ b # a
  BY DEF Used
<1>18. Shrinks(t, u, a)
  BY <1>7, <1>9, <1>11, <1>14, <1>15, <1>16, <1>17 DEF Shrinks, x, y, e
<1> QED
  BY <1>6, <1>18

\* A sequence without its p-th element.
Drop(s, p) == [i \in 1..(Len(s) - 1) |-> IF i < p THEN s[i] ELSE s[i + 1]]

\* What the shorter sequence holds.
LEMMA DropFacts ==
  ASSUME NEW S, NEW s \in Seq(S), NEW p \in 1..Len(s)
  PROVE  /\ Drop(s, p) \in Seq(S) /\ Len(Drop(s, p)) = Len(s) - 1 /\ DOMAIN Drop(s, p) = 1..(Len(s) - 1)
         /\ \A i \in 1..(Len(s) - 1) : Drop(s, p)[i] = IF i < p THEN s[i] ELSE s[i + 1]
<1> DEFINE n == Len(s) - 1
<1>1. n \in Nat /\ \A i \in 1..Len(s) : s[i] \in S
  OBVIOUS
<1>2. \A i \in 1..n : (IF i < p THEN s[i] ELSE s[i + 1]) \in S
  BY <1>1
<1> HIDE DEF n
<1>3. Drop(s, p) = [i \in 1..n |-> IF i < p THEN s[i] ELSE s[i + 1]]
  BY DEF Drop, n
<1>4. Drop(s, p) \in [1..n -> S]
  BY <1>2, <1>3
<1>5. Drop(s, p) \in Seq(S) /\ Len(Drop(s, p)) = n /\ DOMAIN Drop(s, p) = 1..n
  BY <1>1, <1>4
<1> QED
  BY <1>3, <1>5 DEF n

\* The links of the entries that are left are those of the shorter list.
LEMMA ShrinksLinked ==
  ASSUME NEW t, NEW o, TableOf(t, o), NEW p \in 1..Len(o), NEW u, Shrinks(t, u, o[p])
  PROVE  Linked(u, Drop(o, p))
<1> DEFINE a == o[p]
           x == At(t, a).next
           y == At(t, a).prev
           n == Len(o)
           q == Drop(o, p)
<1>1. t \in Tables /\ Linked(t, o) /\ u \in Tables
  BY DEF TableOf, Shrinks
<1>2. /\ n \in Nat /\ n = t.len /\ DOMAIN o = 1..n /\ o \in Seq(Addresses(t))
      /\ (\A i \in 1..n : o[i] \in Used(t) /\ o[i] # Nil /\ o[i] # HeadLink)
      /\ \A b \in Used(t) : \E i \in 1..n : o[i] = b
  BY <1>1, LinkedFacts
<1>3. /\ \A i, j \in 1..n : o[i] = o[j] => i = j
      /\ t.head = LinkAt(o, 1)
      /\ \A i \in 1..n : At(t, o[i]).next = LinkAt(o, i + 1) /\ At(t, o[i]).prev = BackLink(o, i)
      /\ t.chains # <<>> => t.tail = BackLink(o, n + 1)
  BY <1>1, <1>2 DEF Linked
<1>4. /\ SameShape(t, u) /\ u.len = n - 1
      /\ u.head = IF y = HeadLink THEN x ELSE t.head
      /\ u.tail = IF x = Nil THEN y ELSE t.tail
      /\ Used(u) = Used(t) \ {a}
      /\ \A b \in Used(t) \ {a} :
           /\ At(u, b).next = IF b = y THEN x ELSE At(t, b).next
           /\ At(u, b).prev = IF b = x THEN y ELSE At(t, b).prev
  BY <1>2 DEF Shrinks
<1>5. x = LinkAt(o, p + 1) /\ y = BackLink(o, p)
  BY <1>3
<1>6. Addresses(u) = Addresses(t) /\ (u.chains = <<>> <=> t.chains = <<>>)
  BY <1>1, <1>4, SameAddresses
<1> HIDE DEF x, y, a
<1>7. /\ q \in Seq(Addresses(t)) /\ Len(q) = n - 1 /\ DOMAIN q = 1..(n - 1)
      /\ \A i \in 1..(n - 1) : q[i] = IF i < p THEN o[i] ELSE o[i + 1]
  BY <1>2, DropFacts
<1> HIDE DEF q
<1> DEFINE up(i) == IF i < p THEN i ELSE i + 1
<1>8. \A i \in 1..(n - 1) : up(i) \in 1..n /\ up(i) # p /\ q[i] = o[up(i)]
  BY <1>2, <1>7
<1>9. \A i \in 1..(n - 1) : q[i] \in Used(t) \ {a}
  BY <1>2, <1>3, <1>8 DEF a
<1> HIDE DEF n
<1>10. ToSet(q) = Used(u)
  <2>1. \A i \in DOMAIN q : q[i] \in Used(u)
    BY <1>4, <1>7, <1>9
  <2>2. ASSUME NEW b \in Used(u) PROVE \E i \in DOMAIN q : q[i] = b
    <3>1. b \in Used(t) /\ b # a
      BY <1>4
    <3>2. PICK j \in 1..n : o[j] = b
      BY <1>2, <3>1
    <3>3. j # p
      BY <3>1, <3>2 DEF a
    <3>4. CASE j < p
      <4>1. j \in 1..(n - 1)
        BY <1>2, <3>4
      <4>2. q[j] = o[j]
        BY <1>7, <3>4, <4>1
      <4> QED
        BY <1>7, <3>2, <4>1, <4>2
    <3>5. CASE j > p
      <4>1. j - 1 \in 1..(n - 1) /\ ~(j - 1 < p) /\ (j - 1) + 1 = j
        BY <1>2, <3>5
      <4>2. q[j - 1] = o[j]
        BY <1>7, <4>1
      <4> QED
        BY <1>7, <3>2, <4>1, <4>2
    <3> QED
      BY <3>3, <3>4, <3>5
  <2> QED
    BY <2>1, <2>2 DEF ToSet
<1>11. \A i, j \in DOMAIN q : q[i] = q[j] => i = j
  <2> SUFFICES ASSUME NEW i \in 1..(n - 1), NEW j \in 1..(n - 1), q[i] = q[j] PROVE i = j
    BY <1>7
  <2>1. up(i) = up(j)
    <3>1. up(i) \in 1..n /\ up(j) \in 1..n /\ o[up(i)] = o[up(j)]
      BY <1>8
    <3> HIDE DEF up
    <3> QED
      BY <1>3, <3>1
  <2> QED
    BY <2>1
<1>12. \A i \in 1..n : o[i] = y <=> i = p - 1
  <2> SUFFICES ASSUME NEW i \in 1..n PROVE o[i] = y <=> i = p - 1
    OBVIOUS
  <2>1. CASE p = 1
    BY <1>2, <1>5, <2>1 DEF BackLink
  <2>2. CASE p # 1
    <3>1. p - 1 \in 1..n /\ y = o[p - 1]
      BY <1>2, <1>5, <2>2 DEF BackLink
    <3> QED
      BY <1>3, <3>1
  <2> QED
    BY <2>1, <2>2
<1>13. \A i \in 1..n : o[i] = x <=> i = p + 1
  <2> SUFFICES ASSUME NEW i \in 1..n PROVE o[i] = x <=> i = p + 1
    OBVIOUS
  <2>1. CASE p = n
    BY <1>2, <1>5, <2>1 DEF LinkAt
  <2>2. CASE p # n
    <3>1. p + 1 \in 1..n /\ x = o[p + 1]
      BY <1>2, <1>5, <2>2 DEF LinkAt
    <3> QED
      BY <1>3, <3>1
  <2> QED
    BY <2>1, <2>2
<1>14. (y = HeadLink <=> p = 1) /\ (x = Nil <=> p = n)
  <2>1. p # 1 => p - 1 \in 1..n /\ y = o[p - 1]
    BY <1>2, <1>5 DEF BackLink
  <2>2. p # n => p + 1 \in 1..n /\ x = o[p + 1]
    BY <1>2, <1>5 DEF LinkAt
  <2>3. p = 1 => y = HeadLink
    BY <1>5 DEF BackLink
  <2>4. p = n => x = Nil
    BY <1>2, <1>5 DEF LinkAt
  <2> QED
    BY <1>2, <2>1, <2>2, <2>3, <2>4
\* What the shorter list holds at i is what the longer one holds one further on.
<1>15. \A i \in 1..n : LinkAt(q, i) = IF i < p THEN LinkAt(o, i) ELSE LinkAt(o, i + 1)
  <2> SUFFICES ASSUME NEW i \in 1..n PROVE LinkAt(q, i) = IF i < p THEN LinkAt(o, i) ELSE LinkAt(o, i + 1)
    OBVIOUS
  <2>1. CASE i < p
    <3>1. i \in 1..(n - 1) /\ i \in DOMAIN o /\ i \in DOMAIN q
      BY <1>2, <1>7, <2>1
    <3>2. q[i] = o[i]
      BY <1>7, <2>1, <3>1
    <3> QED
      BY <2>1, <3>1, <3>2 DEF LinkAt
  <2>2. CASE ~(i < p) /\ i < n
    <3>1. i \in 1..(n - 1) /\ i + 1 \in DOMAIN o /\ i \in DOMAIN q
      BY <1>2, <1>7, <2>2
    <3>2. q[i] = o[i + 1]
      BY <1>7, <2>2, <3>1
    <3> QED
      BY <2>2, <3>1, <3>2 DEF LinkAt
  <2>3. CASE ~(i < p) /\ i = n
    <3>1. i + 1 \notin DOMAIN o /\ i \notin DOMAIN q
      BY <1>2, <1>7, <2>3
    <3> QED
      BY <2>3, <3>1 DEF LinkAt
  <2> QED
    BY <1>2, <2>1, <2>2, <2>3
<1>16. \A i \in 1..n : BackLink(q, i) = IF i <= p THEN BackLink(o, i) ELSE o[i]
  <2> SUFFICES ASSUME NEW i \in 1..n PROVE BackLink(q, i) = IF i <= p THEN BackLink(o, i) ELSE o[i]
    OBVIOUS
  <2>1. CASE i = 1
    BY <2>1 DEF BackLink
  <2>2. CASE i # 1
    <3>1. i - 1 \in 1..(n - 1) /\ (i - 1 < p <=> i <= p) /\ (i - 1) + 1 = i
      BY <1>2, <2>2
    <3>2. q[i - 1] = IF i <= p THEN o[i - 1] ELSE o[i]
      BY <1>7, <3>1
    <3> QED
      BY <2>2, <3>2 DEF BackLink
  <2> QED
    BY <2>1, <2>2
<1>17. u.head = LinkAt(q, 1)
  <2>1. 1 \in 1..n
    BY <1>2
  <2>2. CASE p = 1
    BY <1>4, <1>5, <1>14, <1>15, <2>1, <2>2
  <2>3. CASE p # 1
    BY <1>3, <1>4, <1>14, <1>15, <2>1, <2>3
  <2> QED
    BY <2>2, <2>3
<1>18. u.chains # <<>> => u.tail = BackLink(q, Len(q) + 1)
  <2>1. n \in 1..n /\ Len(q) + 1 = n
    BY <1>2, <1>7
  <2>2. CASE p = n
    BY <1>4, <1>5, <1>14, <1>16, <2>1, <2>2
  <2>3. CASE p # n
    <3>1. ~(n <= p) /\ n + 1 # 1 /\ (n + 1) - 1 = n
      BY <1>2, <2>3
    <3>2. BackLink(o, n + 1) = o[n]
      BY <3>1 DEF BackLink
    <3> QED
      BY <1>3, <1>4, <1>6, <1>14, <1>16, <2>1, <2>3, <3>1, <3>2
  <2> QED
    BY <2>2, <2>3
<1>19. ASSUME NEW i \in 1..(n - 1) PROVE At(u, q[i]).next = LinkAt(q, i + 1)
  <2> DEFINE j == up(i)
  <2>1. j \in 1..n /\ q[i] = o[j] /\ q[i] \in Used(t) \ {a} /\ i + 1 \in 1..n
    <3>1. j \in 1..n /\ q[i] = o[j]
      BY <1>8
    <3> HIDE DEF j
    <3> QED
      BY <1>2, <1>9, <3>1
  <2>2. At(u, q[i]).next = IF j = p - 1 THEN x ELSE LinkAt(o, j + 1)
    <3> HIDE DEF j
    <3> QED
      BY <1>3, <1>4, <1>12, <2>1
  <2>3. CASE i < p - 1
    <3>1. j = i /\ j # p - 1 /\ i + 1 < p
      BY <2>3
    <3> HIDE DEF j
    <3> QED
      BY <1>15, <2>1, <2>2, <3>1
  <2>4. CASE i = p - 1
    <3>1. j = i /\ j = p - 1 /\ ~(i + 1 < p) /\ (i + 1) + 1 = p + 1
      BY <2>4
    <3> HIDE DEF j
    <3> QED
      BY <1>5, <1>15, <2>1, <2>2, <3>1
  <2>5. CASE i > p - 1
    <3>1. j = i + 1 /\ j # p - 1 /\ ~(i + 1 < p)
      BY <2>5
    <3> HIDE DEF j
    <3> QED
      BY <1>15, <2>1, <2>2, <3>1
  <2> QED
    BY <2>3, <2>4, <2>5
<1>20. ASSUME NEW i \in 1..(n - 1) PROVE At(u, q[i]).prev = BackLink(q, i)
  <2> DEFINE j == up(i)
  <2>1. j \in 1..n /\ q[i] = o[j] /\ q[i] \in Used(t) \ {a} /\ i \in 1..n
    <3>1. j \in 1..n /\ q[i] = o[j]
      BY <1>8
    <3> HIDE DEF j
    <3> QED
      BY <1>2, <1>9, <3>1
  <2>2. At(u, q[i]).prev = IF j = p + 1 THEN y ELSE BackLink(o, j)
    <3> HIDE DEF j
    <3> QED
      BY <1>3, <1>4, <1>13, <2>1
  <2>3. CASE i < p
    <3>1. j = i /\ j # p + 1 /\ i <= p
      BY <2>3
    <3> HIDE DEF j
    <3> QED
      BY <1>16, <2>1, <2>2, <3>1
  <2>4. CASE i = p
    <3>1. j = i + 1 /\ j = p + 1 /\ i <= p
      BY <2>4
    <3> HIDE DEF j
    <3> QED
      BY <1>5, <1>16, <2>1, <2>2, <2>4, <3>1
  <2>5. CASE i > p
    <3>1. j = i + 1 /\ j # p + 1 /\ ~(i <= p) /\ j # 1 /\ j - 1 = i
      BY <2>5
    <3> HIDE DEF j
    <3>2. BackLink(o, j) = o[i]
      BY <3>1 DEF BackLink
    <3> QED
      BY <1>16, <2>1, <2>2, <3>1, <3>2
  <2> QED
    BY <2>3, <2>4, <2>5
<1>21. \A i \in DOMAIN q : At(u, q[i]).next = LinkAt(q, i + 1) /\ At(u, q[i]).prev = BackLink(q, i)
  BY <1>7, <1>19, <1>20
<1>22. q \in Seq(Addresses(u)) /\ Len(q) = u.len
  BY <1>4, <1>6, <1>7
<1>23. Linked(u, q)
  BY <1>10, <1>11, <1>17, <1>18, <1>21, <1>22 DEF Linked
<1> QED
  BY <1>23 DEF q

\* delete keeps the other items, in order.
LEMMA RemovedKeeps ==
  ASSUME NEW t, NEW o, TableOf(t, o), NEW p \in 1..Len(o)
  PROVE  LET u == Removed(t, o[p])
         IN  Good(u) /\ (u.chains = <<>> <=> t.chains = <<>>) /\ Items(u) = Drop(Items(t), p)
<1> DEFINE a == o[p]
           u == Removed(t, a)
           q == Drop(o, p)
           n == Len(o)
<1>1. /\ t \in Tables /\ n \in Nat /\ o \in Seq(Addresses(t)) /\ a \in Used(t)
      /\ (\A i \in 1..n : o[i] \in Used(t)) /\ Linked(t, o) /\ Filled(t) /\ Apart(t) /\ Whole(t)
  BY LinkedFacts DEF TableOf
<1>2. Shrinks(t, u, a)
  BY <1>1, RemovedShrinks
<1> HIDE DEF u
<1>3. Linked(u, q)
  BY <1>2, ShrinksLinked
<1> HIDE DEF a
<1>4. /\ u \in Tables /\ SameShape(t, u) /\ Used(u) = Used(t) \ {a}
      /\ \A b \in Used(u) : At(u, b).hash = At(t, b).hash /\ At(u, b).key = At(t, b).key /\ At(u, b).value = At(t, b).value
  BY <1>2 DEF Shrinks
<1>5. Whole(u) /\ (\A k : ChainOf(u, k) = ChainOf(t, k)) /\ (u.chains = <<>> <=> t.chains = <<>>)
  BY <1>1, <1>4, SameAddresses
<1>6. Filled(u)
  BY <1>1, <1>4, <1>5 DEF Filled
<1>7. Apart(u)
  BY <1>1, <1>4 DEF Apart
<1>8. TableOf(u, q)
  BY <1>3, <1>4, <1>5, <1>6, <1>7 DEF TableOf
<1>9. /\ Len(q) = n - 1 /\ \A i \in 1..(n - 1) : q[i] = IF i < p THEN o[i] ELSE o[i + 1]
  BY <1>1, DropFacts
<1> HIDE DEF q
<1>10. Items(u) = [i \in 1..(n - 1) |-> <<At(u, q[i]).key, At(u, q[i]).value>>]
  BY <1>8, <1>9, ItemsAre
<1>11. Items(t) = [i \in 1..n |-> <<At(t, o[i]).key, At(t, o[i]).value>>] /\ Len(Items(t)) = n
  BY ItemsAre
<1>12. \A i \in 1..(n - 1) : <<At(u, q[i]).key, At(u, q[i]).value>> = IF i < p THEN Items(t)[i] ELSE Items(t)[i + 1]
  <2> SUFFICES ASSUME NEW i \in 1..(n - 1)
               PROVE  <<At(u, q[i]).key, At(u, q[i]).value>> = IF i < p THEN Items(t)[i] ELSE Items(t)[i + 1]
    OBVIOUS
  <2>1. Len(q) = n - 1 /\ \A j \in 1..Len(q) : q[j] \in Used(u)
    BY <1>3, <1>4, <1>9, LinkedFacts
  <2>2. At(u, q[i]).key = At(t, q[i]).key /\ At(u, q[i]).value = At(t, q[i]).value
    BY <1>4, <2>1
  <2>3. i \in 1..n /\ i + 1 \in 1..n
    BY <1>1
  <2> HIDE DEF n
  <2> QED
    BY <1>9, <1>11, <2>2, <2>3
<1>13. Items(u) = Drop(Items(t), p)
  BY <1>10, <1>11, <1>12 DEF Drop
<1>14. Good(u)
  BY <1>8, GoodIs
<1> QED
  BY <1>5, <1>13, <1>14 DEF u, a

(***************************************************************************)
(* update.                                                                 *)
(***************************************************************************)

Errors == {<<"ok">>, <<"unhashable">>, <<"too deep">>, <<"frozen">>, <<"iterating">>}
Partial == [t : {t \in Tables : Good(t)}, err : Errors]

\* Each insertion of update keeps the table in order.
LEMMA UpdateOneKeeps ==
  ASSUME NEW done \in Partial, NEW pair \in Key \X Value
  PROVE  UpdateOne(done, pair) \in Partial
<1> DEFINE t == done.t
           o == Order(t)
           k == pair[1]
           v == pair[2]
           u == Inserted(t, k, v)
<1>1. TableOf(t, o) /\ k \in Key /\ v \in Value
  BY DEF Partial, Good
<1> HIDE DEF t, o, k, v, u
<1>2. Good(u) /\ InsertError(t, k) \in Errors
  BY <1>1, InsertedIs DEF u, Errors
<1>3. u \in Tables
  BY <1>2 DEF Good, TableOf
<1>4. UpdateOne(done, pair) = IF done.err # <<"ok">> THEN done
                              ELSE IF ~Mutable THEN [done EXCEPT !.err = Refusal]
                              ELSE [t |-> u, err |-> InsertError(t, k)]
  BY DEF UpdateOne, u, t, k, v
<1>5. Refusal \in Errors
  BY DEF Refusal, Errors
<1>6. [done EXCEPT !.err = Refusal] \in Partial
  BY <1>5 DEF Partial
<1>7. [t |-> u, err |-> InsertError(t, k)] \in Partial
  BY <1>2, <1>3 DEF Partial
<1> QED
  BY <1>4, <1>6, <1>7

\* What update has done after each of its pairs.
LEMMA UpdatedIs ==
  ASSUME Good(table), NEW batch \in Seq(Key \X Value)
  PROVE  \E w \in [0..Len(batch) -> Partial] :
           /\ Updated(batch) = w[Len(batch)] /\ w[0] = [t |-> table, err |-> <<"ok">>]
           /\ \A i \in 1..Len(batch) : w[i] = UpdateOne(w[i - 1], batch[i])
<1> DEFINE m  == Len(batch)
           s0 == [t |-> table, err |-> <<"ok">>]
           F  == [p \in (1..m) \X Partial |-> UpdateOne(p[2], batch[p[1]])]
           Step(w) == [i \in 0..m |-> IF i = 0 THEN s0 ELSE UpdateOne(w[i - 1], batch[i])]
<1>1. m \in Nat /\ \A i \in 1..m : batch[i] \in Key \X Value
  BY ElementOfSeq
<1>2. s0 \in Partial
  <2>1. table \in Tables
    BY DEF Good, TableOf
  <2> QED
    BY <2>1 DEF Partial, Errors
<1>3. F \in [(1..m) \X Partial -> Partial]
  BY <1>1, UpdateOneKeeps
<1>4. Updated(batch) = (CHOOSE w : w = Step(w))[m]
  BY DEF Updated
<1> HIDE DEF s0
<1>5. PICK f : Solution(f, m, Partial, s0, F)
  <2> HIDE DEF F, m, Step
  <2> QED
    BY ONLY <1>1, <1>2, <1>3, Recursion
<1>6. f \in [0..m -> Partial] /\ f[0] = s0 /\ \A i \in 1..m : f[i] = F[<<i, f[i - 1]>>]
  BY <1>5 DEF Solution
<1>7. f = Step(f)
  <2>1. ASSUME NEW i \in 0..m PROVE f[i] = IF i = 0 THEN s0 ELSE UpdateOne(f[i - 1], batch[i])
    <3>1. CASE i = 0
      BY <1>6, <3>1
    <3>2. CASE i # 0
      <4>1. i \in 1..m /\ i - 1 \in 0..m /\ f[i - 1] \in Partial
        <5> HIDE DEF m
        <5>1. i \in 1..m /\ i - 1 \in 0..m
          BY <1>1, <3>2
        <5> QED
          BY <1>6, <5>1
      <4>2. F[<<i, f[i - 1]>>] = UpdateOne(f[i - 1], batch[i])
        BY <4>1
      <4> QED
        BY <1>6, <3>2, <4>1, <4>2
    <3> QED
      BY <3>1, <3>2
  <2>2. f = [i \in 0..m |-> f[i]]
    BY <1>6
  <2> QED
    BY <2>1, <2>2
<1>8. PICK w : Updated(batch) = w[m] /\ w = Step(w)
  <2> HIDE DEF Step, m
  <2>1. (CHOOSE w : w = Step(w)) = Step(CHOOSE w : w = Step(w))
    BY <1>7
  <2> QED
    BY <1>4, <2>1
<1>9. w[0] = s0 /\ \A i \in 1..m : w[i] = UpdateOne(w[i - 1], batch[i])
  <2>1. \A i \in 0..m : Step(w)[i] = IF i = 0 THEN s0 ELSE UpdateOne(w[i - 1], batch[i])
    OBVIOUS
  <2> HIDE DEF Step
  <2>2. \A i \in 0..m : w[i] = IF i = 0 THEN s0 ELSE UpdateOne(w[i - 1], batch[i])
    BY <1>8, <2>1
  <2> QED
    BY <1>1, <2>2
<1>10. w \in [0..m -> Partial]
  <2> DEFINE T == {i \in 0..m : w[i] \in Partial}
  <2> HIDE DEF m, F
  <2>1. 0 \in T
    BY <1>1, <1>2, <1>9
  <2>2. ASSUME NEW i \in 1..m, i - 1 \in T PROVE i \in T
    <3>1. w[i - 1] \in Partial /\ batch[i] \in Key \X Value
      BY <1>1, <2>2
    <3>2. w[i] \in Partial
      BY <1>9, <3>1, UpdateOneKeeps
    <3> QED
      BY <3>2
  <2> HIDE DEF T
  <2>3. 0..m \subseteq T
    BY <1>1, <2>1, <2>2, BoundedInduction
  <2>4. w = [i \in 0..m |-> Step(w)[i]]
    BY <1>8
  <2> HIDE DEF Step
  <2>5. w = [i \in 0..m |-> w[i]]
    BY <1>8, <2>4
  <2> QED
    BY <2>3, <2>5 DEF T
<1> HIDE DEF F, Step
<1> QED
  BY <1>8, <1>9, <1>10 DEF s0

\* update keeps the table in order, and writes nothing to one that may not be changed.
LEMMA UpdatedKeeps ==
  ASSUME Good(table), NEW batch \in Seq(Key \X Value)
  PROVE  Good(Updated(batch).t) /\ (~Mutable => Updated(batch).t = table)
<1> DEFINE m == Len(batch)
<1>1. m \in Nat
  OBVIOUS
<1>2. PICK w \in [0..m -> Partial] :
           /\ Updated(batch) = w[m] /\ w[0] = [t |-> table, err |-> <<"ok">>]
           /\ \A i \in 1..m : w[i] = UpdateOne(w[i - 1], batch[i])
  BY UpdatedIs
<1> HIDE DEF m
<1>3. w[m] \in Partial
  BY <1>1, <1>2
<1>4. Good(w[m].t)
  BY <1>3 DEF Partial
<1>5. ASSUME ~Mutable PROVE w[m].t = table
  <2> DEFINE T == {i \in 0..m : w[i].t = table}
  <2>1. 0 \in T
    BY <1>1, <1>2
  <2>2. ASSUME NEW i \in 1..m, i - 1 \in T PROVE i \in T
    <3>1. w[i - 1] \in Partial /\ w[i - 1].t = table /\ w[i] = UpdateOne(w[i - 1], batch[i])
      BY <1>1, <1>2, <2>2
    <3>2. w[i].t = table
      BY <1>5, <3>1 DEF UpdateOne, Partial
    <3> QED
      BY <1>1, <3>2
  <2> HIDE DEF T
  <2>3. 0..m \subseteq T
    BY <1>1, <2>1, <2>2, BoundedInduction
  <2> QED
    BY <1>1, <2>3 DEF T
<1> QED
  BY <1>2, <1>4, <1>5

(***************************************************************************)
(* Iterators.                                                              *)
(***************************************************************************)

\* The keys from the j-th entry on.
LEMMA KeysFromIs ==
  ASSUME NEW t, NEW o, TableOf(t, o), NEW j \in 1..(Len(o) + 1)
  PROVE  KeysFrom(t, LinkAt(o, j)) = SubSeq(Keys(t), j, Len(o))
<1> DEFINE n == Len(o)
           s == SubSeq(o, j, n)
<1>1. t \in Tables /\ Linked(t, o) /\ n \in Nat
  BY LinkedFacts DEF TableOf
<1>2. ListFrom(t, LinkAt(o, j)) = s
  BY <1>1, ListFromIs
<1>3. /\ Keys(t) = [i \in 1..n |-> At(t, o[i]).key]
      /\ Keys(t) \in Seq(Key) /\ Len(Keys(t)) = n
  BY ItemsAre
<1> HIDE DEF n
<1> DEFINE c == (n - j) + 1
<1>4. c \in Nat /\ (\A i \in 1..c : (j + i) - 1 \in 1..n) /\ (\A i \in j..n : i \in 1..n) /\ (j <= n => c = (n - j) + 1) /\ (~(j <= n) => c = 0)
  BY <1>1 DEF n
<1>5. Len(s) = c /\ DOMAIN s = 1..c /\ \A i \in 1..c : s[i] = o[(j + i) - 1]
  <2>1. \A i \in j..n : o[i] \in Addresses(t)
    BY <1>1, <1>4, LinkedFacts DEF n
  <2>2. s \in Seq(Addresses(t)) /\ Len(s) = (IF j <= n THEN (n - j) + 1 ELSE 0) /\ \A i \in 1..((n - j) + 1) : s[i] = o[(j + i) - 1]
    BY <1>1, <2>1, SubSeqProperties
  <2> HIDE DEF s
  <2> QED
    BY <1>4, <2>2
<1> DEFINE ks == SubSeq(Keys(t), j, n)
<1>6. Len(ks) = c /\ ks \in Seq(Key) /\ \A i \in 1..c : ks[i] = Keys(t)[(j + i) - 1]
  <2>1. \A i \in j..n : Keys(t)[i] \in Key
    BY <1>3, <1>4, ElementOfSeq
  <2>2. ks \in Seq(Key) /\ Len(ks) = (IF j <= n THEN (n - j) + 1 ELSE 0) /\ \A i \in 1..((n - j) + 1) : ks[i] = Keys(t)[(j + i) - 1]
    BY <1>1, <2>1, SubSeqProperties
  <2> HIDE DEF ks
  <2> QED
    BY <1>4, <2>2
<1> HIDE DEF s, ks, c
<1>7. KeysFrom(t, LinkAt(o, j)) = [i \in 1..c |-> At(t, s[i]).key]
  BY <1>2, <1>5 DEF KeysFrom
<1>8. ks = [i \in 1..c |-> ks[i]]
  BY <1>6
<1>9. \A i \in 1..c : At(t, s[i]).key = ks[i]
  BY <1>3, <1>4, <1>5, <1>6
<1>10. KeysFrom(t, LinkAt(o, j)) = ks
  BY <1>7, <1>8, <1>9
<1> QED
  BY <1>10 DEF ks, n

\* At the head of the list the keys are all to come; past its end, none.
LEMMA KeysFromHead ==
  ASSUME NEW t, Good(t)
  PROVE  /\ KeysFrom(t, t.head) = Keys(t) /\ Keys(t) \in Seq(Key)
         /\ t.head \in Used(t) \cup {Nil} /\ (t.head = Nil <=> Keys(t) = <<>>)
         /\ KeysFrom(t, Nil) = <<>>
<1> DEFINE o == Order(t)
           n == Len(o)
<1>1. TableOf(t, o)
  BY DEF Good
<1> HIDE DEF o
<1>2. t \in Tables /\ Linked(t, o) /\ n \in Nat /\ DOMAIN o = 1..n /\ \A i \in 1..n : o[i] \in Used(t) /\ o[i] # Nil
  BY <1>1, LinkedFacts DEF TableOf
<1>3. t.head = LinkAt(o, 1)
  BY <1>2 DEF Linked
<1>4. t.head \in Used(t) \cup {Nil} /\ (t.head = Nil <=> n = 0)
  BY <1>2, <1>3 DEF LinkAt
<1>5. Keys(t) \in Seq(Key) /\ Len(Keys(t)) = n
  BY <1>1, ItemsAre
<1>6. KeysFrom(t, t.head) = Keys(t)
  BY DEF Keys
<1>7. KeysFrom(t, Nil) = <<>>
  <2>1. n + 1 \in 1..(n + 1) /\ LinkAt(o, n + 1) = Nil /\ n < n + 1
    BY <1>2 DEF LinkAt
  <2>2. KeysFrom(t, LinkAt(o, n + 1)) = SubSeq(Keys(t), n + 1, n)
    BY <1>1, <2>1, KeysFromIs
  <2>3. SubSeq(Keys(t), n + 1, n) = <<>>
    BY <1>2, <2>1, SubSeqEmpty
  <2> QED
    BY <2>1, <2>2, <2>3
<1>8. Keys(t) = <<>> <=> n = 0
  BY <1>2, <1>5
<1> QED
  BY <1>4, <1>5, <1>6, <1>7, <1>8

\* A step of an iterator yields the first of the keys to come.
LEMMA KeysFromStep ==
  ASSUME NEW t, Good(t), NEW a \in Used(t)
  PROVE  /\ At(t, a).key \in Key /\ At(t, a).next \in Used(t) \cup {Nil}
         /\ KeysFrom(t, At(t, a).next) \in Seq(Key)
         /\ KeysFrom(t, a) = <<At(t, a).key>> \o KeysFrom(t, At(t, a).next)
<1> DEFINE o == Order(t)
           n == Len(o)
           ks == Keys(t)
<1>1. TableOf(t, o)
  BY DEF Good
<1> HIDE DEF o
<1>2. /\ t \in Tables /\ Linked(t, o) /\ n \in Nat /\ DOMAIN o = 1..n
      /\ (\A i \in 1..n : o[i] \in Used(t) /\ o[i] # Nil) /\ \A b \in Used(t) : \E i \in 1..n : o[i] = b
  BY <1>1, LinkedFacts DEF TableOf
<1>3. PICK j \in 1..n : o[j] = a
  BY <1>2
<1>4. LinkAt(o, j) = a /\ At(t, a).next = LinkAt(o, j + 1)
  BY <1>2, <1>3 DEF Linked, LinkAt
<1>5. j \in 1..(n + 1) /\ j + 1 \in 1..(n + 1)
  BY <1>2
<1>6. LinkAt(o, j + 1) \in Used(t) \cup {Nil}
  BY <1>2 DEF LinkAt
<1>7. ks \in Seq(Key) /\ Len(ks) = n /\ ks[j] = At(t, a).key
  BY <1>1, <1>3, ItemsAre
<1>8. KeysFrom(t, a) = SubSeq(ks, j, n) /\ KeysFrom(t, At(t, a).next) = SubSeq(ks, j + 1, n)
  BY <1>1, <1>4, <1>5, KeysFromIs
<1> HIDE DEF ks
<1>9. SubSeq(ks, j, n) = <<ks[j]>> \o SubSeq(ks, j + 1, n) /\ SubSeq(ks, j + 1, n) \in Seq(Key)
  <2>1. j \in 1..Len(ks) /\ Len(ks) \in j..Len(ks)
    BY <1>2, <1>7
  <2>2. SubSeq(ks, j, Len(ks)) = <<ks[j]>> \o SubSeq(ks, j + 1, Len(ks))
    BY <1>7, <2>1, SubSeqRecursiveFirst
  <2>3. \A i \in (j + 1)..n : ks[i] \in Key
    BY <1>2, <1>7, ElementOfSeq
  <2>4. SubSeq(ks, j + 1, n) \in Seq(Key)
    BY <1>2, <2>3, SubSeqProperties
  <2> QED
    BY <1>7, <2>2, <2>4
<1>10. At(t, a).key \in Key
  BY <1>1, EntryFacts
<1> QED
  BY <1>4, <1>6, <1>7, <1>8, <1>9, <1>10

(***************************************************************************)
(* The invariant.                                                          *)
(***************************************************************************)
ActiveIters == {i \in Iter : iters[i].active}

\* A table that may be changed is not being iterated over.
LEMMA MutableIdle ==
  ASSUME IInv, Mutable
  PROVE  \A i \in Iter : ~iters[i].active
<1>1. itercount = Cardinality(ActiveIters) /\ itercount = 0
  BY DEF IInv, ItercountIsActive, Mutable, ActiveIters
<1>2. IsFiniteSet(ActiveIters)
  BY FS_Subset, HashtableAssumption DEF ActiveIters
<1>3. ActiveIters = {}
  BY <1>1, <1>2, FS_EmptySet
<1> QED
  BY <1>3 DEF ActiveIters

\* A table that was never used satisfies the invariant.
LEMMA InitInvariant ==
  ASSUME Init
  PROVE  IInv
<1>1. table = NilTable /\ frozen = FALSE /\ itercount = 0 /\ iters = [i \in Iter |-> Idle] /\ frozenVals = {}
  BY DEF Init
<1>2. Good(table)
  BY <1>1, NilIs, GoodIs
<1>3. Idle \in Iterators /\ Idle.active = FALSE
  BY DEF Idle, Iterators, Link, Nil
<1>4. \A i \in Iter : ~iters[i].active
  BY <1>1, <1>3
<1>5. iters \in [Iter -> Iterators]
  BY <1>1, <1>3
<1>6. ItercountIsActive
  <2>1. ActiveIters = {}
    BY <1>4 DEF ActiveIters
  <2>2. Cardinality(ActiveIters) = 0
    BY <2>1, FS_EmptySet
  <2> QED
    BY <1>1, <2>2 DEF ItercountIsActive, ActiveIters
<1> QED
  BY <1>1, <1>2, <1>4, <1>5, <1>6 DEF IInv, Good, CursorOK

\* A call that writes at most the table, and that only when it may be changed.
LEMMA TableCallKeeps ==
  ASSUME IInv, Good(table'), UNCHANGED <<frozen, itercount, iters, frozenVals>>, ~Mutable => table' = table
  PROVE  IInv'
<1>1. frozen => table' = table
  BY DEF Mutable
<1>2. ASSUME NEW i \in Iter PROVE CursorOK(i)'
  <2>1. CASE Mutable
    BY <2>1, MutableIdle DEF CursorOK
  <2>2. CASE ~Mutable
    BY <2>2 DEF IInv, CursorOK
  <2> QED
    BY <2>1, <2>2
<1>3. ItercountIsActive'
  BY DEF IInv, ItercountIsActive
<1>4. (frozen => Contents(table) \subseteq frozenVals)'
  BY <1>1 DEF IInv
<1> QED
  BY <1>2, <1>3, <1>4 DEF IInv, Good

\* A search that ends at an entry ends at one of the list.
LEMMA FoundIs ==
  ASSUME Good(table), NEW k \in Key, DeleteResult(table, k)[1] = "found"
  PROVE  \E p \in 1..Len(Order(table)) :
           /\ Order(table)[p] = Hit(table, k) /\ table.chains # <<>> /\ HashOf[k] # Unhashable
           /\ Hits(table, k) # {} /\ ~HitFails(table, k)
           /\ Stops(Items(table), k) = {p} /\ DeleteResult(table, k) = <<"found", Items(table)[p][2]>>
<1> DEFINE o == Order(table)
<1>1. TableOf(table, o)
  BY DEF Good
<1>2. /\ table.chains # <<>> /\ HashOf[k] # Unhashable /\ Hits(table, k) # {} /\ ~HitFails(table, k)
      /\ DeleteResult(table, k) = <<"found", At(table, Hit(table, k)).value>>
  BY DEF DeleteResult, LookupResult, Find
<1> HIDE DEF o
<1>3. PICK p \in 1..Len(o) : /\ o[p] = Hit(table, k) /\ Stops(Items(table), k) = {p}
                             /\ At(table, Hit(table, k)).value = Items(table)[p][2]
  BY <1>1, <1>2, SearchIs
<1> QED
  BY <1>2, <1>3 DEF o

\* delete, whatever it answers.
LEMMA DeleteKeyKeeps ==
  ASSUME IInv, NEW k \in Key, DeleteKey(k)
  PROVE  IInv'
<1>1. Good(table)
  BY DEF IInv, Good
<1>2. CASE DeleteAnswer(k)[1] = "found"
  <2>1. Mutable /\ DeleteResult(table, k)[1] = "found"
    BY <1>2 DEF DeleteAnswer, Refusal
  <2>2. PICK p \in 1..Len(Order(table)) : Order(table)[p] = Hit(table, k)
    BY <1>1, <2>1, FoundIs
  <2>3. table' = Removed(table, Order(table)[p])
    BY <1>2, <2>2 DEF DeleteKey
  <2>4. Good(table')
    BY <1>1, <2>3, RemovedKeeps DEF Good
  <2> QED
    BY <2>1, <2>4, TableCallKeeps DEF DeleteKey
<1>3. CASE DeleteAnswer(k)[1] # "found"
  <2>1. table' = table
    BY <1>3 DEF DeleteKey
  <2>2. Good(table')
    BY <1>1, <2>1
  <2> QED
    BY <2>1, <2>2, TableCallKeeps DEF DeleteKey
<1> QED
  BY <1>2, <1>3

\* insert, lookup, setdefault, update and clear.
LEMMA TableActionsKeep ==
  ASSUME IInv,
         \/ \E p \in Args : Insert(p[1], p[2])
         \/ \E k \in Key : Lookup(k)
         \/ \E p \in Args : SetDefault(p[1], p[2])
         \/ \E batch \in Batches : Update(batch)
         \/ Clear
  PROVE  IInv'
<1>1. Good(table) /\ table \in Tables /\ TableOf(table, Order(table))
  BY DEF IInv, Good, TableOf
<1>2. \A p \in Args : p[1] \in Key /\ p[2] \in Value
  BY HashtableAssumption
<1>3. \A p \in Args : Good(Inserted(table, p[1], p[2]))
  BY <1>1, <1>2, InsertedIs
<1>4. ASSUME NEW p \in Args, Insert(p[1], p[2]) PROVE IInv'
  <2>1. /\ table' = IF Mutable THEN Inserted(table, p[1], p[2]) ELSE table
        /\ UNCHANGED <<frozen, itercount, iters, frozenVals>>
    BY <1>4 DEF Insert
  <2>2. Good(table')
    BY <1>1, <1>3, <2>1
  <2> QED
    BY <2>1, <2>2, TableCallKeeps
<1>5. ASSUME NEW k \in Key, Lookup(k) PROVE IInv'
  <2>1. table' = table /\ UNCHANGED <<frozen, itercount, iters, frozenVals>>
    BY <1>5 DEF Lookup
  <2>2. Good(table')
    BY <1>1, <2>1
  <2> QED
    BY <2>1, <2>2, TableCallKeeps
<1>6. ASSUME NEW p \in Args, SetDefault(p[1], p[2]) PROVE IInv'
  <2>1. /\ table' = Inserted(table, p[1], p[2]) \/ table' = table
        /\ ~Mutable => table' = table
        /\ UNCHANGED <<frozen, itercount, iters, frozenVals>>
    BY <1>6 DEF SetDefault
  <2>2. Good(table')
    BY <1>1, <1>3, <2>1
  <2> QED
    BY <2>1, <2>2, TableCallKeeps
<1>7. ASSUME NEW batch \in Batches, Update(batch) PROVE IInv'
  <2>1. batch \in Seq(Key \X Value)
    BY HashtableAssumption
  <2>2. table' = Updated(batch).t /\ UNCHANGED <<frozen, itercount, iters, frozenVals>>
    BY <1>7 DEF Update
  <2>3. Good(table') /\ (~Mutable => table' = table)
    BY <1>1, <2>1, <2>2, UpdatedKeeps
  <2> QED
    BY <2>2, <2>3, TableCallKeeps
<1>8. ASSUME Clear PROVE IInv'
  <2>1. /\ table' = IF Mutable THEN Fresh(Len(table.chains)) ELSE table
        /\ UNCHANGED <<frozen, itercount, iters, frozenVals>>
    BY <1>8 DEF Clear
  <2>2. Len(table.chains) \in Nat
    BY <1>1 DEF Tables
  <2>3. Good(Fresh(Len(table.chains)))
    BY <2>2, FreshIs, GoodIs
  <2>4. Good(table')
    BY <1>1, <2>1, <2>3
  <2> QED
    BY <2>1, <2>4, TableCallKeeps
<1> QED
  BY <1>4, <1>5, <1>6, <1>7, <1>8

\* popitem deletes the key at the head of the list.
LEMMA PopItemKeeps ==
  ASSUME IInv, PopItem
  PROVE  IInv'
<1>1. Good(table)
  BY DEF IInv, Good
<1>2. CASE table.head = Nil
  <2>1. table' = table /\ UNCHANGED <<frozen, itercount, iters, frozenVals>>
    BY <1>2 DEF PopItem
  <2>2. Good(table')
    BY <1>1, <2>1
  <2> QED
    BY <2>1, <2>2, TableCallKeeps
<1>3. CASE table.head # Nil
  <2>1. table.head \in Used(table)
    BY <1>1, <1>3, KeysFromHead
  <2>2. At(table, table.head).key \in Key
    BY <1>1, <2>1, KeysFromStep
  <2>3. DeleteKey(At(table, table.head).key)
    BY <1>3 DEF PopItem
  <2> QED
    BY <2>2, <2>3, DeleteKeyKeeps
<1> QED
  BY <1>2, <1>3

\* What freeze reaches are keys and values.
LEMMA ContentsAre ==
  ASSUME NEW t, Good(t)
  PROVE  Contents(t) \subseteq Key \cup Value
<1>1. \A a \in Used(t) : At(t, a).key \in Key /\ At(t, a).value \in Value
  BY EntryFacts DEF Good
<1> QED
  BY <1>1 DEF Contents

\* freeze.
LEMMA FreezeKeeps ==
  ASSUME IInv, Freeze
  PROVE  IInv'
<1>1. Good(table) /\ UNCHANGED <<table, itercount, iters>> /\ frozen' = TRUE /\ frozenVals' = frozenVals \cup Contents(table)
  BY DEF IInv, Good, Freeze
<1>2. Contents(table) \subseteq Key \cup Value
  BY <1>1, ContentsAre
<1>3. Contents(table') = Contents(table)
  BY <1>1
<1>4. \A i \in Iter : CursorOK(i)'
  BY <1>1 DEF IInv, CursorOK
<1> QED
  BY <1>1, <1>2, <1>3, <1>4 DEF IInv, Good, ItercountIsActive

\* The counter follows the iterators, while the table is not frozen.
LEMMA IterateKeeps ==
  ASSUME IInv, NEW i \in Iter, Iterate(i)
  PROVE  IInv'
<1> DEFINE new == [active |-> TRUE, e |-> table.head, yielded |-> <<>>, snapshot |-> Keys(table)]
<1>1. /\ ~iters[i].active /\ itercount' = Count(1) /\ iters' = [iters EXCEPT ![i] = new]
      /\ UNCHANGED <<table, frozen, frozenVals>> /\ Good(table) /\ table \in Tables /\ iters \in [Iter -> Iterators]
  BY DEF Iterate, IInv, Good, TableOf
<1>2. /\ Keys(table) \in Seq(Key) /\ KeysFrom(table, table.head) = Keys(table)
      /\ table.head \in Used(table) \cup {Nil} /\ table.head \in Link
  BY <1>1, KeysFromHead DEF Tables
<1>3. new \in Iterators /\ new.active /\ new.e = table.head /\ new.yielded \o KeysFrom(table, new.e) = new.snapshot
  BY <1>2 DEF Iterators
<1> HIDE DEF new
<1>4. iters' \in [Iter -> Iterators] /\ iters'[i] = new /\ \A j \in Iter : j # i => iters'[j] = iters[j]
  BY <1>1, <1>3
<1>5. ASSUME NEW j \in Iter PROVE CursorOK(j)'
  <2>1. CASE j = i
    BY <1>1, <1>2, <1>3, <1>4, <2>1 DEF CursorOK
  <2>2. CASE j # i
    BY <1>1, <1>4, <2>2 DEF IInv, CursorOK
  <2> QED
    BY <2>1, <2>2
<1>6. itercount' \in Nat /\ (~frozen => itercount' = Cardinality(ActiveIters'))
  <2>1. CASE frozen
    BY <1>1, <2>1 DEF Count, IInv
  <2>2. CASE ~frozen
    <3>1. ActiveIters' = ActiveIters \cup {i} /\ i \notin ActiveIters
      BY <1>1, <1>3, <1>4 DEF ActiveIters
    <3>2. IsFiniteSet(ActiveIters)
      BY FS_Subset, HashtableAssumption DEF ActiveIters
    <3>3. Cardinality(ActiveIters') = Cardinality(ActiveIters) + 1
      BY <3>1, <3>2, FS_AddElement
    <3>4. itercount = Cardinality(ActiveIters) /\ itercount \in Nat
      BY <2>2 DEF IInv, ItercountIsActive, ActiveIters
    <3>5. itercount' = itercount + 1
      BY <1>1, <2>2 DEF Count
    <3> QED
      BY <3>3, <3>4, <3>5
  <2> QED
    BY <2>1, <2>2
<1>7. ItercountIsActive'
  BY <1>1, <1>6 DEF ItercountIsActive, ActiveIters
<1> QED
  BY <1>1, <1>4, <1>5, <1>6, <1>7 DEF IInv, Good

\* What an iterator yields leaves the list of the keys it has yet to yield.
LEMMA NextKeyKeeps ==
  ASSUME IInv, NEW i \in Iter, NextKey(i)
  PROVE  IInv'
<1>1. /\ iters[i].active /\ UNCHANGED <<table, frozen, itercount, frozenVals>>
      /\ Good(table) /\ table \in Tables /\ iters \in [Iter -> Iterators] /\ CursorOK(i)
  BY DEF NextKey, IInv, Good, TableOf
<1>2. CASE iters[i].e = Nil
  <2>1. iters' = iters
    BY <1>2 DEF NextKey
  <2> QED
    BY <1>1, <2>1 DEF IInv, CursorOK, ItercountIsActive
<1>3. CASE iters[i].e # Nil
  <2> DEFINE old == iters[i]
             a   == old.e
             e   == At(table, a)
             new == [old EXCEPT !.e = e.next, !.yielded = Append(@, e.key)]
  <2>1. old \in Iterators /\ a \in Used(table) /\ old.yielded \o KeysFrom(table, a) = old.snapshot
    BY <1>1, <1>3 DEF CursorOK
  <2>2. /\ e.key \in Key /\ e.next \in Used(table) \cup {Nil} /\ KeysFrom(table, e.next) \in Seq(Key)
        /\ KeysFrom(table, a) = <<e.key>> \o KeysFrom(table, e.next)
    BY <1>1, <2>1, KeysFromStep
  <2>3. e.next \in Link
    BY <1>1, <2>1, AddressFacts DEF Used, Entries
  <2>4. iters' = [iters EXCEPT ![i] = new]
    BY <1>1, <1>3 DEF NextKey
  <2> HIDE DEF e, a, old
  <2>5. old.yielded \in Seq(Key) /\ old.active \in BOOLEAN /\ old.snapshot \in Seq(Key)
    BY <2>1 DEF Iterators
  <2>6. /\ new \in Iterators /\ new.active = old.active /\ new.e = e.next
        /\ new.yielded = Append(old.yielded, e.key) /\ new.snapshot = old.snapshot
    <3>1. Append(old.yielded, e.key) \in Seq(Key)
      BY <2>2, <2>5
    <3> QED
      BY <2>1, <2>3, <3>1 DEF Iterators
  <2>7. new.yielded \o KeysFrom(table, new.e) = new.snapshot
    <3> DEFINE y == old.yielded
               k == e.key
               r == KeysFrom(table, e.next)
    <3>0. y \in Seq(Key) /\ k \in Key /\ r \in Seq(Key)
      BY <2>2, <2>5
    <3>01. y \o (<<k>> \o r) = old.snapshot
      BY <2>1, <2>2
    <3> HIDE DEF y, k, r
    <3>1. y \in Seq(Key) /\ k \in Key /\ r \in Seq(Key) /\ <<k>> \in Seq(Key) /\ y \o (<<k>> \o r) = old.snapshot
      BY <3>0, <3>01
    <3>2. Append(y, k) = y \o <<k>>
      BY <3>1, AppendIsConcat
    <3>3. (y \o <<k>>) \o r = y \o (<<k>> \o r)
      BY <3>1, ConcatAssociative
    <3>4. Append(y, k) \o r = old.snapshot
      BY <3>1, <3>2, <3>3
    <3> QED
      BY <2>6, <3>4 DEF y, k, r
  <2> HIDE DEF new
  <2>8. iters' \in [Iter -> Iterators] /\ iters'[i] = new /\ \A j \in Iter : j # i => iters'[j] = iters[j]
    BY <1>1, <2>4, <2>6
  <2>9. ASSUME NEW j \in Iter PROVE CursorOK(j)'
    <3>1. CASE j = i
      BY <1>1, <2>2, <2>6, <2>7, <2>8, <3>1 DEF CursorOK
    <3>2. CASE j # i
      BY <1>1, <2>8, <3>2 DEF IInv, CursorOK
    <3> QED
      BY <3>1, <3>2
  <2>10. \A j \in Iter : iters'[j].active = iters[j].active
    BY <2>6, <2>8 DEF old
  <2>11. ActiveIters' = ActiveIters
    BY <2>10 DEF ActiveIters
  <2>12. ItercountIsActive'
    BY <1>1, <2>11 DEF IInv, ItercountIsActive, ActiveIters
  <2> QED
    BY <1>1, <2>8, <2>9, <2>12 DEF IInv, Good
<1> QED
  BY <1>2, <1>3

\* An iterator that is done is no longer counted, unless the table is frozen.
LEMMA DoneKeeps ==
  ASSUME IInv, NEW i \in Iter, Done(i)
  PROVE  IInv'
<1>1. /\ iters[i].active /\ itercount' = Count(-1) /\ iters' = [iters EXCEPT ![i] = Idle]
      /\ UNCHANGED <<table, frozen, frozenVals>> /\ Good(table) /\ iters \in [Iter -> Iterators]
  BY DEF Done, IInv, Good
<1>2. Idle \in Iterators /\ Idle.active = FALSE
  BY DEF Idle, Iterators, Link, Nil
<1>3. iters' \in [Iter -> Iterators] /\ iters'[i] = Idle /\ \A j \in Iter : j # i => iters'[j] = iters[j]
  BY <1>1, <1>2
<1>4. ASSUME NEW j \in Iter PROVE CursorOK(j)'
  <2>1. CASE j = i
    BY <1>2, <1>3, <2>1 DEF CursorOK
  <2>2. CASE j # i
    BY <1>1, <1>3, <2>2 DEF IInv, CursorOK
  <2> QED
    BY <2>1, <2>2
<1>5. itercount' \in Nat /\ (~frozen => itercount' = Cardinality(ActiveIters'))
  <2>1. CASE frozen
    BY <1>1, <2>1 DEF Count, IInv
  <2>2. CASE ~frozen
    <3>1. ActiveIters' = ActiveIters \ {i} /\ i \in ActiveIters
      BY <1>1, <1>2, <1>3 DEF ActiveIters
    <3>2. IsFiniteSet(ActiveIters)
      BY FS_Subset, HashtableAssumption DEF ActiveIters
    <3>3. Cardinality(ActiveIters') = Cardinality(ActiveIters) - 1 /\ Cardinality(ActiveIters') \in Nat
      BY <3>1, <3>2, FS_RemoveElement, FS_Subset, FS_CardinalityType
    <3>4. itercount = Cardinality(ActiveIters) /\ itercount \in Nat
      BY <2>2 DEF IInv, ItercountIsActive, ActiveIters
    <3>5. itercount' = itercount + -1
      BY <1>1, <2>2 DEF Count
    <3> QED
      BY <3>3, <3>4, <3>5
  <2> QED
    BY <2>1, <2>2
<1>6. ItercountIsActive'
  BY <1>1, <1>5 DEF ItercountIsActive, ActiveIters
<1> QED
  BY <1>1, <1>3, <1>4, <1>5, <1>6 DEF IInv, Good

\* Every step keeps the invariant.
LEMMA NextInvariant ==
  ASSUME IInv, [Next]_vars
  PROVE  IInv'
<1>1. CASE UNCHANGED vars
  BY <1>1 DEF vars, IInv, CursorOK, ItercountIsActive
<1>2. CASE Next
  <2>1. CASE \E k \in Key : Delete(k)
    BY <2>1, DeleteKeyKeeps DEF Delete
  <2>2. CASE PopItem
    BY <2>2, PopItemKeeps
  <2>3. CASE Freeze
    BY <2>3, FreezeKeeps
  <2>4. CASE \E i \in Iter : Iterate(i) \/ NextKey(i) \/ Done(i)
    BY <2>4, IterateKeeps, NextKeyKeeps, DoneKeeps
  <2> QED
    BY <1>2, <2>1, <2>2, <2>3, <2>4, TableActionsKeep DEF Next
<1> QED
  BY <1>1, <1>2

(***************************************************************************)
(* The theorems.                                                           *)
(***************************************************************************)

\* The inductive invariant: the table is threaded on its list, every iterator
\* stands at the keys it has yet to yield, what is frozen is frozen deeply, and
\* itercount counts the iterators of a table that is not.
THEOREM Invariant == Spec => []IInv
<1>1. Init => IInv
  BY InitInvariant
<1>2. IInv /\ [Next]_vars => IInv'
  BY NextInvariant
<1> QED
  BY <1>1, <1>2, PTL DEF Spec

\* Every variable has its type in every reachable state.
THEOREM TypeCorrect == Spec => []TypeOK
<1>1. IInv => TypeOK
  <2> SUFFICES ASSUME IInv PROVE TypeOK
    OBVIOUS
  <2>1. Good(table) /\ table \in Tables /\ Whole(table) /\ iters \in [Iter -> Iterators]
    BY DEF IInv, Good, TableOf
  <2>2. \A a \in Used(table) : At(table, a).key \in Key /\ At(table, a).value \in Value
    BY <2>1, EntryFacts DEF Good
  <2>3. table.len \in Nat /\ Len(table.chains) \in Nat
    BY <2>1 DEF Tables
  <2>4. \A i \in Iter : iters[i].active \in BOOLEAN
    BY <2>1 DEF Iterators
  <2> QED
    BY <2>1, <2>2, <2>3, <2>4 DEF TypeOK, Whole, IInv
<1> QED
  BY <1>1, Invariant, PTL

\* The entries of a list are as many as its length.
LEMMA UsedCount ==
  ASSUME NEW t, NEW o, TableOf(t, o)
  PROVE  Cardinality(Used(t)) = Len(o)
<1>1. t \in Tables /\ Linked(t, o) /\ Len(o) \in Nat /\ DOMAIN o = 1..Len(o)
  BY LinkedFacts DEF TableOf
<1>2. \A i \in 1..Len(o) : o[i] \in Used(t)
  BY <1>1, LinkedFacts
<1>3. \A a \in Used(t) : \E i \in 1..Len(o) : o[i] = a
  BY <1>1, LinkedFacts
<1>4. \A i, j \in 1..Len(o) : o[i] = o[j] => i = j
  BY <1>1 DEF Linked
<1>5. o \in [1..Len(o) -> Used(t)]
  <2>1. o \in Seq(Addresses(t))
    BY <1>1, LinkedFacts
  <2>2. o = [i \in 1..Len(o) |-> o[i]]
    BY <2>1
  <2> QED
    BY <1>2, <2>2
<1>6. o \in Bijection(1..Len(o), Used(t))
  BY <1>3, <1>4, <1>5 DEF Bijection, Injection, Surjection, IsInjective
<1>7. ExistsBijection(1..Len(o), Used(t))
  BY <1>6 DEF ExistsBijection
<1> QED
  BY <1>1, <1>7, FS_CountingElements

\* Whatever insert, delete, grow, update and clear did, the list through the table
\* visits each used entry once, both ways, and ht.len counts them.
THEOREM ListThreaded == Spec => []Threaded
<1>1. IInv => Threaded
  <2> SUFFICES ASSUME IInv PROVE Threaded
    OBVIOUS
  <2> DEFINE o == Order(table)
  <2>1. TableOf(table, o)
    BY DEF IInv
  <2> HIDE DEF o
  <2>2. table \in Tables /\ Linked(table, o) /\ Len(o) \in Nat
    BY <2>1, LinkedFacts DEF TableOf
  <2>3. \A a \in Used(table) : a[1] = ChainOf(table, At(table, a).key)
    BY <2>1, EntryFacts
  <2>4. Cardinality(Used(table)) = table.len /\ Len(o) = table.len /\ ToSet(o) = Used(table)
    BY <2>1, <2>2, UsedCount DEF Linked
  <2>5. \A i \in DOMAIN o : At(table, o[i]).prev = IF i = 1 THEN HeadLink ELSE o[i - 1]
    BY <2>2 DEF Linked, BackLink
  <2>6. table.chains # <<>> => table.tail = IF Len(o) + 1 = 1 THEN HeadLink ELSE o[(Len(o) + 1) - 1]
    BY <2>2 DEF Linked, BackLink
  <2> QED
    BY <2>3, <2>4, <2>5, <2>6 DEF Threaded, o
<1> QED
  BY <1>1, Invariant, PTL

\* An iterator yields the keys the table held when it was started, each once, in
\* order: no call moves, removes or relinks an entry under it.
THEOREM IteratorsSeeSnapshots == Spec => []IteratorSeesSnapshot
<1>1. IInv => IteratorSeesSnapshot
  BY DEF IInv, CursorOK, IteratorSeesSnapshot
<1> QED
  BY <1>1, Invariant, PTL

\* Freezing reaches the items of every bucket of every chain, those added by
\* overflow included.
THEOREM FreezingIsDeep == Spec => []FreezeIsDeep
<1>1. IInv => FreezeIsDeep
  <2> SUFFICES ASSUME IInv, frozen, NEW item \in ToSet(Items(table)) PROVE {item[1], item[2]} \subseteq frozenVals
    BY DEF FreezeIsDeep
  <2> DEFINE o == Order(table)
  <2>1. TableOf(table, o) /\ Contents(table) \subseteq frozenVals
    BY DEF IInv
  <2> HIDE DEF o
  <2>2. /\ Items(table) = [i \in 1..Len(o) |-> <<At(table, o[i]).key, At(table, o[i]).value>>]
        /\ \A i \in 1..Len(o) : o[i] \in Used(table)
    BY <2>1, ItemsAre, LinkedFacts DEF TableOf
  <2>3. PICK i \in 1..Len(o) : item = <<At(table, o[i]).key, At(table, o[i]).value>>
    BY <2>2 DEF ToSet
  <2>4. {At(table, o[i]).key, At(table, o[i]).value} \subseteq Contents(table)
    BY <2>2 DEF Contents
  <2> QED
    BY <2>1, <2>3, <2>4
<1> QED
  BY <1>1, Invariant, PTL

\* While the table is not frozen, itercount counts the iterators that are not done.
THEOREM ItercountCounts == Spec => []ItercountIsActive
<1>1. IInv => ItercountIsActive
  BY DEF IInv
<1> QED
  BY <1>1, Invariant, PTL

\* No call writes any field of a frozen table: threads may share it without a lock.
THEOREM FrozenIsReadOnly == Spec => FrozenNeverWritten
<1>1. ASSUME IInv, [Next]_vars, frozen PROVE UNCHANGED <<table, frozen, itercount>>
  <2>1. ~Mutable /\ Good(table)
    BY <1>1 DEF Mutable, IInv, Good
  <2>2. ASSUME NEW k PROVE DeleteAnswer(k)[1] # "found"
    BY <1>1, <2>1 DEF DeleteAnswer, Refusal
  <2>3. CASE UNCHANGED vars
    BY <2>3 DEF vars
  <2>4. ASSUME NEW p \in Args, Insert(p[1], p[2]) \/ SetDefault(p[1], p[2]) PROVE UNCHANGED <<table, frozen, itercount>>
    BY <2>1, <2>4 DEF Insert, SetDefault
  <2>5. ASSUME NEW k \in Key, Lookup(k) \/ Delete(k) PROVE UNCHANGED <<table, frozen, itercount>>
    BY <2>2, <2>5 DEF Lookup, Delete, DeleteKey
  <2>6. CASE PopItem
    BY <2>2, <2>6 DEF PopItem, DeleteKey
  <2>7. ASSUME NEW batch \in Batches, Update(batch) PROVE UNCHANGED <<table, frozen, itercount>>
    <3>1. batch \in Seq(Key \X Value)
      BY HashtableAssumption
    <3> QED
      BY <2>1, <2>7, <3>1, UpdatedKeeps DEF Update
  <2>8. CASE Clear \/ Freeze
    BY <1>1, <2>1, <2>8 DEF Clear, Freeze
  <2>9. ASSUME NEW i \in Iter, Iterate(i) \/ NextKey(i) \/ Done(i) PROVE UNCHANGED <<table, frozen, itercount>>
    BY <1>1, <2>9 DEF Iterate, NextKey, Done, Count
  <2> QED
    BY <1>1, <2>3, <2>4, <2>5, <2>6, <2>7, <2>8, <2>9 DEF Next
<1>2. IInv /\ [Next]_vars => [frozen => UNCHANGED <<table, frozen, itercount>>]_vars
  BY <1>1
<1> QED
  BY <1>2, Invariant, PTL DEF Spec, FrozenNeverWritten

(***************************************************************************)
(* The answers of the map are those of the table.                          *)
(***************************************************************************)

\* Equal keys hash alike, in the slots too.
LEMMA SameKeyCollides ==
  ASSUME NEW k \in Key, NEW x \in Key, SameKey(k, x)
  PROVE  Collide(k, x)
  BY HashtableAssumption DEF SameKey, Collide, SlotHash

\* The items of a table in order: keys and values, at most one of which stops a
\* search for a key that can be hashed.
LEMMA GoodItems ==
  ASSUME NEW t, Good(t)
  PROVE  /\ Items(t) \in Seq(Key \X Value)
         /\ \A i \in DOMAIN Items(t) : Items(t)[i][1] \in Key /\ HashOf[Items(t)[i][1]] # Unhashable
         /\ \A k \in Key : HashOf[k] # Unhashable => Stops(Items(t), k) = {} \/ \E p \in DOMAIN Items(t) : Stops(Items(t), k) = {p}
<1> DEFINE o == Order(t)
           r == Ready(t)
           m == Items(t)
<1>1. TableOf(t, o)
  BY DEF Good
<1> HIDE DEF o, r
<1>2. m \in Seq(Key \X Value) /\ Len(m) = Len(o) /\ \A i \in 1..Len(o) : HashOf[m[i][1]] # Unhashable
  BY ONLY <1>1, ItemsAre
<1>3. DOMAIN m = 1..Len(m) /\ \A i \in 1..Len(m) : m[i] \in Key \X Value
  BY <1>2, ElementOfSeq
<1>4. \A i \in DOMAIN m : m[i][1] \in Key /\ HashOf[m[i][1]] # Unhashable
  BY <1>2, <1>3
<1>5. TableOf(r, o) /\ r.chains # <<>> /\ Items(r) = m
  BY <1>1, ReadyIs DEF r
<1> HIDE DEF m
<1>6. ASSUME NEW k \in Key, HashOf[k] # Unhashable PROVE Stops(m, k) = {} \/ \E p \in DOMAIN m : Stops(m, k) = {p}
  BY <1>2, <1>3, <1>5, <1>6, SearchIs
<1> QED
  BY <1>2, <1>4, <1>6 DEF m

\* The four answers of the map.
LEMMA AnswerIs ==
  ASSUME NEW t, Good(t), NEW k \in Key
  PROVE  LET m == Items(t)
             a == Abstract!Answer(m, k)
         IN  /\ HashOf[k] = Unhashable => a = <<"unhashable">>
             /\ HashOf[k] # Unhashable /\ Failing(m, k) => a = <<"too deep">>
             /\ HashOf[k] # Unhashable /\ Stops(m, k) = {} => a = <<"missing">>
             /\ HashOf[k] # Unhashable /\ ~Failing(m, k) =>
                  /\ Abstract!Positions(m, k) = Stops(m, k)
                  /\ \A p : Stops(m, k) = {p} => a = <<"found", m[p][2]>>
<1> DEFINE m == Items(t)
           a == Abstract!Answer(m, k)
           deep == \E p \in DOMAIN m : EqualFails(k, m[p][1]) /\ SlotHash(k) = SlotHash(m[p][1])
           own == {p \in DOMAIN m : SameKey(k, m[p][1])}
           one == CHOOSE p \in own : TRUE
<1>1. \A i \in DOMAIN m : m[i][1] \in Key
  BY GoodItems
<1> HIDE DEF m
<1>2. a = IF HashOf[k] = Unhashable THEN <<"unhashable">>
          ELSE IF deep THEN <<"too deep">>
          ELSE IF own = {} THEN <<"missing">>
          ELSE <<"found", m[one][2]>>
  <2> DEFINE live == {x \in Key : HashOf[x] # Unhashable}
  <2>1. a = IF k \notin live THEN <<"unhashable">>
            ELSE IF deep THEN <<"too deep">>
            ELSE IF own = {} THEN <<"missing">>
            ELSE <<"found", m[one][2]>>
    BY DEF Abstract!Answer, Abstract!Positions
  <2>2. k \in live <=> HashOf[k] # Unhashable
    OBVIOUS
  <2> HIDE DEF a, deep, own, live, one
  <2>3. CASE HashOf[k] = Unhashable
    BY <2>1, <2>2, <2>3
  <2>4. CASE HashOf[k] # Unhashable
    BY <2>1, <2>2, <2>4
  <2> QED
    BY <2>3, <2>4
<1>3. Abstract!Positions(m, k) = own
  BY DEF Abstract!Positions
<1>4. own \subseteq Stops(m, k)
  BY <1>1, SameKeyCollides DEF Stops
<1>5. deep <=> Failing(m, k)
  BY DEF Failing, Stops, Collide
<1>6. ~Failing(m, k) => own = Stops(m, k)
  BY <1>4 DEF Failing, Stops, Collide
<1>7. Stops(m, k) = {} => ~Failing(m, k)
  BY DEF Failing
<1> HIDE DEF a, deep, own, one
<1>8. ASSUME HashOf[k] # Unhashable, ~Failing(m, k), NEW p, Stops(m, k) = {p} PROVE a = <<"found", m[p][2]>>
  <2>1. own = {p} /\ ~deep
    BY <1>5, <1>6, <1>8
  <2>2. one = p
    BY <2>1 DEF one
  <2> QED
    BY <1>2, <1>8, <2>1, <2>2
<1> QED
  BY <1>2, <1>3, <1>5, <1>6, <1>7, <1>8 DEF m, a

\* insert puts the item, and reports what the map does.
LEMMA InsertedPuts ==
  ASSUME NEW t, Good(t), NEW k \in Key, NEW v \in Value
  PROVE  /\ Items(Inserted(t, k, v)) = Abstract!Put(Items(t), k, v)
         /\ InsertError(t, k) = Abstract!PutError(Items(t), k)
<1> DEFINE m == Items(t)
           a == Abstract!Answer(m, k)
           e == InsertError(t, k)
           u == Items(Inserted(t, k, v))
<1>1. TableOf(t, Order(t))
  BY DEF Good
<1>2. /\ u = IF e = <<"ok">> THEN Placed(m, k, v) ELSE m
      /\ e = IF HashOf[k] = Unhashable THEN <<"unhashable">>
             ELSE IF Failing(m, k) THEN <<"too deep">> ELSE <<"ok">>
  BY <1>1, InsertedIs
<1>3. /\ HashOf[k] = Unhashable => a = <<"unhashable">>
      /\ HashOf[k] # Unhashable /\ Failing(m, k) => a = <<"too deep">>
      /\ HashOf[k] # Unhashable /\ Stops(m, k) = {} => a = <<"missing">>
      /\ HashOf[k] # Unhashable /\ ~Failing(m, k) =>
           /\ Abstract!Positions(m, k) = Stops(m, k)
           /\ \A p : Stops(m, k) = {p} => a = <<"found", m[p][2]>>
  BY AnswerIs
<1>4. HashOf[k] # Unhashable => Stops(m, k) = {} \/ \E p \in DOMAIN m : Stops(m, k) = {p}
  BY GoodItems
<1>5. Abstract!Put(m, k, v) =
        IF a[1] = "missing" THEN Append(m, <<k, v>>)
        ELSE IF a[1] = "found" THEN [p \in DOMAIN m |-> IF p \in Abstract!Positions(m, k) THEN <<m[p][1], v>> ELSE m[p]]
        ELSE m
  BY DEF Abstract!Put
<1>6. Abstract!PutError(m, k) = IF a[1] \in {"missing", "found"} THEN <<"ok">> ELSE a
  BY DEF Abstract!PutError
<1> HIDE DEF m, a, e, u
<1>7. CASE HashOf[k] = Unhashable
  BY <1>2, <1>3, <1>5, <1>6, <1>7 DEF m, e, u
<1>8. CASE HashOf[k] # Unhashable /\ Failing(m, k)
  <2>1. a = <<"too deep">> /\ e = <<"too deep">>
    BY <1>2, <1>3, <1>8
  <2>2. e # <<"ok">> /\ a[1] = "too deep"
    BY <2>1
  <2>3. u = m
    BY <1>2, <2>2
  <2>4. Abstract!Put(m, k, v) = m /\ Abstract!PutError(m, k) = a
    BY <1>5, <1>6, <2>2
  <2> QED
    BY <2>1, <2>3, <2>4 DEF m, e, u
<1>9. CASE HashOf[k] # Unhashable /\ ~Failing(m, k) /\ Stops(m, k) = {}
  <2>1. e = <<"ok">> /\ u = Append(m, <<k, v>>) /\ a = <<"missing">>
    BY <1>2, <1>3, <1>9 DEF Placed
  <2> QED
    BY <1>5, <1>6, <2>1 DEF m, e, u
<1>10. CASE HashOf[k] # Unhashable /\ ~Failing(m, k) /\ Stops(m, k) # {}
  <2>1. PICK p \in DOMAIN m : Stops(m, k) = {p}
    BY <1>4, <1>10
  <2>2. a = <<"found", m[p][2]>>
    BY <1>3, <1>10, <2>1
  <2>3. e = <<"ok">> /\ u = [q \in DOMAIN m |-> IF q \in Stops(m, k) THEN <<m[q][1], v>> ELSE m[q]]
    BY <1>2, <1>10 DEF Placed
  <2>4. Abstract!Positions(m, k) = Stops(m, k)
    BY <1>3, <1>10
  <2> QED
    BY <1>5, <1>6, <2>2, <2>3, <2>4 DEF m, e, u
<1> QED
  BY <1>7, <1>8, <1>9, <1>10

\* A table without chains has no items.
LEMMA EmptyItems ==
  ASSUME NEW t, Good(t), t.chains = <<>>
  PROVE  Items(t) = <<>>
<1> DEFINE o == Order(t)
           m == Items(t)
<1>1. TableOf(t, o)
  BY DEF Good
<1> HIDE DEF o
<1>2. Used(t) = {}
  BY <1>1 DEF TableOf, Tables, Used, Addresses
<1>3. \A i \in 1..Len(o) : o[i] \in Used(t)
  BY <1>1, LinkedFacts DEF TableOf
<1>4. Len(m) = Len(o) /\ Len(o) \in Nat /\ m \in Seq(Key \X Value)
  BY <1>1, ItemsAre
<1>5. Len(o) = 0
  <2>1. Len(o) # 0 => 1 \in 1..Len(o)
    BY <1>4
  <2> QED
    BY <1>2, <1>3, <2>1
<1> HIDE DEF m
<1>6. m = <<>>
  BY <1>4, <1>5
<1> QED
  BY <1>6 DEF m

\* lookup answers as the map does.
LEMMA LookupAnswers ==
  ASSUME Good(table), NEW k \in Key
  PROVE  LookupResult(table, k) = Abstract!Answer(Items(table), k)
<1> DEFINE o == Order(table)
           m == Items(table)
           a == Abstract!Answer(m, k)
<1>1. TableOf(table, o)
  BY DEF Good
<1>2. /\ HashOf[k] = Unhashable => a = <<"unhashable">>
      /\ HashOf[k] # Unhashable /\ Failing(m, k) => a = <<"too deep">>
      /\ HashOf[k] # Unhashable /\ Stops(m, k) = {} => a = <<"missing">>
      /\ HashOf[k] # Unhashable /\ ~Failing(m, k) => \A p : Stops(m, k) = {p} => a = <<"found", m[p][2]>>
  BY AnswerIs
<1> HIDE DEF o, a
<1>3. CASE HashOf[k] = Unhashable
  BY <1>2, <1>3 DEF LookupResult, a
<1>4. CASE HashOf[k] # Unhashable /\ table.chains = <<>>
  <2>1. m = <<>>
    BY <1>4, EmptyItems
  <2>2. Stops(m, k) = {}
    BY <2>1 DEF Stops
  <2>3. a = <<"missing">>
    BY <1>2, <1>4, <2>2
  <2> QED
    BY <1>4, <2>3 DEF LookupResult, Find, a
<1>5. CASE HashOf[k] # Unhashable /\ table.chains # <<>>
  <2>1. Hits(table, k) = {} <=> Stops(m, k) = {}
    BY <1>1, <1>5, SearchIs
  <2>2. CASE Hits(table, k) = {}
    BY <1>2, <1>5, <2>1, <2>2 DEF LookupResult, Find, a
  <2>3. CASE Hits(table, k) # {}
    <3>1. HitFails(table, k) <=> Failing(m, k)
      BY <1>1, <1>5, <2>3, SearchIs
    <3>2. PICK p : Stops(m, k) = {p} /\ At(table, Hit(table, k)).value = m[p][2]
      BY <1>1, <1>5, <2>3, SearchIs
    <3> HIDE DEF m
    <3> QED
      BY <1>2, <1>5, <2>3, <3>1, <3>2 DEF LookupResult, Find, a, m
  <2> QED
    BY <2>2, <2>3
<1> QED
  BY <1>3, <1>4, <1>5

(***************************************************************************)
(* The steps.                                                              *)
(***************************************************************************)
Viewed == view = View(table, iters)
Rest(t, its) == [i \in Iter |-> IF its[i].active THEN KeysFrom(t, its[i].e) ELSE <<>>]

\* What the map's variables hold.
LEMMA ViewIs ==
  ASSUME Viewed
  PROVE  view.items = Items(table) /\ view.rest = Rest(table, iters)
  BY DEF Viewed, View, Rest

\* And what they hold after a step.
LEMMA ViewNextIs ==
  ASSUME Viewed'
  PROVE  view'.items = Items(table') /\ view'.rest = Rest(table', iters')
  BY DEF Viewed, View, Rest

\* The map may be changed when the table may.
LEMMA MutableIs ==
  ASSUME IInv
  PROVE  Mutable <=> ~frozen /\ {i \in Iter : iters[i].active} = {}
<1>1. IsFiniteSet(ActiveIters) /\ (~frozen => itercount = Cardinality(ActiveIters))
  BY FS_Subset, HashtableAssumption DEF IInv, ItercountIsActive, ActiveIters
<1>2. ActiveIters = {} <=> Cardinality(ActiveIters) = 0
  BY <1>1, FS_EmptySet
<1> QED
  BY <1>1, <1>2 DEF Mutable, ActiveIters

\* A call that changes at most the table leaves what the iterators have to yield.
LEMMA RestStays ==
  ASSUME IInv, Viewed, Viewed', iters' = iters, ~Mutable => table' = table
  PROVE  view'.rest = view.rest
<1>1. view.rest = Rest(table, iters) /\ view'.rest = Rest(table', iters)
  BY ViewIs, ViewNextIs
<1>2. CASE Mutable
  <2>1. \A i \in Iter : ~iters[i].active
    BY <1>2, MutableIdle
  <2>2. Rest(table, iters) = Rest(table', iters)
    BY <2>1 DEF Rest
  <2> QED
    BY <1>1, <2>2
<1>3. CASE ~Mutable
  BY <1>1, <1>3
<1> QED
  BY <1>2, <1>3

\* A call that may change the table is a write of the map.
LEMMA WriteMaps ==
  ASSUME IInv, Viewed, Viewed', UNCHANGED <<frozen, iters>>, NEW m, NEW answer,
         Mutable => Items(table') = m /\ ret' = answer,
         ~Mutable => table' = table /\ ret' = Refusal
  PROVE  Abstract!Write(m, answer)
<1>1. view.items = Items(table) /\ view'.items = Items(table') /\ view'.rest = view.rest
  BY ViewIs, ViewNextIs, RestStays
<1>2. Mutable <=> ~frozen /\ {i \in Iter : iters[i].active} = {}
  BY MutableIs
<1> QED
  BY <1>1, <1>2 DEF Abstract!Write, Abstract!Mutable, Abstract!Refusal, Refusal

\* A call that does not is a read.
LEMMA ReadMaps ==
  ASSUME Viewed, Viewed', UNCHANGED <<table, frozen, iters>>, NEW answer, ret' = answer
  PROVE  Abstract!Read(answer)
<1>1. view.items = Items(table) /\ view'.items = Items(table') /\ view.rest = Rest(table, iters) /\ view'.rest = Rest(table', iters')
  BY ViewIs, ViewNextIs
<1> QED
  BY <1>1 DEF Abstract!Read

\* insert puts the item.
LEMMA InsertMaps ==
  ASSUME IInv, Viewed, Viewed', NEW k \in Key, NEW v \in Value, Insert(k, v)
  PROVE  Abstract!Insert(k, v)
<1> DEFINE m == Items(table)
<1>1. Good(table) /\ view.items = m
  BY ViewIs DEF IInv, Good
<1>2. Items(Inserted(table, k, v)) = Abstract!Put(m, k, v) /\ InsertError(table, k) = Abstract!PutError(m, k)
  BY <1>1, InsertedPuts
<1>3. /\ Mutable => table' = Inserted(table, k, v) /\ ret' = InsertError(table, k)
      /\ ~Mutable => table' = table /\ ret' = Refusal
      /\ UNCHANGED <<frozen, iters>>
  BY DEF Insert
<1> HIDE DEF m
<1>4. Abstract!Write(Abstract!Put(m, k, v), Abstract!PutError(m, k))
  BY <1>2, <1>3, WriteMaps
<1> QED
  BY <1>1, <1>4 DEF Abstract!Insert

\* lookup reads.
LEMMA LookupMaps ==
  ASSUME IInv, Viewed, Viewed', NEW k \in Key, Lookup(k)
  PROVE  Abstract!Lookup(k)
<1>1. Good(table) /\ view.items = Items(table)
  BY ViewIs DEF IInv, Good
<1>2. ret' = Abstract!Answer(Items(table), k) /\ UNCHANGED <<table, frozen, iters>>
  BY <1>1, LookupAnswers DEF Lookup
<1>3. Abstract!Read(Abstract!Answer(Items(table), k))
  BY <1>2, ReadMaps
<1> QED
  BY <1>1, <1>3 DEF Abstract!Lookup

\* setdefault reads, or writes when the key is missing.
LEMMA SetDefaultMaps ==
  ASSUME IInv, Viewed, Viewed', NEW k \in Key, NEW v \in Value, SetDefault(k, v)
  PROVE  Abstract!SetDefault(k, v)
<1> DEFINE m == Items(table)
           a == Abstract!Answer(m, k)
<1>1. Good(table) /\ view.items = m
  BY ViewIs DEF IInv, Good
<1>2. Items(Inserted(table, k, v)) = Abstract!Put(m, k, v) /\ LookupResult(table, k) = a
  BY <1>1, InsertedPuts, LookupAnswers
<1>3. a[1] = "missing" <=> a = <<"missing">>
  BY DEF Abstract!Answer
<1> HIDE DEF m, a
<1>4. /\ UNCHANGED <<frozen, iters>>
      /\ table' = IF a[1] = "missing" /\ Mutable THEN Inserted(table, k, v) ELSE table
      /\ ret' = IF a[1] # "missing" THEN a ELSE IF Mutable THEN <<"found", v>> ELSE Refusal
  BY <1>2 DEF SetDefault
<1>5. CASE a = <<"missing">>
  <2>1. /\ Mutable => Items(table') = Abstract!Put(m, k, v) /\ ret' = <<"found", v>>
        /\ ~Mutable => table' = table /\ ret' = Refusal
    BY <1>2, <1>3, <1>4, <1>5
  <2>2. Abstract!Write(Abstract!Put(m, k, v), <<"found", v>>)
    BY <1>4, <2>1, WriteMaps
  <2> QED
    BY <1>1, <1>5, <2>2 DEF Abstract!SetDefault, a
<1>6. CASE a # <<"missing">>
  <2>1. ret' = a /\ UNCHANGED <<table, frozen, iters>>
    BY <1>3, <1>4, <1>6
  <2>2. Abstract!Read(a)
    BY <2>1, ReadMaps
  <2> QED
    BY <1>1, <1>6, <2>2 DEF Abstract!SetDefault, a
<1> QED
  BY <1>5, <1>6

\* clear writes the empty map.
LEMMA ClearMaps ==
  ASSUME IInv, Viewed, Viewed', Clear
  PROVE  Abstract!Clear
<1>1. Len(table.chains) \in Nat
  BY DEF IInv, TableOf, Tables
<1>2. Items(Fresh(Len(table.chains))) = <<>>
  BY <1>1, FreshIs
<1>3. Abstract!Write(<<>>, <<"ok">>)
  BY <1>2, WriteMaps DEF Clear
<1> QED
  BY <1>3 DEF Abstract!Clear

\* freeze leaves the items and the iterators.
LEMMA FreezeMaps ==
  ASSUME Viewed, Viewed', Freeze
  PROVE  Abstract!Freeze
<1>1. UNCHANGED <<table, iters>> /\ frozen' = TRUE /\ ret' = <<"ok">>
  BY DEF Freeze
<1>2. view.items = Items(table) /\ view'.items = Items(table') /\ view.rest = Rest(table, iters) /\ view'.rest = Rest(table', iters')
  BY ViewIs, ViewNextIs
<1> QED
  BY <1>1, <1>2 DEF Abstract!Freeze

\* Removing an item of the map is dropping one from the table's list.
LEMMA RemoveIsDrop ==
  ASSUME NEW S, NEW s \in Seq(S), NEW p \in 1..Len(s)
  PROVE  RemoveAt(s, p) = Drop(s, p)
<1> DEFINE n == Len(s)
           a == SubSeq(s, 1, p - 1)
           b == SubSeq(s, p + 1, n)
<1>1. n \in Nat /\ \A i \in 1..n : s[i] \in S
  BY ElementOfSeq
<1>2. a \in Seq(S) /\ Len(a) = p - 1 /\ \A i \in 1..(p - 1) : a[i] = s[i]
  <2>1. \A i \in 1..(p - 1) : s[i] \in S
    BY <1>1
  <2>2. /\ a \in Seq(S) /\ Len(a) = (IF 1 <= p - 1 THEN ((p - 1) - 1) + 1 ELSE 0)
        /\ \A i \in 1..(((p - 1) - 1) + 1) : a[i] = s[(1 + i) - 1]
    BY <2>1, <1>1, SubSeqProperties
  <2> HIDE DEF a
  <2> QED
    BY <2>2
<1>3. b \in Seq(S) /\ Len(b) = n - p /\ \A i \in 1..(n - p) : b[i] = s[p + i]
  <2>1. \A i \in (p + 1)..n : s[i] \in S
    BY <1>1
  <2>2. /\ b \in Seq(S) /\ Len(b) = (IF p + 1 <= n THEN (n - (p + 1)) + 1 ELSE 0)
        /\ \A i \in 1..((n - (p + 1)) + 1) : b[i] = s[((p + 1) + i) - 1]
    BY <2>1, <1>1, SubSeqProperties
  <2> HIDE DEF b
  <2>3. \A i \in 1..(n - p) : ((p + 1) + i) - 1 = p + i /\ i \in 1..((n - (p + 1)) + 1)
    BY <1>1
  <2>4. \A i \in 1..(n - p) : b[i] = s[p + i]
    BY <2>2, <2>3
  <2> QED
    BY <2>2, <2>4, <1>1
<1> HIDE DEF a, b
<1>4. RemoveAt(s, p) = a \o b
  BY DEF RemoveAt, a, b
<1> DEFINE c == a \o b
<1>5. /\ c \in Seq(S) /\ Len(c) = n - 1
      /\ \A i \in 1..(n - 1) : c[i] = IF i <= Len(a) THEN a[i] ELSE b[i - Len(a)]
  <2>1. c \in Seq(S) /\ Len(c) = Len(a) + Len(b)
    BY <1>2, <1>3, ConcatProperties
  <2>2. \A i \in 1..(Len(a) + Len(b)) : c[i] = IF i <= Len(a) THEN a[i] ELSE b[i - Len(a)]
    BY <1>2, <1>3, ConcatProperties
  <2>3. Len(a) + Len(b) = n - 1
    BY <1>1, <1>2, <1>3
  <2> QED
    BY <2>1, <2>2, <2>3
<1> HIDE DEF c
<1>6. \A i \in 1..(n - 1) : c[i] = IF i < p THEN s[i] ELSE s[i + 1]
  <2> SUFFICES ASSUME NEW i \in 1..(n - 1) PROVE c[i] = IF i < p THEN s[i] ELSE s[i + 1]
    OBVIOUS
  <2>1. CASE i < p
    <3>1. i \in 1..(p - 1) /\ i <= Len(a)
      BY <1>1, <1>2, <2>1
    <3> QED
      BY <1>2, <1>5, <2>1, <3>1
  <2>2. CASE ~(i < p)
    <3>1. ~(i <= Len(a)) /\ i - Len(a) \in 1..(n - p) /\ p + (i - Len(a)) = i + 1
      BY <1>1, <1>2, <2>2
    <3> QED
      BY <1>3, <1>5, <2>2, <3>1
  <2> QED
    BY <2>1, <2>2
<1>7. c = [i \in 1..(n - 1) |-> IF i < p THEN s[i] ELSE s[i + 1]]
  <2>1. c = [i \in 1..(n - 1) |-> c[i]]
    BY <1>1, <1>5
  <2> QED
    BY <1>6, <2>1
<1> QED
  BY <1>4, <1>7 DEF Drop, c, n

\* What is left of a map without its first item.
LEMMA TailIsDrop ==
  ASSUME NEW S, NEW s \in Seq(S), s # <<>>
  PROVE  Drop(s, 1) = Tail(s)
<1> DEFINE t == Tail(s)
           n == Len(s) - 1
<1>1. t \in Seq(S) /\ Len(t) = n /\ \A i \in 1..Len(t) : t[i] = s[i + 1]
  BY HeadTailProperties
<1>2. n \in Nat /\ Drop(s, 1) = [i \in 1..n |-> IF i < 1 THEN s[i] ELSE s[i + 1]]
  BY DEF Drop
<1> HIDE DEF t, n
<1>3. t = [i \in 1..n |-> t[i]]
  BY <1>1
<1>4. \A i \in 1..n : t[i] = IF i < 1 THEN s[i] ELSE s[i + 1]
  BY <1>1, <1>2
<1> QED
  BY <1>2, <1>3, <1>4 DEF t

\* delete removes the item of the key, if there is one.
LEMMA DeleteMaps ==
  ASSUME IInv, Viewed, Viewed', NEW k \in Key, Delete(k)
  PROVE  Abstract!Delete(k)
<1> DEFINE m == Items(table)
           a == Abstract!Answer(m, k)
<1>1. Good(table) /\ view.items = m
  BY ViewIs DEF IInv, Good
<1>2. /\ table' = IF DeleteAnswer(k)[1] = "found" THEN Removed(table, Hit(table, k)) ELSE table
      /\ UNCHANGED <<frozen, iters>> /\ ret' = DeleteAnswer(k)
  BY DEF Delete, DeleteKey
<1> HIDE DEF a, m
<1>3. CASE ~Mutable
  <2>1. table' = table /\ ret' = Refusal
    BY <1>2, <1>3 DEF DeleteAnswer, Refusal
  <2>2. /\ Abstract!Write(Abstract!Without(m, k), a)
        /\ Abstract!Write(m, a)
    BY <1>2, <1>3, <2>1, WriteMaps
  <2> QED
    BY <1>1, <2>2 DEF Abstract!Delete, a
<1>4. CASE Mutable /\ DeleteResult(table, k)[1] = "found"
  <2>1. PICK p \in 1..Len(Order(table)) :
           /\ Order(table)[p] = Hit(table, k) /\ HashOf[k] # Unhashable
           /\ table.chains # <<>> /\ Hits(table, k) # {} /\ ~HitFails(table, k)
           /\ Stops(m, k) = {p} /\ DeleteResult(table, k) = <<"found", m[p][2]>>
    BY <1>1, <1>4, FoundIs DEF m
  <2>2. TableOf(table, Order(table))
    BY <1>1 DEF Good
  <2>3. ~Failing(m, k)
    BY <2>1, <2>2, SearchIs DEF m
  <2>4. a = <<"found", m[p][2]>> /\ Abstract!Positions(m, k) = {p}
    BY <1>1, <2>1, <2>3, AnswerIs DEF a, m
  <2>5. Abstract!Without(m, k) = RemoveAt(m, p)
    BY <2>4 DEF Abstract!Without, Abstract!RemoveAt, RemoveAt
  <2>6. m \in Seq(Key \X Value) /\ Len(m) = Len(Order(table))
    BY <2>2, ItemsAre DEF m
  <2>7. Abstract!Without(m, k) = Drop(m, p)
    BY <2>1, <2>5, <2>6, RemoveIsDrop
  <2>8. Items(table') = Drop(m, p)
    <3>1. table' = Removed(table, Order(table)[p])
      BY <1>2, <1>4, <2>1 DEF DeleteAnswer
    <3> QED
      BY <2>2, <3>1, RemovedKeeps DEF m
  <2>9. ret' = a
    BY <1>2, <1>4, <2>1, <2>4 DEF DeleteAnswer
  <2>10. Abstract!Write(Abstract!Without(m, k), a)
    BY <1>2, <1>4, <2>7, <2>8, <2>9, WriteMaps
  <2> QED
    BY <1>1, <2>4, <2>10 DEF Abstract!Delete, a
<1>5. CASE Mutable /\ DeleteResult(table, k)[1] # "found"
  <2>1. table' = table /\ ret' = DeleteResult(table, k)
    BY <1>2, <1>5 DEF DeleteAnswer
  <2>2. Abstract!Write(m, DeleteResult(table, k))
    BY <1>2, <1>5, <2>1, WriteMaps DEF m
  <2>3. CASE table.chains = <<>>
    <3>1. m = <<>> /\ DeleteResult(table, k) = <<"missing">>
      BY <1>1, <2>3, EmptyItems DEF m, DeleteResult
    <3> QED
      BY <1>1, <2>2, <3>1 DEF Abstract!Delete
  <2>4. CASE table.chains # <<>>
    <3>1. DeleteResult(table, k) = a
      BY <1>1, <2>4, LookupAnswers DEF m, a, DeleteResult
    <3> QED
      BY <1>1, <1>5, <2>2, <3>1 DEF Abstract!Delete, a
  <2> QED
    BY <2>3, <2>4
<1> QED
  BY <1>3, <1>4, <1>5

\* The first item is the only one that stops a search for its own key.
LEMMA FirstStops ==
  ASSUME NEW t, Good(t), t.head # Nil
  PROVE  LET m == Items(t)
             k == At(t, t.head).key
         IN  /\ m \in Seq(Key \X Value) /\ m # <<>> /\ k \in Key /\ k = m[1][1] /\ HashOf[k] # Unhashable
             /\ Stops(m, k) = {1}
<1> DEFINE o == Order(t)
           m == Items(t)
           k == At(t, t.head).key
<1>1. TableOf(t, o)
  BY DEF Good
<1> HIDE DEF o
<1>2. Linked(t, o) /\ Len(o) \in Nat /\ DOMAIN o = 1..Len(o)
  BY <1>1, LinkedFacts DEF TableOf
<1>3. 1 \in 1..Len(o) /\ o[1] = t.head
  BY <1>2 DEF Linked, LinkAt
<1>4. /\ m \in Seq(Key \X Value) /\ Len(m) = Len(o) /\ DOMAIN m = 1..Len(m)
      /\ m[1][1] = k
  BY <1>1, <1>3, ItemsAre
<1>5. \A i \in DOMAIN m : m[i][1] \in Key /\ HashOf[m[i][1]] # Unhashable
  BY GoodItems
<1>6. \A x \in Key : HashOf[x] # Unhashable => Stops(m, x) = {} \/ \E p \in DOMAIN m : Stops(m, x) = {p}
  BY GoodItems
<1> HIDE DEF m, k
<1>7. k \in Key /\ HashOf[k] # Unhashable /\ 1 \in DOMAIN m
  BY <1>3, <1>4, <1>5
<1>8. 1 \in Stops(m, k)
  BY <1>4, <1>7 DEF Stops, Collide, SameKey
<1>9. Stops(m, k) = {1}
  BY <1>6, <1>7, <1>8
<1>10. m # <<>>
  BY <1>7
<1> QED
  BY <1>4, <1>7, <1>9, <1>10 DEF m, k

\* popitem removes the first item.
LEMMA PopItemMaps ==
  ASSUME IInv, Viewed, Viewed', PopItem
  PROVE  Abstract!PopItem
<1> DEFINE m == Items(table)
           k == At(table, table.head).key
<1>1. Good(table) /\ view.items = m
  BY ViewIs DEF IInv, Good
<1>2. CASE table.head = Nil
  <2>1. m = <<>>
    <3>1. Keys(table) = <<>> /\ TableOf(table, Order(table))
      BY <1>1, <1>2, KeysFromHead DEF Good
    <3>2. Len(m) = Len(Order(table)) /\ Len(Keys(table)) = Len(Order(table)) /\ m \in Seq(Key \X Value)
      BY <3>1, ItemsAre
    <3> HIDE DEF m
    <3>3. Len(m) = 0
      BY <3>1, <3>2
    <3> QED
      BY <3>2, <3>3
  <2>2. ret' = <<"empty">> /\ UNCHANGED <<table, frozen, iters>>
    BY <1>2 DEF PopItem
  <2>3. Abstract!Read(<<"empty">>)
    BY <2>2, ReadMaps
  <2> QED
    BY <1>1, <2>1, <2>3 DEF Abstract!PopItem
<1>3. CASE table.head # Nil
  <2> DEFINE r == DeleteAnswer(k)
  <2>1. /\ table' = IF r[1] = "found" THEN Removed(table, Hit(table, k)) ELSE table
        /\ UNCHANGED <<frozen, iters>> /\ ret' = IF r[1] = "found" THEN <<"item", k, r[2]>> ELSE r
    BY <1>3 DEF PopItem, DeleteKey
  <2>2. /\ m \in Seq(Key \X Value) /\ m # <<>> /\ k \in Key /\ k = m[1][1] /\ HashOf[k] # Unhashable
        /\ Stops(m, k) = {1}
    BY <1>1, <1>3, FirstStops
  <2>3. TableOf(table, Order(table))
    BY <1>1 DEF Good
  <2>4. table.chains # <<>>
    BY <1>1, <2>2, EmptyItems
  <2>5. Hits(table, k) # {} /\ (HitFails(table, k) <=> Failing(m, k))
    BY <2>2, <2>3, <2>4, SearchIs
  <2>6. Failing(m, k) <=> EqualFails(k, k)
    BY <2>2 DEF Failing
  <2> HIDE DEF m, k
  <2>7. DeleteResult(table, k)[1] = "found" <=> ~EqualFails(k, k)
    BY <2>2, <2>4, <2>5, <2>6 DEF DeleteResult, LookupResult, Find
  <2>8. EqualFails(k, k) => DeleteResult(table, k) = <<"too deep">>
    BY <2>2, <2>4, <2>5, <2>6 DEF DeleteResult, LookupResult, Find
  <2>9. Head(m) = m[1] /\ Head(m)[1] = k
    BY <2>2
  <2>10. Abstract!PopItem <=> IF EqualFails(k, k) THEN Abstract!Write(m, <<"too deep">>)
                              ELSE Abstract!Write(Tail(m), <<"item", k, Head(m)[2]>>)
    BY <1>1, <2>2, <2>9 DEF Abstract!PopItem
  <2>11. CASE ~Mutable
    <3>1. table' = table /\ ret' = Refusal
      BY <2>1, <2>11 DEF DeleteAnswer, Refusal
    <3>2. Abstract!Write(m, <<"too deep">>) /\ Abstract!Write(Tail(m), <<"item", k, Head(m)[2]>>)
      BY <2>1, <2>11, <3>1, WriteMaps
    <3> QED
      BY <2>10, <3>2
  <2>12. CASE Mutable /\ EqualFails(k, k)
    <3>1. r = <<"too deep">>
      BY <2>8, <2>12 DEF DeleteAnswer
    <3> HIDE DEF r
    <3>2. r[1] # "found"
      BY <3>1
    <3>3. table' = table /\ ret' = r
      BY <2>1, <3>2
    <3>4. Abstract!Write(m, <<"too deep">>)
      BY <2>1, <2>12, <3>1, <3>3, WriteMaps DEF m
    <3> QED
      BY <2>10, <2>12, <3>4
  <2>13. CASE Mutable /\ ~EqualFails(k, k)
    <3>1. DeleteResult(table, k)[1] = "found" /\ r = DeleteResult(table, k)
      BY <2>7, <2>13 DEF DeleteAnswer
    <3>2. PICK p \in 1..Len(Order(table)) :
             /\ Order(table)[p] = Hit(table, k)
             /\ Stops(m, k) = {p} /\ DeleteResult(table, k) = <<"found", m[p][2]>>
      BY <1>1, <2>2, <3>1, FoundIs DEF m
    <3>3. p = 1
      BY <2>2, <3>2
    <3>4. ret' = <<"item", k, Head(m)[2]>>
      BY <2>1, <2>9, <3>1, <3>2, <3>3
    <3>5. table' = Removed(table, Order(table)[1]) /\ 1 \in 1..Len(Order(table))
      BY <2>1, <3>1, <3>2, <3>3
    <3>6. Items(table') = Drop(m, 1)
      BY <2>3, <3>5, RemovedKeeps DEF m
    <3>7. Drop(m, 1) = Tail(m)
      BY <2>2, TailIsDrop
    <3>8. Abstract!Write(Tail(m), <<"item", k, Head(m)[2]>>)
      BY <2>1, <2>13, <3>4, <3>6, <3>7, WriteMaps
    <3> QED
      BY <2>10, <2>13, <3>8
  <2> QED
    BY <2>11, <2>12, <2>13
<1> QED
  BY <1>2, <1>3

\* A map that an item was put in is a map.
LEMMA PutKeeps ==
  ASSUME NEW m \in Seq(Key \X Value), NEW k \in Key, NEW v \in Value
  PROVE  Abstract!Put(m, k, v) \in Seq(Key \X Value)
<1> DEFINE ps == Abstract!Positions(m, k)
           u == [p \in DOMAIN m |-> IF p \in ps THEN <<m[p][1], v>> ELSE m[p]]
<1>1. Abstract!Put(m, k, v) \in {Append(m, <<k, v>>), u, m}
  BY DEF Abstract!Put
<1> HIDE DEF ps
<1>2. DOMAIN m = 1..Len(m) /\ Len(m) \in Nat /\ \A p \in 1..Len(m) : m[p] \in Key \X Value
  BY ElementOfSeq
<1>3. \A p \in 1..Len(m) : (IF p \in ps THEN <<m[p][1], v>> ELSE m[p]) \in Key \X Value
  BY <1>2
<1>4. u \in [1..Len(m) -> Key \X Value]
  BY <1>2, <1>3
<1>5. u \in Seq(Key \X Value)
  BY <1>2, <1>4
<1>6. Append(m, <<k, v>>) \in Seq(Key \X Value)
  OBVIOUS
<1> QED
  BY <1>1, <1>5, <1>6

\* The maps that the map's update goes through.
After(m, batch) ==
  CHOOSE w : w = [n \in 0..Len(batch) |->
    IF n = 0 THEN m ELSE Abstract!Put(w[n - 1], batch[n][1], batch[n][2])]

\* Each is the one before it with the next item put in.
LEMMA AfterIs ==
  ASSUME NEW m0 \in Seq(Key \X Value), NEW batch \in Seq(Key \X Value)
  PROVE  LET after == After(m0, batch)
         IN  /\ after[0] = m0
             /\ \A n \in 1..Len(batch) : after[n] = Abstract!Put(after[n - 1], batch[n][1], batch[n][2])
<1> DEFINE after == After(m0, batch)
           l == Len(batch)
           M == Seq(Key \X Value)
           Step(w) == [n \in 0..l |-> IF n = 0 THEN m0 ELSE Abstract!Put(w[n - 1], batch[n][1], batch[n][2])]
           F == [p \in (1..l) \X M |-> Abstract!Put(p[2], batch[p[1]][1], batch[p[1]][2])]
<1>1. l \in Nat /\ \A n \in 1..l : batch[n] \in Key \X Value
  BY ElementOfSeq
<1> HIDE DEF l, M
<1>2. ASSUME NEW p \in (1..l) \X M PROVE Abstract!Put(p[2], batch[p[1]][1], batch[p[1]][2]) \in M
  <2>1. p[1] \in 1..l /\ p[2] \in M /\ batch[p[1]] \in Key \X Value
    BY <1>1
  <2>2. batch[p[1]][1] \in Key /\ batch[p[1]][2] \in Value
    BY <2>1
  <2> QED
    BY <2>1, <2>2, PutKeeps DEF M
<1>3. F \in [(1..l) \X M -> M]
  BY <1>2
<1>4. \A n \in 1..l, x \in M : F[<<n, x>>] = Abstract!Put(x, batch[n][1], batch[n][2])
  OBVIOUS
<1> HIDE DEF F
<1>5. PICK w : Solution(w, l, M, m0, F)
  BY <1>1, <1>3, Recursion DEF M
<1>6. w \in [0..l -> M] /\ w[0] = m0 /\ \A n \in 1..l : w[n] = Abstract!Put(w[n - 1], batch[n][1], batch[n][2])
  <2>1. w \in [0..l -> M] /\ w[0] = m0 /\ \A n \in 1..l : w[n] = F[<<n, w[n - 1]>>]
    BY <1>5 DEF Solution
  <2>2. \A n \in 1..l : w[n - 1] \in M
    BY <1>1, <2>1
  <2> QED
    BY <1>4, <2>1, <2>2
<1>7. w = Step(w)
  <2>1. w = [n \in 0..l |-> w[n]]
    BY <1>6
  <2>2. \A n \in 0..l : n # 0 => n \in 1..l
    BY <1>1
  <2>3. \A n \in 0..l : w[n] = IF n = 0 THEN m0 ELSE Abstract!Put(w[n - 1], batch[n][1], batch[n][2])
    BY <1>6, <2>2
  <2> QED
    BY <2>1, <2>3
<1>8. after = CHOOSE x : x = Step(x)
  BY DEF l, After
<1>9. after = Step(after)
  BY <1>7, <1>8
<1> HIDE DEF Step
<1>10. after = [n \in 0..l |-> IF n = 0 THEN m0 ELSE Abstract!Put(after[n - 1], batch[n][1], batch[n][2])]
  BY <1>9 DEF Step
<1> HIDE DEF after
<1>11. 0 \in 0..l /\ \A n \in 1..l : n \in 0..l /\ n # 0
  BY <1>1
<1>12. after[0] = m0 /\ \A n \in 1..l : after[n] = Abstract!Put(after[n - 1], batch[n][1], batch[n][2])
  BY <1>10, <1>11
<1> QED
  BY <1>12 DEF l, after

\* The states update goes through, on the table and on the map: up to the first
\* insertion that fails they are the same, and from then on nothing changes.
Updating(w, after, fails, batch) ==
  /\ w \in [0..Len(batch) -> Partial] /\ w[0].err = <<"ok">> /\ Items(w[0].t) = after[0]
  /\ \A i \in 1..Len(batch) :
       /\ w[i] = UpdateOne(w[i - 1], batch[i])
       /\ after[i] = Abstract!Put(after[i - 1], batch[i][1], batch[i][2])
       /\ fails[i] = Abstract!PutError(after[i - 1], batch[i][1])
Stopped(w, after, fails, i) ==
  \/ /\ \A j \in 1..i : fails[j] = <<"ok">>
     /\ w[i].err = <<"ok">> /\ Items(w[i].t) = after[i]
  \/ \E j \in 1..i : /\ fails[j] # <<"ok">> /\ \A l \in 1..(j - 1) : fails[l] = <<"ok">>
                     /\ w[i].err = fails[j] /\ Items(w[i].t) = after[j - 1]

\* They do.
LEMMA UpdateStops ==
  ASSUME Mutable, NEW batch \in Seq(Key \X Value), NEW after, NEW w, NEW fails,
         Updating(w, after, fails, batch)
  PROVE  Stopped(w, after, fails, Len(batch))
<1> DEFINE n == Len(batch)
           Sound(i) == /\ \A j \in 1..i : fails[j] = <<"ok">>
                       /\ w[i].err = <<"ok">> /\ Items(w[i].t) = after[i]
           Fails(i, j) == /\ fails[j] # <<"ok">> /\ \A l \in 1..(j - 1) : fails[l] = <<"ok">>
                          /\ w[i].err = fails[j] /\ Items(w[i].t) = after[j - 1]
           T == {i \in 0..n : Sound(i) \/ \E j \in 1..i : Fails(i, j)}
<1>1. n \in Nat /\ \A i \in 1..n : batch[i] \in Key \X Value
  BY ElementOfSeq
<1>0. /\ w \in [0..n -> Partial] /\ w[0].err = <<"ok">> /\ Items(w[0].t) = after[0]
      /\ \A i \in 1..n :
           /\ w[i] = UpdateOne(w[i - 1], batch[i])
           /\ after[i] = Abstract!Put(after[i - 1], batch[i][1], batch[i][2])
           /\ fails[i] = Abstract!PutError(after[i - 1], batch[i][1])
  BY DEF Updating
<1>2. 0 \in T
  BY <1>0, <1>1
<1>3. ASSUME NEW i \in 1..n, i - 1 \in T PROVE i \in T
  <2> DEFINE k == batch[i][1]
             v == batch[i][2]
             t == w[i - 1].t
  <2>1. i - 1 \in 0..n /\ i \in 0..n /\ k \in Key /\ v \in Value /\ i - 1 \in Nat
    BY <1>1
  <2>2. w[i - 1] \in Partial
    BY <1>0, <2>1
  <2>3. Good(t)
    BY <2>2 DEF Partial
  <2>4. w[i] = UpdateOne(w[i - 1], batch[i]) /\ fails[i] = Abstract!PutError(after[i - 1], k)
    BY <1>0
  <2>5. after[i] = Abstract!Put(after[i - 1], k, v)
    BY <1>0
  <2>6. CASE Sound(i - 1)
    <3>1. w[i - 1].err = <<"ok">> /\ Items(t) = after[i - 1] /\ \A j \in 1..(i - 1) : fails[j] = <<"ok">>
      BY <2>6
    <3>2. w[i] = [t |-> Inserted(t, k, v), err |-> InsertError(t, k)]
      BY <2>4, <3>1 DEF UpdateOne
    <3>3. Items(Inserted(t, k, v)) = Abstract!Put(after[i - 1], k, v) /\ InsertError(t, k) = fails[i]
      BY <2>1, <2>3, <2>4, <3>1, InsertedPuts
    <3> HIDE DEF t, k, v
    <3>4. w[i].err = fails[i] /\ Items(w[i].t) = Abstract!Put(after[i - 1], k, v)
      BY <3>2, <3>3
    <3>5. CASE fails[i] = <<"ok">>
      <4>0. \A j \in 1..i : j \in 1..(i - 1) \/ j = i
        BY <2>1
      <4>1. \A j \in 1..i : fails[j] = <<"ok">>
        BY <4>0, <3>1, <3>5
      <4>2. Sound(i)
        BY <2>5, <3>4, <3>5, <4>1
      <4> QED
        BY <2>1, <4>2
    <3>6. CASE fails[i] # <<"ok">>
      <4>1. Abstract!Put(after[i - 1], k, v) = after[i - 1]
        BY <2>4, <3>6 DEF Abstract!Put, Abstract!PutError
      <4>2. Fails(i, i)
        BY <3>1, <3>4, <3>6, <4>1
      <4>3. i \in 1..i
        BY <2>1
      <4> HIDE DEF Fails, Sound
      <4> QED
        BY <2>1, <4>2, <4>3
    <3> QED
      BY <3>5, <3>6
  <2>7. CASE \E j \in 1..(i - 1) : Fails(i - 1, j)
    <3>1. PICK j \in 1..(i - 1) : Fails(i - 1, j)
      BY <2>7
    <3>2. w[i - 1].err # <<"ok">>
      BY <3>1
    <3>3. w[i] = w[i - 1]
      BY <2>4, <3>2 DEF UpdateOne
    <3>4. j \in 1..i
      BY <2>1
    <3>5. Fails(i, j)
      BY <3>1, <3>3
    <3> HIDE DEF Fails, Sound
    <3> QED
      BY <2>1, <3>4, <3>5
  <2> HIDE DEF Sound, Fails
  <2> QED
    BY <1>3, <2>6, <2>7
<1> HIDE DEF T
<1>4. 0..n \subseteq T
  BY <1>1, <1>2, <1>3, BoundedInduction
<1>5. n \in T
  BY <1>1, <1>4
<1> QED
  BY <1>5 DEF T, Stopped

\* update on a table that is frozen or being iterated over: nothing changes.
LEMMA UpdateRefused ==
  ASSUME Good(table), ~Mutable, NEW batch \in Seq(Key \X Value), batch # <<>>
  PROVE  Updated(batch).t = table /\ Updated(batch).err = Refusal
<1> DEFINE n == Len(batch)
<1>1. n \in Nat \ {0}
  OBVIOUS
<1>2. PICK w \in [0..n -> Partial] :
         /\ Updated(batch) = w[n] /\ w[0] = [t |-> table, err |-> <<"ok">>]
         /\ \A i \in 1..n : w[i] = UpdateOne(w[i - 1], batch[i])
  BY UpdatedIs
<1> HIDE DEF n
<1>3. Refusal # <<"ok">>
  BY DEF Refusal
<1> DEFINE T == {i \in 0..n : i = 0 \/ w[i].err = Refusal}
<1>4. ASSUME NEW i \in 1..n, i - 1 \in T PROVE i \in T
  <2>1. w[i - 1] \in Partial /\ w[i] = UpdateOne(w[i - 1], batch[i]) /\ i \in 0..n /\ i # 0
    BY <1>1, <1>2
  <2> DEFINE x == w[i - 1]
  <2>2. CASE x.err # <<"ok">>
    <3>1. w[i] = x
      BY <2>1, <2>2 DEF UpdateOne
    <3>2. x.err = Refusal
      BY <1>2, <1>4, <2>2
    <3> QED
      BY <2>1, <3>1, <3>2
  <2>3. CASE x.err = <<"ok">>
    <3>1. w[i] = [x EXCEPT !.err = Refusal]
      BY <2>1, <2>3 DEF UpdateOne
    <3> HIDE DEF x
    <3>2. x \in [t : {t \in Tables : Good(t)}, err : Errors]
      BY <2>1 DEF x, Partial
    <3>3. w[i].err = Refusal
      BY <3>1, <3>2
    <3> QED
      BY <2>1, <3>3
  <2> QED
    BY <2>2, <2>3
<1>5. 0 \in T
  BY <1>1
<1> HIDE DEF T
<1>6. 0..n \subseteq T
  BY <1>1, <1>4, <1>5, BoundedInduction
<1>7. w[n].err = Refusal
  BY <1>1, <1>6 DEF T
<1>8. Updated(batch).t = table
  BY UpdatedKeeps
<1> QED
  BY <1>2, <1>7, <1>8

\* update puts the items of its batch, up to the first that fails.
LEMMA UpdateMaps ==
  ASSUME IInv, Viewed, Viewed', NEW batch \in Seq(Key \X Value), Update(batch)
  PROVE  Abstract!Update(batch)
<1> DEFINE m == Items(table)
           n == Len(batch)
           after == After(view.items, batch)
           failing == {i \in 1..n : Abstract!PutError(after[i - 1], batch[i][1]) # <<"ok">>}
           least == Abstract!Min(failing)
<1>1. Good(table) /\ view.items = m
  BY ViewIs DEF IInv, Good
<1>2. n \in Nat /\ \A i \in 1..n : batch[i] \in Key \X Value
  BY ElementOfSeq
<1>3. Abstract!Update(batch) <=>
        \/ batch = <<>> /\ Abstract!Read(<<"ok">>)
        \/ batch # <<>> /\ failing = {} /\ Abstract!Write(after[n], <<"ok">>)
        \/ /\ failing # {}
           /\ Abstract!Write(after[least - 1], Abstract!PutError(after[least - 1], batch[least][1]))
  BY DEF Abstract!Update, After
<1>4. table' = Updated(batch).t /\ ret' = Updated(batch).err /\ UNCHANGED <<frozen, iters>>
  BY DEF Update
<1>5. m \in Seq(Key \X Value)
  BY <1>1, GoodItems
<1> HIDE DEF m
<1>6. /\ after[0] = m
      /\ \A i \in 1..n : after[i] = Abstract!Put(after[i - 1], batch[i][1], batch[i][2])
  BY <1>1, <1>5, AfterIs
<1> HIDE DEF after
<1>7. PICK w \in [0..n -> Partial] :
         /\ Updated(batch) = w[n] /\ w[0] = [t |-> table, err |-> <<"ok">>]
         /\ \A i \in 1..n : w[i] = UpdateOne(w[i - 1], batch[i])
  BY <1>1, UpdatedIs
<1> DEFINE fails == [i \in 1..n |-> Abstract!PutError(after[i - 1], batch[i][1])]
<1>8. \A i \in 1..n : fails[i] = Abstract!PutError(after[i - 1], batch[i][1])
  OBVIOUS
<1>9. failing = {i \in 1..n : fails[i] # <<"ok">>}
  OBVIOUS
<1>10. CASE batch = <<>>
  <2>1. n = 0
    BY <1>10
  <2>2. table' = table /\ ret' = <<"ok">>
    BY <1>4, <1>7, <2>1
  <2>3. Abstract!Read(<<"ok">>)
    BY <1>4, <2>2, ReadMaps
  <2> QED
    BY <1>3, <1>10, <2>3
<1>11. CASE batch # <<>> /\ ~Mutable
  <2>1. table' = table /\ ret' = Refusal
    BY <1>1, <1>4, <1>11, UpdateRefused
  <2> DEFINE m1 == after[least - 1]
             r1 == Abstract!PutError(after[least - 1], batch[least][1])
  <2>2. Abstract!Write(after[n], <<"ok">>)
    BY <1>4, <1>11, <2>1, WriteMaps
  <2>3. Abstract!Write(m1, r1)
    <3> HIDE DEF m1, r1
    <3> QED
      BY <1>4, <1>11, <2>1, WriteMaps
  <2> HIDE DEF failing
  <2> QED
    BY <1>3, <1>11, <2>2, <2>3
<1>12. CASE batch # <<>> /\ Mutable
  <2>1. w[0].err = <<"ok">> /\ Items(w[0].t) = after[0]
    BY <1>6, <1>7 DEF m
  <2>2. \/ /\ \A j \in 1..n : fails[j] = <<"ok">>
           /\ w[n].err = <<"ok">> /\ Items(w[n].t) = after[n]
        \/ \E j \in 1..n : /\ fails[j] # <<"ok">> /\ \A l \in 1..(j - 1) : fails[l] = <<"ok">>
                           /\ w[n].err = fails[j] /\ Items(w[n].t) = after[j - 1]
    <3>1. Updating(w, after, fails, batch)
      <4>1. \A i \in 1..n :
              /\ w[i] = UpdateOne(w[i - 1], batch[i])
              /\ after[i] = Abstract!Put(after[i - 1], batch[i][1], batch[i][2])
              /\ fails[i] = Abstract!PutError(after[i - 1], batch[i][1])
        BY <1>6, <1>7, <1>8
      <4> HIDE DEF fails
      <4> QED
        BY <1>7, <2>1, <4>1 DEF Updating
    <3> HIDE DEF fails
    <3>2. Stopped(w, after, fails, n)
      BY <1>12, <3>1, UpdateStops
    <3> QED
      BY <3>2 DEF Stopped
  <2> HIDE DEF fails
  <2>3. CASE /\ \A j \in 1..n : fails[j] = <<"ok">>
             /\ w[n].err = <<"ok">> /\ Items(w[n].t) = after[n]
    <3>1. failing = {}
      BY <1>9, <2>3
    <3> HIDE DEF failing
    <3>2. Abstract!Write(after[n], <<"ok">>)
      BY <1>4, <1>7, <1>12, <2>3, WriteMaps
    <3> QED
      BY <1>3, <1>12, <3>1, <3>2
  <2>4. CASE \E j \in 1..n : /\ fails[j] # <<"ok">> /\ \A l \in 1..(j - 1) : fails[l] = <<"ok">>
                             /\ w[n].err = fails[j] /\ Items(w[n].t) = after[j - 1]
    <3>1. PICK j \in 1..n : /\ fails[j] # <<"ok">> /\ \A l \in 1..(j - 1) : fails[l] = <<"ok">>
                            /\ w[n].err = fails[j] /\ Items(w[n].t) = after[j - 1]
      BY <2>4
    <3>2. j \in failing
      BY <1>9, <3>1
    <3>3. failing \subseteq 1..n /\ failing \subseteq Nat
      BY <1>2
    <3>4. \A i \in failing : fails[i] # <<"ok">>
      BY <1>9
    <3> HIDE DEF failing
    <3>5. least \in failing /\ \A i \in failing : least <= i
      <4>1. least = Min(failing)
        BY DEF Abstract!Min, Min
      <4> QED
        BY <3>2, <3>3, <4>1, MinFacts
    <3> HIDE DEF least
    <3>6. least = j
      <4>1. least \in 1..n /\ least <= j
        BY <3>2, <3>3, <3>5
      <4>2. ~(least \in 1..(j - 1))
        BY <3>1, <3>4, <3>5
      <4> QED
        BY <1>2, <4>1, <4>2
    <3>7. ret' = Abstract!PutError(after[j - 1], batch[j][1]) /\ Items(table') = after[j - 1]
      BY <1>4, <1>7, <1>8, <3>1
    <3>8. Abstract!Write(after[j - 1], Abstract!PutError(after[j - 1], batch[j][1]))
      <4> DEFINE m1 == after[j - 1]
                 r1 == Abstract!PutError(after[j - 1], batch[j][1])
      <4>1. ret' = r1 /\ Items(table') = m1
        BY <3>7
      <4> HIDE DEF m1, r1
      <4>2. Abstract!Write(m1, r1)
        BY <1>4, <1>12, <4>1, WriteMaps
      <4> QED
        BY <4>2 DEF m1, r1
    <3> QED
      BY <1>3, <3>2, <3>6, <3>8
  <2> QED
    BY <2>2, <2>3, <2>4
<1> QED
  BY <1>10, <1>11, <1>12

\* A call on one iterator changes what that one has to yield, and no more.
LEMMA RestChanges ==
  ASSUME Viewed, Viewed', table' = table, NEW i \in Iter, NEW r,
         \A j \in Iter : j # i => iters'[j] = iters[j],
         r = IF iters'[i].active THEN KeysFrom(table, iters'[i].e) ELSE <<>>
  PROVE  view'.items = view.items /\ view'.rest = [view.rest EXCEPT ![i] = r]
<1>1. view.items = Items(table) /\ view'.items = Items(table) /\ view.rest = Rest(table, iters) /\ view'.rest = Rest(table, iters')
  BY ViewIs, ViewNextIs
<1>2. \A j \in Iter : j # i => (IF iters'[j].active THEN KeysFrom(table, iters'[j].e) ELSE <<>>)
                             = (IF iters[j].active THEN KeysFrom(table, iters[j].e) ELSE <<>>)
  OBVIOUS
<1>3. Rest(table, iters') = [Rest(table, iters) EXCEPT ![i] = r]
  BY <1>2 DEF Rest
<1> QED
  BY <1>1, <1>3

\* An iterator is started with the keys of the items.
LEMMA IterateMaps ==
  ASSUME IInv, Viewed, Viewed', NEW i \in Iter, Iterate(i)
  PROVE  Abstract!Iterate(i)
<1> DEFINE m == Items(table)
           ks == [p \in DOMAIN m |-> m[p][1]]
           new == [active |-> TRUE, e |-> table.head, yielded |-> <<>>, snapshot |-> Keys(table)]
           old == {j \in Iter : iters[j].active}
           act == {j \in Iter : iters'[j].active}
<1>1. /\ ~iters[i].active /\ UNCHANGED <<table, frozen>> /\ ret' = <<"ok">>
      /\ iters' = [iters EXCEPT ![i] = new] /\ iters \in [Iter -> Iterators]
      /\ TableOf(table, Order(table)) /\ Good(table)
  BY DEF Iterate, IInv, Good
<1>2. iters'[i] = new /\ \A j \in Iter : j # i => iters'[j] = iters[j]
  <2> HIDE DEF new
  <2> QED
    BY <1>1
<1>3. ks = Keys(table)
  <2>1. m = [p \in 1..Len(Order(table)) |-> <<At(table, Order(table)[p]).key, At(table, Order(table)[p]).value>>]
    BY <1>1, ItemsAre
  <2>2. Keys(table) = [p \in 1..Len(Order(table)) |-> At(table, Order(table)[p]).key]
    BY <1>1, ItemsAre
  <2> HIDE DEF m
  <2> QED
    BY <2>1, <2>2
<1>4. ks = IF iters'[i].active THEN KeysFrom(table, iters'[i].e) ELSE <<>>
  BY <1>1, <1>2, <1>3, KeysFromHead
<1> HIDE DEF ks, m
<1>5. view'.items = view.items /\ view'.rest = [view.rest EXCEPT ![i] = ks]
  BY <1>1, <1>2, <1>4, RestChanges
<1>6. view.items = m
  BY ViewIs DEF m
<1>7. i \notin old /\ act = old \cup {i}
  BY <1>1, <1>2
<1> HIDE DEF new, old, act
<1> QED
  BY <1>1, <1>5, <1>6, <1>7 DEF Abstract!Iterate, ks, old, act

\* The first of a sequence, and the rest.
LEMMA FirstAndRest ==
  ASSUME NEW S, NEW k \in S, NEW r \in Seq(S)
  PROVE  LET s == <<k>> \o r IN s # <<>> /\ Head(s) = k /\ Tail(s) = r
<1> DEFINE s == <<k>> \o r
<1>1. /\ s \in Seq(S) /\ Len(s) = 1 + Len(r) /\ Len(r) \in Nat
      /\ \A j \in 1..(1 + Len(r)) : s[j] = IF j <= 1 THEN k ELSE r[j - 1]
  OBVIOUS
<1> HIDE DEF s
<1>2. s # <<>> /\ s[1] = k
  BY <1>1
<1>3. Head(s) = s[1] /\ Tail(s) \in Seq(S) /\ Len(Tail(s)) = Len(r) /\ \A j \in 1..Len(r) : Tail(s)[j] = s[j + 1]
  BY <1>1, <1>2, HeadTailProperties
<1>4. \A j \in 1..Len(r) : Tail(s)[j] = r[j]
  BY <1>1, <1>3
<1>5. Tail(s) = r
  <2> DEFINE t == Tail(s)
  <2>1. t \in Seq(S) /\ r \in Seq(S) /\ Len(t) = Len(r) /\ \A j \in 1..Len(t) : t[j] = r[j]
    BY <1>3, <1>4
  <2> HIDE DEF t
  <2>2. t = r
    BY <2>1, SeqEqual
  <2> QED
    BY <2>2 DEF t
<1> QED
  BY <1>2, <1>3, <1>5 DEF s

\* A step of an iterator yields the first of the keys it has to yield.
LEMMA NextKeyMaps ==
  ASSUME IInv, Viewed, Viewed', NEW i \in Iter, NextKey(i)
  PROVE  Abstract!NextKey(i)
<1> DEFINE a == iters[i].e
           e == At(table, a)
           ks == KeysFrom(table, a)
           old == {j \in Iter : iters[j].active}
           act == {j \in Iter : iters'[j].active}
<1>1. /\ iters[i].active /\ UNCHANGED <<table, frozen>>
      /\ iters \in [Iter -> Iterators] /\ Good(table) /\ a \in Used(table) \cup {Nil}
  BY DEF NextKey, IInv, Good, CursorOK
<1>2. view.rest[i] = ks
  BY <1>1, ViewIs DEF Rest
<1>3. CASE a = Nil
  <2>1. iters' = iters /\ ret' = <<"exhausted">>
    BY <1>3 DEF NextKey
  <2>2. ks = <<>>
    BY <1>1, <1>3, KeysFromHead
  <2>3. view'.items = view.items /\ view'.rest = view.rest
    BY <1>1, <2>1, ViewIs, ViewNextIs
  <2>4. act = old /\ i \in old
    BY <1>1, <2>1
  <2> HIDE DEF ks, a, old, act
  <2> QED
    BY <1>1, <1>2, <2>1, <2>2, <2>3, <2>4 DEF Abstract!NextKey, old, act
<1>4. CASE a # Nil
  <2> DEFINE r == KeysFrom(table, e.next)
             new == [iters[i] EXCEPT !.e = e.next, !.yielded = Append(@, e.key)]
  <2>1. iters' = [iters EXCEPT ![i] = new] /\ ret' = <<"key", e.key>>
    BY <1>1, <1>4 DEF NextKey
  <2>2. e.key \in Key /\ r \in Seq(Key) /\ ks = <<e.key>> \o r
    BY <1>1, <1>4, KeysFromStep
  <2>3. iters[i] \in Iterators
    BY <1>1
  <2>4. new.active = iters[i].active /\ new.e = e.next
    <3> HIDE DEF e
    <3> QED
      BY <2>3 DEF Iterators
  <2> HIDE DEF new
  <2>5. iters'[i] = new /\ \A j \in Iter : j # i => iters'[j] = iters[j]
    BY <1>1, <2>1
  <2>6. r = IF iters'[i].active THEN KeysFrom(table, iters'[i].e) ELSE <<>>
    BY <1>1, <2>4, <2>5
  <2> HIDE DEF r, ks
  <2>7. view'.items = view.items /\ view'.rest = [view.rest EXCEPT ![i] = r]
    BY <1>1, <2>5, <2>6, RestChanges
  <2>8. ks # <<>> /\ Head(ks) = e.key /\ Tail(ks) = r
    <3> DEFINE k == e.key
    <3>1. k \in Key /\ r \in Seq(Key) /\ ks = <<k>> \o r
      BY <2>2
    <3> HIDE DEF k
    <3>2. <<k>> \o r # <<>> /\ Head(<<k>> \o r) = k /\ Tail(<<k>> \o r) = r
      BY <3>1, FirstAndRest
    <3> QED
      BY <3>1, <3>2 DEF k
  <2>9. act = old /\ i \in old
    BY <1>1, <2>4, <2>5
  <2> HIDE DEF a, e, old, act
  <2> QED
    BY <1>1, <1>2, <2>1, <2>7, <2>8, <2>9 DEF Abstract!NextKey, old, act
<1> QED
  BY <1>3, <1>4

\* An iterator that is done has nothing to yield.
LEMMA DoneMaps ==
  ASSUME IInv, Viewed, Viewed', NEW i \in Iter, Done(i)
  PROVE  Abstract!Done(i)
<1> DEFINE old == {j \in Iter : iters[j].active}
           act == {j \in Iter : iters'[j].active}
<1>1. /\ iters[i].active /\ UNCHANGED <<table, frozen>> /\ ret' = <<"ok">>
      /\ iters' = [iters EXCEPT ![i] = Idle] /\ iters \in [Iter -> Iterators]
  BY DEF Done, IInv
<1>2. iters'[i] = Idle /\ \A j \in Iter : j # i => iters'[j] = iters[j]
  BY <1>1
<1>3. ~iters'[i].active
  BY <1>2 DEF Idle
<1>4. view'.items = view.items /\ view'.rest = [view.rest EXCEPT ![i] = <<>>]
  BY <1>1, <1>2, <1>3, RestChanges
<1>5. i \in old /\ act = old \ {i}
  BY <1>1, <1>2, <1>3
<1> HIDE DEF old, act
<1> QED
  BY <1>1, <1>4, <1>5 DEF Abstract!Done, old, act

(***************************************************************************)
(* The refinement.                                                         *)
(***************************************************************************)

\* An unused table is the empty map.
LEMMA InitMaps ==
  ASSUME ViewInit
  PROVE  IInv /\ Viewed /\ Abstract!Init
<1>1. IInv /\ Viewed
  BY InitInvariant DEF ViewInit, Viewed
<1>2. table = NilTable /\ frozen = FALSE /\ iters = [i \in Iter |-> Idle] /\ ret = <<"ok">>
  BY DEF ViewInit, Init
<1>3. view.items = <<>>
  <2>1. Items(table) = <<>>
    BY <1>1, <1>2, EmptyItems DEF IInv, Good, NilTable
  <2> QED
    BY <1>1, <2>1, ViewIs
<1>4. \A i \in Iter : ~iters[i].active
  BY <1>2 DEF Idle
<1>5. view.rest = [i \in Iter |-> <<>>]
  <2>1. view.rest = [i \in Iter |-> IF iters[i].active THEN KeysFrom(table, iters[i].e) ELSE <<>>]
    BY <1>1, ViewIs DEF Rest
  <2> QED
    BY <1>4, <2>1
<1>6. {i \in Iter : iters[i].active} = {}
  BY <1>4
<1> QED
  BY <1>1, <1>2, <1>3, <1>5, <1>6 DEF Abstract!Init

\* Every step is a step of the map, or one that the map does not see.
LEMMA NextMaps ==
  ASSUME IInv, Viewed, Viewed', Next
  PROVE  Abstract!Next
<1>1. Args \subseteq Key \X Value /\ Batches \subseteq Seq(Key \X Value)
  BY HashtableAssumption
<1>2. ASSUME NEW p \in Args, Insert(p[1], p[2]) PROVE Abstract!Next
  BY <1>1, <1>2, InsertMaps DEF Abstract!Next
<1>3. ASSUME NEW k \in Key, Lookup(k) PROVE Abstract!Next
  BY <1>3, LookupMaps DEF Abstract!Next
<1>4. ASSUME NEW k \in Key, Delete(k) PROVE Abstract!Next
  BY <1>4, DeleteMaps DEF Abstract!Next
<1>5. ASSUME PopItem PROVE Abstract!Next
  BY <1>5, PopItemMaps DEF Abstract!Next
<1>6. ASSUME NEW p \in Args, SetDefault(p[1], p[2]) PROVE Abstract!Next
  BY <1>1, <1>6, SetDefaultMaps DEF Abstract!Next
<1>7. ASSUME NEW batch \in Batches, Update(batch) PROVE Abstract!Next
  BY <1>1, <1>7, UpdateMaps DEF Abstract!Next
<1>8. ASSUME Clear PROVE Abstract!Next
  BY <1>8, ClearMaps DEF Abstract!Next
<1>9. ASSUME Freeze PROVE Abstract!Next
  BY <1>9, FreezeMaps DEF Abstract!Next
<1>10. ASSUME NEW i \in Iter, Iterate(i) PROVE Abstract!Next
  BY <1>10, IterateMaps DEF Abstract!Next
<1>11. ASSUME NEW i \in Iter, NextKey(i) PROVE Abstract!Next
  BY <1>11, NextKeyMaps DEF Abstract!Next
<1>12. ASSUME NEW i \in Iter, Done(i) PROVE Abstract!Next
  BY <1>12, DoneMaps DEF Abstract!Next
<1> QED
  BY <1>2, <1>3, <1>4, <1>5, <1>6, <1>7, <1>8, <1>9, <1>10, <1>11, <1>12 DEF Next

\* What holds of the table holds of it with its view, which is only a shadow.
THEOREM ViewIsShadow == ViewSpec => Spec
<1>1. ViewInit => Init
  BY DEF ViewInit
<1>2. [ViewNext]_<<vars, view>> => [Next]_vars
  BY DEF ViewNext
<1> QED
  BY <1>1, <1>2, PTL DEF ViewSpec, Spec

\* The table implements the ordered map: whatever is called, in whatever order, the
\* buckets, the list and the links answer as a map that remembers the order of its
\* keys would (every operation of hashtable.go).
THEOREM Refinement == ViewSpec => ImplementsOrderedDict
<1>1. ViewInit => IInv /\ Viewed /\ Abstract!Init
  BY InitMaps
<1>2. IInv /\ Viewed /\ [ViewNext]_<<vars, view>> => IInv' /\ Viewed'
  <2> SUFFICES ASSUME IInv, Viewed, [ViewNext]_<<vars, view>> PROVE IInv' /\ Viewed'
    OBVIOUS
  <2>1. CASE ViewNext
    <3>1. IInv'
      BY <2>1, NextInvariant DEF ViewNext
    <3>2. Viewed'
      BY <2>1 DEF ViewNext, Viewed
    <3> QED
      BY <3>1, <3>2
  <2>2. CASE UNCHANGED <<vars, view>>
    <3>1. UNCHANGED <<table, frozen, itercount, iters, frozenVals, ret, view>>
      BY <2>2 DEF vars
    <3>2. Viewed'
      BY <3>1 DEF Viewed
    <3>3. IInv'
      BY <3>1, NextInvariant DEF vars
    <3> QED
      BY <3>2, <3>3
  <2> QED
    BY <2>1, <2>2
<1>3. IInv /\ Viewed /\ Viewed' /\ [ViewNext]_<<vars, view>> => [Abstract!Next]_Abstract!vars
  <2> SUFFICES ASSUME IInv, Viewed, Viewed', [ViewNext]_<<vars, view>> PROVE [Abstract!Next]_Abstract!vars
    OBVIOUS
  <2>1. CASE ViewNext
    BY <2>1, NextMaps DEF ViewNext
  <2>2. CASE UNCHANGED <<vars, view>>
    <3> DEFINE old == {i \in Iter : iters[i].active}
               act == {i \in Iter : iters'[i].active}
    <3>1. UNCHANGED <<frozen, iters, ret, view>>
      BY <2>2 DEF vars
    <3>2. act = old
      BY <3>1
    <3> HIDE DEF old, act
    <3>3. view'.items = view.items /\ view'.rest = view.rest /\ frozen' = frozen /\ ret' = ret
      BY <3>1
    <3> QED
      BY <3>2, <3>3 DEF Abstract!vars, old, act
  <2> QED
    BY <2>1, <2>2
<1> QED
  BY <1>1, <1>2, <1>3, PTL DEF ViewSpec, ImplementsOrderedDict, Abstract!Spec
=============================================================================
