------------------------------ MODULE Hashtable ------------------------------
(***************************************************************************)
(* hashtable.go: the insertion-ordered hash table under dict and set.      *)
(*                                                                         *)
(* A table is an array of chains of buckets; a bucket has BucketSize       *)
(* entries.  A chain is kept here as one sequence of entries, whose length *)
(* is a multiple of BucketSize.  The used entries of all the chains are    *)
(* threaded, in insertion order, on a doubly-linked list.  The address of  *)
(* an entry is the pair <<chain, position>>; the Go code's **entry values  *)
(* (prevLink, tailLink) are addresses of links: HeadLink is &ht.head and   *)
(* the address a of an entry stands for &a.next.                           *)
(*                                                                         *)
(* Keys are abstract: HashOf gives Hash() (Unhashable when it fails), Rep  *)
(* a representative of the key's class under Equal, and Deep the keys that *)
(* are nested beyond maxdepth, for which Equal itself fails.               *)
(***************************************************************************)
EXTENDS Integers, Sequences, FiniteSets, SequencesExt

CONSTANTS
  Key, Value,
  None,          \* the zero Value of an unused entry
  BucketSize,    \* bucketSize, 8 in the code
  LoadNum,       \* loadFactor is LoadNum / LoadDen, 13/2 in the code
  LoadDen,
  HashOf,        \* Key -> Nat \cup {Unhashable}
  Rep,           \* Key -> Key
  Deep,          \* SUBSET Key
  Iter,          \* names of the iterators a program holds at one time
  Args,          \* the (key, value) pairs tried as arguments of insert and setdefault
  Batches        \* the argument lists tried for update

Unhashable == -1

ASSUME HashtableAssumption ==
  /\ BucketSize \in Nat \ {0} /\ LoadNum \in Nat \ {0} /\ LoadDen \in Nat \ {0}
  /\ HashOf \in [Key -> Nat \cup {Unhashable}]
  /\ Rep \in [Key -> Key]
  /\ Deep \subseteq Key
  /\ None \notin Key \cup Value
  /\ IsFiniteSet(Iter)
  /\ Args \subseteq Key \X Value /\ Batches \subseteq Seq(Key \X Value)
  \* equal keys hash alike (value.go's contract) and are nested alike
  /\ \A k, x \in Key : Rep[k] = Rep[x] =>
       HashOf[k] = HashOf[x] /\ (k \in Deep <=> x \in Deep)

VARIABLES
  table,      \* [chains, head, tail, len]: ht.table, ht.head, ht.tailLink, ht.len
  frozen,     \* ht.frozen
  itercount,  \* ht.itercount
  iters,      \* the keyIterators: [active, e], with what each has yielded so far
  frozenVals, \* the keys and values on which freeze has called Freeze
  ret         \* what the last call returned

vars == <<table, frozen, itercount, iters, frozenVals, ret>>

Nil      == <<0, 0>>     \* the nil *entry
HeadLink == <<0, 0>>     \* &ht.head, as a **entry
NoLink   == <<-1, -1>>   \* the nil **entry of a table that was never used

(***************************************************************************)
(* The entries.                                                            *)
(***************************************************************************)
Unused    == [hash |-> 0, key |-> None, value |-> None, next |-> Nil, prev |-> NoLink]
NewBucket == [i \in 1..BucketSize |-> Unused]
Fresh(n)  == [chains |-> [i \in 1..n |-> NewBucket], head |-> Nil, tail |-> HeadLink, len |-> 0]
NilTable  == [chains |-> <<>>, head |-> Nil, tail |-> NoLink, len |-> 0]

SlotHash(k)        == IF HashOf[k] = 0 THEN 1 ELSE HashOf[k]   \* zero is reserved
ChainOf(t, k)      == (SlotHash(k) % Len(t.chains)) + 1
At(t, a)           == t.chains[a[1]][a[2]]
SameKey(k, x)      == Rep[k] = Rep[x]
EqualFails(k, x)   == k \in Deep /\ x \in Deep

\* *link = a
SetLink(t, link, a) ==
  IF link = HeadLink THEN [t EXCEPT !.head = a]
                     ELSE [t EXCEPT !.chains[link[1]][link[2]].next = a]

\* The addresses from e on, along the next links (cut off one past the table's len).
ListFrom(t, e) ==
  LET walk[i \in 0..t.len + 1] ==
        IF i = 0 THEN <<>>
        ELSE LET s == walk[i - 1]
                 a == IF s = <<>> THEN e ELSE At(t, Last(s)).next
             IN  IF a = Nil THEN s ELSE Append(s, a)
  IN  walk[t.len + 1]
Order(t)       == ListFrom(t, t.head)
KeysFrom(t, e) == LET s == ListFrom(t, e) IN [i \in DOMAIN s |-> At(t, s[i]).key]
Keys(t)        == KeysFrom(t, t.head)
Items(t)       == LET s == Order(t) IN [i \in DOMAIN s |-> <<At(t, s[i]).key, At(t, s[i]).value>>]

\* The positions of k's chain at which a scan for k stops: the entry is k's, or
\* comparing it with k fails.
Hits(t, k) ==
  LET c == t.chains[ChainOf(t, k)]
  IN  {i \in DOMAIN c : c[i].hash = SlotHash(k) /\ (SameKey(k, c[i].key) \/ EqualFails(k, c[i].key))}
Hit(t, k) == <<ChainOf(t, k), Min(Hits(t, k))>>
HitFails(t, k) == EqualFails(k, At(t, Hit(t, k)).key)

(***************************************************************************)
(* Writing: what insert does once it has found the chain, grow, delete.    *)
(***************************************************************************)

\* insert after its checks: update the value in place, or fill the last unused
\* entry of the chain (of a new bucket when there is none) and link it at the end.
Place(t, k, v) ==
  IF Hits(t, k) # {}
  THEN IF HitFails(t, k) THEN t
       ELSE LET a == Hit(t, k) IN [t EXCEPT !.chains[a[1]][a[2]].value = v]
  ELSE LET c    == ChainOf(t, k)
           room == {i \in DOMAIN t.chains[c] : t.chains[c][i].hash = 0}
           a    == IF room # {} THEN <<c, Max(room)>> ELSE <<c, Len(t.chains[c]) + 1>>
           e    == [hash |-> SlotHash(k), key |-> k, value |-> v, next |-> Nil, prev |-> t.tail]
           wide == IF room # {} THEN t ELSE [t EXCEPT !.chains[c] = @ \o NewBucket]
           full == [wide EXCEPT !.chains[c][a[2]] = e, !.tail = a, !.len = @ + 1]
       IN  SetLink(full, t.tail, a)

Overloaded(t) == t.len >= BucketSize /\ LoadDen * t.len >= LoadNum * Len(t.chains)

\* The items inserted in turn into an empty table of n chains.
Refilled(n, items) ==
  LET after[i \in 0..Len(items)] ==
        IF i = 0 THEN Fresh(n) ELSE Place(after[i - 1], items[i][1], items[i][2])
  IN  after[Len(items)]

\* Mutant of Grow: the table is refilled in the order of its buckets.
GrowByBucket(t) ==
  LET used == SelectSeq(FlattenSeq(t.chains), LAMBDA e : e.hash # 0)
  IN  Refilled(2 * Len(t.chains), [i \in DOMAIN used |-> <<used[i].key, used[i].value>>])

\* Twice the chains, refilled in insertion order; the old entries are read only.
Grow(t) == Refilled(2 * Len(t.chains), Items(t))

Grown(t) == IF Overloaded(t) THEN Grow(t) ELSE t

\* insert on a table that is neither frozen nor being iterated over: the new table
\* and the error, if any.
Ready(t) == IF t.chains = <<>> THEN [t EXCEPT !.chains = <<NewBucket>>, !.tail = HeadLink] ELSE t
InsertError(t, k) ==
  IF HashOf[k] = Unhashable THEN <<"unhashable">>
  ELSE IF Hits(Ready(t), k) # {} /\ HitFails(Ready(t), k) THEN <<"too deep">>
  ELSE <<"ok">>
Inserted(t, k, v) ==
  IF InsertError(t, k) # <<"ok">> THEN Ready(t)
  ELSE IF Hits(Ready(t), k) # {} THEN Place(Ready(t), k, v)
  ELSE Place(Grown(Ready(t)), k, v)

\* Mutant of Removed: tailLink is left as it is.
RemovedKeepsTail(t, a) ==
  LET e == At(t, a)
  IN  [SetLink(t, e.prev, e.next) EXCEPT !.chains[a[1]][a[2]] = Unused, !.len = @ - 1]

\* delete's removal of the entry at a.
Removed(t, a) ==
  LET e  == At(t, a)
      t1 == SetLink(t, e.prev, e.next)
      t2 == IF e.next = Nil THEN [t1 EXCEPT !.tail = e.prev]
            ELSE [t1 EXCEPT !.chains[e.next[1]][e.next[2]].prev = e.prev]
  IN  [t2 EXCEPT !.chains[a[1]][a[2]] = Unused, !.len = @ - 1]

(***************************************************************************)
(* The operations, as dict and set call them.                              *)
(***************************************************************************)
Idle == [active |-> FALSE, e |-> Nil, yielded |-> <<>>, snapshot |-> <<>>]

Init ==
  /\ table = NilTable
  /\ frozen = FALSE
  /\ itercount = 0
  /\ iters = [i \in Iter |-> Idle]
  /\ frozenVals = {}
  /\ ret = <<"ok">>

MutableWhilePinned == ~frozen   \* mutant: the itercount checks are dropped
Mutable == ~frozen /\ itercount = 0
Refusal == IF frozen THEN <<"frozen">> ELSE <<"iterating">>

Find(t, k) ==
  IF t.chains = <<>> \/ Hits(t, k) = {} THEN <<"missing">>
  ELSE IF HitFails(t, k) THEN <<"too deep">>
  ELSE <<"found", At(t, Hit(t, k)).value>>
LookupResult(t, k) == IF HashOf[k] = Unhashable THEN <<"unhashable">> ELSE Find(t, k)
\* delete looks at ht.table before it hashes the key.
DeleteResult(t, k) == IF t.chains = <<>> THEN <<"missing">> ELSE LookupResult(t, k)

Insert(k, v) ==
  /\ IF Mutable
     THEN table' = Inserted(table, k, v) /\ ret' = InsertError(table, k)
     ELSE table' = table /\ ret' = Refusal
  /\ UNCHANGED <<frozen, itercount, iters, frozenVals>>

Lookup(k) ==
  /\ ret' = LookupResult(table, k)
  /\ UNCHANGED <<table, frozen, itercount, iters, frozenVals>>

DeleteAnswer(k) == IF Mutable THEN DeleteResult(table, k) ELSE Refusal
DeleteKey(k) ==
  /\ table' = IF DeleteAnswer(k)[1] = "found" THEN Removed(table, Hit(table, k)) ELSE table
  /\ UNCHANGED <<frozen, itercount, iters, frozenVals>>

Delete(k) == DeleteKey(k) /\ ret' = DeleteAnswer(k)

\* popitem: first, then delete of the key it found.
PopItem ==
  \/ /\ table.head = Nil
     /\ ret' = <<"empty">>
     /\ UNCHANGED <<table, frozen, itercount, iters, frozenVals>>
  \/ /\ table.head # Nil
     /\ LET k == At(table, table.head).key
            r == DeleteAnswer(k)
        IN  /\ DeleteKey(k)
            /\ ret' = IF r[1] = "found" THEN <<"item", k, r[2]>> ELSE r

\* setdefault: get, then set when the key is missing.
SetDefault(k, v) ==
  LET r == LookupResult(table, k)
      set == r[1] = "missing" /\ Mutable
  IN  /\ table' = IF set THEN Inserted(table, k, v) ELSE table
      /\ ret' = IF r[1] # "missing" THEN r
                ELSE IF Mutable THEN <<"found", v>> ELSE Refusal
      /\ UNCHANGED <<frozen, itercount, iters, frozenVals>>

\* update: one insertion per pair, until one of them fails; those before it stay.
UpdateOne(done, pair) ==
  IF done.err # <<"ok">> THEN done
  ELSE IF ~Mutable THEN [done EXCEPT !.err = Refusal]
  ELSE [t |-> Inserted(done.t, pair[1], pair[2]), err |-> InsertError(done.t, pair[1])]
Updated(batch) ==
  LET done[i \in 0..Len(batch)] ==
        IF i = 0 THEN [t |-> table, err |-> <<"ok">>] ELSE UpdateOne(done[i - 1], batch[i])
  IN  done[Len(batch)]
Update(batch) ==
  /\ table' = Updated(batch).t /\ ret' = Updated(batch).err
  /\ UNCHANGED <<frozen, itercount, iters, frozenVals>>

\* clear keeps the number of chains and drops the buckets added to them.
Clear ==
  /\ IF Mutable
     THEN table' = Fresh(Len(table.chains)) /\ ret' = <<"ok">>
     ELSE table' = table /\ ret' = Refusal
  /\ UNCHANGED <<frozen, itercount, iters, frozenVals>>

\* What freeze reaches: the keys and values of the used entries of every chain
\* (FirstBuckets, a mutant, does not follow p.next).
Addresses(t) == UNION {{c} \X DOMAIN t.chains[c] : c \in DOMAIN t.chains}
Used(t) == {a \in Addresses(t) : At(t, a).hash # 0}
FirstBuckets(t) == UNION {{At(t, a).key, At(t, a).value} : a \in {u \in Used(t) : u[2] <= BucketSize}}
Contents(t) == UNION {{At(t, a).key, At(t, a).value} : a \in Used(t)}

Freeze ==
  /\ ~frozen
  /\ frozen' = TRUE
  /\ frozenVals' = frozenVals \cup Contents(table)
  /\ ret' = <<"ok">>
  /\ UNCHANGED <<table, itercount, iters>>

\* itercount after an iterator starts (n = 1) or is done (n = -1); mutants: always
\* counted, only Done counted on a frozen table, never counted.
CountAlways(n) == itercount + n
CountDone(n)   == IF frozen /\ n = 1 THEN itercount ELSE itercount + n
CountNever(n)  == itercount
Count(n)       == IF frozen THEN itercount ELSE itercount + n

Iterate(i) ==
  /\ ~iters[i].active
  /\ itercount' = Count(1)
  /\ iters' = [iters EXCEPT ![i] =
       [active |-> TRUE, e |-> table.head, yielded |-> <<>>, snapshot |-> Keys(table)]]
  /\ ret' = <<"ok">>
  /\ UNCHANGED <<table, frozen, frozenVals>>

NextKey(i) ==
  /\ iters[i].active
  /\ IF iters[i].e # Nil
     THEN LET entry == At(table, iters[i].e)
          IN  /\ iters' = [iters EXCEPT ![i].e = entry.next,
                                        ![i].yielded = Append(@, entry.key)]
              /\ ret' = <<"key", entry.key>>
     ELSE iters' = iters /\ ret' = <<"exhausted">>
  /\ UNCHANGED <<table, frozen, itercount, frozenVals>>

Done(i) ==
  /\ iters[i].active
  /\ itercount' = Count(-1)
  /\ iters' = [iters EXCEPT ![i] = Idle]
  /\ ret' = <<"ok">>
  /\ UNCHANGED <<table, frozen, frozenVals>>

Next ==
  \/ \E p \in Args : Insert(p[1], p[2])
  \/ \E k \in Key : Lookup(k)
  \/ \E k \in Key : Delete(k)
  \/ PopItem
  \/ \E p \in Args : SetDefault(p[1], p[2])
  \/ \E batch \in Batches : Update(batch)
  \/ Clear
  \/ Freeze
  \/ \E i \in Iter : Iterate(i)
  \/ \E i \in Iter : NextKey(i)
  \/ \E i \in Iter : Done(i)

Spec == Init /\ [][Next]_vars

(***************************************************************************)
(* Properties.                                                             *)
(***************************************************************************)

\* Every variable has its type.
TypeOK ==
  /\ frozen \in BOOLEAN /\ itercount \in Nat
  /\ table.len \in Nat /\ Len(table.chains) \in Nat
  /\ \A c \in DOMAIN table.chains : Len(table.chains[c]) % BucketSize = 0
  /\ \A a \in Used(table) : At(table, a).key \in Key /\ At(table, a).value \in Value
  /\ frozenVals \subseteq Key \cup Value
  /\ \A i \in Iter : iters[i].active \in BOOLEAN

\* The list through the table (insert, delete, grow and clear all relink it) visits
\* each used entry once and ht.len counts them; every back link and tailLink
\* address the link that leads on; and an entry is on the chain of its hash.
Threaded ==
  LET order == Order(table)
      link(i) == IF i = 1 THEN HeadLink ELSE order[i - 1]
  IN  /\ ToSet(order) = Used(table)
      /\ Len(order) = table.len /\ Cardinality(Used(table)) = table.len
      /\ \A i \in DOMAIN order : At(table, order[i]).prev = link(i)
      /\ \A a \in Used(table) : a[1] = ChainOf(table, At(table, a).key)
      /\ table.chains # <<>> => table.tail = link(Len(order) + 1)

\* An iterator yields the keys that were in the table when it was started, each
\* once and in order, whatever was called meanwhile: no entry is moved, removed or
\* relinked under it (the itercount checks of insert, delete and clear).
IteratorSeesSnapshot ==
  \A i \in Iter : iters[i].active =>
    iters[i].yielded \o KeysFrom(table, iters[i].e) = iters[i].snapshot

\* Freezing a table freezes all that a program can reach through it, the entries
\* on overflow buckets included (freeze).
FreezeIsDeep ==
  frozen => UNION {{item[1], item[2]} : item \in ToSet(Items(table))} \subseteq frozenVals

\* While a table is not frozen, itercount is the number of iterators that are not
\* done; iterators started before a freeze and finished after it do not matter.
ItercountIsActive ==
  ~frozen => itercount = Cardinality({i \in Iter : iters[i].active})

\* No operation writes any field of a frozen table, the iterator count included,
\* so that threads may share it without a lock (impl.md, "Freezing").
FrozenNeverWritten ==
  [][frozen => UNCHANGED <<table, frozen, itercount>>]_vars

(***************************************************************************)
(* The inductive invariant on which the proofs of HashtableProofs rest.    *)
(***************************************************************************)
Link    == Int \X Int
Entries == [hash : Int, key : Key \cup {None}, value : Value \cup {None}, next : Link, prev : Link]
Tables  == [chains : Seq(Seq(Entries)), head : Link, tail : Link, len : Nat]

\* The used entries are those of the list o, which the links follow both ways.
\* (LinkAt(o, i) is what the link before the i-th entry holds.)
LinkAt(o, i) == IF i \in DOMAIN o THEN o[i] ELSE Nil
BackLink(o, i) == IF i = 1 THEN HeadLink ELSE o[i - 1]
Linked(t, o) ==
  /\ o \in Seq(Addresses(t)) /\ Len(o) = t.len /\ ToSet(o) = Used(t)
  /\ \A i, j \in DOMAIN o : o[i] = o[j] => i = j
  /\ t.head = LinkAt(o, 1)
  /\ \A i \in DOMAIN o : At(t, o[i]).next = LinkAt(o, i + 1) /\ At(t, o[i]).prev = BackLink(o, i)
  /\ t.chains # <<>> => t.tail = BackLink(o, Len(o) + 1)

\* A used entry holds a key that can be hashed, on the chain of its hash; no search
\* for its key stops at another one.
Collide(k, x) == SlotHash(k) = SlotHash(x) /\ (SameKey(k, x) \/ EqualFails(k, x))
Filled(t) ==
  \A a \in Used(t) : LET e == At(t, a) IN
    /\ e.key \in Key /\ e.value \in Value /\ HashOf[e.key] # Unhashable
    /\ e.hash = SlotHash(e.key) /\ a[1] = ChainOf(t, e.key)
Apart(t) == \A a, b \in Used(t) : a # b => ~Collide(At(t, a).key, At(t, b).key)

Whole(t) == \A c \in DOMAIN t.chains : Len(t.chains[c]) % BucketSize = 0

\* A table whose entries are o.
TableOf(t, o) == t \in Tables /\ Whole(t) /\ Linked(t, o) /\ Filled(t) /\ Apart(t)

Iterators == [active : BOOLEAN, e : Link, yielded : Seq(Key), snapshot : Seq(Key)]
CursorOK(i) ==
  iters[i].active =>
    /\ iters[i].e \in Used(table) \cup {Nil}
    /\ iters[i].yielded \o KeysFrom(table, iters[i].e) = iters[i].snapshot

IInv ==
  /\ TableOf(table, Order(table))
  /\ frozen \in BOOLEAN /\ itercount \in Nat /\ frozenVals \subseteq Key \cup Value
  /\ iters \in [Iter -> Iterators]
  /\ \A i \in Iter : CursorOK(i)
  /\ frozen => Contents(table) \subseteq frozenVals
  /\ ItercountIsActive
=============================================================================
