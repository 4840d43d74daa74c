----------------------------- MODULE OrderedDict -----------------------------
(***************************************************************************)
(* What dict and set promise, without buckets, hashes or links: a map that *)
(* remembers the order in which its keys were first inserted, that cannot  *)
(* be changed while it is iterated over nor once it is frozen, and whose   *)
(* iterators yield the keys of the map they were started on.               *)
(***************************************************************************)
EXTENDS Integers, Sequences, SequencesExt

CONSTANTS
  Key, Iter, Args, Batches,
  Hashable,       \* the keys that can be hashed
  Equal(_, _),    \* Equal of two keys, when it does not fail
  Incomparable(_, _)  \* the keys on which comparing fails

VARIABLES
  items,    \* the (key, value) pairs, in insertion order
  frozen,
  active,   \* the iterators that were started and are not done
  rest,     \* the keys each iterator has yet to yield
  ret       \* what the last call returned

vars == <<items, frozen, active, rest, ret>>

Init ==
  /\ items = <<>>
  /\ frozen = FALSE
  /\ active = {}
  /\ rest = [i \in Iter |-> <<>>]
  /\ ret = <<"ok">>

Mutable == ~frozen /\ active = {}
Refusal == IF frozen THEN <<"frozen">> ELSE <<"iterating">>

Positions(m, k) == {p \in DOMAIN m : Equal(k, m[p][1])}
Answer(m, k) ==
  IF k \notin Hashable THEN <<"unhashable">>
  ELSE IF \E p \in DOMAIN m : Incomparable(k, m[p][1]) THEN <<"too deep">>
  ELSE IF Positions(m, k) = {} THEN <<"missing">>
  ELSE <<"found", m[CHOOSE p \in Positions(m, k) : TRUE][2]>>

\* A key that is there keeps its place, and the spelling it was inserted with.
Put(m, k, v) ==
  IF Answer(m, k)[1] = "missing" THEN Append(m, <<k, v>>)
  ELSE IF Answer(m, k)[1] = "found" THEN [p \in DOMAIN m |-> IF p \in Positions(m, k) THEN <<m[p][1], v>> ELSE m[p]]
  ELSE m
PutError(m, k) == IF Answer(m, k)[1] \in {"missing", "found"} THEN <<"ok">> ELSE Answer(m, k)

Without(m, k) == RemoveAt(m, CHOOSE p \in Positions(m, k) : TRUE)

\* A call that may change the map, and does not when the map is frozen or pinned.
Write(m, answer) ==
  /\ IF Mutable THEN items' = m /\ ret' = answer ELSE items' = items /\ ret' = Refusal
  /\ UNCHANGED <<frozen, active, rest>>

Read(answer) == ret' = answer /\ UNCHANGED <<items, frozen, active, rest>>

Insert(k, v) == Write(Put(items, k, v), PutError(items, k))

Lookup(k) == Read(Answer(items, k))

\* Deleting from an empty map may or may not notice that the key is unhashable.
Delete(k) ==
  \/ /\ Answer(items, k)[1] = "found"
     /\ Write(Without(items, k), Answer(items, k))
  \/ /\ Answer(items, k)[1] # "found"
     /\ Write(items, Answer(items, k))
  \/ /\ items = <<>>
     /\ Write(items, <<"missing">>)

PopItem ==
  \/ items = <<>> /\ Read(<<"empty">>)
  \/ /\ items # <<>>
     /\ LET k == Head(items)[1]
        IN IF Incomparable(k, k) THEN Write(items, <<"too deep">>)
           ELSE Write(Tail(items), <<"item", k, Head(items)[2]>>)

SetDefault(k, v) ==
  IF Answer(items, k) = <<"missing">> THEN Write(Put(items, k, v), <<"found", v>>)
  ELSE Read(Answer(items, k))

\* The longest prefix of the batch without a failing insertion is inserted.
Update(batch) ==
  LET after[n \in 0..Len(batch)] ==
        IF n = 0 THEN items ELSE Put(after[n - 1], batch[n][1], batch[n][2])
      failing == {n \in 1..Len(batch) : PutError(after[n - 1], batch[n][1]) # <<"ok">>}
  IN  \/ batch = <<>> /\ Read(<<"ok">>)
      \/ batch # <<>> /\ failing = {} /\ Write(after[Len(batch)], <<"ok">>)
      \/ /\ failing # {}
         /\ Write(after[Min(failing) - 1], PutError(after[Min(failing) - 1], batch[Min(failing)][1]))

Clear == Write(<<>>, <<"ok">>)

Freeze ==
  /\ frozen' = TRUE
  /\ ret' = <<"ok">>
  /\ UNCHANGED <<items, active, rest>>

Iterate(i) ==
  /\ i \notin active
  /\ active' = active \cup {i}
  /\ rest' = [rest EXCEPT ![i] = [p \in DOMAIN items |-> items[p][1]]]
  /\ ret' = <<"ok">>
  /\ UNCHANGED <<items, frozen>>

NextKey(i) ==
  /\ i \in active
  /\ \/ rest[i] = <<>> /\ ret' = <<"exhausted">> /\ rest' = rest
     \/ /\ rest[i] # <<>>
        /\ ret' = <<"key", Head(rest[i])>>
        /\ rest' = [rest EXCEPT ![i] = Tail(@)]
  /\ UNCHANGED <<items, frozen, active>>

Done(i) ==
  /\ i \in active
  /\ active' = active \ {i}
  /\ rest' = [rest EXCEPT ![i] = <<>>]
  /\ ret' = <<"ok">>
  /\ UNCHANGED <<items, frozen>>

Next ==
  \/ \E p \in Args : Insert(p[1], p[2]) \/ SetDefault(p[1], p[2])
  \/ \E k \in Key : Lookup(k) \/ Delete(k)
  \/ \E batch \in Batches : Update(batch)
  \/ PopItem \/ Clear \/ Freeze
  \/ \E i \in Iter : Iterate(i) \/ NextKey(i) \/ Done(i)

Spec == Init /\ [][Next]_vars
=============================================================================
