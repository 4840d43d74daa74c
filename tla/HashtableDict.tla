---------------------------- MODULE HashtableDict ----------------------------
(***************************************************************************)
(* The table of Hashtable read as the map of OrderedDict, which it         *)
(* implements.  What the map's variables are is a function of the table's; *)
(* the variable view holds it, so that TLC walks the table's list once per *)
(* state.                                                                  *)
(***************************************************************************)
EXTENDS Hashtable

VARIABLE view

View(t, its) ==
  [items |-> Items(t),
   rest  |-> [i \in Iter |-> IF its[i].active THEN KeysFrom(t, its[i].e) ELSE <<>>]]

ViewInit == Init /\ view = View(table, iters)
ViewNext == Next /\ view' = View(table', iters')
ViewSpec == ViewInit /\ [][ViewNext]_<<vars, view>>

\* The table implements the ordered map of OrderedDict: its list is the map's
\* order, and every call of hashtable.go answers as the map's does.  Comparing keys
\* fails, in the map, on keys that are nested too deeply and share a hash.
Abstract == INSTANCE OrderedDict WITH
  items        <- view.items,
  rest         <- view.rest,
  active       <- {i \in Iter : iters[i].active},
  Hashable     <- {k \in Key : HashOf[k] # Unhashable},
  Equal        <- SameKey,
  Incomparable <- LAMBDA k, z : EqualFails(k, z) /\ SlotHash(k) = SlotHash(z)

ImplementsOrderedDict == Abstract!Spec
=============================================================================
