---------------------------- MODULE MCHashtable ----------------------------
(***************************************************************************)
(* A small table: buckets of one entry, load factor 2, so that the second  *)
(* key needs an overflow bucket and the third makes the table grow.        *)
(***************************************************************************)
EXTENDS HashtableDict

CONSTANTS ka, kalt, kb, kzero, klist, vx, vy

\* ka and kb collide at every size; kalt equals ka and is spelt differently (as 1 and
\* 1.0 are); kzero's hash is 0, and it is nested too deeply to be compared with
\* itself; klist is unhashable.
MCHashOf == [k \in Key |-> CASE k = klist -> Unhashable [] k = kzero -> 0 [] OTHER -> 2]
MCRep == [k \in Key |-> IF k = kalt THEN ka ELSE k]
MCDeep == {kzero}
MCArgs == {<<k, vx>> : k \in Key \ {kalt}} \cup {<<kalt, vy>>}
MCBatches == {<<<<kalt, vy>>, <<kzero, vx>>, <<kb, vx>>>>}

\* The iterators are interchangeable.
Interchangeable == Permutations(Iter)
=============================================================================
