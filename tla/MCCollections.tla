---------------------------- MODULE MCCollections ----------------------------
(***************************************************************************)
(* A few values, aliased in every way.                                     *)
(***************************************************************************)
EXTENDS Collections, TLC

\* The first and the last element.
Ends == {-1, 0}

Symmetric == Permutations(Module) \cup Permutations(Obj)
=============================================================================
