------------------------------ MODULE MCGroups ------------------------------
(***************************************************************************)
(* Groups for TLC: calls are interchangeable, and one friendship changes.  *)
(***************************************************************************)
EXTENDS Groups, TLC

Symmetry == Permutations(Calls)
OnePair == {<<1, 2>>}
=============================================================================
