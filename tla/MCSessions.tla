----------------------------- MODULE MCSessions -----------------------------
(***************************************************************************)
(* Sessions for TLC: calls and tokens are interchangeable.                 *)
(***************************************************************************)
EXTENDS Sessions, TLC

Symmetry == Permutations(Calls) \cup Permutations(Tokens)
=============================================================================
