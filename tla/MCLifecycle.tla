----------------------------- MODULE MCLifecycle -----------------------------
(***************************************************************************)
(* Lifecycle for TLC: a release with one migration, the next one with two, *)
(* and a directory in which the first file was edited.                     *)
(***************************************************************************)
EXTENDS Lifecycle

Releases ==
    [s \in Servers |-> CASE s = "old"    -> <<"a", None>>
                         [] s = "new"    -> <<"a", "b">>
                         [] s = "edited" -> <<"c", None>>]
=============================================================================
