---------------------------- MODULE SessionsAged ----------------------------
(***************************************************************************)
(* Sessions with a history of when each refresh token was issued, for the  *)
(* claim the repository makes about a password change.  The history reads  *)
(* the state and constrains nothing: every behaviour of Sessions is one of *)
(* AgedSpec, and the other way round.                                      *)
(***************************************************************************)
EXTENDS Sessions, TLC

VARIABLE issued   \* issued[j]: the password that was valid when j was stored

AgedInit == Init /\ issued = [j \in Tokens |-> 0]

AgedNext ==
    /\ Next
    /\ issued' = [j \in Tokens |-> IF j \in live' \ live THEN password ELSE issued[j]]

AgedSpec == AgedInit /\ [][AgedNext]_<<vars, issued>>

Symmetry == Permutations(Calls) \cup Permutations(Tokens)

\* What the comment in UpdatePassword (auth.go:177) says never occurs: the
\* password is changed and an old refresh token is still valid.  A token that a
\* rotation or a login stores after the SMEMBERS of the revocation and before the
\* UPDATE is such a token.
OldTokensRevoked == \A j \in live : issued[j] = password

=============================================================================
