----------------------------- MODULE MCMailbox -----------------------------
(***************************************************************************)
(* Mailbox for TLC: user 1 writes to user 2 and to the group, user 2       *)
(* synchronises its inbox.                                                 *)
(***************************************************************************)
EXTENDS Mailbox

FromOne == {<<1, 2>>, <<1, Outbox>>}
Recipient == {<<2, 2>>, <<2, Outbox>>}
=============================================================================
