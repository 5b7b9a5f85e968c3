------------------------------- MODULE MCHub -------------------------------
(***************************************************************************)
(* Hub for TLC: two logins on one hub, beside logins on other servers.     *)
(***************************************************************************)
EXTENDS Hub

CONSTANTS hub1, login1, login2

OneHub == [c \in Conns |-> hub1]
=============================================================================
