----------------------------- MODULE MCSession -----------------------------
(* Two clients of one session.                                             *)
EXTENDS Session

CONSTANTS c1, c2
MCClients == {c1, c2}
=============================================================================
