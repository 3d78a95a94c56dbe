---------------------------- MODULE MCRiiServer -----------------------------
(* Instance of RiiServer for TLC: two connections that come and go. *)
EXTENDS RiiServer

CONSTANTS c1, c2

MCConns == {c1, c2}
=============================================================================
