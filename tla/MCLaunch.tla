------------------------------ MODULE MCLaunch ------------------------------
(* Instance of Launch for TLC: the thread of the disc module, an SD card, and *)
(* RiiFS mounts that come and go.                                             *)
EXTENDS Launch

CONSTANT dip

MCClients == {dip}
MCFatNames == {<<"sd">>}
=============================================================================
