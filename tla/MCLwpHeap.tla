----------------------------- MODULE MCLwpHeap ------------------------------
(* Instance of LwpHeap for TLC: a heap with room for four of the smallest pieces. *)
EXTENDS LwpHeap

MCSizes == {8, 20}
MCAligns == {0, 16}
=============================================================================
