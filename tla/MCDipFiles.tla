----------------------------- MODULE MCDipFiles -----------------------------
(* Instance of DipFiles for TLC: three slots and four files, so that the   *)
(* table overflows; files and descriptors are interchangeable.             *)
EXTENDS DipFiles, TLC

CONSTANTS f1, f2, f3, f4, d1, d2, d3, noid

MCFileIds == {f1, f2, f3, f4}
MCFds == {d1, d2, d3}
MCSymmetry == Permutations(MCFileIds) \cup Permutations(MCFds)
=============================================================================
