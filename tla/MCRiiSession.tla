---------------------------- MODULE MCRiiSession ----------------------------
(* Instance of RiiSession for TLC: two descriptors, two paths, two contents. *)
EXTENDS RiiSession, TLC

CONSTANTS fd1, fd2, p1, p2, d1, d2, rw, far, seekset, seekend, version, unset

MCFds == {fd1, fd2}
MCPaths == {p1, p2}
MCDatas == {d1, d2}
MCModes == {rw}
MCLengths == {0, 2}
MCOffsets == {far}
MCNone == {}
MCWords == {p1, d1}
\* for the run that is to fail
MCOneFd == {fd1}
=============================================================================
