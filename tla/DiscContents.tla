---------------------------- MODULE DiscContents ----------------------------
(***************************************************************************)
(* DiscPatches with the contents that the files should have beside it:     *)
(* every patch is also laid over the contents as PatchedDisc lays it, so   *)
(* that what reads return can be compared with it.                         *)
(***************************************************************************)
EXTENDS DiscPatches

VARIABLE content

cvars == <<vars, content>>

Original == [n \in OnDisc |-> [i \in 1..DiscSize[n] |-> <<Game, DiscOffset[n] + i - 1>>]]

\* The patches as their author sees them.
Present == {p \in FilePatches : p.external \notin Missing}
FilePatch(p) == [p EXCEPT !.length = LengthOf(p)]
RawPatch(p) == [external |-> p.external, offset |-> Fixed[p.node] + p.offset, length |-> LengthOf(p)]
Unfilled(p) == [node |-> p.node, length |-> p.length]

Promise ==
  INSTANCE PatchedDisc WITH
    Places <- DiscOffset,
    FilePatches <- {FilePatch(p) : p \in {p \in Present : p.node \in Nodes}},
    Raw <- {RawPatch(p) : p \in {p \in Present : p.node \in DOMAIN Fixed}},
    Files <- {Unfilled(p) : p \in FilePatches \ Present},
    Blank <- <<Nothing, 0>>,
    place <- [n \in DOMAIN fst |-> fst[n].DataOffset]

CInit == Init /\ content = Original

CNext ==
  \/ Steps /\ UNCHANGED content
  \/ \E p \in FilePatches :
       /\ PatchFile(p)
       /\ content' = IF p.node \in DOMAIN Fixed THEN Promise!PatchedRaw(RawPatch(p))
                     ELSE Promise!Patched(FilePatch(p))
  \/ \E p \in FilePatches :
       /\ PatchMissing(p)
       /\ content' = IF Made(p) THEN Promise!MadeBlank(Unfilled(p)) ELSE content
  \/ \E p \in ShiftPatches :
       ShareFile(p.source, p.destination) /\ content' = [content EXCEPT ![p.destination] = content[p.source]]

CSpec == CInit /\ [][CNext]_cvars
-----------------------------------------------------------------------------
\* Reading any part of a file of the patched disc, or all of it, gives its contents,
\* also of the files that a patch was not about; and a read of another partition
\* gives what is there, whichever partition was opened or closed between the two.
ImplementsPromise == Promise!Spec
=============================================================================
