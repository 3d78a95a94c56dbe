--------------------------- MODULE MCDiscPatches ----------------------------
(* Instance of DiscPatches for TLC: two files on the disc and one that is   *)
(* not, in blocks of two words; external files shorter and longer than them, *)
(* and one that is missing; a patch of the disc may meet both of its files.  *)
EXTENDS DiscContents, TLC

CONSTANTS n1, n2, n3, e0, e1, e2, gone, disc, maindol, game, update

MCNodes == {n1, n2, n3}
MCPartitions == {game, update}
MCDiscOffset == n1 :> 4 @@ n2 :> 8
MCDiscSize == n1 :> 3 @@ n2 :> 4
MCFileSize == e0 :> 0 @@ e1 :> 3 @@ e2 :> 5

MCMissing == {gone}
MCFixed == disc :> 0 @@ maindol :> 0

MCRawPatches ==
  {[node |-> disc, external |-> e2, offset |-> 6, length |-> 0, resize |-> TRUE],
   [node |-> maindol, external |-> e1, offset |-> 0, length |-> 0, resize |-> FALSE]}
MCMissingPatches ==
  {[node |-> n3, external |-> gone, offset |-> 0, length |-> l, resize |-> TRUE] : l \in {0, 2}}

MCFilePatches ==
  MCRawPatches \cup MCMissingPatches \cup
  {p \in [node : MCNodes, external : {e0, e1, e2}, offset : {0, 2}, length : {0, 2}, resize : BOOLEAN] :
     /\ p.length > 0 => p.external = e2 /\ p.node = n1 /\ (p.resize <=> p.offset = 0)
     /\ p.external = e0 => p.node = n1 /\ p.offset = 0
     /\ p.node = n2 => p.resize /\ (p.offset = 0 <=> p.external = e2)
     /\ p.node = n3 => p.offset = 0 /\ p.resize}

MCShiftPatches == {[source |-> n2, destination |-> n1], [source |-> n1, destination |-> n3]}
=============================================================================
