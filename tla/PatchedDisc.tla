---------------------------- MODULE PatchedDisc -----------------------------
(***************************************************************************)
(* What Riivolution promises to a game and to the author of a patch: the   *)
(* files of the disc have new contents, each patch laid over what was      *)
(* there, and a read of a file returns what the file contains.  Where a    *)
(* file is on the disc matters for patches of the disc itself only, which  *)
(* change the files that have their bytes there.  Other partitions are as  *)
(* they were.                                                              *)
(***************************************************************************)
EXTENDS Naturals, Sequences, SequencesExt

CONSTANTS
  Nodes,        \* the names of files a disc may have
  Original,     \* the contents of the files it has, as sequences of bytes
  Places,       \* where these files are
  FilePatches,  \* patches of files: file, external file, offset, length, resize
  Raw,          \* patches of the disc: external file, offset, length
  Files,        \* files whose contents are missing, and how long they are made
  Game,         \* the partition with the patched files
  Blank,        \* a byte that nobody has provided
  NoRead        \* nothing has been read

VARIABLES
  content,      \* the contents of the files
  place,        \* where the files are
  read          \* the file last read, of which partition, where, and what was read

vars == <<content, place, read>>

Init == content = Original /\ place = Places /\ read = NoRead

\* The bytes of an external file, laid over a file, which may end with them.
Overlaid(c, p) ==
  [i \in 1..(IF p.resize \/ p.node \notin DOMAIN content THEN p.offset + p.length ELSE Len(c)) |->
     IF i > p.offset /\ i <= p.offset + p.length THEN <<p.external, i - p.offset - 1>> ELSE c[i]]

Contents(n) == IF n \in DOMAIN content THEN content[n] ELSE << >>

\* The contents once one file has other contents, or some.
With(node, c) == [n \in DOMAIN content \cup {node} |-> IF n = node THEN c ELSE content[n]]

Patched(p) == With(p.node, Overlaid(Contents(p.node), p))

\* A file that is patched or made may get another place, but no other file does.
OthersStay(node) == \A n \in DOMAIN content \ {node} : place'[n] = place[n]

Patch(p) ==
  /\ p.offset <= Len(Contents(p.node))
  /\ p.resize \/ p.node \notin DOMAIN content \/ p.offset + p.length <= Len(Contents(p.node))
  /\ content' = Patched(p)
  /\ OthersStay(p.node)
  /\ UNCHANGED read

\* The bytes of an external file, laid over those of the disc.
PatchedRaw(p) ==
  [n \in DOMAIN content |->
    [i \in 1..Len(content[n]) |->
      LET at == place[n] + i - 1
      IN IF p.offset <= at /\ at < p.offset + p.length THEN <<p.external, at - p.offset>> ELSE content[n][i]]]

PatchRaw(p) == content' = PatchedRaw(p) /\ UNCHANGED <<place, read>>

\* A file to be filled from one that is missing has been made.
MadeBlank(f) == With(f.node, [i \in 1..f.length |-> Blank])

Make(f) ==
  /\ f.node \notin DOMAIN content
  /\ content' = MadeBlank(f)
  /\ OthersStay(f.node)
  /\ UNCHANGED read

\* One file is given the contents of another.
Share(source, destination) ==
  /\ {source, destination} \subseteq DOMAIN content
  /\ content' = [content EXCEPT ![destination] = content[source]]
  /\ place' = [place EXCEPT ![destination] = place[source]]
  /\ UNCHANGED read

\* A part of a file is read.
ReadFile ==
  /\ read' # NoRead
  /\ read'.partition = Game /\ read'.node \in DOMAIN content
  /\ read'.from + Len(read'.data) <= Len(content[read'.node])
  /\ \A i \in 1..Len(read'.data) : content[read'.node][read'.from + i] \in {Blank, read'.data[i]}
  /\ UNCHANGED <<content, place>>

\* Any part of another partition is read.
ReadElsewhere ==
  /\ read' # NoRead
  /\ read'.partition # Game
  /\ \A i \in 1..Len(read'.data) : read'.data[i][1] = read'.partition
  /\ UNCHANGED <<content, place>>

Forget == read' = NoRead /\ UNCHANGED <<content, place>>

Next ==
  \/ \E p \in FilePatches : Patch(p)
  \/ \E p \in Raw : PatchRaw(p)
  \/ \E f \in Files : Make(f)
  \/ \E source, destination \in Nodes : Share(source, destination)
  \/ ReadFile \/ ReadElsewhere \/ Forget

Spec == Init /\ [][Next]_vars
=============================================================================
