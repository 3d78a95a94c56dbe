---------------------------- MODULE DiscPatches -----------------------------
(***************************************************************************)
(* How files of a disc are replaced: the launcher (riivolution.cpp) turns  *)
(* each patch into changes of the disc's file table, which gives every     *)
(* file its place, and into patches and shifts of the disc module          *)
(* (dip.cpp), which composes every read of the game from them and from     *)
(* what is on the disc.  Files that grow are given room beyond the end of  *)
(* the disc, where only patches and shifts put anything.                   *)
(*                                                                         *)
(* Offsets and lengths are in bytes; the two tables that keep offsets in   *)
(* words do so here.  A byte is the source it comes from and its place     *)
(* there, so that a read shows where each of its bytes was taken from.     *)
(* The table of open files behind ReadFile is DipFiles.  A patch may also  *)
(* be about a place of the disc and not about a file: about main.dol, or,  *)
(* with an empty path, about the disc itself.  A patch of a directory, or  *)
(* of a file that is neither there nor to be made, does nothing.           *)
(***************************************************************************)
EXTENDS Integers, Sequences, SequencesExt

CONSTANTS
  Nodes,        \* the names of files
  DiscOffset,   \* where the files on the disc are
  DiscSize,     \* how long they are
  Fixed,        \* where a patch applies that is about no file
  FileSize,     \* the external files and how long they are
  Missing,      \* external files that patches name and that are not there
  FilePatches,  \* patches: node, external, offset, length (0: not given), resize
  ShiftPatches, \* patches that give one file the place of another
  MaxFound,     \* MAX_FOUND
  Word,         \* offsets are kept in words of this many bytes
  Align,        \* files beyond the disc's end are aligned to this
  Block,        \* a game reads whole blocks
  High,         \* 2^32: an offset this large has a high word
  Partitions, Game,
  NoPartition, NoRead, Nothing,
  MaxPatches    \* bound: the patches of a run

OnDisc == DOMAIN DiscOffset

DiscPatchesAssumption ==
  /\ OnDisc \subseteq Nodes /\ OnDisc # {} /\ DOMAIN DiscSize = OnDisc
  /\ {Word, Align, Block, MaxFound, High} \subseteq Nat \ {0}
  /\ Align % Block = 0 /\ Block % Word = 0
  /\ \A n \in OnDisc : DiscOffset[n] \in Nat /\ DiscSize[n] \in Nat /\ DiscOffset[n] % Block = 0
  /\ \A n \in OnDisc : DiscOffset[n] < Word * High
  /\ DOMAIN Fixed \cap Nodes = {} /\ \A f \in DOMAIN Fixed : Fixed[f] \in Nat
  /\ \A e \in DOMAIN FileSize : FileSize[e] \in Nat
  /\ Missing \cap DOMAIN FileSize = {}
  /\ FilePatches \subseteq [node : Nodes \cup DOMAIN Fixed, external : Missing \cup DOMAIN FileSize,
                           offset : Nat, length : Nat, resize : BOOLEAN]
  /\ ShiftPatches \subseteq [source : Nodes, destination : Nodes]
  /\ Game \in Partitions /\ NoPartition \notin Partitions
ASSUME DiscPatchesAssumption

VARIABLES
  stage,             \* what the launcher is doing
  fst,               \* the file table
  shift,             \* the next place beyond the end
  shiftfiles,        \* RVL_SetAlwaysShift: every patched file is moved
  Files, Patches, Shifts,            \* the module's three tables
  ShiftBase, Clusters,
  CurrentPartition, PatchPartition,
  read               \* what the game has read last of the partition that is open

launcher == <<stage, fst, shift, shiftfiles>>
tables == <<Files, Patches, Shifts>>
settings == <<ShiftBase, Clusters>>
vars == <<launcher, tables, settings, CurrentPartition, PatchPartition, read>>

RoundUp(n, unit) == ((n + unit - 1) \div unit) * unit
InWords(n) == (n \div Word) * Word
Lesser(a, b) == IF a < b THEN a ELSE b

\* On the disc itself no file begins where another does or before it ends.
DiscAssumption ==
  \A m, n \in OnDisc : m # n =>
    /\ DiscOffset[m] # DiscOffset[n]
    /\ DiscOffset[m] < DiscOffset[n] => DiscOffset[m] + RoundUp(DiscSize[m], Block) <= DiscOffset[n]
ASSUME DiscAssumption

Init ==
  /\ stage = "disc" /\ shift = 0 /\ shiftfiles \in BOOLEAN
  /\ fst = [n \in OnDisc |-> [DataOffset |-> DiscOffset[n], Size |-> DiscSize[n]]]
  /\ Files = << >> /\ Patches = << >> /\ Shifts = << >>
  /\ ShiftBase = 2 * High /\ Clusters = FALSE
  /\ CurrentPartition = Game /\ PatchPartition = NoPartition
  /\ read = NoRead
-----------------------------------------------------------------------------
(* the launcher, and the ioctls it makes *)

Largest == CHOOSE n \in OnDisc : \A m \in OnDisc : fst[m].DataOffset <= fst[n].DataOffset

SetShiftBase(base) == ShiftBase' = base /\ Clusters' = (base >= High)

SetFST ==
  /\ stage = "disc" /\ stage' = "menu"
  /\ shift' = RoundUp(fst[Largest].DataOffset + fst[Largest].Size, Align)
  /\ SetShiftBase(shift')
  /\ UNCHANGED <<fst, shiftfiles, tables, CurrentPartition, PatchPartition, read>>

\* With one filesystem in use its files are named by their clusters.
ChooseFilesystem ==
  /\ stage = "menu" /\ stage' = "patching"
  /\ Clusters' \in {Clusters, TRUE}
  /\ UNCHANGED <<fst, shift, shiftfiles, tables, ShiftBase, CurrentPartition, PatchPartition, read>>

\* What is no file of the table ends with the addresses that its Size can hold.
Endless == High - 1

\* The node a patch applies to, made if need be, and where room goes on then.  A
\* node that is not in the table is the launcher's own and gone with the patch.
Made(p) == p.node \notin DOMAIN fst \cup DOMAIN Fixed
NodeOf(p) == CASE p.node \in DOMAIN fst   -> fst[p.node]
               [] p.node \in DOMAIN Fixed -> [DataOffset |-> Fixed[p.node], Size |-> Endless]
               [] OTHER                   -> [DataOffset |-> shift, Size |-> p.length]
RoomAfter(p) == IF Made(p) THEN RoundUp(shift + p.length, Align) ELSE shift

LengthOf(p) == IF p.length = 0 THEN FileSize[p.external] ELSE p.length
Grows(p) == p.resize /\ p.offset + LengthOf(p) > NodeOf(p).Size
Moves(p) == Grows(p) \/ shiftfiles

\* Mutant: a file that grows stays where it is.
NewNodeInPlace(p) == [DataOffset |-> NodeOf(p).DataOffset,
                      Size |-> IF p.resize THEN p.offset + LengthOf(p) ELSE NodeOf(p).Size]

NewNode(p) == [DataOffset |-> IF Moves(p) THEN RoomAfter(p) ELSE NodeOf(p).DataOffset,
               Size |-> IF p.resize THEN p.offset + LengthOf(p) ELSE NodeOf(p).Size]

ShiftAfter(p) == IF Moves(p) THEN RoundUp(RoomAfter(p) + NewNode(p).Size, Align) ELSE RoomAfter(p)

FindPatch(table, pos, len) ==
  LET found == SelectSeq(table, LAMBDA p : LET offset == pos - p.Offset IN
                 offset = 0 \/ (offset < 0 /\ offset + len > 0) \/ (offset > 0 /\ offset < p.Length))
  IN SubSeq(found, 1, Lesser(Len(found), MaxFound))

Covers(p) == p.offset = 0 /\ LengthOf(p) >= NewNode(p).Size
Shared(n) == \E m \in DOMAIN fst \ {n} : fst[m].DataOffset = fst[n].DataOffset /\ fst[n].Size > 0
Touched(n) == FindPatch(Patches, fst[n].DataOffset, RoundUp(fst[n].Size, Block))

\* What the launcher and the module together can do: a part that is replaced lies
\* in the file, a patch that moves a file without covering it moves what is on
\* the disc and nothing else, and one that does not move it changes no other
\* file and is not one too many.  A patch about a place of the disc stays there.
Sensible(p) ==
  /\ p.external \notin Missing
  /\ p.offset % Word = 0 /\ p.offset <= NodeOf(p).Size
  /\ LengthOf(p) <= FileSize[p.external]
  /\ p.resize \/ p.offset + LengthOf(p) <= NodeOf(p).Size
  /\ IF Moves(p)
     THEN Covers(p) \/ (Grows(p) /\ NodeOf(p).DataOffset < ShiftBase /\ Touched(p.node) = << >>)
     ELSE p.node \in DOMAIN fst => ~ Shared(p.node) /\ Len(Touched(p.node)) < MaxFound
  /\ p.node \in DOMAIN Fixed =>
       /\ ~ Moves(p) /\ Fixed[p.node] + p.offset + LengthOf(p) <= ShiftBase
       /\ \A n \in DOMAIN fst : Len(Touched(n)) < MaxFound

\* RVL_Patch of a file: RVL_AddFile, RVL_AddShift and RVL_AddPatch
PatchFile(p) ==
  /\ stage = "patching" /\ Len(Patches) < MaxPatches /\ Sensible(p)
  /\ fst' = [n \in DOMAIN fst \cup ({p.node} \ DOMAIN Fixed) |->
               IF n = p.node THEN NewNode(p) ELSE fst[n]]
  /\ shift' = ShiftAfter(p)
  /\ Files' = Append(Files, [external |-> p.external, cluster |-> Clusters])
  /\ Shifts' = IF Grows(p) /\ p.offset > 0
               THEN Append(Shifts, [Offset |-> NewNode(p).DataOffset, Length |-> NodeOf(p).Size,
                                    OriginalOffset |-> NodeOf(p).DataOffset])
               ELSE Shifts
  /\ Patches' = Append(Patches, [Offset |-> InWords(NewNode(p).DataOffset + p.offset),
                                 Length |-> LengthOf(p), File |-> Len(Files')])
  /\ PatchPartition' = CurrentPartition
  /\ UNCHANGED <<stage, shiftfiles, settings, CurrentPartition, read>>

\* RVL_Patch of a file whose external file is not there.  Without a length it is
\* missed by File_Stat, with one by RVL_AddFile if that looks for the cluster; the
\* file of the disc has been made by then.  With a length and no clusters nothing
\* misses it until ReadFile cannot open it: that is left out.
PatchMissing(p) ==
  /\ stage = "patching" /\ Len(Patches) < MaxPatches /\ p.external \in Missing
  /\ p.length = 0 \/ Clusters
  /\ fst' = IF Made(p) THEN [n \in DOMAIN fst \cup {p.node} |-> IF n = p.node THEN NodeOf(p) ELSE fst[n]]
                       ELSE fst
  /\ shift' = RoomAfter(p)
  /\ UNCHANGED <<stage, shiftfiles, tables, settings, CurrentPartition, PatchPartition, read>>

\* RVL_Patch of a shift: one file gets another's place.
ShareFile(source, destination) ==
  /\ stage = "patching" /\ {source, destination} \subseteq DOMAIN fst
  /\ fst' = [fst EXCEPT ![destination] = fst[source]]
  /\ UNCHANGED <<stage, shift, shiftfiles, tables, settings, CurrentPartition, PatchPartition, read>>

Launch ==
  /\ stage = "patching" /\ stage' = "game"
  /\ UNCHANGED <<fst, shift, shiftfiles, tables, settings, CurrentPartition, PatchPartition, read>>
-----------------------------------------------------------------------------
(* the game, and the disc module's answers *)

OpenPartition(p) ==
  /\ stage = "game" /\ CurrentPartition' \in {p, NoPartition} /\ read' = NoRead
  /\ UNCHANGED <<launcher, tables, settings, PatchPartition>>

ClosePartition ==
  /\ stage = "game" /\ CurrentPartition' = NoPartition /\ read' = NoRead
  /\ UNCHANGED <<launcher, tables, settings, PatchPartition>>

\* Mutant: a read that begins inside the patch gets the file from its beginning.
PieceFromStart(p, pos, len) ==
  LET offset == p.Offset - pos IN
    IF offset < 0
    THEN [Offset |-> 0, Length |-> Lesser(p.Length + offset, len), FileOffset |-> 0, File |-> p.File]
    ELSE [Offset |-> offset, Length |-> Lesser(p.Length, len - offset), FileOffset |-> 0, File |-> p.File]

\* The part of a read that a patch provides, in the buffer and in the file.
Piece(p, pos, len) ==
  LET offset == p.Offset - pos IN
    IF offset < 0
    THEN [Offset |-> 0, Length |-> Lesser(p.Length + offset, len), FileOffset |-> - offset, File |-> p.File]
    ELSE [Offset |-> offset, Length |-> Lesser(p.Length, len - offset), FileOffset |-> 0, File |-> p.File]

\* The i-th byte of the buffer as ReadFile leaves it, if it reads the byte.
Provides(q, i) ==
  /\ i \in q.Offset..q.Offset + q.Length - 1
  /\ q.FileOffset + i - q.Offset < FileSize[Files[q.File].external]

\* Read with patches and shifts: the last shift found says where the disc is
\* read, and a patch that covers the buffer that it is not.
Composed(pos, len) ==
  LET found == FindPatch(Patches, pos, len)
      pieces == [j \in 1..Len(found) |-> Piece(found[j], pos, len)]
      foundshifts == FindPatch(Shifts, pos, len)
      from == IF foundshifts = << >> THEN pos
              ELSE pos - Last(foundshifts).Offset + Last(foundshifts).OriginalOffset
      covered == \E j \in DOMAIN pieces : pieces[j].Offset = 0 /\ pieces[j].Length = len
      forwarded == found = << >> \/ (~ covered /\ (pos < ShiftBase \/ foundshifts # << >>))
  IN [i \in 1..len |->
        LET last == {j \in DOMAIN pieces :
                       /\ Provides(pieces[j], i - 1)
                       /\ \A k \in j + 1..Len(pieces) : ~ Provides(pieces[k], i - 1)}
        IN IF last # {}
           THEN LET q == pieces[CHOOSE j \in last : TRUE]
                IN <<Files[q.File].external, q.FileOffset + i - 1 - q.Offset>>
           ELSE IF forwarded THEN <<Game, from + i - 1>> ELSE <<Nothing, 0>>]

\* A file that was registered by name cannot be opened by its cluster, nor the
\* other way round: the read fails.
Opens(pos, len) ==
  LET found == FindPatch(Patches, pos, len)
  IN \A j \in DOMAIN found : Files[found[j].File].cluster = Clusters

Buffer(partition, pos, len) ==
  IF partition # PatchPartition THEN [i \in 1..len |-> <<partition, pos + i - 1>>]
  ELSE IF Opens(pos, len) THEN Composed(pos, len)
  ELSE [i \in 1..len |-> <<Nothing, 0>>]

\* The game reads a part of a file in blocks and takes the bytes that are the file's.
Read(n, from, len) ==
  /\ stage = "game" /\ CurrentPartition # NoPartition
  /\ from + len <= RoundUp(fst[n].Size, Block)
  /\ read' = [partition |-> CurrentPartition, node |-> n, from |-> from,
              data |-> SubSeq(Buffer(CurrentPartition, fst[n].DataOffset + from, len),
                              1, Lesser(len, fst[n].Size - from))]
  /\ UNCHANGED <<launcher, tables, settings, CurrentPartition, PatchPartition>>

Froms(n) == {from \in 0..fst[n].Size : from % Word = 0}
Lens(n) == {len \in 1..RoundUp(fst[n].Size, Block) : len % Block = 0}

\* What changes no file.
Steps ==
  \/ SetFST \/ ChooseFilesystem \/ Launch \/ ClosePartition
  \/ \E p \in Partitions : OpenPartition(p)
  \/ \E n \in DOMAIN fst : \E from \in Froms(n), len \in Lens(n) : Read(n, from, len)

Next ==
  \/ Steps
  \/ \E p \in FilePatches : PatchFile(p) \/ PatchMissing(p)
  \/ \E p \in ShiftPatches : ShareFile(p.source, p.destination)

Spec == Init /\ [][Next]_vars
-----------------------------------------------------------------------------
TypeOK ==
  /\ stage \in {"disc", "menu", "patching", "game"}
  /\ OnDisc \subseteq DOMAIN fst /\ DOMAIN fst \subseteq Nodes
  /\ \A n \in DOMAIN fst : fst[n].DataOffset \in Nat /\ fst[n].Size \in Nat
  /\ shift \in Nat /\ shiftfiles \in BOOLEAN /\ ShiftBase \in Nat /\ Clusters \in BOOLEAN
  /\ Len(Patches) = Len(Files) /\ Len(Shifts) <= Len(Patches)
  /\ \A i \in DOMAIN Patches :
       Patches[i].Offset \in Nat /\ Patches[i].Length \in Nat /\ Patches[i].File \in DOMAIN Files
  /\ \A i \in DOMAIN Shifts : Shifts[i].OriginalOffset \in Nat /\ Shifts[i].Length \in Nat
  /\ CurrentPartition \in Partitions \cup {NoPartition}
  /\ PatchPartition \in {Game, NoPartition}

\* The variables have their types, and what reads see of two files never meets,
\* whatever was moved or made: every file has its blocks for itself, unless it
\* shares another's place or is empty.
FilesApart ==
  /\ TypeOK
  /\ \A m, n \in DOMAIN fst :
       \/ fst[m].DataOffset = fst[n].DataOffset
       \/ fst[m].DataOffset + RoundUp(fst[m].Size, Block) <= fst[n].DataOffset
       \/ fst[n].DataOffset + RoundUp(fst[n].Size, Block) <= fst[m].DataOffset
=============================================================================
