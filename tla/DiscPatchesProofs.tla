------------------------- MODULE DiscPatchesProofs --------------------------
(***************************************************************************)
(* Proofs about DiscPatches, for any disc, any external files and patches  *)
(* and any units of size: the files that patches move, make or resize keep *)
(* their blocks for themselves.                                            *)
(***************************************************************************)
EXTENDS DiscPatches, SequenceTheorems, WellFoundedInduction, TLAPS

-----------------------------------------------------------------------------
(* The inductive invariant *)

\* A place where a block begins.
Aligned(x) == \E k \in Nat : x = k * Block

\* Where a file's last block ends.
EndOf(n) == fst[n].DataOffset + RoundUp(fst[n].Size, Block)

Apart ==
  \A m, n \in DOMAIN fst :
    fst[m].DataOffset = fst[n].DataOffset \/ EndOf(m) <= fst[n].DataOffset \/ EndOf(n) <= fst[m].DataOffset

\* The launcher gives out room that begins after the last file.
Room ==
  /\ stage = "disc" => fst = [n \in OnDisc |-> [DataOffset |-> DiscOffset[n], Size |-> DiscSize[n]]]
  /\ stage # "disc" => Aligned(shift) /\ \A n \in DOMAIN fst : EndOf(n) <= shift

Tables ==
  /\ Files \in Seq([external : DOMAIN FileSize, cluster : BOOLEAN])
  /\ Patches \in Seq([Offset : Nat, Length : Nat, File : Nat])
  /\ Shifts \in Seq([Offset : Nat, Length : Nat, OriginalOffset : Nat])

\* Until the game runs its partition is open: patches are about no other.
Playing == stage # "game" => CurrentPartition = Game

IndInv == TypeOK /\ Tables /\ Room /\ Playing /\ Apart
-----------------------------------------------------------------------------
(* Rounding up *)

LEMMA Params ==
  /\ Word \in Nat \ {0} /\ Align \in Nat \ {0} /\ Block \in Nat \ {0} /\ High \in Nat
  /\ \A n \in OnDisc : DiscOffset[n] \in Nat /\ DiscSize[n] \in Nat /\ DiscOffset[n] % Block = 0
  /\ OnDisc \subseteq Nodes /\ OnDisc # {}
BY DiscPatchesAssumption DEF DiscPatchesAssumption

LEMMA Product == ASSUME NEW a \in Nat, NEW b \in Nat PROVE a * b \in Nat
OBVIOUS

LEMMA ProductMonotone == ASSUME NEW a \in Nat, NEW b \in Nat, NEW u \in Nat, a <= b PROVE a * u <= b * u
OBVIOUS

LEMMA ProductOrder ==
  ASSUME NEW a \in Nat, NEW b \in Nat, NEW u \in Nat \ {0}, a * u <= b * u PROVE a <= b
<1>1. b + 1 <= a => (b + 1) * u <= a * u
  BY ProductMonotone
<1>2. (b + 1) * u = b * u + u /\ b * u \in Nat
  OBVIOUS
<1> QED
  BY <1>1, <1>2

LEMMA ProductDifference ==
  ASSUME NEW a \in Nat, NEW b \in Nat, NEW u \in Nat, a <= b
  PROVE  b - a \in Nat /\ (b - a) * u = (b * u) - (a * u)
OBVIOUS

LEMMA Quotient ==
  ASSUME NEW a \in Nat, NEW u \in Nat \ {0}
  PROVE  a \div u \in Nat /\ (a \div u) * u <= a /\ a < ((a \div u) + 1) * u
<1>1. a \div u \in Nat
  OBVIOUS
<1>2. (a \div u) * u <= a
  OBVIOUS
<1>3. a < ((a \div u) + 1) * u
  OBVIOUS
<1> QED
  BY <1>1, <1>2, <1>3

\* Of the multiples of u not below n, RoundUp(n, u) is the least.
LEMMA RoundsUp ==
  ASSUME NEW n \in Nat, NEW u \in Nat \ {0}
  PROVE  /\ \E k \in Nat : RoundUp(n, u) = k * u
         /\ RoundUp(n, u) \in Nat /\ n <= RoundUp(n, u)
         /\ \A k \in Nat : n <= k * u => RoundUp(n, u) <= k * u
<1> DEFINE a == n + u - 1
           q == a \div u
<1>1. a \in Nat
  OBVIOUS
<1>2. q \in Nat /\ q * u <= a /\ a < (q + 1) * u
  BY <1>1, Quotient
<1>3. RoundUp(n, u) = q * u
  BY DEF RoundUp
<1> HIDE DEF q
<1>4. q * u \in Nat /\ (q + 1) * u = q * u + u
  BY <1>2
<1>5. n <= q * u
  BY <1>2, <1>4
<1>6. ASSUME NEW k \in Nat, n <= k * u
      PROVE  q * u <= k * u
  <2>1. k * u \in Nat /\ (k + 1) * u = k * u + u
    OBVIOUS
  <2>2. q * u < (k + 1) * u
    BY <1>2, <1>4, <1>6, <2>1
  <2>3. ~ (k + 1 <= q)
    <3>1. k + 1 <= q => (k + 1) * u <= q * u
      BY <1>2, ProductMonotone
    <3> QED
      BY <1>4, <2>1, <2>2, <3>1
  <2>4. q <= k
    BY <1>2, <2>3
  <2> QED
    BY <1>2, <2>4, ProductMonotone
<1> QED
  BY <1>2, <1>3, <1>4, <1>5, <1>6

LEMMA RoundUpMonotone ==
  ASSUME NEW m \in Nat, NEW n \in Nat, m <= n, NEW u \in Nat \ {0}
  PROVE  RoundUp(m, u) <= RoundUp(n, u)
<1>1. PICK k \in Nat : RoundUp(n, u) = k * u
  BY RoundsUp
<1>2. n <= k * u
  BY <1>1, RoundsUp
<1>3. k * u \in Nat
  OBVIOUS
<1>4. m <= k * u
  BY <1>2, <1>3
<1> QED
  BY <1>1, <1>4, RoundsUp

\* Beyond a place where a block begins, a file whose room is rounded up to Align
\* has its blocks for itself, and a block begins where the room ends.
LEMMA RoomIsEnough ==
  ASSUME NEW x \in Nat, Aligned(x), NEW size \in Nat
  PROVE  /\ Aligned(RoundUp(x + size, Align)) /\ RoundUp(x + size, Align) \in Nat
         /\ x + RoundUp(size, Block) <= RoundUp(x + size, Align)
<1>1. x + size \in Nat /\ Align \in Nat \ {0} /\ Block \in Nat \ {0}
  BY Params
<1>2. PICK a \in Nat : RoundUp(x + size, Align) = a * Align
  BY <1>1, RoundsUp
<1>3. x + size <= a * Align
  BY <1>1, <1>2, RoundsUp
<1>4. PICK b \in Nat : Align = b * Block
  <2>1. Align % Block = 0
    BY DiscPatchesAssumption DEF DiscPatchesAssumption
  <2>2. Align = (Align \div Block) * Block + (Align % Block)
    BY <1>1
  <2>3. Align \div Block \in Nat
    BY <1>1
  <2>4. (Align \div Block) * Block \in Nat
    BY <1>1, <2>3
  <2> QED
    BY <2>1, <2>2, <2>3, <2>4
<1>5. a * Align = (a * b) * Block /\ a * b \in Nat
  BY <1>1, <1>4
<1>6. PICK c \in Nat : x = c * Block
  BY DEF Aligned
<1> DEFINE d == a * b
<1>7. d \in Nat /\ RoundUp(x + size, Align) = d * Block
  BY <1>2, <1>5
<1> HIDE DEF d
<1>8. d * Block \in Nat /\ c * Block \in Nat /\ c * Block + size <= d * Block
  BY <1>1, <1>3, <1>2, <1>6, <1>7
<1>9. c <= d
  <2>1. c * Block <= d * Block
    BY <1>8
  <2> QED
    BY <1>1, <1>7, <2>1, ProductOrder
<1>10. d - c \in Nat /\ (d - c) * Block = (d * Block) - (c * Block)
  <2>1. Block \in Nat
    BY <1>1
  <2> QED
    BY <1>7, <1>9, <2>1, ProductDifference
<1>11. size <= (d - c) * Block
  BY <1>8, <1>10
<1>12. RoundUp(size, Block) <= (d - c) * Block /\ RoundUp(size, Block) \in Nat
  BY <1>1, <1>10, <1>11, RoundsUp
<1>13. x + RoundUp(size, Block) <= d * Block
  BY <1>6, <1>8, <1>10, <1>12
<1> QED
  BY <1>7, <1>8, <1>13 DEF Aligned
-----------------------------------------------------------------------------
(* The launcher's steps *)

LEMMA PatchIs ==
  ASSUME NEW p \in FilePatches
  PROVE  /\ p.node \in Nodes \cup DOMAIN Fixed /\ p.offset \in Nat
         /\ p.length \in Nat /\ p.resize \in BOOLEAN
         /\ p.external \notin Missing => p.external \in DOMAIN FileSize /\ LengthOf(p) \in Nat
<1>1. p \in [node : Nodes \cup DOMAIN Fixed, external : Missing \cup DOMAIN FileSize,
             offset : Nat, length : Nat, resize : BOOLEAN]
  BY DiscPatchesAssumption DEF DiscPatchesAssumption
<1>2. p.external \in DOMAIN FileSize => FileSize[p.external] \in Nat
  BY <1>1, DiscPatchesAssumption DEF DiscPatchesAssumption
<1> QED
  BY <1>1, <1>2 DEF LengthOf

\* The file that is last on the disc.
LEMMA LargestIs ==
  ASSUME stage = "disc", Room
  PROVE  /\ Largest \in OnDisc
         /\ \A m \in OnDisc : DiscOffset[m] <= DiscOffset[Largest]
<1>1. \A n \in OnDisc : fst[n].DataOffset = DiscOffset[n]
  BY DEF Room
<1> DEFINE top == Word * High
           D == {top - DiscOffset[n] : n \in OnDisc}
<1>2. top \in Nat /\ \A n \in OnDisc : DiscOffset[n] \in Nat /\ DiscOffset[n] < top
  BY Params, Product, DiscPatchesAssumption DEF DiscPatchesAssumption
<1> HIDE DEF top
<1>3. D \subseteq Nat /\ D # {}
  <2>1. \A n \in OnDisc : top - DiscOffset[n] \in Nat
    BY <1>2
  <2> QED
    BY <2>1, Params
<1>4. PICK d \in D : \A e \in D : ~ (<<e, d>> \in OpToRel(<, Nat))
  BY <1>3, WFMin, NatLessThanWellFounded
<1>5. PICK k \in OnDisc : d = top - DiscOffset[k]
  BY <1>4
<1>6. \A e \in D : ~ (e < d)
  BY <1>3, <1>4 DEF OpToRel
<1>7. \A m \in OnDisc : DiscOffset[m] <= DiscOffset[k]
  <2> TAKE m \in OnDisc
  <2>1. top - DiscOffset[m] \in D
    OBVIOUS
  <2>2. ~ (top - DiscOffset[m] < top - DiscOffset[k])
    BY <1>5, <1>6, <2>1
  <2> QED
    BY <1>2, <2>2
<1>8. Largest \in OnDisc /\ \A m \in OnDisc : fst[m].DataOffset <= fst[Largest].DataOffset
  BY <1>1, <1>7 DEF Largest
<1> QED
  BY <1>1, <1>8

LEMMA FilesAre ==
  ASSUME TypeOK, NEW n \in DOMAIN fst
  PROVE  /\ fst[n].DataOffset \in Nat /\ fst[n].Size \in Nat
         /\ RoundUp(fst[n].Size, Block) \in Nat /\ EndOf(n) \in Nat
         /\ fst[n].DataOffset <= EndOf(n)
<1>1. fst[n].DataOffset \in Nat /\ fst[n].Size \in Nat
  BY DEF TypeOK
<1>2. RoundUp(fst[n].Size, Block) \in Nat
  BY <1>1, Params, RoundsUp
<1> QED
  BY <1>1, <1>2 DEF EndOf

LEMMA InitKeeps == ASSUME Init PROVE IndInv
<1>1. /\ fst = [n \in OnDisc |-> [DataOffset |-> DiscOffset[n], Size |-> DiscSize[n]]]
      /\ stage = "disc" /\ CurrentPartition = Game /\ PatchPartition = NoPartition
      /\ Files = << >> /\ Patches = << >> /\ Shifts = << >>
      /\ shift = 0 /\ shiftfiles \in BOOLEAN /\ ShiftBase = 2 * High /\ Clusters = FALSE
  BY DEF Init
<1>2. DOMAIN fst = OnDisc
  BY <1>1
<1>3. \A n \in OnDisc : fst[n].DataOffset = DiscOffset[n] /\ fst[n].Size = DiscSize[n]
  BY <1>1
<1>4. TypeOK
  <2>1. Game \in Partitions
    BY DiscPatchesAssumption DEF DiscPatchesAssumption
  <2>2. Len(<< >>) = 0 /\ DOMAIN << >> = {}
    OBVIOUS
  <2>3. OnDisc \subseteq DOMAIN fst /\ DOMAIN fst \subseteq Nodes
    BY <1>2, Params
  <2>4. \A n \in DOMAIN fst : fst[n].DataOffset \in Nat /\ fst[n].Size \in Nat
    BY <1>2, <1>3, Params
  <2>5. ShiftBase \in Nat /\ CurrentPartition \in Partitions
    BY <1>1, <2>1, Params
  <2>6. Len(Patches) = Len(Files) /\ Len(Shifts) <= Len(Patches) /\ DOMAIN Patches = {} /\ DOMAIN Shifts = {}
    <3>1. Len(Files) = 0 /\ Len(Patches) = 0 /\ Len(Shifts) = 0
      BY <1>1, <2>2
    <3> QED
      BY <1>1, <2>2, <3>1
  <2> QED
    BY <1>1, <2>3, <2>4, <2>5, <2>6 DEF TypeOK
<1>5. Tables /\ Room /\ Playing
  BY <1>1 DEF Tables, Room, Playing
<1>6. Apart
  <2> SUFFICES ASSUME NEW m \in OnDisc, NEW n \in OnDisc, m # n
               PROVE  EndOf(m) <= fst[n].DataOffset \/ EndOf(n) <= fst[m].DataOffset
    BY <1>2 DEF Apart
  <2>1. /\ DiscOffset[m] # DiscOffset[n]
        /\ DiscOffset[m] < DiscOffset[n] => DiscOffset[m] + RoundUp(DiscSize[m], Block) <= DiscOffset[n]
        /\ DiscOffset[n] < DiscOffset[m] => DiscOffset[n] + RoundUp(DiscSize[n], Block) <= DiscOffset[m]
    BY DiscAssumption DEF DiscAssumption
  <2>2. DiscOffset[m] \in Nat /\ DiscOffset[n] \in Nat
    BY Params
  <2>3. DiscOffset[m] < DiscOffset[n] \/ DiscOffset[n] < DiscOffset[m]
    BY <2>1, <2>2
  <2> QED
    BY <1>3, <2>1, <2>3 DEF EndOf
<1> QED
  BY <1>4, <1>5, <1>6 DEF IndInv

LEMMA SetFSTKeeps == ASSUME IndInv, SetFST PROVE IndInv'
<1>1. /\ stage = "disc" /\ stage' = "menu"
      /\ shift' = RoundUp(fst[Largest].DataOffset + fst[Largest].Size, Align)
      /\ ShiftBase' = shift' /\ Clusters' \in BOOLEAN
      /\ UNCHANGED <<fst, shiftfiles, Files, Patches, Shifts, CurrentPartition, PatchPartition>>
  BY DEF SetFST, SetShiftBase, tables
<1> DEFINE l == Largest
<1>2. l \in OnDisc /\ \A m \in OnDisc : DiscOffset[m] <= DiscOffset[l]
  BY <1>1, LargestIs DEF IndInv
<1>3. /\ DOMAIN fst = OnDisc
      /\ \A n \in OnDisc : /\ fst[n].DataOffset = DiscOffset[n] /\ fst[n].Size = DiscSize[n]
                            /\ EndOf(n) = DiscOffset[n] + RoundUp(DiscSize[n], Block)
  BY <1>1 DEF IndInv, Room, EndOf
<1>4. shift' = RoundUp(DiscOffset[l] + DiscSize[l], Align)
  BY <1>1, <1>2, <1>3
<1> HIDE DEF l
<1>5. DiscOffset[l] \in Nat /\ DiscSize[l] \in Nat /\ Aligned(DiscOffset[l])
  <2>1. DiscOffset[l] \in Nat /\ DiscSize[l] \in Nat /\ DiscOffset[l] % Block = 0
    BY <1>2, Params
  <2>2. DiscOffset[l] = (DiscOffset[l] \div Block) * Block + (DiscOffset[l] % Block)
    BY <2>1, Params
  <2>3. DiscOffset[l] \div Block \in Nat
    BY <2>1, Params, Quotient
  <2>4. (DiscOffset[l] \div Block) * Block \in Nat
    BY <2>3, Params, Product
  <2> QED
    BY <2>1, <2>2, <2>3, <2>4 DEF Aligned
<1>6. /\ Aligned(shift') /\ shift' \in Nat
      /\ DiscOffset[l] + RoundUp(DiscSize[l], Block) <= shift'
  BY <1>4, <1>5, RoomIsEnough
<1>7. \A n \in OnDisc : EndOf(n) <= shift'
  <2> TAKE n \in OnDisc
  <2>1. CASE n = l
    BY <1>2, <1>3, <1>6, <2>1
  <2>2. CASE n # l
    <3>1. /\ DiscOffset[n] # DiscOffset[l]
          /\ DiscOffset[n] < DiscOffset[l] => DiscOffset[n] + RoundUp(DiscSize[n], Block) <= DiscOffset[l]
      BY <1>2, <2>2, DiscAssumption DEF DiscAssumption
    <3>2. DiscOffset[n] \in Nat /\ DiscOffset[n] <= DiscOffset[l] /\ EndOf(n) \in Nat
      BY <1>2, <1>3, Params, FilesAre DEF IndInv
    <3>3. RoundUp(DiscSize[l], Block) \in Nat
      BY <1>5, Params, RoundsUp
    <3>4. EndOf(n) <= DiscOffset[l]
      BY <1>3, <1>5, <3>1, <3>2
    <3> QED
      BY <1>5, <1>6, <3>2, <3>3, <3>4
  <2> QED
    BY <2>1, <2>2
<1>8. Room'
  BY <1>1, <1>3, <1>6, <1>7 DEF Room, EndOf
<1>9. TypeOK' /\ Tables' /\ Apart' /\ Playing'
  BY <1>1, <1>6 DEF IndInv, TypeOK, Tables, Apart, EndOf, Playing
<1> QED
  BY <1>8, <1>9 DEF IndInv

\* Steps that leave the files where they are.
LEMMA OthersKeep ==
  ASSUME IndInv,
         UNCHANGED <<fst, shift, shiftfiles, Files, Patches, Shifts, ShiftBase, PatchPartition>>,
         Clusters' \in BOOLEAN, stage # "disc",
         CurrentPartition' \in Partitions \cup {NoPartition},
         stage' \in {"menu", "patching", "game"}, stage' # "game" => CurrentPartition' = Game
  PROVE  IndInv'
BY DEF IndInv, TypeOK, Tables, Room, Playing, Apart, EndOf

LEMMA ShareFileKeeps ==
  ASSUME IndInv, NEW source \in Nodes, NEW destination \in Nodes, ShareFile(source, destination)
  PROVE  IndInv'
<1>1. /\ stage = "patching" /\ source \in DOMAIN fst /\ destination \in DOMAIN fst
      /\ fst' = [fst EXCEPT ![destination] = fst[source]]
      /\ UNCHANGED <<stage, shift, shiftfiles, Files, Patches, Shifts, ShiftBase, Clusters,
                     CurrentPartition, PatchPartition>>
  BY DEF ShareFile, tables, settings
<1>2. /\ DOMAIN fst' = DOMAIN fst
      /\ \A n \in DOMAIN fst : fst'[n] = IF n = destination THEN fst[source] ELSE fst[n]
  BY <1>1
<1>3. \A n \in DOMAIN fst : EndOf(n)' = IF n = destination THEN EndOf(source) ELSE EndOf(n)
  BY <1>2 DEF EndOf
<1>4. TypeOK' /\ Tables' /\ Playing'
  BY <1>1, <1>2 DEF IndInv, TypeOK, Tables, Playing
<1>5. Room'
  BY <1>1, <1>2, <1>3 DEF IndInv, Room
<1>6. Apart'
  BY <1>1, <1>2, <1>3 DEF IndInv, Apart
<1> QED
  BY <1>4, <1>5, <1>6 DEF IndInv

LEMMA FixedIs ==
  ASSUME TypeOK, NEW f \in DOMAIN Fixed
  PROVE  Fixed[f] \in Nat /\ Endless \in Nat /\ f \notin Nodes /\ f \notin DOMAIN fst
<1>1. Fixed[f] \in Nat /\ f \notin Nodes /\ High \in Nat \ {0}
  BY DiscPatchesAssumption DEF DiscPatchesAssumption
<1> QED
  BY <1>1 DEF Endless, TypeOK

\* The room that a patch makes for a file that is not there.
LEMMA RoomFits ==
  ASSUME IndInv, stage = "patching", NEW p \in FilePatches
  PROVE  /\ RoomAfter(p) \in Nat /\ Aligned(RoomAfter(p)) /\ shift <= RoomAfter(p)
         /\ Made(p) => shift + RoundUp(p.length, Block) <= RoomAfter(p)
<1>1. shift \in Nat /\ Aligned(shift) /\ p.length \in Nat
  BY PatchIs DEF IndInv, Room, TypeOK
<1>2. CASE ~ Made(p)
  BY <1>1, <1>2 DEF RoomAfter
<1>3. CASE Made(p)
  <2>1. RoomAfter(p) = RoundUp(shift + p.length, Align) /\ shift + p.length \in Nat
    BY <1>1, <1>3 DEF RoomAfter
  <2>2. shift + p.length <= RoomAfter(p)
    BY <2>1, Params, RoundsUp
  <2>3. /\ RoomAfter(p) \in Nat /\ Aligned(RoomAfter(p))
        /\ shift + RoundUp(p.length, Block) <= RoomAfter(p)
    BY <1>1, <2>1, RoomIsEnough
  <2> QED
    BY <1>1, <2>2, <2>3
<1> QED
  BY <1>2, <1>3

\* A patch about a place of the disc leaves the files where they are.
LEMMA FixedStays ==
  ASSUME IndInv, stage = "patching", NEW p \in FilePatches, Sensible(p), p.node \in DOMAIN Fixed
  PROVE  /\ NewNode(p).DataOffset \in Nat /\ NewNode(p).Size \in Nat
         /\ NodeOf(p).DataOffset \in Nat /\ NodeOf(p).Size \in Nat
         /\ ShiftAfter(p) = shift
<1>1. /\ p.offset \in Nat /\ LengthOf(p) \in Nat /\ p.resize \in BOOLEAN /\ ~ Moves(p)
  BY PatchIs DEF Sensible
<1>2. NodeOf(p) = [DataOffset |-> Fixed[p.node], Size |-> Endless] /\ RoomAfter(p) = shift
  BY FixedIs DEF IndInv, NodeOf, RoomAfter, Made
<1>3. NodeOf(p).DataOffset \in Nat /\ NodeOf(p).Size \in Nat
  BY <1>2, FixedIs DEF IndInv
<1>4. NewNode(p).DataOffset \in Nat /\ NewNode(p).Size \in Nat
  BY <1>1, <1>3 DEF NewNode
<1> QED
  BY <1>1, <1>2, <1>3, <1>4 DEF ShiftAfter

\* The room a patch gives its file: beyond all others, or within its own.
LEMMA NewNodeFits ==
  ASSUME IndInv, stage = "patching", NEW p \in FilePatches, p.external \notin Missing, p.node \notin DOMAIN Fixed
  PROVE  /\ NewNode(p).DataOffset \in Nat /\ NewNode(p).Size \in Nat
         /\ NodeOf(p).DataOffset \in Nat /\ NodeOf(p).Size \in Nat
         /\ ShiftAfter(p) \in Nat /\ Aligned(ShiftAfter(p)) /\ shift <= ShiftAfter(p)
         /\ NewNode(p).DataOffset + RoundUp(NewNode(p).Size, Block) <= ShiftAfter(p)
         /\ \/ shift <= NewNode(p).DataOffset
            \/ /\ p.node \in DOMAIN fst /\ NewNode(p).DataOffset = fst[p.node].DataOffset
               /\ RoundUp(NewNode(p).Size, Block) <= RoundUp(fst[p.node].Size, Block)
<1> DEFINE old == NodeOf(p)
           new == NewNode(p)
           room == RoomAfter(p)
<1>1. TypeOK /\ shift \in Nat /\ Aligned(shift) /\ \A n \in DOMAIN fst : EndOf(n) <= shift
  BY DEF IndInv, Room, TypeOK
<1>2. p.offset \in Nat /\ p.length \in Nat /\ LengthOf(p) \in Nat /\ p.resize \in BOOLEAN
  BY PatchIs
<1>3. old.DataOffset \in Nat /\ old.Size \in Nat
  <2>1. old = IF p.node \in DOMAIN fst THEN fst[p.node] ELSE [DataOffset |-> shift, Size |-> p.length]
    BY DEF NodeOf
  <2> QED
    BY <1>1, <1>2, <2>1, FilesAre
<1>4. new.Size \in Nat /\ (~ Moves(p) => new.Size <= old.Size)
  BY <1>2, <1>3 DEF NewNode, Moves, Grows
<1>5. room \in Nat /\ Aligned(room) /\ shift <= room
  BY RoomFits
<1>6. CASE Moves(p)
  <2>1. new.DataOffset = room /\ ShiftAfter(p) = RoundUp(room + new.Size, Align)
    BY <1>6 DEF NewNode, ShiftAfter
  <2>2. /\ Aligned(ShiftAfter(p)) /\ ShiftAfter(p) \in Nat
        /\ room + RoundUp(new.Size, Block) <= ShiftAfter(p)
    BY <1>4, <1>5, <2>1, RoomIsEnough
  <2>3. RoundUp(new.Size, Block) \in Nat
    BY <1>4, Params, RoundsUp
  <2>4. shift <= ShiftAfter(p)
    BY <1>1, <1>5, <2>2, <2>3
  <2> QED
    BY <1>3, <1>4, <1>5, <2>1, <2>2, <2>4
<1>7. CASE ~ Moves(p)
  <2>1. new.DataOffset = old.DataOffset /\ ShiftAfter(p) = room
    BY <1>7 DEF NewNode, ShiftAfter
  <2>2. RoundUp(new.Size, Block) <= RoundUp(old.Size, Block)
    BY <1>3, <1>4, <1>7, Params, RoundUpMonotone
  <2>3. RoundUp(new.Size, Block) \in Nat /\ RoundUp(old.Size, Block) \in Nat
    BY <1>3, <1>4, Params, RoundsUp
  <2>4. CASE p.node \in DOMAIN fst
    <3>1. old = fst[p.node] /\ room = shift
      BY <2>4 DEF NodeOf, RoomAfter, Made
    <3>2. old.DataOffset + RoundUp(old.Size, Block) <= shift
      BY <1>1, <2>4, <3>1 DEF EndOf
    <3>3. old.DataOffset + RoundUp(new.Size, Block) <= shift
      BY <1>1, <1>3, <2>2, <2>3, <3>2
    <3> QED
      BY <1>1, <1>3, <1>4, <2>1, <2>2, <2>4, <3>1, <3>3
  <2>5. CASE p.node \notin DOMAIN fst
    <3>1. old.DataOffset = shift /\ old.Size = p.length /\ Made(p)
      BY <2>5 DEF NodeOf, Made
    <3>2. shift + RoundUp(old.Size, Block) <= room
      BY <3>1, RoomFits
    <3>3. shift + RoundUp(new.Size, Block) <= room
      BY <1>1, <1>5, <2>2, <2>3, <3>2
    <3> QED
      BY <1>1, <1>3, <1>4, <1>5, <2>1, <3>1, <3>3
  <2> QED
    BY <2>4, <2>5
<1> QED
  BY <1>6, <1>7

\* The places of the files once one of them has been patched or made.
LEMMA PlacesKeep ==
  ASSUME IndInv, stage = "patching", UNCHANGED stage,
         NEW node \in Nodes, NEW new, new.DataOffset \in Nat, new.Size \in Nat,
         fst' = [n \in DOMAIN fst \cup {node} |-> IF n = node THEN new ELSE fst[n]],
         shift' \in Nat, Aligned(shift'), shift <= shift',
         new.DataOffset + RoundUp(new.Size, Block) <= shift',
         \/ shift <= new.DataOffset
         \/ /\ node \in DOMAIN fst /\ new.DataOffset = fst[node].DataOffset
            /\ RoundUp(new.Size, Block) <= RoundUp(fst[node].Size, Block)
  PROVE  /\ Room' /\ Apart'
         /\ OnDisc \subseteq DOMAIN fst' /\ DOMAIN fst' \subseteq Nodes
         /\ \A n \in DOMAIN fst' : fst'[n].DataOffset \in Nat /\ fst'[n].Size \in Nat
<1>1. TypeOK /\ shift \in Nat
  BY DEF IndInv, TypeOK
<1>2. /\ DOMAIN fst' = DOMAIN fst \cup {node}
      /\ \A n \in DOMAIN fst \cup {node} : fst'[n] = IF n = node THEN new ELSE fst[n]
  OBVIOUS
<1>3. /\ OnDisc \subseteq DOMAIN fst' /\ DOMAIN fst' \subseteq Nodes
      /\ \A n \in DOMAIN fst' : fst'[n].DataOffset \in Nat /\ fst'[n].Size \in Nat
  BY <1>1, <1>2 DEF TypeOK
<1> DEFINE end == new.DataOffset + RoundUp(new.Size, Block)
<1>4. \A n \in DOMAIN fst' : EndOf(n)' = IF n = node THEN end ELSE EndOf(n)
  BY <1>2 DEF EndOf
<1>5. /\ shift \in Nat
       /\ \A n \in DOMAIN fst : EndOf(n) <= shift /\ EndOf(n) \in Nat /\ fst[n].DataOffset \in Nat
  BY <1>1, FilesAre DEF IndInv, Room
<1>6. Room'
  <2> SUFFICES ASSUME NEW n \in DOMAIN fst' PROVE EndOf(n)' <= shift'
    BY DEF Room
  <2>1. CASE n = node
    BY <1>4, <2>1
  <2>2. CASE n # node
    <3>1. EndOf(n)' = EndOf(n) /\ n \in DOMAIN fst
      BY <1>2, <1>4, <2>2
    <3> QED
      BY <1>5, <3>1
  <2> QED
    BY <2>1, <2>2
<1>7. ASSUME NEW n \in DOMAIN fst, n # node
       PROVE  \/ new.DataOffset = fst[n].DataOffset
              \/ end <= fst[n].DataOffset
              \/ EndOf(n) <= new.DataOffset
  <2>1. CASE shift <= new.DataOffset
    <3>1. EndOf(n) <= shift /\ EndOf(n) \in Nat
      BY <1>5
    <3> QED
      BY <1>5, <2>1, <3>1
  <2>2. CASE /\ node \in DOMAIN fst /\ new.DataOffset = fst[node].DataOffset
             /\ RoundUp(new.Size, Block) <= RoundUp(fst[node].Size, Block)
    <3>1. \/ fst[node].DataOffset = fst[n].DataOffset
          \/ EndOf(node) <= fst[n].DataOffset
          \/ EndOf(n) <= fst[node].DataOffset
      BY <2>2 DEF IndInv, Apart
    <3>2. end <= EndOf(node) /\ end \in Nat /\ EndOf(node) \in Nat
      <4>1. RoundUp(new.Size, Block) \in Nat /\ RoundUp(fst[node].Size, Block) \in Nat
        BY <1>1, <2>2, FilesAre, Params, RoundsUp
      <4>2. EndOf(node) = new.DataOffset + RoundUp(fst[node].Size, Block)
        BY <2>2 DEF EndOf
      <4> QED
        BY <2>2, <4>1, <4>2
    <3>3. fst[n].DataOffset \in Nat
      BY <1>5
    <3> QED
      BY <2>2, <3>1, <3>2, <3>3
  <2> QED
    BY <2>1, <2>2
<1> HIDE DEF end
<1>8. Apart'
  <2> SUFFICES ASSUME NEW m \in DOMAIN fst', NEW n \in DOMAIN fst'
               PROVE  \/ fst'[m].DataOffset = fst'[n].DataOffset
                      \/ EndOf(m)' <= fst'[n].DataOffset
                      \/ EndOf(n)' <= fst'[m].DataOffset
    BY DEF Apart
  <2>1. CASE m = n
    BY <2>1
  <2>2. CASE m = node /\ n # node
    <3>1. n \in DOMAIN fst /\ fst'[m] = new /\ fst'[n] = fst[n] /\ EndOf(m)' = end /\ EndOf(n)' = EndOf(n)
      BY <1>2, <1>4, <2>2
    <3> QED
      BY <1>7, <2>2, <3>1
  <2>3. CASE m # node /\ n = node
    <3>1. m \in DOMAIN fst /\ fst'[n] = new /\ fst'[m] = fst[m] /\ EndOf(n)' = end /\ EndOf(m)' = EndOf(m)
      BY <1>2, <1>4, <2>3
    <3> QED
      BY <1>7, <2>3, <3>1
  <2>4. CASE m # node /\ n # node
    BY <1>2, <1>4, <2>4 DEF IndInv, Apart
  <2> QED
    BY <2>1, <2>2, <2>3, <2>4
<1> QED
  BY <1>3, <1>6, <1>8

LEMMA PatchFileKeeps == ASSUME IndInv, NEW p \in FilePatches, PatchFile(p) PROVE IndInv'
<1> DEFINE new == NewNode(p)
           file == [external |-> p.external, cluster |-> Clusters]
           part == [Offset |-> InWords(new.DataOffset + p.offset), Length |-> LengthOf(p), File |-> Len(Files')]
           moved == [Offset |-> new.DataOffset, Length |-> NodeOf(p).Size,
                     OriginalOffset |-> NodeOf(p).DataOffset]
<1>1. /\ stage = "patching" /\ shift' = ShiftAfter(p)
      /\ fst' = [n \in DOMAIN fst \cup ({p.node} \ DOMAIN Fixed) |-> IF n = p.node THEN new ELSE fst[n]]
      /\ Sensible(p) /\ p.external \notin Missing
      /\ Files' = Append(Files, file) /\ Patches' = Append(Patches, part)
      /\ Shifts' = Append(Shifts, moved) \/ Shifts' = Shifts
      /\ PatchPartition' = CurrentPartition
      /\ UNCHANGED <<stage, shiftfiles, ShiftBase, Clusters, CurrentPartition>>
  BY DEF PatchFile, Sensible, settings
<1>2. /\ new.DataOffset \in Nat /\ new.Size \in Nat
      /\ NodeOf(p).DataOffset \in Nat /\ NodeOf(p).Size \in Nat
  BY <1>1, NewNodeFits, FixedStays
<1>3. /\ p.external \in DOMAIN FileSize /\ p.offset \in Nat /\ LengthOf(p) \in Nat
      /\ p.node \in Nodes \cup DOMAIN Fixed
  BY <1>1, PatchIs
<1>4. TypeOK /\ Tables /\ Clusters \in BOOLEAN /\ CurrentPartition = Game
  BY <1>1 DEF IndInv, TypeOK, Playing
<1> HIDE DEF new
<1>5. file \in [external : DOMAIN FileSize, cluster : BOOLEAN]
  BY <1>3, <1>4
<1>6. /\ Files' \in Seq([external : DOMAIN FileSize, cluster : BOOLEAN])
      /\ Len(Files) \in Nat /\ Len(Files') = Len(Files) + 1
      /\ DOMAIN Files = 1..Len(Files) /\ DOMAIN Files' = 1..Len(Files')
  BY <1>1, <1>4, <1>5, AppendProperties, LenProperties DEF Tables
<1>7. part \in [Offset : Nat, Length : Nat, File : Nat]
  <2>1. new.DataOffset + p.offset \in Nat /\ Word \in Nat \ {0}
    BY <1>2, <1>3, Params
  <2>2. InWords(new.DataOffset + p.offset) \in Nat
    <3>1. (new.DataOffset + p.offset) \div Word \in Nat
      BY <2>1, Quotient
    <3> QED
      BY <2>1, <3>1, Product DEF InWords
  <2>3. Len(Files') \in Nat
    BY <1>6
  <2> QED
    BY <1>3, <2>2, <2>3
<1>8. moved \in [Offset : Nat, Length : Nat, OriginalOffset : Nat]
  BY <1>2
<1>9. part.File = Len(Files')
  OBVIOUS
<1> HIDE DEF file, part, moved
<1>10. /\ Patches' \in Seq([Offset : Nat, Length : Nat, File : Nat])
       /\ Len(Patches) \in Nat /\ Len(Patches') = Len(Patches) + 1 /\ Patches'[Len(Patches) + 1] = part
       /\ \A i \in 1..Len(Patches) : Patches'[i] = Patches[i]
       /\ DOMAIN Patches = 1..Len(Patches) /\ DOMAIN Patches' = 1..Len(Patches')
  BY <1>1, <1>4, <1>7, AppendProperties, LenProperties DEF Tables
<1>11. /\ Shifts' \in Seq([Offset : Nat, Length : Nat, OriginalOffset : Nat])
       /\ Len(Shifts) \in Nat /\ (Len(Shifts') = Len(Shifts) + 1 \/ Len(Shifts') = Len(Shifts))
       /\ DOMAIN Shifts' = 1..Len(Shifts')
  <2> DEFINE S == [Offset : Nat, Length : Nat, OriginalOffset : Nat]
  <2>1. Shifts \in Seq(S) /\ moved \in S
    BY <1>4, <1>8 DEF Tables
  <2> HIDE DEF S
  <2>2. /\ Append(Shifts, moved) \in Seq(S) /\ Len(Append(Shifts, moved)) = Len(Shifts) + 1
        /\ Len(Shifts) \in Nat
    BY <2>1, AppendProperties, LenProperties
  <2>3. Shifts' \in Seq(S)
    BY <1>1, <2>1, <2>2
  <2>4. DOMAIN Shifts' = 1..Len(Shifts')
    BY <2>3, LenProperties
  <2> QED
    BY <1>1, <2>2, <2>3, <2>4 DEF S
<1>12. /\ Room' /\ Apart' /\ shift' \in Nat
       /\ OnDisc \subseteq DOMAIN fst' /\ DOMAIN fst' \subseteq Nodes
       /\ \A n \in DOMAIN fst' : fst'[n].DataOffset \in Nat /\ fst'[n].Size \in Nat
  <2>1. CASE p.node \in DOMAIN Fixed
    <3>1. shift' = shift
      BY <1>1, <2>1, FixedStays
    <3>2. p.node \notin DOMAIN fst
      BY <1>4, <2>1, FixedIs
    <3>3. fst' = [n \in DOMAIN fst |-> fst[n]]
      BY <1>1, <2>1, <3>2
    <3>4. /\ DOMAIN fst' = DOMAIN fst
          /\ \A n \in DOMAIN fst : fst'[n] = fst[n] /\ EndOf(n)' = EndOf(n)
      BY <3>3 DEF EndOf
    <3>5. Room' /\ Apart'
      BY <1>1, <3>1, <3>4 DEF IndInv, Room, Apart, Aligned
    <3> QED
      BY <1>4, <3>1, <3>4, <3>5 DEF TypeOK
  <2>2. CASE p.node \notin DOMAIN Fixed
    <3>1. fst' = [n \in DOMAIN fst \cup {p.node} |-> IF n = p.node THEN new ELSE fst[n]]
      BY <1>1, <2>2
    <3>2. /\ shift' \in Nat /\ Aligned(shift') /\ shift <= shift'
          /\ new.DataOffset + RoundUp(new.Size, Block) <= shift'
          /\ \/ shift <= new.DataOffset
             \/ /\ p.node \in DOMAIN fst /\ new.DataOffset = fst[p.node].DataOffset
                /\ RoundUp(new.Size, Block) <= RoundUp(fst[p.node].Size, Block)
      BY <1>1, <2>2, NewNodeFits DEF new
    <3>3. p.node \in Nodes
      BY <1>3, <2>2
    <3> QED
      BY <1>1, <1>2, <3>1, <3>2, <3>3, PlacesKeep
  <2> QED
    BY <2>1, <2>2
<1>13. TypeOK'
  <2>2. \A i \in DOMAIN Patches' : Patches'[i] \in [Offset : Nat, Length : Nat, File : Nat]
    BY <1>10, ElementOfSeq
  <2>3. \A i \in DOMAIN Shifts' : Shifts'[i] \in [Offset : Nat, Length : Nat, OriginalOffset : Nat]
    BY <1>11, ElementOfSeq
  <2>4. \A i \in DOMAIN Patches' : Patches'[i].File \in DOMAIN Files'
    <3> TAKE i \in DOMAIN Patches'
    <3>1. CASE i \in 1..Len(Patches)
      <4>1. Patches[i].File \in 1..Len(Files)
        BY <1>4, <1>6, <1>10, <3>1 DEF TypeOK
      <4>2. Patches[i].File \in 1..Len(Files')
        BY <1>6, <4>1
      <4> QED
        BY <1>6, <1>10, <3>1, <4>2
    <3>2. CASE i = Len(Patches) + 1
      <4>1. Len(Files') \in 1..Len(Files')
        BY <1>6
      <4> QED
        BY <1>6, <1>9, <1>10, <3>2, <4>1
    <3>3. i \in 1..Len(Patches) \/ i = Len(Patches) + 1
      BY <1>10
    <3> QED
      BY <3>1, <3>2, <3>3
  <2>5. Len(Patches') = Len(Files') /\ Len(Shifts') <= Len(Patches')
    <3>1. Len(Patches) = Len(Files) /\ Len(Shifts) <= Len(Patches)
      BY <1>4 DEF TypeOK
    <3>2. Len(Patches') = Len(Files')
      BY <1>6, <1>10, <3>1
    <3>3. \A a, b \in Nat : a <= b => a <= b + 1 /\ a + 1 <= b + 1
      OBVIOUS
    <3>4. Len(Shifts') <= Len(Patches) + 1
      BY <1>10, <1>11, <3>1, <3>3
    <3> QED
      BY <1>10, <3>2, <3>4
  <2> QED
    BY <1>1, <1>4, <1>12, <2>2, <2>3, <2>4, <2>5 DEF TypeOK
<1>14. Tables' /\ Playing'
  BY <1>1, <1>4, <1>6, <1>10, <1>11 DEF Tables, Playing
<1> QED
  BY <1>12, <1>13, <1>14 DEF IndInv

\* A file made for an external file that is missing has room of its own as well.
LEMMA PatchMissingKeeps == ASSUME IndInv, NEW p \in FilePatches, PatchMissing(p) PROVE IndInv'
<1>1. /\ stage = "patching" /\ shift' = RoomAfter(p)
      /\ UNCHANGED <<stage, shiftfiles, Files, Patches, Shifts, ShiftBase, Clusters, CurrentPartition, PatchPartition>>
  BY DEF PatchMissing, tables, settings
<1>2. TypeOK /\ shift \in Nat /\ Playing /\ Tables
  BY DEF IndInv, TypeOK
<1>3. CASE ~ Made(p)
  <2>1. fst' = fst /\ shift' = shift
    BY <1>1, <1>3 DEF PatchMissing, RoomAfter
  <2> QED
    BY <1>1, <2>1 DEF IndInv, TypeOK, Tables, Room, Playing, Apart, EndOf
<1>4. CASE Made(p)
  <2> DEFINE new == [DataOffset |-> shift, Size |-> p.length]
  <2>1. p.node \in Nodes /\ p.length \in Nat /\ NodeOf(p) = new
    BY <1>4, PatchIs DEF Made, NodeOf
  <2>2. fst' = [n \in DOMAIN fst \cup {p.node} |-> IF n = p.node THEN new ELSE fst[n]]
    BY <1>4, <2>1 DEF PatchMissing
  <2>3. /\ shift' \in Nat /\ Aligned(shift') /\ shift <= shift'
        /\ shift + RoundUp(p.length, Block) <= shift'
    BY <1>1, <1>4, RoomFits
  <2>4. new.DataOffset = shift /\ new.Size = p.length
    OBVIOUS
  <2> HIDE DEF new
  <2>5. /\ Room' /\ Apart'
        /\ OnDisc \subseteq DOMAIN fst' /\ DOMAIN fst' \subseteq Nodes
        /\ \A n \in DOMAIN fst' : fst'[n].DataOffset \in Nat /\ fst'[n].Size \in Nat
    BY <1>1, <1>2, <2>1, <2>2, <2>3, <2>4, PlacesKeep
  <2>6. TypeOK' /\ Tables' /\ Playing'
    BY <1>1, <1>2, <2>3, <2>5 DEF TypeOK, Tables, Playing
  <2> QED
    BY <2>5, <2>6 DEF IndInv
<1> QED
  BY <1>3, <1>4
-----------------------------------------------------------------------------
(* The game's steps, and the theorems *)

LEMMA StepsKeep == ASSUME IndInv, Steps PROVE IndInv'
<1>1. Clusters \in BOOLEAN /\ CurrentPartition \in Partitions \cup {NoPartition}
  BY DEF IndInv, TypeOK
<1>2. CASE SetFST
  BY <1>2, SetFSTKeeps
<1>3. CASE ChooseFilesystem
  BY <1>1, <1>3, OthersKeep DEF ChooseFilesystem, tables, IndInv, Playing
<1>4. CASE Launch
  BY <1>1, <1>4, OthersKeep DEF Launch, tables, settings
<1>5. CASE ClosePartition
  BY <1>1, <1>5, OthersKeep DEF ClosePartition, launcher, tables, settings
<1>6. ASSUME NEW p \in Partitions, OpenPartition(p)
      PROVE  IndInv'
  BY <1>1, <1>6, OthersKeep DEF OpenPartition, launcher, tables, settings
<1>7. ASSUME NEW n \in DOMAIN fst, NEW from \in Froms(n), NEW len \in Lens(n), Read(n, from, len)
      PROVE  IndInv'
  BY <1>1, <1>7, OthersKeep DEF Read, launcher, tables, settings
<1> QED
  BY <1>2, <1>3, <1>4, <1>5, <1>6, <1>7 DEF Steps

LEMMA ShiftPatchIs == ASSUME NEW p \in ShiftPatches PROVE p.source \in Nodes /\ p.destination \in Nodes
BY DiscPatchesAssumption DEF DiscPatchesAssumption

LEMMA NextKeeps == ASSUME IndInv, [Next]_vars PROVE IndInv'
<1>1. CASE UNCHANGED vars
  BY <1>1 DEF vars, launcher, tables, settings, IndInv, TypeOK, Tables, Room, Playing, Apart, EndOf
<1> QED
  BY <1>1, StepsKeep, PatchFileKeeps, PatchMissingKeeps, ShareFileKeeps, ShiftPatchIs DEF Next

\* The files' places, the tables and the room beyond the disc fit together.
THEOREM Inductive == Spec => []IndInv
<1>1. Init => IndInv
  BY InitKeeps
<1>2. IndInv /\ [Next]_vars => IndInv'
  BY NextKeeps
<1> QED
  BY <1>1, <1>2, PTL DEF Spec

\* FilesApart: RVL_GetShiftOffset gives every file that RVL_Patch moves or makes
\* room of its own, so that whole blocks of two files never meet.
THEOREM FilesStayApart == Spec => []FilesApart
<1>1. IndInv => FilesApart
  BY DEF IndInv, Apart, EndOf, FilesApart
<1> QED
  BY <1>1, Inductive, PTL
=============================================================================
