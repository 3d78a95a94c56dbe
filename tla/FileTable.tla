----------------------------- MODULE FileTable -----------------------------
(***************************************************************************)
(* The launcher's copy of the disc's file table (riivolution.cpp): an      *)
(* array of nodes in which a directory is followed by what it holds and    *)
(* says where that ends, then the names, one after the other.  The patches *)
(* put nodes into the middle of it, which moves the nodes and the names    *)
(* behind them, and make it grow.                                          *)
(*                                                                         *)
(* Sizes and places of files are counted in the 0x40 bytes that            *)
(* RVL_GetShiftOffset rounds up to.  Names stand for all their spellings   *)
(* in small and capital letters.                                           *)
(***************************************************************************)
EXTENDS Integers, Sequences, SequencesExt

CONSTANTS
  Paths,        \* what patches name: sequences of names, which are sequences of characters
  Sizes,        \* of the files that patches make, and make of others
  FirstTables,  \* the discs' tables
  NodeSize,     \* sizeof(DiscNode)
  Block,        \* what a table that grows is rounded up to
  MaxNodes,     \* bound: nodes in a table
  MaxShift      \* bound: room taken

FileTableAssumption ==
  /\ NodeSize \in Nat \ {0} /\ Block \in Nat \ {0}
  /\ Sizes \subseteq Nat /\ MaxNodes \in Nat /\ MaxShift \in Nat
ASSUME FileTableAssumption

NUL == 0
None == -1
File == 0
Directory == 1

VARIABLES
  table,   \* fst, the names behind it, and shift, the room taken so far
  tree     \* what the table spells to the game that reads it

vars == <<table, tree>>
-----------------------------------------------------------------------------
Least(S) == CHOOSE i \in S : \A j \in S : i <= j
RoundUp(n, unit) == ((n + unit - 1) \div unit) * unit

\* The number of nodes is the root's Size.
Count(t) == t.fst[0].Size

NameAt(t, i) ==
  LET from == t.fst[i].NameOffset + 1
      end == CHOOSE j \in from..Len(t.names) + 1 :
               /\ j > Len(t.names) \/ t.names[j] = NUL
               /\ \A k \in from..j - 1 : t.names[k] # NUL
  IN SubSeq(t.names, from, end - 1)

\* The directories that a node lies in, by GetParent from one to the next
Parents(t, i) == {d \in DOMAIN t.fst : d < i /\ t.fst[d].Type = Directory /\ t.fst[d].Size > i}

\* What a walk over a directory visits: of the directories in it, the node alone
Children(t, root) ==
  {i \in DOMAIN t.fst :
     /\ root < i /\ i < t.fst[root].Size
     /\ ~ \E d \in root + 1..i - 1 : t.fst[d].Type = Directory /\ t.fst[d].Size > i}

FindIn(t, root, name) ==
  LET hits == {i \in Children(t, root) : NameAt(t, i) = name}
  IN IF hits = {} THEN None ELSE Least(hits)

\* RVL_FindNode of a path that begins with a slash
FindNode(t, path) ==
  FoldLeft(LAMBDA root, name : IF root = None THEN None ELSE FindIn(t, root, name), 0, path)

\* strcasecmp(name, other) < 0
Before(name, other) ==
  \E k \in 0..Len(name) :
    /\ k < Len(other) /\ SubSeq(name, 1, k) = SubSeq(other, 1, k)
    /\ k = Len(name) \/ name[k + 1] < other[k + 1]

\* Mutant: a new node goes behind the others.
PlaceLast(t, root, name) == t.fst[root].Size

\* A new node goes in front of the first whose name is not smaller.
Place(t, root, name) ==
  Least({i \in Children(t, root) : ~ Before(NameAt(t, i), name)} \cup {t.fst[root].Size})

\* The names without what is behind the last one's zero
Trimmed(names) ==
  SubSeq(names, 1, Len(names) + 1 - Least({k \in 0..Len(names) - 1 : names[Len(names) - k] # NUL}))

\* Mutant: the directories behind the new node end where they did.
ShiftedNot(node) == node

\* Mutant: the sizes of files are taken for ends of directories.
ShiftedAll(node) == [node EXCEPT !.Size = @ + 1]

\* A node behind the new one
Shifted(node) == IF node.Type = Directory THEN [node EXCEPT !.Size = @ + 1] ELSE node

\* The nodes with one put in under a directory
Inserted(t, root, at, node) ==
  [i \in 0..Count(t) |->
     IF i = at THEN node
     ELSE IF i > at THEN Shifted(t.fst[i - 1])
     ELSE IF i \in Parents(t, root) \cup {root} THEN [t.fst[i] EXCEPT !.Size = @ + 1]
     ELSE t.fst[i]]

\* RVL_CreateFileNode: its name goes behind the others, and without room for it
\* all goes to new memory, which is zero otherwise.
CreateFileNode(t, root, name, size, fails) ==
  LET text == Trimmed(t.names) \o name \o <<NUL>>
      oldfstsize == NodeSize * Count(t) + Len(t.names)
      needed == NodeSize * (Count(t) + 1) + Len(text)
      newfstsize == IF needed > oldfstsize THEN RoundUp(needed, Block) ELSE oldfstsize
      at == Place(t, root, name)
      node == [Type |-> File, NameOffset |-> Len(Trimmed(t.names)), DataOffset |-> t.shift, Size |-> size]
  IN IF needed > oldfstsize /\ fails
     THEN [t EXCEPT !.names = Trimmed(@), !.node = None]
     ELSE [fst |-> Inserted(t, root, at, node),
           names |-> [j \in 1..newfstsize - NodeSize * (Count(t) + 1) |->
                        IF j <= Len(text) THEN text[j] ELSE NUL],
           shift |-> t.shift + size,
           node |-> at]

\* Mutant: the new directory ends at itself.
CreateDirectoryNodeShort(t, root, name, fails) ==
  LET made == CreateFileNode(t, root, name, 0, fails)
  IN IF made.node = None THEN made
     ELSE [made EXCEPT !.fst[made.node].Type = Directory,
                       !.fst[made.node].DataOffset = made.fst[root].DataOffset + 1,
                       !.fst[made.node].Size = made.node]

\* RVL_CreateDirectoryNode: a node of size zero, made an empty directory
CreateDirectoryNode(t, root, name, fails) ==
  LET made == CreateFileNode(t, root, name, 0, fails)
  IN IF made.node = None THEN made
     ELSE [made EXCEPT !.fst[made.node].Type = Directory,
                       !.fst[made.node].DataOffset = made.fst[root].DataOffset + 1,
                       !.fst[made.node].Size = made.node + 1]

\* RVL_CreateNode: the directories on the way are found or made; the k-th
\* node's memory may be missing.
CreateNode(t, path, length, failing) ==
  LET reached[k \in 0..Len(path) - 1] ==
        IF k = 0 THEN [t EXCEPT !.node = 0]
        ELSE LET s == reached[k - 1]
                 found == IF s.node = None THEN None ELSE FindIn(s, s.node, path[k])
             IN IF s.node = None THEN s
                ELSE IF found # None THEN [s EXCEPT !.node = found]
                ELSE CreateDirectoryNode(s, s.node, path[k], k = failing)
      parent == reached[Len(path) - 1]
  IN IF parent.node = None THEN parent
     ELSE CreateFileNode(parent, parent.node, path[Len(path)], length, Len(path) = failing)
-----------------------------------------------------------------------------
IsFile(i) == i # None /\ table.fst[i].Type = File

\* RVL_Patch of a file that is not on the disc; no part of its path but the last
\* names a file.
CreateFile(path, length) ==
  /\ FindNode(table, path) = None
  /\ \A k \in 1..Len(path) - 1 : ~ IsFile(FindNode(table, SubSeq(path, 1, k)))
  /\ Count(table) + Len(path) <= MaxNodes /\ table.shift + length <= MaxShift
  /\ \E failing \in 1..Len(path) + 1 :
       table' = [CreateNode(table, path, length, failing) EXCEPT !.node = None]

\* RVL_Patch of a file that is: a directory is left alone, a file that grows moves.
ResizeFile(path, length) ==
  LET i == FindNode(table, path) IN
    /\ IsFile(i) /\ table.shift + length <= MaxShift
    /\ IF length > table.fst[i].Size
       THEN table' = [table EXCEPT !.fst[i].Size = length, !.fst[i].DataOffset = table.shift,
                                   !.shift = @ + length]
       ELSE table' = [table EXCEPT !.fst[i].Size = length]

\* RVL_Patch of a shift: one file is put where another is.
ShareFile(source, destination) ==
  LET from == FindNode(table, source)
      to == FindNode(table, destination)
  IN /\ IsFile(from) /\ IsFile(to)
     /\ table' = [table EXCEPT !.fst[to].DataOffset = table.fst[from].DataOffset,
                               !.fst[to].Size = table.fst[from].Size]

\* The game follows a path by the directories around a node.
PathOf(t, i) ==
  LET way == SetToSortSeq((Parents(t, i) \ {0}) \cup {i}, <)
  IN [k \in DOMAIN way |-> NameAt(t, way[k])]

Spelled(t) ==
  LET nodes == DOMAIN t.fst \ {0}
      paths == [i \in nodes |-> PathOf(t, i)]
      Entry(node) == IF node.Type = Directory THEN [dir |-> TRUE, place |-> 0, size |-> 0]
                     ELSE [dir |-> FALSE, place |-> node.DataOffset, size |-> node.Size]
  IN [path \in {paths[i] : i \in nodes} |-> Entry(t.fst[Least({i \in nodes : paths[i] = path})])]

\* SetFST: the disc's table, with room behind the file that lies last
Init == table \in FirstTables /\ tree = Spelled(table)

Next ==
  /\ \E path \in Paths :
       \/ \E length \in Sizes : CreateFile(path, length) \/ ResizeFile(path, length)
       \/ \E source \in Paths \ {path} : ShareFile(source, path)
  /\ tree' = Spelled(table')

Spec == Init /\ [][Next]_vars
-----------------------------------------------------------------------------
Nodes == DOMAIN table.fst \ {0}

Node == [Type : {File, Directory}, NameOffset : Nat, DataOffset : Nat, Size : Nat]

\* The root counts the nodes, and the names lie in the table.
TypeOK ==
  /\ table.fst \in [0..Count(table) - 1 -> Node]
  /\ table.names # << >> /\ table.names[Len(table.names)] = NUL
  /\ \A i \in Nodes : table.fst[i].NameOffset < Len(table.names)
  /\ table.shift \in 0..MaxShift /\ table.node = None

\* The table has its shape, and a directory ends behind itself, and no later than
\* those it lies in, however many nodes have been put before, into and behind it.
WellNested ==
  /\ TypeOK
  /\ \A d \in DOMAIN table.fst : table.fst[d].Type = Directory =>
       /\ table.fst[d].Size > d
       /\ \A e \in Parents(table, d) : table.fst[d].Size <= table.fst[e].Size

\* Every node is found by its path: none hides another, none has lost its name,
\* and none is passed over by the walks.
EveryNodeIsFound == \A i \in Nodes : FindNode(table, PathOf(table, i)) = i

\* riivolution.cpp:295, "Place the new node alphabetically within the parent":
\* a directory that was in order stays so.
SiblingsSorted ==
  \A root \in DOMAIN table.fst : table.fst[root].Type = Directory =>
    \A i, j \in Children(table, root) : i < j => Before(NameAt(table, i), NameAt(table, j))

\* The table spells a tree to which patches add what they name, and nothing else.
Disc == INSTANCE DiscTree WITH room <- table.shift
ImplementsDiscTree == Disc!Spec
=============================================================================
