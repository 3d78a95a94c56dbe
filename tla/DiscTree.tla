------------------------------ MODULE DiscTree ------------------------------
(* A disc's files and directories by their paths.  A patch makes a file with *)
(* the directories on the way to it, or only some of those when memory runs  *)
(* out; gives a file another size, and a new place if it grows; or gives it  *)
(* another file's place.  Nothing else changes.                              *)
EXTENDS Integers, Sequences

CONSTANTS Paths, Sizes

VARIABLES
  tree,   \* for each path that exists a directory, or a file's place and size
  room    \* where room for new files begins

Directory == [dir |-> TRUE, place |-> 0, size |-> 0]
File(place, size) == [dir |-> FALSE, place |-> place, size |-> size]

Above(path) == {SubSeq(path, 1, k) : k \in 1..Len(path) - 1}
IsFile(path) == path \in DOMAIN tree /\ ~ tree[path].dir

\* A place for each file, a directory for each part of the way to it
Init ==
  /\ room \in Nat
  /\ \A path \in DOMAIN tree : \A up \in Above(path) : up \in DOMAIN tree /\ tree[up].dir

With(paths, entry) ==
  [path \in DOMAIN tree \cup paths |-> IF path \in DOMAIN tree THEN tree[path] ELSE entry]

Reachable(path) == path \notin DOMAIN tree /\ \A up \in Above(path) : ~ IsFile(up)

Make(path, size) ==
  /\ Reachable(path)
  /\ LET ways == With(Above(path), Directory)
     IN tree' = [p \in DOMAIN ways \cup {path} |-> IF p = path THEN File(room, size) ELSE ways[p]]
  /\ room' = room + size

MakeOnlyDirectories(path) ==
  /\ Reachable(path)
  /\ \E last \in Above(path) : tree' = With(Above(last) \cup {last}, Directory)
  /\ UNCHANGED room

Resize(path, size) ==
  /\ IsFile(path)
  /\ IF size > tree[path].size
     THEN tree' = [tree EXCEPT ![path] = File(room, size)] /\ room' = room + size
     ELSE tree' = [tree EXCEPT ![path].size = size] /\ UNCHANGED room

Share(source, destination) ==
  /\ IsFile(source) /\ IsFile(destination)
  /\ tree' = [tree EXCEPT ![destination] = tree[source]]
  /\ UNCHANGED room

Next ==
  \E path \in Paths :
    \/ MakeOnlyDirectories(path)
    \/ \E size \in Sizes : Make(path, size) \/ Resize(path, size)
    \/ \E source \in Paths \ {path} : Share(source, path)

Spec == Init /\ [][Next]_<<tree, room>>
=============================================================================
