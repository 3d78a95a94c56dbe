------------------------------ MODULE LruFiles ------------------------------
(***************************************************************************)
(* What the disc module's table of open replacement files promises to a    *)
(* read: a bounded list of files, most recently used first.  A read of a   *)
(* file finds it in the list or opens it, at the cost of the least         *)
(* recently used file when the table is full; an idle check drops a tail   *)
(* of the list.                                                            *)
(***************************************************************************)
EXTENDS Naturals, SequencesExt

CONSTANTS
  FileIds,    \* the indices of the files the launcher registered
  Capacity    \* how many of them may be open at once

VARIABLE cache     \* the open files, most recently used first

Evicted == IF Len(cache) = Capacity THEN SubSeq(cache, 1, Capacity - 1) ELSE cache

Init == cache = << >>

\* The file is open already: it becomes the most recently used one.
Hit(id) ==
  \E i \in 1..Len(cache) :
    /\ cache[i] = id
    /\ cache' = <<id>> \o RemoveAt(cache, i)

\* The file is not open: it takes a place of the table, the oldest one's if need be.
Miss(id) ==
  /\ \A i \in 1..Len(cache) : cache[i] # id
  /\ cache' = <<id>> \o Evicted

\* As Miss, but the file cannot be opened: only the eviction has happened.
MissAndFail(id) ==
  /\ \A i \in 1..Len(cache) : cache[i] # id
  /\ cache' = Evicted

\* The idle check keeps a prefix of the list.
Expire == \E k \in 0..Len(cache) : cache' = SubSeq(cache, 1, k)

Next ==
  \/ \E id \in FileIds : Hit(id) \/ Miss(id) \/ MissAndFail(id)
  \/ Expire

Spec == Init /\ [][Next]_cache
=============================================================================
