----------------------------- MODULE Allocator ------------------------------
(***************************************************************************)
(* What the callers of Alloc, Memalign, Realloc and Dealloc are promised:  *)
(* pieces of an arena that do not overlap, aligned as asked, whose bytes   *)
(* are left alone until the piece is given back, also when there is no     *)
(* room for it to grow; and an arena that is as good as new once           *)
(* everything has been given back.                                         *)
(***************************************************************************)
EXTENDS Integers

CONSTANTS
  Arena,         \* the addresses pieces may take
  NULL,          \* what a request that fails returns
  Sizes,         \* the sizes that are asked for, in bytes
  Aligns,        \* the alignments that are asked for
  Fits(_, _)     \* whether a size and an alignment fit an arena that is all free

VARIABLES
  held,          \* the sizes of the pieces handed out, by their addresses
  answer         \* the last call and what it returned

vars == <<held, answer>>

Called(call, size, align, ret) == [call |-> call, size |-> size, align |-> align, ret |-> ret]

Piece(p, size) == p .. p + size - 1
Free(p, size, others) ==
  /\ Piece(p, size) \subseteq Arena
  /\ \A q \in others : Piece(p, size) \cap Piece(q, held[q]) = {}

Aligned(p, align) == align = 0 \/ p % align = 0
Without(p) == [q \in DOMAIN held \ {p} |-> held[q]]
With(h, p, size) == [q \in DOMAIN h \cup {p} |-> IF q = p THEN size ELSE h[q]]

Init == held = [p \in {} |-> 0] /\ answer = Called("init", 0, 0, NULL)

\* A new piece at p.
Allocate(p, size, align) ==
  /\ p \in Arena \ DOMAIN held
  /\ Free(p, size, DOMAIN held) /\ Aligned(p, align)
  /\ held' = With(held, p, size)
  /\ answer' = Called("alloc", size, align, p)

\* A request that fits the arena is refused only while pieces of it are held.
Refuse(size, align) ==
  /\ DOMAIN held # {} \/ ~ Fits(size, align)
  /\ answer' = Called("alloc", size, align, NULL)
  /\ UNCHANGED held

\* NULL may be given back as well.
Release(p) ==
  /\ held' = Without(p)
  /\ answer' = Called("free", 0, 0, p)

\* A piece may move to q when its size changes; its alignment is forgotten then.
\* NULL becomes a new piece.
Resize(p, q, size) ==
  /\ q \in Arena \ (DOMAIN held \ {p})
  /\ Free(q, size, DOMAIN held \ {p})
  /\ held' = With(Without(p), q, size)
  /\ answer' = Called("realloc", size, 0, q)

\* When there is no room for it to grow the old piece is left as it is.
Keep(p, size) ==
  /\ p \in DOMAIN held => size > held[p]
  /\ DOMAIN held # {} \/ ~ Fits(size, 0)
  /\ answer' = Called("realloc", size, 0, NULL)
  /\ UNCHANGED held

Next ==
  \/ \E size \in Sizes, align \in Aligns : Refuse(size, align) \/ Allocate(answer'.ret, size, align)
  \/ \E p \in DOMAIN held \cup {NULL} : Release(p)
  \/ \E p \in DOMAIN held \cup {NULL}, size \in Sizes : Keep(p, size) \/ Resize(p, answer'.ret, size)

Spec == Init /\ [][Next]_vars
=============================================================================
