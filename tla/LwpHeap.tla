------------------------------ MODULE LwpHeap -------------------------------
(***************************************************************************)
(* The heap of every IOS module (libios/source/lwp_heap.c and mem.c):      *)
(* blocks with a header at each end, a list of the free ones threaded      *)
(* through their bodies, and pieces handed out somewhere in a block with   *)
(* the distance to its beginning kept in the word before them.  All of it  *)
(* is one memory of words, headers, links and the callers' data alike, so  *)
(* that nothing keeps a caller's bytes out of a header but the sizes.      *)
(* What a word of a block's body holds that is no link and no data is not  *)
(* told apart: it is JUNK.                                                 *)
(*                                                                         *)
(* mem.c holds the heap's lock through every call: a call is an action.    *)
(* Addresses are far from the end of a 32-bit word.  Callers give back and *)
(* resize what they hold, and NULL: no piece is given back twice.          *)
(***************************************************************************)
EXTENDS Integers, FiniteSetsExt

CONSTANTS
  theheap,      \* the address of the heap_cntrl
  Start,        \* the address of the heap
  HeapSize,     \* its size in bytes
  pg_size,      \* the least alignment
  Sizes,        \* the sizes that callers ask for, in bytes
  Aligns        \* the alignments that callers ask for, 0 or a power of two

Word == 4
HEAP_OVERHEAD == 2 * Word
HEAP_BLOCK_USED_OVERHEAD == 2 * Word
sizeof_heap_block == 4 * Word

LwpHeapAssumption ==
  /\ \A n \in {theheap, Start, HeapSize, pg_size} : n \in Nat \ {0} /\ n % Word = 0
  /\ HeapSize >= HEAP_OVERHEAD + sizeof_heap_block
  /\ theheap + 5 * Word <= Start \/ Start + HeapSize <= theheap
  /\ Sizes \subseteq Nat
  /\ \A align \in Aligns \cup {pg_size} : align = 0 \/ \E n \in 0..31 : align = 2^n
\* ... a multiple of a word, therefore, or less than one, and of every alignment less than it
  /\ \A align \in Aligns : align \in Nat /\ (align % Word = 0 \/ align < Word)
  /\ \A align \in Aligns : align = 0 \/ align > pg_size \/ pg_size % align = 0
ASSUME LwpHeapAssumption

NULL == 0
JUNK == -1
Words == {theheap + Word * i : i \in 0..4} \cup {Start + Word * i : i \in 0..(HeapSize \div Word) - 1}

VARIABLES
  mem,          \* the word at each address
  held,         \* the sizes of the pieces handed out, by their addresses
  data,         \* for each of them what its caller has put there, and in how many words
  answer        \* the last call and what it returned

vars == <<mem, held, data, answer>>

Called(call, size, align, ret) == [call |-> call, size |-> size, align |-> align, ret |-> ret]

\* The fields of a heap_block; those of heap_cntrl lie such that a block at its
\* first field, or at its second, has the list's ends for its links.
back_flag(b) == b
front_flag(b) == b + Word
next(b) == b + 2 * Word
prev(b) == b + 3 * Word

start == theheap
final == theheap + Word
first == theheap + 2 * Word
perm_null == theheap + 3 * Word
last == theheap + 4 * Word
head == theheap
tail == theheap + Word

USED == 1
Size(flag) == flag - (flag % 2)
IsFree(flag) == flag % 2 = 0

WordsOf(p, n) == {p + Word * i : i \in 0..n - 1}
Fill(m, p, n, value) == [a \in DOMAIN m |-> IF a \in WordsOf(p, n) THEN value ELSE m[a]]
Put(m, addr, value) == [m EXCEPT ![addr] = value]
nextblock(m, b) == b + Size(m[front_flag(b)])
prevblock(m, b) == b - Size(m[back_flag(b)])

\* __lwp_heap_init
Init ==
  LET dsize == HeapSize - HEAP_OVERHEAD
      end   == Start + dsize
  IN /\ mem = [[a \in Words |-> JUNK] EXCEPT
                 ![back_flag(Start)] = USED, ![front_flag(Start)] = dsize,
                 ![next(Start)] = tail, ![prev(Start)] = head,
                 ![start] = Start, ![first] = Start, ![perm_null] = NULL, ![last] = Start,
                 ![back_flag(end)] = dsize, ![front_flag(end)] = USED, ![final] = end]
     /\ held = [p \in {} |-> 0] /\ data = [p \in {} |-> 0] /\ answer = Called("init", 0, 0, NULL)
-----------------------------------------------------------------------------
(* __lwp_heap_allocate *)

Greater(i, j) == IF i > j THEN i ELSE j

\* The size of the block that a piece needs.
Need(size, alignment) ==
  LET excess == size % alignment
      dsize  == size + alignment + HEAP_BLOCK_USED_OVERHEAD + (IF excess # 0 THEN alignment - excess ELSE 0)
  IN Greater(dsize, sizeof_heap_block)

\* The i-th entry of the free list, and the tail from there on.
Listed(m) ==
  LET entry[i \in 0..HeapSize \div sizeof_heap_block] ==
        IF i = 0 THEN m[first]
        ELSE LET b == entry[i - 1] IN IF b = tail THEN tail ELSE m[next(b)]
  IN entry

\* The first free block with room for dsize, or the tail.
FirstFit(m, dsize) ==
  LET list == Listed(m)
      fits == {i \in DOMAIN list : list[i] = tail \/ m[front_flag(list[i])] >= dsize}
  IN list[Min(fits)]

Unlink(m, b) == [m EXCEPT ![prev(m[next(b)])] = m[prev(b)], ![next(m[prev(b)])] = m[next(b)]]

\* A block's end is cut off for the piece.
Split(m, b, dsize) ==
  LET left == m[front_flag(b)] - dsize
      new  == b + left
  IN [mem |-> [m EXCEPT ![front_flag(b)] = left, ![back_flag(new)] = left,
                        ![back_flag(new + dsize)] = dsize + USED, ![front_flag(new)] = dsize + USED],
      block |-> new]

\* A block is taken as it is.
Whole(m, b) ==
  LET flag == m[front_flag(b)] + USED
  IN [mem |-> Unlink([m EXCEPT ![back_flag(nextblock(m, b))] = flag, ![front_flag(b)] = flag], b),
      block |-> b]

\* Mutant: what is left of a block may be too small to be one.
TakeSmall(m, b, dsize, alignment) ==
  IF m[front_flag(b)] - dsize > 0 THEN Split(m, b, dsize) ELSE Whole(m, b)

Take(m, b, dsize, alignment) ==
  IF m[front_flag(b)] - dsize > alignment + HEAP_BLOCK_USED_OVERHEAD
  THEN Split(m, b, dsize)
  ELSE Whole(m, b)

\* The memory after a call of __lwp_heap_allocate, and what it returned.
Allocated(m, size, align) ==
  LET alignment == Greater(align, pg_size)
      dsize == Need(size, alignment)
      b     == FirstFit(m, dsize)
      taken == Take(m, b, dsize, alignment)
      user  == next(taken.block)
      offset == alignment - (user % alignment)
      ptr   == user + offset
      body  == (Size(taken.mem[front_flag(taken.block)]) \div Word) - 2
  IN IF b = tail THEN [mem |-> m, ptr |-> NULL]
     ELSE [mem |-> Put(Fill(taken.mem, user, body, JUNK), ptr - Word, offset), ptr |-> ptr]
-----------------------------------------------------------------------------
(* __lwp_heap_free *)

usrblockat(m, ptr) == ptr - m[ptr - Word] - HEAP_BLOCK_USED_OVERHEAD
blockin(m, b) == m[start] <= b /\ b <= m[final]

\* What is resized as a piece; anything else is taken for NULL.
IsPiece(m, ptr) ==
  /\ ptr # NULL
  /\ LET b == usrblockat(m, ptr) IN blockin(m, b) /\ ~ IsFree(m[front_flag(b)])

\* What is freed; of anything else nothing changes.
CanBeFreed(m, ptr) ==
  /\ IsPiece(m, ptr)
  /\ LET b == usrblockat(m, ptr)
         n == nextblock(m, b)
     IN /\ blockin(m, n) /\ m[front_flag(b)] = m[back_flag(n)]
        /\ IsFree(m[back_flag(b)]) => blockin(m, prevblock(m, b))

\* The block joins the free block before it.
JoinPrev(m, b) ==
  LET p    == prevblock(m, b)
      size == m[front_flag(p)] + Size(m[front_flag(b)])
  IN [m EXCEPT ![front_flag(p)] = size, ![back_flag(nextblock(m, b))] = size]

\* The block joins its free neighbours on both sides.
JoinBoth(m, b) ==
  LET p    == prevblock(m, b)
      n    == nextblock(m, b)
      size == m[front_flag(p)] + m[front_flag(n)] + Size(m[front_flag(b)])
  IN Unlink([m EXCEPT ![front_flag(p)] = size, ![back_flag(p + size)] = size], n)

\* Mutant: the list is mended in one direction only.
JoinNextOneWay(m, b) ==
  LET n    == nextblock(m, b)
      size == Size(m[front_flag(b)]) + m[front_flag(n)]
  IN [m EXCEPT ![front_flag(b)] = size, ![back_flag(b + size)] = size,
               ![next(b)] = m[next(n)], ![prev(b)] = m[prev(n)], ![next(m[prev(n)])] = b]

\* The block joins the free block after it and takes its place in the list.
JoinNext(m, b) ==
  LET n    == nextblock(m, b)
      size == Size(m[front_flag(b)]) + m[front_flag(n)]
      linked == [m EXCEPT ![front_flag(b)] = size, ![back_flag(b + size)] = size,
                          ![next(b)] = m[next(n)], ![prev(b)] = m[prev(n)],
                          ![next(m[prev(n)])] = b, ![prev(m[next(n)])] = b]
  IN IF linked[first] = n THEN Put(linked, first, b) ELSE linked

\* The block becomes the first of the list.
Enlist(m, b) ==
  LET size == Size(m[front_flag(b)])
  IN [m EXCEPT ![back_flag(b + size)] = size, ![front_flag(b)] = size,
               ![prev(b)] = head, ![next(b)] = m[first], ![first] = b, ![prev(m[first])] = b]

\* The free block at b with nothing in its body but the links.
Emptied(m, b) == Fill(m, b + sizeof_heap_block, (m[front_flag(b)] - sizeof_heap_block) \div Word, JUNK)

\* Mutant: a free block that follows is not joined.
JoinedLazily(m, b) ==
  IF IsFree(m[back_flag(b)]) THEN Emptied(JoinPrev(m, b), prevblock(m, b)) ELSE Emptied(Enlist(m, b), b)

\* The memory when the block b has been freed.
Joined(m, b) ==
  LET before == IsFree(m[back_flag(b)])
      after  == IsFree(m[front_flag(nextblock(m, b))])
  IN CASE before /\ after     -> Emptied(JoinBoth(m, b), prevblock(m, b))
       [] before /\ ~ after   -> Emptied(JoinPrev(m, b), prevblock(m, b))
       [] ~ before /\ after   -> Emptied(JoinNext(m, b), b)
       [] ~ before /\ ~ after -> Emptied(Enlist(m, b), b)

\* What __lwp_heap_free leaves.
Freed(m, ptr) == IF CanBeFreed(m, ptr) THEN Joined(m, usrblockat(m, ptr)) ELSE m
-----------------------------------------------------------------------------
(* The calls, and the callers, who fill the pieces they are given. *)

Without(f, p) == [q \in DOMAIN f \ {p} |-> f[q]]
With(f, p, value) == [q \in DOMAIN f \cup {p} |-> IF q = p THEN value ELSE f[q]]
\* The callers' data: a number below JUNK that no other piece holds.
TagFor(p) == IF \E q \in DOMAIN data : data[q].tag = -p THEN -p - 1 ELSE -p

\* A new piece, or none.
Provide(call, size, align) ==
  LET got == Allocated(mem, size, align)
      n   == size \div Word
  IN /\ answer' = Called(call, size, align, got.ptr)
     /\ \/ /\ got.ptr = NULL
           /\ mem' = got.mem /\ UNCHANGED <<held, data>>
        \/ /\ got.ptr # NULL
           /\ mem' = Fill(got.mem, got.ptr, n, TagFor(got.ptr))
           /\ held' = With(held, got.ptr, size)
           /\ data' = With(data, got.ptr, [words |-> n, tag |-> TagFor(got.ptr)])

Allocate(size, align) == Provide("alloc", size, align)

Release(p) ==
  /\ mem' = Freed(mem, p)
  /\ held' = Without(held, p) /\ data' = Without(data, p)
  /\ answer' = Called("free", 0, 0, p)

\* Mutant: the data is not copied.
Uncopied(m, from, to, dsize) == m

\* memcpy of dsize bytes
Copied(m, from, to, dsize) ==
  [a \in DOMAIN m |-> IF a \in WordsOf(to, dsize \div Word) THEN m[from + (a - to)] ELSE m[a]]

\* What the old piece has room for.
Room(p) == nextblock(mem, usrblockat(mem, p)) - p

\* __lwp_heap_realloc of a piece: it stays, or it is freed whether there is a new
\* one or not.
Resize(p, size) ==
  LET got == Allocated(mem, size, 0)
  IN \/ /\ Room(p) >= size
        /\ answer' = Called("realloc", size, 0, p)
        /\ held' = [held EXCEPT ![p] = size]
        /\ data' = [data EXCEPT ![p].words = IF size \div Word < @ THEN size \div Word ELSE @]
        /\ UNCHANGED mem
     \/ /\ Room(p) < size /\ got.ptr # NULL
        /\ answer' = Called("realloc", size, 0, got.ptr)
        /\ mem' = Freed(Copied(got.mem, p, got.ptr, Room(p)), p)
        /\ held' = With(Without(held, p), got.ptr, size)
        /\ data' = With(Without(data, p), got.ptr, data[p])
     \/ /\ Room(p) < size /\ got.ptr = NULL
        /\ answer' = Called("realloc", size, 0, NULL)
        /\ mem' = Freed(got.mem, p)
        /\ held' = Without(held, p) /\ data' = Without(data, p)

Reallocate(p, size) == IF IsPiece(mem, p) THEN Resize(p, size) ELSE Provide("realloc", size, 0)

Next ==
  \/ \E size \in Sizes, align \in Aligns : Allocate(size, align)
  \/ \E p \in DOMAIN held \cup {NULL} : Release(p) \/ \E size \in Sizes : Reallocate(p, size)

Spec == Init /\ [][Next]_vars
-----------------------------------------------------------------------------
(* __lwp_heap_getinfo walks the blocks from the first to the last. *)

Walked ==
  LET block[i \in 0..HeapSize \div sizeof_heap_block + 1] ==
        IF i = 0 THEN mem[start]
        ELSE LET b == block[i - 1]
             IN IF front_flag(b) \notin Words \/ mem[front_flag(b)] = USED THEN b ELSE nextblock(mem, b)
  IN {block[i] : i \in DOMAIN block}

Blocks == Walked \ {mem[final]}
FreeBlocks == {b \in Blocks : IsFree(mem[front_flag(b)])}

TypeOK ==
  /\ mem \in [Words -> Int] /\ DOMAIN data = DOMAIN held
  /\ DOMAIN held \subseteq Words /\ \A p \in DOMAIN held : held[p] \in Sizes
  /\ answer.call # "free" => answer.ret \in DOMAIN held \cup {NULL}

\* Every word has its type, the walk over the blocks that HeapInfo makes comes to the end of the
\* heap, and a block's size is the same at both its ends: getinfo never answers 2.
WalkEnds ==
  /\ TypeOK
  /\ mem[final] \in Walked /\ mem[back_flag(mem[start])] = USED
  /\ \A b \in Blocks :
       LET end == nextblock(mem, b) IN back_flag(end) \in Words /\ mem[front_flag(b)] = mem[back_flag(end)]

\* The list of free blocks leads through every free block once, whichever way it
\* is followed, and through nothing else; and free space is always joined with the
\* free space next to it.
ListIsFreeBlocks ==
  LET list == Listed(mem)
      n    == Min({i \in DOMAIN list : list[i] = tail} \cup {HeapSize})
  IN /\ n = Cardinality(FreeBlocks)
     /\ {list[i] : i \in 0..n - 1} = FreeBlocks
     /\ \A i \in 0..n : mem[prev(list[i])] = IF i = 0 THEN head ELSE list[i - 1]
     /\ \A b \in FreeBlocks : nextblock(mem, b) \notin FreeBlocks

\* What a caller has put into a piece stays there until it gives the piece back,
\* also when the piece is moved to change its size.
DataIntact == \A p \in DOMAIN data : \A a \in WordsOf(p, data[p].words) : mem[a] = data[p].tag

\* The callers see pieces of memory that are theirs alone.
FitsHeap(size, align) == Need(size, Greater(align, pg_size)) <= HeapSize - HEAP_OVERHEAD
Pieces == INSTANCE Allocator WITH Arena <- Start..Start + HeapSize - 1, Fits <- FitsHeap

\* Piece for piece the heap is the allocator that its callers, among them the log of
\* RiiHandler, take it for: a Realloc that fails leaves the old piece untouched.
ImplementsAllocator == Pieces!Spec

\* A piece that was to grow is gone, and there is no new one.
LosesPiece ==
  \E p \in DOMAIN held, size \in Sizes :
    /\ size > held[p]
    /\ held' = Without(held, p)
    /\ answer' = Called("realloc", size, 0, NULL)

\* But for the pieces that such a Realloc loses, the heap is that allocator: pieces
\* are apart, within the heap and aligned as asked, and once all have been given
\* back, in any order, what fitted a new heap fits again.
AllocatesAsPromised == Pieces!Init /\ [][Pieces!Next \/ LosesPiece]_<<held, answer>>
=============================================================================
