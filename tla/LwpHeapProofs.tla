--------------------------- MODULE LwpHeapProofs ----------------------------
(***************************************************************************)
(* Proofs about LwpHeap.  The memory of a heap is described by the set of  *)
(* the places where its blocks begin, their sizes, the set of the free     *)
(* ones, and a rank of each entry of the free list, which grows along the  *)
(* list.  Every call changes these four in a few ways; what a walk over    *)
(* the blocks or the list meets follows from them.                         *)
(***************************************************************************)
EXTENDS LwpHeap, FiniteSets, FiniteSetTheorems, WellFoundedInduction, TLAPS

USE DEF Word, HEAP_OVERHEAD, HEAP_BLOCK_USED_OVERHEAD, sizeof_heap_block, USED, NULL,
        back_flag, front_flag, next, prev, start, final, first, perm_null, last, head, tail

TheEnd == Start + HeapSize - 8

\* An address of the heap, and those of the control block.
Place(a) == a \in Int /\ a % 4 = 0 /\ Start <= a /\ a < Start + HeapSize
Control == {theheap, theheap + 4, theheap + 8, theheap + 12, theheap + 16}

\* Blocks beginning at B, with sizes z, that fill the heap one behind the other.
Layout(B, z) ==
  /\ z \in [B -> Nat] /\ Start \in B
  /\ \A b \in B : /\ Place(b) /\ z[b] % 4 = 0 /\ z[b] >= 16
                  /\ b + z[b] <= TheEnd /\ b + z[b] \in B \cup {TheEnd}
  /\ \A b, c \in B : b < c => b + z[b] <= c
  /\ \A e \in B \cup {TheEnd} : e = Start \/ \E p \in B : p + z[p] = e

\* What both ends of a block hold, if F are the free ones.
Flag(z, F, b) == IF b \in F THEN z[b] ELSE z[b] + 1

Headers(m, B, z, F) ==
  /\ m \in [Words -> Int] /\ F \subseteq B
  /\ m[theheap] = Start /\ m[theheap + 4] = TheEnd /\ m[Start] = 1 /\ m[TheEnd + 4] = 1
  /\ \A b \in B : m[b + 4] = Flag(z, F, b) /\ m[b + z[b]] = Flag(z, F, b)

\* A list of the members of F with nx for the next of each and pv for the one
\* before; r grows along it.
Chain(F, nx, pv, r) ==
  /\ head \notin F /\ tail \notin F
  /\ nx \in [F \cup {head} -> F \cup {tail}] /\ pv \in [F \cup {tail} -> F \cup {head}]
  /\ r \in [F \cup {head, tail} -> Int]
  /\ \A x \in F \cup {head} : pv[nx[x]] = x /\ r[x] < r[nx[x]]
  /\ \A y \in F \cup {tail} : nx[pv[y]] = y
  /\ \A x \in F : r[head] < r[x] /\ r[x] < r[tail]
  /\ \A x, y \in F : r[x] = r[y] => x = y
  /\ \A x \in F \cup {head}, y \in F \cup {tail} : r[x] < r[y] => r[nx[x]] <= r[y]

\* The free list in memory.
NextOf(m, F) == [x \in F \cup {head} |-> m[next(x)]]
PrevOf(m, F) == [y \in F \cup {tail} |-> m[prev(y)]]
FreeList(m, F, r) == Chain(F, NextOf(m, F), PrevOf(m, F), r)

\* No free block lies behind a free block.
Apart(z, F) == \A b \in F : b + z[b] \notin F

Heap(m, B, z, F, r) == Layout(B, z) /\ Headers(m, B, z, F) /\ FreeList(m, F, r) /\ Apart(z, F)
-----------------------------------------------------------------------------
(* Addresses and layouts *)

LEMMA Params ==
  /\ theheap \in Nat /\ theheap > 0 /\ theheap % 4 = 0
  /\ Start \in Nat /\ Start > 0 /\ Start % 4 = 0
  /\ HeapSize \in Nat /\ HeapSize >= 24 /\ HeapSize % 4 = 0
  /\ pg_size \in Nat /\ pg_size >= 4 /\ pg_size % 4 = 0
  /\ theheap + 20 <= Start \/ Start + HeapSize <= theheap
  /\ Place(Start) /\ Place(TheEnd) /\ Place(TheEnd + 4)
  BY LwpHeapAssumption DEF LwpHeapAssumption, Place, TheEnd

LEMMA Addresses ==
  /\ \A a : Place(a) => a \in Words /\ a \notin Control
  /\ Control \subseteq Words /\ Words \subseteq Int
<1> DEFINE n == HeapSize \div 4
<1>1. n \in Nat /\ HeapSize = 4 * n
  BY Params
<1>2. ASSUME NEW a, Place(a) PROVE a \in Words
  <2>1. a \in Int /\ a % 4 = 0 /\ Start <= a /\ a < Start + HeapSize
    BY <1>2 DEF Place
  <2> DEFINE i == (a - Start) \div 4
  <2>2. i \in Int /\ a = Start + 4 * i
    BY <2>1, Params
  <2> HIDE DEF i, n
  <2>3. i \in 0..n - 1
    BY <2>1, <2>2, <1>1, Params
  <2> QED
    BY <2>2, <2>3 DEF Words, n
<1>3. ASSUME NEW a, Place(a) PROVE a \notin Control
  BY <1>3, Params DEF Place, Control
<1>4. Control \subseteq Words
  <2>1. /\ theheap = theheap + 4 * 0 /\ theheap + 4 = theheap + 4 * 1 /\ theheap + 8 = theheap + 4 * 2
        /\ theheap + 12 = theheap + 4 * 3 /\ theheap + 16 = theheap + 4 * 4
    BY Params
  <2>2. \A i \in 0..4 : theheap + 4 * i \in Words
    BY DEF Words
  <2> QED
    BY <2>1, <2>2 DEF Control
<1>5. Words \subseteq Int
  BY <1>1, Params DEF Words
<1> QED
  BY <1>2, <1>3, <1>4, <1>5

\* The words of a block.
LEMMA BlockPlaces ==
  ASSUME NEW B, NEW z, Layout(B, z), NEW b \in B
  PROVE  /\ b \in Int /\ z[b] \in Int /\ z[b] >= 16 /\ z[b] % 4 = 0 /\ b + z[b] <= TheEnd /\ TheEnd \in Int
         /\ Place(b) /\ Place(b + 4) /\ Place(b + 8) /\ Place(b + 12) /\ Place(b + z[b])
<1> DEFINE s == z[b]
<1>1. s \in Nat /\ s >= 16 /\ s % 4 = 0 /\ Place(b) /\ b + s <= TheEnd
  BY DEF Layout
<1> HIDE DEF s
<1>2. b \in Int /\ b % 4 = 0 /\ Start <= b /\ TheEnd = Start + HeapSize - 8 /\ TheEnd \in Int
  BY <1>1, Params DEF Place, TheEnd
<1>3. (b + 4) % 4 = 0 /\ (b + 8) % 4 = 0 /\ (b + 12) % 4 = 0 /\ (b + s) % 4 = 0
  BY <1>1, <1>2
<1>4. Place(b + 4) /\ Place(b + 8) /\ Place(b + 12) /\ Place(b + s)
  BY <1>1, <1>2, <1>3, Params DEF Place
<1> QED
  BY <1>1, <1>2, <1>4 DEF s

\* Two blocks.
LEMMA BlocksApart ==
  ASSUME NEW B, NEW z, Layout(B, z), NEW b \in B, NEW c \in B, b # c
  PROVE  b + z[b] <= c \/ c + z[c] <= b
  BY BlockPlaces DEF Layout, Place

\* A part of a block is cut off its end.
CutSizes(z, B, b, n) == [x \in B \cup {b + z[b] - n} |-> IF x = b THEN z[b] - n ELSE IF x = b + z[b] - n THEN n ELSE z[x]]

LEMMA CutLayout ==
  ASSUME NEW B, NEW z, Layout(B, z), NEW b \in B, NEW n \in Nat, n % 4 = 0, n >= 16, z[b] - n >= 16
  PROVE  Layout(B \cup {b + z[b] - n}, CutSizes(z, B, b, n)) /\ b + z[b] - n \notin B
<1> DEFINE c == b + z[b] - n
           B2 == B \cup {c}
           z2 == CutSizes(z, B, b, n)
<1>1. /\ b \in Int /\ z[b] \in Nat /\ Place(b) /\ b + z[b] <= TheEnd /\ c \in Int /\ c > b /\ c < b + z[b] /\ Place(c)
      /\ z[b] % 4 = 0 /\ b + z[b] = c + n /\ TheEnd \in Int
  <2> DEFINE s == z[b]
  <2>1. /\ b \in Int /\ s \in Nat /\ s >= 16 /\ s % 4 = 0 /\ Place(b) /\ b + s <= TheEnd /\ TheEnd \in Int
        /\ b % 4 = 0 /\ Start <= b /\ n \in Nat /\ n % 4 = 0 /\ n >= 16 /\ s - n >= 16
    BY BlockPlaces DEF Layout, Place
  <2> HIDE DEF s
  <2>2. (b + s - n) % 4 = 0 /\ b + s - n > b /\ b + s - n < b + s /\ b + s - n \in Int /\ b + s = (b + s - n) + n
    BY <2>1
  <2>3. Place(b + s - n)
    BY <2>1, <2>2, Params DEF Place, TheEnd
  <2> QED
    BY <2>1, <2>2, <2>3 DEF s
<1>2. c \notin B
  BY <1>1 DEF Layout
<1>3. z2 \in [B2 -> Nat] /\ z2[b] = z[b] - n /\ z2[c] = n /\ \A x \in B : x # b => z2[x] = z[x]
  <2>1. z \in [B -> Nat] /\ z[b] - n \in Nat /\ b # c
    BY <1>1 DEF Layout
  <2>2. z2 = [x \in B2 |-> IF x = b THEN z[b] - n ELSE IF x = c THEN n ELSE z[x]]
    BY DEF CutSizes
  <2> HIDE DEF c, z2
  <2> QED
    BY <1>2, <2>1, <2>2
<1>4. b + z2[b] = c /\ c + z2[c] = b + z[b]
  BY <1>1, <1>3
<1> HIDE DEF c, z2
<1>5. ASSUME NEW x \in B2
      PROVE  Place(x) /\ z2[x] % 4 = 0 /\ z2[x] >= 16 /\ x + z2[x] <= TheEnd /\ x + z2[x] \in B2 \cup {TheEnd}
  <2>1. CASE x = b
    BY <1>1, <1>3, <1>4, <2>1
  <2>2. CASE x = c
    BY <1>1, <1>3, <1>4, <2>2 DEF Layout
  <2>3. CASE x \in B /\ x # b
    BY <1>3, <2>3 DEF Layout
  <2> QED
    BY <2>1, <2>2, <2>3
<1>6. ASSUME NEW x \in B2, NEW y \in B2, x < y PROVE x + z2[x] <= y
  <2>1. \A u \in B, v \in B : u < v => u + z[u] <= v
    BY DEF Layout
  <2>2. \A u \in B : u \in Int /\ z[u] \in Nat /\ z[u] >= 16
    BY DEF Layout, Place
  <2> QED
    BY <1>1, <1>2, <1>3, <1>4, <1>6, <2>1, <2>2
<1>7. ASSUME NEW e \in B2 \cup {TheEnd} PROVE e = Start \/ \E p \in B2 : p + z2[p] = e
  <2>1. CASE e = c
    BY <1>4, <2>1
  <2>2. CASE e # c /\ e # Start
    <3>1. PICK p \in B : p + z[p] = e
      BY <2>2 DEF Layout
    <3> QED
      BY <1>3, <1>4, <3>1
  <2> QED
    BY <2>1, <2>2
<1> QED
  BY <1>2, <1>3, <1>5, <1>6, <1>7 DEF Layout, c, z2

\* A block joins the one behind it.
JoinSizes(z, B, b) == [x \in B \ {b + z[b]} |-> IF x = b THEN z[b] + z[b + z[b]] ELSE z[x]]

LEMMA JoinLayout ==
  ASSUME NEW B, NEW z, Layout(B, z), NEW b \in B, b + z[b] \in B
  PROVE  Layout(B \ {b + z[b]}, JoinSizes(z, B, b)) /\ b \in B \ {b + z[b]}
<1> DEFINE c == b + z[b]
           B2 == B \ {c}
           z2 == JoinSizes(z, B, b)
<1>1. /\ b \in Int /\ z[b] \in Nat /\ z[b] >= 16 /\ z[c] >= 16 /\ z[b] % 4 = 0 /\ z[c] % 4 = 0
      /\ c \in Int /\ z[c] \in Nat /\ b < c /\ c + z[c] <= TheEnd /\ TheEnd \in Int /\ Place(b) /\ b >= Start
  <2>1. \A x \in B : z[x] \in Nat /\ z[x] >= 16 /\ z[x] % 4 = 0 /\ x + z[x] <= TheEnd /\ Place(x) /\ x \in Int
    BY DEF Layout, Place
  <2> HIDE DEF c
  <2>2. /\ z[b] \in Nat /\ z[b] >= 16 /\ z[b] % 4 = 0 /\ Place(b) /\ b \in Int
        /\ z[c] \in Nat /\ z[c] >= 16 /\ z[c] % 4 = 0 /\ c \in Int /\ c + z[c] <= TheEnd
    BY <2>1 DEF c
  <2>3. b < c
    BY <2>2 DEF c
  <2> QED
    BY <2>2, <2>3, Params DEF Place
<1>2. c \in B /\ b \in B2
  BY <1>1
<1>3. z2 \in [B2 -> Nat] /\ z2[b] = z[b] + z[c] /\ \A x \in B2 : x # b => z2[x] = z[x]
  <2>1. z \in [B -> Nat] /\ z[b] + z[c] \in Nat
    BY <1>1 DEF Layout
  <2>2. z2 = [x \in B2 |-> IF x = b THEN z[b] + z[c] ELSE z[x]]
    BY DEF JoinSizes
  <2> HIDE DEF c, z2
  <2> QED
    BY <1>2, <2>1, <2>2
<1>4. b + z2[b] = c + z[c] /\ b + z[b] = c
  BY <1>1, <1>3
<1>5. \A u \in B : u \in Int /\ z[u] \in Nat /\ z[u] >= 16
  BY DEF Layout, Place
<1> HIDE DEF c, z2
<1>6. ASSUME NEW x \in B2
      PROVE  Place(x) /\ z2[x] % 4 = 0 /\ z2[x] >= 16 /\ x + z2[x] <= TheEnd /\ x + z2[x] \in B2 \cup {TheEnd}
  <2>1. CASE x = b
    <3>1. z2[x] % 4 = 0 /\ z2[x] >= 16
      BY <1>1, <1>3, <2>1
    <3>2. c + z[c] \in B \cup {TheEnd} /\ c + z[c] # c
      BY <1>1, <1>2 DEF Layout
    <3> QED
      BY <1>1, <1>4, <2>1, <3>1, <3>2
  <2>2. CASE x # b
    <3>1. x + z[x] # c
      <4>1. x < b => x + z[x] <= b
        BY DEF Layout
      <4>2. b < x => c <= x
        BY <1>4 DEF Layout
      <4>3. x \in Int /\ z[x] \in Nat /\ z[x] >= 16
        BY <1>5
      <4> QED
        BY <1>1, <2>2, <4>1, <4>2, <4>3
    <3> QED
      BY <1>3, <2>2, <3>1 DEF Layout
  <2> QED
    BY <2>1, <2>2
<1>7. ASSUME NEW x \in B2, NEW y \in B2, x < y PROVE x + z2[x] <= y
  <2>1. \A u \in B, v \in B : u < v => u + z[u] <= v
    BY DEF Layout
  <2>2. y # c /\ y \in B /\ x \in B
    OBVIOUS
  <2>3. CASE x = b
    <3>1. b + z[b] <= y
      BY <1>7, <2>1, <2>2, <2>3
    <3>2. c < y
      BY <1>4, <1>5, <1>1, <2>2, <3>1
    <3> QED
      BY <1>2, <1>4, <2>1, <2>2, <2>3, <3>2
  <2>4. CASE x # b
    BY <1>3, <1>7, <2>1, <2>2, <2>4
  <2> QED
    BY <2>3, <2>4
<1>8. ASSUME NEW e \in B2 \cup {TheEnd} PROVE e = Start \/ \E p \in B2 : p + z2[p] = e
  <2>1. CASE e # Start
    <3>1. PICK p \in B : p + z[p] = e
      BY <2>1 DEF Layout
    <3>2. CASE p = c
      BY <1>2, <1>4, <3>1, <3>2
    <3>3. CASE p = b
      <4>1. e = c
        BY <1>4, <3>1, <3>3
      <4>2. c # TheEnd
        BY <1>1
      <4> QED
        BY <4>1, <4>2
    <3>4. CASE p # b /\ p # c
      BY <1>3, <3>1, <3>4
    <3> QED
      BY <3>2, <3>3, <3>4
  <2> QED
    BY <2>1
<1>9. Start \in B2
  BY <1>1, <1>2, Params DEF Layout
<1> QED
  BY <1>2, <1>3, <1>6, <1>7, <1>8, <1>9 DEF Layout, c, z2
-----------------------------------------------------------------------------
(* Lists *)

LEMMA HeadIsNotTail == head # tail /\ head \in Int /\ tail \in Int
  BY Params

\* A member leaves the list.
CutNext(F, nx, pv, b) == [x \in (F \ {b}) \cup {head} |-> IF x = pv[b] THEN nx[b] ELSE nx[x]]
CutPrev(F, nx, pv, b) == [y \in (F \ {b}) \cup {tail} |-> IF y = nx[b] THEN pv[b] ELSE pv[y]]
CutRank(F, r, b) == [x \in (F \ {b}) \cup {head, tail} |-> r[x]]

LEMMA ChainCut ==
  ASSUME NEW F, NEW nx, NEW pv, NEW r, Chain(F, nx, pv, r), NEW b \in F
  PROVE  Chain(F \ {b}, CutNext(F, nx, pv, b), CutPrev(F, nx, pv, b), CutRank(F, r, b))
<1> DEFINE G == F \ {b}
           nx2 == CutNext(F, nx, pv, b)
           pv2 == CutPrev(F, nx, pv, b)
           r2 == CutRank(F, r, b)
           w == nx[b]
           u == pv[b]
<1>1. /\ head \notin F /\ tail \notin F /\ head # tail
      /\ w \in F \cup {tail} /\ u \in F \cup {head} /\ pv[w] = b /\ nx[u] = b
      /\ r[u] < r[b] /\ r[b] < r[w] /\ r[u] \in Int /\ r[b] \in Int /\ r[w] \in Int
  BY HeadIsNotTail DEF Chain
<1>2. w # b /\ u # b /\ w \in G \cup {tail} /\ u \in G \cup {head}
  BY <1>1
<1>3. /\ \A x \in G \cup {head} : nx2[x] = IF x = u THEN w ELSE nx[x]
      /\ \A y \in G \cup {tail} : pv2[y] = IF y = w THEN u ELSE pv[y]
      /\ \A x \in G \cup {head, tail} : r2[x] = r[x]
      /\ DOMAIN nx2 = G \cup {head} /\ DOMAIN pv2 = G \cup {tail}
      /\ nx2 = [x \in G \cup {head} |-> nx2[x]] /\ pv2 = [y \in G \cup {tail} |-> pv2[y]]
  BY DEF CutNext, CutPrev, CutRank
<1>4. r2 \in [G \cup {head, tail} -> Int]
  BY DEF CutRank, Chain
<1> HIDE DEF nx2, pv2, r2, w, u
<1>5. ASSUME NEW x \in G \cup {head}
      PROVE  nx2[x] \in G \cup {tail} /\ pv2[nx2[x]] = x /\ r2[x] < r2[nx2[x]]
  <2>1. CASE x = u
    <3>1. nx2[u] = w /\ pv2[w] = u /\ r2[u] = r[u] /\ r2[w] = r[w]
      BY <1>2, <1>3
    <3> QED
      BY <1>1, <1>2, <2>1, <3>1
  <2>2. CASE x # u
    <3>1. nx2[x] = nx[x] /\ nx[x] \in F \cup {tail} /\ pv[nx[x]] = x /\ r[x] < r[nx[x]]
      BY <1>3, <2>2 DEF Chain
    <3>2. nx[x] # b /\ nx[x] # w
      BY <1>1, <2>2, <3>1 DEF u
    <3> QED
      BY <1>3, <3>1, <3>2
  <2> QED
    BY <2>1, <2>2
<1>6. ASSUME NEW y \in G \cup {tail}
      PROVE  pv2[y] \in G \cup {head} /\ nx2[pv2[y]] = y
  <2>1. CASE y = w
    BY <1>1, <1>2, <1>3, <2>1
  <2>2. CASE y # w
    <3>1. pv2[y] = pv[y] /\ pv[y] \in F \cup {head} /\ nx[pv[y]] = y
      BY <1>3, <2>2 DEF Chain
    <3>2. pv[y] # b /\ pv[y] # u
      BY <1>1, <2>2, <3>1 DEF w
    <3> QED
      BY <1>3, <3>1, <3>2
  <2> QED
    BY <2>1, <2>2
<1>7. ASSUME NEW x \in G \cup {head}, NEW y \in G \cup {tail}, r2[x] < r2[y]
      PROVE  r2[nx2[x]] <= r2[y]
  <2>1. r2[x] = r[x] /\ r2[y] = r[y] /\ r2[nx2[x]] = r[nx2[x]] /\ r[y] \in Int
    BY <1>3, <1>5 DEF Chain
  <2>2. r[nx[x]] <= r[y]
    BY <1>7, <2>1 DEF Chain
  <2>3. CASE x = u
    <3>1. r[b] <= r[y] /\ r[b] # r[y]
      BY <1>1, <2>2, <2>3 DEF Chain
    <3>2. r[w] <= r[y]
      BY <1>1, <2>1, <3>1 DEF Chain, w
    <3> QED
      BY <1>2, <1>3, <2>1, <2>3, <3>2
  <2>4. CASE x # u
    BY <1>3, <2>1, <2>2, <2>4
  <2> QED
    BY <2>3, <2>4
<1>8. nx2 \in [G \cup {head} -> G \cup {tail}] /\ pv2 \in [G \cup {tail} -> G \cup {head}]
  BY <1>3, <1>5, <1>6
<1>9. /\ \A x \in G : r2[head] < r2[x] /\ r2[x] < r2[tail]
      /\ \A x, y \in G : r2[x] = r2[y] => x = y
  BY <1>3 DEF Chain
<1> QED
  BY <1>1, <1>4, <1>5, <1>6, <1>7, <1>8, <1>9 DEF Chain, nx2, pv2, r2

\* b takes the place of n.
SwapNext(F, nx, pv, n, b) ==
  [x \in (F \ {n}) \cup {b, head} |-> IF x = b THEN nx[n] ELSE IF x = pv[n] THEN b ELSE nx[x]]
SwapPrev(F, nx, pv, n, b) ==
  [y \in (F \ {n}) \cup {b, tail} |-> IF y = b THEN pv[n] ELSE IF y = nx[n] THEN b ELSE pv[y]]
SwapRank(F, r, n, b) == [x \in (F \ {n}) \cup {b, head, tail} |-> IF x = b THEN r[n] ELSE r[x]]

LEMMA ChainSwap ==
  ASSUME NEW F, NEW nx, NEW pv, NEW r, Chain(F, nx, pv, r), NEW n \in F, NEW b, b \notin F, b # head, b # tail
  PROVE  Chain((F \ {n}) \cup {b}, SwapNext(F, nx, pv, n, b), SwapPrev(F, nx, pv, n, b), SwapRank(F, r, n, b))
<1> DEFINE G == (F \ {n}) \cup {b}
           nx2 == SwapNext(F, nx, pv, n, b)
           pv2 == SwapPrev(F, nx, pv, n, b)
           r2 == SwapRank(F, r, n, b)
           w == nx[n]
           u == pv[n]
<1>1. /\ head \notin F /\ tail \notin F /\ head # tail
      /\ w \in F \cup {tail} /\ u \in F \cup {head} /\ pv[w] = n /\ nx[u] = n
      /\ r[u] < r[n] /\ r[n] < r[w] /\ r[u] \in Int /\ r[n] \in Int /\ r[w] \in Int
  BY HeadIsNotTail DEF Chain
<1>2. w # n /\ u # n /\ w # b /\ u # b /\ w \in G \cup {tail} /\ u \in G \cup {head}
  BY <1>1
<1>3. /\ \A x \in G \cup {head} : nx2[x] = IF x = b THEN w ELSE IF x = u THEN b ELSE nx[x]
      /\ \A y \in G \cup {tail} : pv2[y] = IF y = b THEN u ELSE IF y = w THEN b ELSE pv[y]
      /\ \A x \in G \cup {head, tail} : r2[x] = IF x = b THEN r[n] ELSE r[x]
      /\ nx2 = [x \in G \cup {head} |-> nx2[x]] /\ pv2 = [y \in G \cup {tail} |-> pv2[y]]
  BY DEF SwapNext, SwapPrev, SwapRank
<1>4. r2 \in [G \cup {head, tail} -> Int]
  <2>1. r \in [F \cup {head, tail} -> Int]
    BY DEF Chain
  <2> QED
    BY <1>1, <2>1 DEF SwapRank
<1> HIDE DEF nx2, pv2, r2, w, u
<1>5. ASSUME NEW x \in G \cup {head}
      PROVE  nx2[x] \in G \cup {tail} /\ pv2[nx2[x]] = x /\ r2[x] < r2[nx2[x]]
  <2>1. CASE x = u
    BY <1>1, <1>2, <1>3, <2>1
  <2>2. CASE x = b
    BY <1>1, <1>2, <1>3, <2>2
  <2>3. CASE x # u /\ x # b
    <3>1. nx2[x] = nx[x] /\ nx[x] \in F \cup {tail} /\ pv[nx[x]] = x /\ r[x] < r[nx[x]]
      BY <1>3, <2>3 DEF Chain
    <3>2. nx[x] # n /\ nx[x] # w /\ nx[x] # b
      BY <1>1, <2>3, <3>1 DEF u
    <3> QED
      BY <1>3, <2>3, <3>1, <3>2
  <2> QED
    BY <2>1, <2>2, <2>3
<1>6. ASSUME NEW y \in G \cup {tail}
      PROVE  pv2[y] \in G \cup {head} /\ nx2[pv2[y]] = y
  <2>1. CASE y = w
    BY <1>1, <1>2, <1>3, <2>1
  <2>2. CASE y = b
    BY <1>1, <1>2, <1>3, <2>2
  <2>3. CASE y # w /\ y # b
    <3>1. pv2[y] = pv[y] /\ pv[y] \in F \cup {head} /\ nx[pv[y]] = y
      BY <1>3, <2>3 DEF Chain
    <3>2. pv[y] # n /\ pv[y] # u /\ pv[y] # b
      BY <1>1, <2>3, <3>1 DEF w
    <3> QED
      BY <1>3, <3>1, <3>2
  <2> QED
    BY <2>1, <2>2, <2>3
<1>7. ASSUME NEW x \in G \cup {head}, NEW y \in G \cup {tail}, r2[x] < r2[y]
      PROVE  r2[nx2[x]] <= r2[y]
  <2> DEFINE xo == IF x = b THEN n ELSE x
             yo == IF y = b THEN n ELSE y
             no == IF nx2[x] = b THEN n ELSE nx2[x]
  <2>1. r2[x] = r[xo] /\ r2[y] = r[yo] /\ r2[nx2[x]] = r[no] /\ xo \in F \cup {head} /\ yo \in F \cup {tail}
    BY <1>3, <1>5
  <2>2. no = nx[xo]
    BY <1>1, <1>2, <1>3 DEF w, u, Chain
  <2> QED
    BY <1>7, <2>1, <2>2 DEF Chain
<1>8. nx2 \in [G \cup {head} -> G \cup {tail}] /\ pv2 \in [G \cup {tail} -> G \cup {head}]
  BY <1>3, <1>5, <1>6
<1>9. /\ \A x \in G : r2[head] < r2[x] /\ r2[x] < r2[tail]
      /\ \A x, y \in G : r2[x] = r2[y] => x = y
  BY <1>1, <1>3 DEF Chain
<1> QED
  BY <1>1, <1>4, <1>5, <1>6, <1>7, <1>8, <1>9 DEF Chain, nx2, pv2, r2

\* b becomes the first.
PushNext(F, nx, b) == [x \in F \cup {b, head} |-> IF x = b THEN nx[head] ELSE IF x = head THEN b ELSE nx[x]]
PushPrev(F, nx, pv, b) ==
  [y \in F \cup {b, tail} |-> IF y = b THEN head ELSE IF y = nx[head] THEN b ELSE pv[y]]
PushRank(F, r, b) ==
  [x \in F \cup {b, head, tail} |-> IF x = b THEN r[head] ELSE IF x = head THEN r[head] - 1 ELSE r[x]]

LEMMA ChainPush ==
  ASSUME NEW F, NEW nx, NEW pv, NEW r, Chain(F, nx, pv, r), NEW b, b \notin F, b # head, b # tail
  PROVE  Chain(F \cup {b}, PushNext(F, nx, b), PushPrev(F, nx, pv, b), PushRank(F, r, b))
<1> DEFINE G == F \cup {b}
           nx2 == PushNext(F, nx, b)
           pv2 == PushPrev(F, nx, pv, b)
           r2 == PushRank(F, r, b)
           w == nx[head]
<1>1. /\ head \notin F /\ tail \notin F /\ head # tail
      /\ w \in F \cup {tail} /\ pv[w] = head
      /\ r[head] < r[w] /\ r[head] \in Int /\ r[w] \in Int /\ w # b /\ w # head
  BY HeadIsNotTail DEF Chain
<1>3. /\ \A x \in G \cup {head} : nx2[x] = IF x = b THEN w ELSE IF x = head THEN b ELSE nx[x]
      /\ \A y \in G \cup {tail} : pv2[y] = IF y = b THEN head ELSE IF y = w THEN b ELSE pv[y]
      /\ \A x \in G \cup {head, tail} : r2[x] = IF x = b THEN r[head] ELSE IF x = head THEN r[head] - 1 ELSE r[x]
      /\ nx2 = [x \in G \cup {head} |-> nx2[x]] /\ pv2 = [y \in G \cup {tail} |-> pv2[y]]
  BY DEF PushNext, PushPrev, PushRank
<1>4. r2 \in [G \cup {head, tail} -> Int]
  <2>1. r \in [F \cup {head, tail} -> Int]
    BY DEF Chain
  <2> QED
    BY <1>1, <2>1 DEF PushRank
<1> HIDE DEF nx2, pv2, r2, w
<1>5. ASSUME NEW x \in G \cup {head}
      PROVE  nx2[x] \in G \cup {tail} /\ pv2[nx2[x]] = x /\ r2[x] < r2[nx2[x]]
  <2>1. CASE x = head
    <3>1. nx2[head] = b /\ pv2[b] = head /\ r2[head] = r[head] - 1 /\ r2[b] = r[head] /\ b \in G
      BY <1>1, <1>3
    <3> QED
      BY <1>1, <2>1, <3>1
  <2>2. CASE x = b
    BY <1>1, <1>3, <2>2
  <2>3. CASE x # head /\ x # b
    <3>1. nx2[x] = nx[x] /\ nx[x] \in F \cup {tail} /\ pv[nx[x]] = x /\ r[x] < r[nx[x]]
      BY <1>3, <2>3 DEF Chain
    <3>2. nx[x] # w /\ nx[x] # b /\ nx[x] # head
      BY <1>1, <2>3, <3>1
    <3> QED
      BY <1>3, <2>3, <3>1, <3>2
  <2> QED
    BY <2>1, <2>2, <2>3
<1>6. ASSUME NEW y \in G \cup {tail}
      PROVE  pv2[y] \in G \cup {head} /\ nx2[pv2[y]] = y
  <2>1. CASE y = w
    BY <1>1, <1>3, <2>1
  <2>2. CASE y = b
    BY <1>1, <1>3, <2>2
  <2>3. CASE y # w /\ y # b
    <3>1. pv2[y] = pv[y] /\ pv[y] \in F \cup {head} /\ nx[pv[y]] = y
      BY <1>3, <2>3 DEF Chain
    <3>2. pv[y] # head /\ pv[y] # b
      BY <1>1, <2>3, <3>1 DEF w
    <3> QED
      BY <1>3, <3>1, <3>2
  <2> QED
    BY <2>1, <2>2, <2>3
<1>7. ASSUME NEW x \in G \cup {head}, NEW y \in G \cup {tail}, r2[x] < r2[y]
      PROVE  r2[nx2[x]] <= r2[y]
  <2>0. r[y] \in Int \/ y = b
    BY DEF Chain
  <2>1. CASE x = head
    <3>1. nx2[x] = b /\ r2[b] = r[head]
      BY <1>1, <1>3, <2>1
    <3>2. y \in F => r2[y] = r[y] /\ r[head] < r[y] /\ r[y] \in Int
      BY <1>1, <1>3 DEF Chain
    <3>3. y = tail => r2[y] = r[tail] /\ r[tail] \in Int
      BY <1>1, <1>3 DEF Chain
    <3>4. r[head] < r[tail]
      BY <1>1 DEF Chain
    <3> QED
      BY <1>1, <3>1, <3>2, <3>3, <3>4
  <2>2. CASE x = b
    <3>1. y # b /\ r2[x] = r[head] /\ r2[y] = r[y] /\ y \in F \cup {tail}
      BY <1>1, <1>3, <1>7, <2>2 
    <3>2. r[nx[head]] <= r[y]
      BY <1>7, <3>1 DEF Chain
    <3>3. nx2[x] = w /\ r2[w] = r[w]
      BY <1>1, <1>3, <2>2
    <3> QED
      BY <3>1, <3>2, <3>3 DEF w
  <2>3. CASE x # head /\ x # b
    <3>1. y # b
      BY <1>1, <1>3, <1>7, <2>3 DEF Chain
    <3>2. nx2[x] = nx[x] /\ nx[x] \in F \cup {tail} /\ r2[x] = r[x] /\ r2[y] = r[y]
      BY <1>1, <1>3, <2>3, <3>1 DEF Chain
    <3>3. r2[nx[x]] = r[nx[x]]
      BY <1>1, <1>3, <3>2
    <3> QED
      BY <1>7, <2>3, <3>1, <3>2, <3>3 DEF Chain
  <2> QED
    BY <2>1, <2>2, <2>3
<1>8. nx2 \in [G \cup {head} -> G \cup {tail}] /\ pv2 \in [G \cup {tail} -> G \cup {head}]
  BY <1>3, <1>5, <1>6
<1>9. /\ \A x \in G : r2[head] < r2[x] /\ r2[x] < r2[tail]
      /\ \A x, y \in G : r2[x] = r2[y] => x = y
  BY <1>1, <1>3 DEF Chain
<1> QED
  BY <1>1, <1>4, <1>5, <1>6, <1>7, <1>8, <1>9 DEF Chain, nx2, pv2, r2
-----------------------------------------------------------------------------
(* What a step on memory leaves *)

\* The words between the headers of the blocks U are as they were.
Untouched(m, m2, z, U) ==
  \A u \in U : \A a \in Words : u + 8 <= a /\ a < u + z[u] => m2[a] = m[a]

\* A block's words, those of another block, and the control block's.
LEMMA WordsApart ==
  ASSUME NEW B, NEW z, Layout(B, z), NEW b \in B
  PROVE  /\ {b + 4, b + 8, b + 12, b + z[b], Start, TheEnd + 4} \subseteq Words \ Control
         /\ b + 4 # Start /\ b + 8 # Start /\ b + 12 # Start /\ b + z[b] # Start
         /\ b + 4 # TheEnd + 4 /\ b + 8 # TheEnd + 4 /\ b + 12 # TheEnd + 4 /\ b + z[b] # TheEnd + 4
         /\ \A c \in B : c # b =>
              /\ \A i, j \in {4, 8, 12} : b + i # c + j
              /\ \A i \in {4, 8, 12} : b + i # c + z[c] /\ b + z[b] # c + i
              /\ b + z[b] # c + z[c]
<1>1. /\ b \in Int /\ z[b] \in Int /\ z[b] >= 16 /\ b + z[b] <= TheEnd /\ TheEnd \in Int /\ Start \in Int /\ Start <= b
      /\ Place(b) /\ Place(b + 4) /\ Place(b + 8) /\ Place(b + 12) /\ Place(b + z[b]) /\ Place(Start) /\ Place(TheEnd + 4)
  BY BlockPlaces, Params DEF Place
<1>2. {b + 4, b + 8, b + 12, b + z[b], Start, TheEnd + 4} \subseteq Words \ Control
  BY <1>1, Addresses
<1>3. ASSUME NEW c \in B, c # b
      PROVE  /\ \A i, j \in {4, 8, 12} : b + i # c + j
             /\ \A i \in {4, 8, 12} : b + i # c + z[c] /\ b + z[b] # c + i
             /\ b + z[b] # c + z[c]
  <2>1. c \in Int /\ z[c] \in Int /\ z[c] >= 16
    BY BlockPlaces
  <2>2. b + z[b] <= c \/ c + z[c] <= b
    BY <1>3, BlocksApart
  <2> QED
    BY <1>1, <2>1, <2>2
<1> QED
  BY <1>1, <1>2, <1>3

\* The places of the links, and those of the headers.
LinkWords(F) == {next(x) : x \in F \cup {head}} \cup {prev(y) : y \in F \cup {tail}}
HeaderWords(B, z) ==
  {theheap, theheap + 4, Start, TheEnd + 4} \cup {b + 4 : b \in B} \cup {b + z[b] : b \in B}

LinksFit(B, z, F) ==
  /\ \A x \in F \cup {head} : next(x) \in Words
  /\ \A y \in F \cup {tail} : prev(y) \in Words
  /\ \A x \in F \cup {head}, y \in F \cup {tail} : next(x) # prev(y)
  /\ \A x \in F \cup {head}, y \in F \cup {head} : next(x) = next(y) => x = y
  /\ \A x \in F \cup {tail}, y \in F \cup {tail} : prev(x) = prev(y) => x = y
  /\ \A b \in B, x \in F \cup {head} : b + 4 # next(x) /\ b + z[b] # next(x)
  /\ \A b \in B, x \in F \cup {tail} : b + 4 # prev(x) /\ b + z[b] # prev(x)
  /\ \A x \in F \cup {head} : next(x) \notin {theheap, theheap + 4, Start, TheEnd + 4}
  /\ \A x \in F \cup {tail} : prev(x) \notin {theheap, theheap + 4, Start, TheEnd + 4}

LEMMA LinkPlaces ==
  ASSUME NEW B, NEW z, Layout(B, z), NEW F, F \subseteq B
  PROVE  head \notin B /\ tail \notin B /\ head # tail /\ LinksFit(B, z, F)
<1>1. \A b \in B : b \in Int /\ Place(b) /\ z[b] \in Int /\ z[b] >= 16
  BY BlockPlaces
<1>2. /\ theheap \in Int /\ head \in Control /\ tail \in Control /\ head # tail
      /\ next(head) \in Control /\ prev(tail) \in Control /\ next(head) # prev(tail)
      /\ next(head) \notin {theheap, theheap + 4} /\ prev(tail) \notin {theheap, theheap + 4}
  BY Params DEF Control
<1>3. head \notin B /\ tail \notin B /\ Start \notin Control /\ TheEnd + 4 \notin Control /\ Control \subseteq Words
  BY <1>1, <1>2, Addresses, Params
<1>4. \A b \in B : /\ {b + 4, b + 8, b + 12, b + z[b]} \subseteq Words \ Control
                   /\ b + 8 \notin {Start, TheEnd + 4} /\ b + 12 \notin {Start, TheEnd + 4}
  BY WordsApart
<1>5. theheap \in Control /\ theheap + 4 \in Control
  BY DEF Control
<1>6. \A b, c \in B : /\ b + 8 # c + 12 /\ b + 4 # c + 8 /\ b + 4 # c + 12
                      /\ b + z[b] # c + 8 /\ b + z[b] # c + 12
  <2> SUFFICES ASSUME NEW b \in B, NEW c \in B
               PROVE  /\ b + 8 # c + 12 /\ b + 4 # c + 8 /\ b + 4 # c + 12
                      /\ b + z[b] # c + 8 /\ b + z[b] # c + 12
    OBVIOUS
  <2>1. CASE b = c
    BY <1>1, <2>1
  <2>2. CASE b # c
    BY <2>2, WordsApart
  <2> QED
    BY <2>1, <2>2
<1>7. \A x \in F \cup {head} : x \in Int /\ (x = head \/ x \in B)
  BY <1>1, Params
<1>8. \A x \in F \cup {tail} : x \in Int /\ (x = tail \/ x \in B)
  BY <1>1, Params
<1>9. \A x \in F \cup {head}, y \in F \cup {tail} : next(x) # prev(y)
  BY <1>2, <1>4, <1>6, <1>7, <1>8
<1>10. /\ \A x \in F \cup {head}, y \in F \cup {head} : next(x) = next(y) => x = y
       /\ \A x \in F \cup {tail}, y \in F \cup {tail} : prev(x) = prev(y) => x = y
  BY <1>7, <1>8
<1>11. \A b \in B, x \in F \cup {head} : b + 4 # next(x) /\ b + z[b] # next(x)
  BY <1>2, <1>4, <1>6, <1>7
<1>12. \A b \in B, x \in F \cup {tail} : b + 4 # prev(x) /\ b + z[b] # prev(x)
  BY <1>2, <1>4, <1>6, <1>8
<1>13. /\ \A x \in F \cup {head} : next(x) \in Words /\ next(x) \notin {theheap, theheap + 4, Start, TheEnd + 4}
       /\ \A x \in F \cup {tail} : prev(x) \in Words /\ prev(x) \notin {theheap, theheap + 4, Start, TheEnd + 4}
  BY <1>2, <1>3, <1>4, <1>5, <1>7, <1>8
<1> QED
  BY <1>2, <1>3, <1>9, <1>10, <1>11, <1>12, <1>13 DEF LinksFit

LEMMA LinksApart ==
  ASSUME NEW B, NEW z, Layout(B, z), NEW F, F \subseteq B
  PROVE  /\ LinkWords(F) \subseteq Words /\ HeaderWords(B, z) \subseteq Words
         /\ LinkWords(F) \cap HeaderWords(B, z) = {}
<1>1. /\ \A x \in F \cup {head} : next(x) \in Words
      /\ \A y \in F \cup {tail} : prev(y) \in Words
      /\ \A b \in B, x \in F \cup {head} : b + 4 # next(x) /\ b + z[b] # next(x)
      /\ \A b \in B, x \in F \cup {tail} : b + 4 # prev(x) /\ b + z[b] # prev(x)
      /\ \A x \in F \cup {head} : next(x) \notin {theheap, theheap + 4, Start, TheEnd + 4}
      /\ \A x \in F \cup {tail} : prev(x) \notin {theheap, theheap + 4, Start, TheEnd + 4}
  <2>1. LinksFit(B, z, F)
    BY LinkPlaces
  <2> QED
    BY <2>1 DEF LinksFit
<1>2. \A b \in B : {b + 4, b + z[b], Start, TheEnd + 4} \subseteq Words
  BY WordsApart
<1>3. theheap \in Words /\ theheap + 4 \in Words /\ Start \in B
  BY Addresses DEF Control, Layout
<1>4. HeaderWords(B, z) \subseteq Words
  BY <1>2, <1>3 DEF HeaderWords
<1>5. LinkWords(F) \subseteq Words
  BY <1>1 DEF LinkWords
<1>6. ASSUME NEW a \in LinkWords(F), a \in HeaderWords(B, z) PROVE FALSE
  <2>1. CASE \E x \in F \cup {head} : a = next(x)
    BY <1>1, <1>6, <2>1 DEF HeaderWords
  <2>2. CASE \E y \in F \cup {tail} : a = prev(y)
    BY <1>1, <1>6, <2>2 DEF HeaderWords
  <2> QED
    BY <2>1, <2>2 DEF LinkWords
<1> QED
  BY <1>4, <1>5, <1>6

\* The flags of a block.
LEMMA FlagsAre ==
  ASSUME NEW m, NEW B, NEW z, NEW F, Layout(B, z), Headers(m, B, z, F), NEW b \in B
  PROVE  /\ Size(m[b + 4]) = z[b] /\ (IsFree(m[b + 4]) <=> b \in F)
         /\ Size(m[b + z[b]]) = z[b] /\ (IsFree(m[b + z[b]]) <=> b \in F)
         /\ nextblock(m, b) = b + z[b]
<1> DEFINE s == z[b]
           f == Flag(z, F, b)
<1>1. b \in Int /\ s \in Int /\ s % 4 = 0 /\ s >= 16
  BY BlockPlaces
<1>2. m[b + 4] = f /\ m[b + z[b]] = f
  BY DEF Headers
<1>3. f = IF b \in F THEN s ELSE s + 1
  BY DEF Flag
<1> HIDE DEF s, f
<1>4. s % 2 = 0 /\ (s + 1) % 2 = 1
  BY <1>1
<1>5. (f % 2 = 0 <=> b \in F) /\ f - (f % 2) = s
  BY <1>1, <1>3, <1>4
<1> QED
  BY <1>1, <1>2, <1>5 DEF Size, IsFree, nextblock, s

\* Links and headers do not change when their words do not.
LEMMA LinksKept ==
  ASSUME NEW m, NEW m2, NEW F, NEW r, FreeList(m, F, r), \A a \in LinkWords(F) : m2[a] = m[a]
  PROVE  FreeList(m2, F, r)
<1>1. NextOf(m2, F) = NextOf(m, F) /\ PrevOf(m2, F) = PrevOf(m, F)
  BY DEF NextOf, PrevOf, LinkWords
<1> QED
  BY <1>1 DEF FreeList

LEMMA HeadersKept ==
  ASSUME NEW m, NEW B, NEW z, NEW F, Headers(m, B, z, F), NEW m2 \in [Words -> Int],
         \A a \in HeaderWords(B, z) : m2[a] = m[a]
  PROVE  Headers(m2, B, z, F)
<1>1. \A b \in B : m2[b + 4] = m[b + 4] /\ m2[b + z[b]] = m[b + z[b]]
  BY DEF HeaderWords
<1>2. \A a \in {theheap, theheap + 4, Start, TheEnd + 4} : m2[a] = m[a]
  BY DEF HeaderWords
<1> QED
  BY <1>1, <1>2 DEF Headers

\* Nothing but bodies changes.
LEMMA HeapFrame ==
  ASSUME NEW m, NEW B, NEW z, NEW F, NEW r, Heap(m, B, z, F, r), NEW m2 \in [Words -> Int],
         \A a \in HeaderWords(B, z) \cup LinkWords(F) : m2[a] = m[a]
  PROVE  Heap(m2, B, z, F, r)
<1>1. Headers(m2, B, z, F)
  BY HeadersKept DEF Heap
<1>2. FreeList(m2, F, r)
  BY LinksKept DEF Heap
<1> QED
  BY <1>1, <1>2 DEF Heap
-----------------------------------------------------------------------------
(* A piece is taken *)

LEMMA SplitIs ==
  ASSUME NEW m, NEW B, NEW z, NEW F, NEW r, Heap(m, B, z, F, r),
         NEW b \in F, NEW n \in Nat, n % 4 = 0, n >= 16, z[b] - n >= 16
  PROVE  LET m2 == Split(m, b, n).mem
             c == b + z[b] - n
         IN /\ Split(m, b, n).block = c /\ c \notin B
            /\ m2 \in [Words -> Int]
            /\ m2[b + 4] = z[b] - n /\ m2[c] = z[b] - n /\ m2[c + 4] = n + 1 /\ m2[b + z[b]] = n + 1
            /\ \A a \in Words : a \notin {b + 4, c, c + 4, b + z[b]} => m2[a] = m[a]
<1> DEFINE m2 == Split(m, b, n).mem
           c == b + z[b] - n
           left == z[b] - n
<1>1. Layout(B, z) /\ Headers(m, B, z, F) /\ b \in B
  BY DEF Heap, Headers
<1>2. Layout(B \cup {c}, CutSizes(z, B, b, n)) /\ c \notin B
  BY <1>1, CutLayout
<1>3. b \in Int /\ z[b] \in Int /\ {b + 4, b + z[b]} \subseteq Words
  BY <1>1, BlockPlaces, WordsApart
<1>4. {c, c + 4} \subseteq Words
  <2>1. Place(c) /\ Place(c + 4)
    BY <1>2, BlockPlaces
  <2> QED
    BY <2>1, Addresses
<1>5. m \in [Words -> Int] /\ m[front_flag(b)] = z[b] /\ m[b + 4] = z[b]
  BY <1>1 DEF Headers, Flag
<1>6. /\ Split(m, b, n).block = c
      /\ m2 = [m EXCEPT ![b + 4] = left, ![c] = left, ![c + n] = n + 1, ![c + 4] = n + 1]
  <2>1. b + (z[b] - n) = c
    BY <1>3
  <2> QED
    BY <1>5, <2>1 DEF Split
<1>7. c + n = b + z[b] /\ left \in Int /\ n + 1 \in Int
  BY <1>3
<1>8. c # b + 4 /\ c + 4 # b + 4 /\ c # c + 4 /\ b + z[b] # b + 4 /\ b + z[b] # c /\ b + z[b] # c + 4
  BY <1>3
<1> HIDE DEF c, left, m2
<1> QED
  BY <1>2, <1>3, <1>4, <1>5, <1>6, <1>7, <1>8 DEF left, c, m2

LEMMA SplitKeeps ==
  ASSUME NEW m, NEW B, NEW z, NEW F, NEW r, Heap(m, B, z, F, r),
         NEW b \in F, NEW n \in Nat, n % 4 = 0, n >= 16, z[b] - n >= 16
  PROVE  LET m2 == Split(m, b, n).mem
             c == b + z[b] - n
         IN /\ Split(m, b, n).block = c
            /\ c \notin B /\ c \notin F /\ CutSizes(z, B, b, n)[c] = n
            /\ \A u \in B \ F : CutSizes(z, B, b, n)[u] = z[u]
            /\ Heap(m2, B \cup {c}, CutSizes(z, B, b, n), F, r)
            /\ Untouched(m, m2, z, B \ F)
<1> DEFINE m2 == Split(m, b, n).mem
           c == b + z[b] - n
           B2 == B \cup {c}
           z2 == CutSizes(z, B, b, n)
<1>1. Layout(B, z) /\ Headers(m, B, z, F) /\ b \in B /\ F \subseteq B
  BY DEF Heap, Headers
<1>2. Layout(B2, z2) /\ c \notin B
  BY <1>1, CutLayout
<1>3. /\ Split(m, b, n).block = c
      /\ m2 \in [Words -> Int]
      /\ m2[b + 4] = z[b] - n /\ m2[c] = z[b] - n /\ m2[c + 4] = n + 1 /\ m2[b + z[b]] = n + 1
      /\ \A a \in Words : a \notin {b + 4, c, c + 4, b + z[b]} => m2[a] = m[a]
  BY SplitIs
<1>4. b \in Int /\ z[b] \in Int /\ c \in Int
  BY <1>1, BlockPlaces
<1>5. z2[b] = z[b] - n /\ z2[c] = n /\ \A x \in B : x # b => z2[x] = z[x]
  BY <1>1, <1>2, <1>4 DEF CutSizes
<1>6. c + z2[c] = b + z[b] /\ b + z2[b] = c /\ c > b /\ c < b + z[b]
  BY <1>4, <1>5
<1> HIDE DEF m2, c, z2
<1>7. b + 4 # c + 4 /\ c # b
  BY <1>4, <1>6
<1>8. ASSUME NEW x \in B, x # b
      PROVE  m2[x + 4] = m[x + 4] /\ m2[x + z[x]] = m[x + z[x]]
  <2>1. x \in B2 /\ b \in B2 /\ c \in B2 /\ x # c
    BY <1>1, <1>2, <1>8
  <2>2. x + 4 \in Words /\ x + z[x] \in Words /\ x + 4 \notin {b + 4, b + z[b]} /\ x + z[x] \notin {b + 4, b + z[b]}
    BY <1>1, <1>8, WordsApart
  <2>3. z2[x] = z[x]
    BY <1>5, <1>8
  <2>4. x + 4 # c + 4 /\ x + z[x] # c + 4
    BY <1>2, <2>1, <2>3, WordsApart
  <2>5. x + 4 # b + z2[b] /\ x + z[x] # b + z2[b]
    BY <1>2, <1>8, <2>1, <2>3, WordsApart
  <2> QED
    BY <1>3, <1>6, <2>2, <2>4, <2>5
<1>9. /\ {theheap, theheap + 4, Start, TheEnd + 4} \subseteq Words
      /\ \A a \in {theheap, theheap + 4, Start, TheEnd + 4} : a \notin {b + 4, c, c + 4, b + z[b]}
  <2>1. {theheap, theheap + 4} \subseteq Control /\ Control \subseteq Words
    BY Addresses DEF Control
  <2>2. {b + 4, b + z2[b], c + 4, b + z[b]} \subseteq Words \ Control
    BY <1>1, <1>2, WordsApart
  <2>3. \A a \in {b + 4, b + z2[b], c + 4, b + z[b]} : a # Start /\ a # TheEnd + 4
    BY <1>1, <1>2, WordsApart
  <2>4. {Start, TheEnd + 4} \subseteq Words
    BY <1>1, WordsApart
  <2> QED
    BY <1>6, <2>1, <2>2, <2>3, <2>4
<1>10. Headers(m2, B2, z2, F)
  <2>1. \A x \in B2 : m2[x + 4] = Flag(z2, F, x) /\ m2[x + z2[x]] = Flag(z2, F, x)
    <3> SUFFICES ASSUME NEW x \in B2
                 PROVE  m2[x + 4] = Flag(z2, F, x) /\ m2[x + z2[x]] = Flag(z2, F, x)
      OBVIOUS
    <3>1. CASE x = b
      BY <1>3, <1>5, <1>6, <3>1 DEF Flag
    <3>2. CASE x = c
      BY <1>1, <1>2, <1>3, <1>5, <1>6, <3>2 DEF Flag
    <3>3. CASE x \in B /\ x # b
      BY <1>1, <1>5, <1>8, <3>3 DEF Flag, Headers
    <3> QED
      BY <3>1, <3>2, <3>3
  <2> QED
    BY <1>1, <1>3, <1>9, <2>1 DEF Headers
<1>11. FreeList(m2, F, r)
  <2>1. b + 4 \in HeaderWords(B, z) /\ b + z[b] \in HeaderWords(B, z)
    BY <1>1 DEF HeaderWords
  <2>2. c + 4 \in HeaderWords(B2, z2) /\ b + z2[b] \in HeaderWords(B2, z2)
    BY <1>1 DEF HeaderWords
  <2>3. LinkWords(F) \cap HeaderWords(B, z) = {} /\ LinkWords(F) \subseteq Words
    BY <1>1, LinksApart
  <2>4. LinkWords(F) \cap HeaderWords(B2, z2) = {}
    <3>1. F \subseteq B2
      BY <1>1
    <3> QED
      BY <1>2, <3>1, LinksApart
  <2>5. \A a \in LinkWords(F) : m2[a] = m[a]
    BY <1>3, <1>6, <2>1, <2>2, <2>3, <2>4
  <2> QED
    BY <1>1, <2>5, LinksKept DEF Heap
<1>12. Apart(z2, F)
  <2>1. \A x \in F : x + z[x] \notin F
    BY DEF Heap, Apart
  <2>2. \A x \in F : x # b => z2[x] = z[x]
    BY <1>1, <1>5
  <2> QED
    BY <1>1, <1>2, <1>6, <2>1, <2>2 DEF Apart
<1>13. Untouched(m, m2, z, B \ F)
  <2> SUFFICES ASSUME NEW u \in B \ F, NEW a \in Words, u + 8 <= a, a < u + z[u]
               PROVE  m2[a] = m[a]
    BY DEF Untouched
  <2>1. u # b /\ u \in Int /\ z[u] \in Int /\ a \in Int
    BY <1>1, BlockPlaces, Addresses
  <2>2. b + z[b] <= u \/ u + z[u] <= b
    BY <1>1, <2>1, BlocksApart
  <2>3. a \notin {b + 4, c, c + 4, b + z[b]}
    <3>1. n >= 16 /\ z[b] - n >= 16 /\ c = b + z[b] - n
      BY DEF c
    <3> QED
      BY <1>4, <2>1, <2>2, <3>1
  <2> QED
    BY <1>3, <2>3
<1> QED
  BY <1>1, <1>2, <1>3, <1>5, <1>10, <1>11, <1>12, <1>13 DEF Heap, m2, c, z2

\* The words between a block's headers belong to no other block.
LEMMA BodyApart ==
  ASSUME NEW B, NEW z, Layout(B, z), NEW u \in B, NEW a \in Words, u + 8 <= a, a < u + z[u]
  PROVE  /\ a \in Int /\ a \notin Control
         /\ \A b \in B : a # b + 4 /\ a # b + z[b] /\ (b # u => a # b + 8 /\ a # b + 12)
<1>1. /\ u \in Int /\ z[u] \in Int /\ z[u] >= 16 /\ u + z[u] <= TheEnd /\ TheEnd \in Int /\ a \in Int
      /\ Start \in Int /\ Start <= u
  BY BlockPlaces, Addresses, Params DEF Place
<1>2. a \notin Control
  <2>1. Start <= a /\ a < Start + HeapSize
    BY <1>1, Params DEF TheEnd
  <2> QED
    BY <1>1, <2>1, Params DEF Control
<1>3. ASSUME NEW b \in B
      PROVE  a # b + 4 /\ a # b + z[b] /\ (b # u => a # b + 8 /\ a # b + 12)
  <2>1. b \in Int /\ z[b] \in Int /\ z[b] >= 16
    BY BlockPlaces
  <2>2. b # u => b + z[b] <= u \/ u + z[u] <= b
    BY BlocksApart
  <2> QED
    BY <1>1, <2>1, <2>2
<1> QED
  BY <1>1, <1>2, <1>3

\* A block leaves the free list.
Unlinked(m, m2, B, z, F, r, b) ==
  /\ m2 \in [Words -> Int]
  /\ FreeList(m2, F \ {b}, CutRank(F, r, b))
  /\ \A a \in HeaderWords(B, z) : m2[a] = m[a]
  /\ Untouched(m, m2, z, B \ (F \ {b}))

LEMMA UnlinkKeeps ==
  ASSUME NEW m \in [Words -> Int], NEW B, NEW z, NEW F, NEW r, Layout(B, z), F \subseteq B, FreeList(m, F, r), NEW b \in F
  PROVE  Unlinked(m, Unlink(m, b), B, z, F, r, b)
<1> DEFINE m2 == Unlink(m, b)
           G == F \ {b}
           w == m[next(b)]
           u == m[prev(b)]
           nx == NextOf(m, F)
           pv == PrevOf(m, F)
<1>1. Chain(F, nx, pv, r)
  BY DEF FreeList
<1>2. nx[b] = w /\ pv[b] = u /\ b \in B
  BY DEF NextOf, PrevOf
<1>3. w \in F \cup {tail} /\ u \in F \cup {head} /\ w # b /\ u # b
  <2>1. /\ nx[b] \in F \cup {tail} /\ pv[b] \in F \cup {head} /\ pv[nx[b]] = b /\ nx[pv[b]] = b
        /\ r[b] < r[nx[b]] /\ r[pv[b]] < r[nx[pv[b]]] /\ r[b] \in Int /\ tail \notin F /\ head \notin F
    BY <1>1 DEF Chain
  <2> QED
    BY <1>2, <2>1
<1>4. /\ prev(w) \in Words /\ next(u) \in Words /\ next(u) # prev(w)
      /\ \A x \in G \cup {head} : next(x) \in Words /\ next(x) # prev(w) /\ (next(x) = next(u) => x = u)
      /\ \A y \in G \cup {tail} : prev(y) \in Words /\ prev(y) # next(u) /\ (prev(y) = prev(w) => y = w)
  <2> HIDE DEF next, prev, head, tail, w, u
  <2>1. /\ \A x \in F \cup {head} : next(x) \in Words
        /\ \A y \in F \cup {tail} : prev(y) \in Words
        /\ \A x \in F \cup {head}, y \in F \cup {tail} : next(x) # prev(y)
        /\ \A x \in F \cup {head}, y \in F \cup {head} : next(x) = next(y) => x = y
        /\ \A x \in F \cup {tail}, y \in F \cup {tail} : prev(x) = prev(y) => x = y
    BY LinkPlaces DEF LinksFit
  <2> QED
    BY <1>3, <2>1
<1>5. w \in Int /\ u \in Int
  <2>1. \A x \in F : x \in Int
    BY BlockPlaces
  <2> QED
    BY <1>3, <2>1, Params
<1>6. m2 = [m EXCEPT ![prev(w)] = u, ![next(u)] = w]
  BY DEF Unlink
<1> HIDE DEF m2, w, u, nx, pv
<1>7. /\ m2 \in [Words -> Int] /\ m2[prev(w)] = u /\ m2[next(u)] = w
      /\ \A a \in Words : a # prev(w) /\ a # next(u) => m2[a] = m[a]
  BY <1>4, <1>5, <1>6
<1>8. NextOf(m2, G) = CutNext(F, nx, pv, b) /\ PrevOf(m2, G) = CutPrev(F, nx, pv, b)
  <2>1. \A x \in G \cup {head} : m2[next(x)] = IF x = u THEN w ELSE m[next(x)]
    BY <1>4, <1>7
  <2>2. \A y \in G \cup {tail} : m2[prev(y)] = IF y = w THEN u ELSE m[prev(y)]
    BY <1>4, <1>7
  <2>3. \A x \in G \cup {head} : nx[x] = m[next(x)]
    BY DEF nx, NextOf
  <2>4. \A y \in G \cup {tail} : pv[y] = m[prev(y)]
    BY DEF pv, PrevOf
  <2>5. NextOf(m2, G) = CutNext(F, nx, pv, b)
    BY <1>2, <2>1, <2>3 DEF NextOf, CutNext
  <2>6. PrevOf(m2, G) = CutPrev(F, nx, pv, b)
    BY <1>2, <2>2, <2>4 DEF PrevOf, CutPrev
  <2> QED
    BY <2>5, <2>6
<1>9. FreeList(m2, G, CutRank(F, r, b))
  BY <1>1, <1>8, ChainCut DEF FreeList
<1>10. \A a \in HeaderWords(B, z) : m2[a] = m[a]
  <2>1. prev(w) \in LinkWords(F) /\ next(u) \in LinkWords(F)
    BY <1>3 DEF LinkWords
  <2>2. LinkWords(F) \cap HeaderWords(B, z) = {} /\ HeaderWords(B, z) \subseteq Words
    BY LinksApart
  <2> QED
    BY <1>7, <2>1, <2>2
<1>12. Untouched(m, m2, z, B \ G)
  <2> SUFFICES ASSUME NEW x \in B \ G, NEW a \in Words, x + 8 <= a, a < x + z[x]
               PROVE  m2[a] = m[a]
    BY DEF Untouched
  <2>1. a \notin Control /\ \A y \in B : y # x => a # y + 8 /\ a # y + 12
    BY BodyApart
  <2>2. next(head) \in Control /\ prev(tail) \in Control
    BY Params DEF Control
  <2>3. a # prev(w)
    <3>1. CASE w = tail
      BY <2>1, <2>2, <3>1
    <3>2. CASE w \in F
      <4>1. w # x /\ w \in B
        BY <1>3, <3>2
      <4> QED
        BY <2>1, <4>1
    <3> QED
      BY <1>3, <3>1, <3>2
  <2>4. a # next(u)
    <3>1. CASE u = head
      BY <2>1, <2>2, <3>1
    <3>2. CASE u \in F
      <4>1. u # x /\ u \in B
        BY <1>3, <3>2
      <4> QED
        BY <2>1, <4>1
    <3> QED
      BY <1>3, <3>1, <3>2
  <2> QED
    BY <1>7, <2>3, <2>4
<1> QED
  BY <1>7, <1>9, <1>10, <1>12 DEF m2, Unlinked

LEMMA WholeKeeps ==
  ASSUME NEW m, NEW B, NEW z, NEW F, NEW r, Heap(m, B, z, F, r), NEW b \in F
  PROVE  LET m2 == Whole(m, b).mem
         IN /\ Whole(m, b).block = b
            /\ Heap(m2, B, z, F \ {b}, CutRank(F, r, b))
            /\ Untouched(m, m2, z, B \ F)
<1> DEFINE flag == z[b] + 1
           m1 == [m EXCEPT ![b + z[b]] = flag, ![b + 4] = flag]
           m2 == Whole(m, b).mem
           G == F \ {b}
<1>1. Layout(B, z) /\ Headers(m, B, z, F) /\ FreeList(m, F, r) /\ b \in B /\ F \subseteq B /\ m \in [Words -> Int]
  BY DEF Heap, Headers
<1>2. b \in Int /\ z[b] \in Int /\ flag \in Int /\ {b + 4, b + z[b]} \subseteq Words
  BY <1>1, BlockPlaces, WordsApart
<1>3. m[b + 4] = z[b] /\ nextblock(m, b) = b + z[b]
  <2>1. nextblock(m, b) = b + z[b]
    BY <1>1, FlagsAre
  <2> QED
    BY <1>1, <2>1 DEF Headers, Flag
<1>4. Whole(m, b).block = b /\ m2 = Unlink(m1, b)
  BY <1>3 DEF Whole
<1>5. /\ m1 \in [Words -> Int] /\ m1[b + 4] = flag /\ m1[b + z[b]] = flag
      /\ \A a \in Words : a # b + 4 /\ a # b + z[b] => m1[a] = m[a]
  BY <1>1, <1>2
<1> HIDE DEF m1, flag
<1>6. Headers(m1, B, z, G)
  <2>1. \A x \in B : m1[x + 4] = Flag(z, G, x) /\ m1[x + z[x]] = Flag(z, G, x)
    <3> SUFFICES ASSUME NEW x \in B PROVE m1[x + 4] = Flag(z, G, x) /\ m1[x + z[x]] = Flag(z, G, x)
      OBVIOUS
    <3>1. CASE x = b
      BY <1>5, <3>1 DEF Flag, flag
    <3>2. CASE x # b
      <4>1. x + 4 \in Words /\ x + z[x] \in Words /\ x + 4 \notin {b + 4, b + z[b]} /\ x + z[x] \notin {b + 4, b + z[b]}
        BY <1>1, <3>2, WordsApart
      <4> QED
        BY <1>1, <1>5, <3>2, <4>1 DEF Headers, Flag
    <3> QED
      BY <3>1, <3>2
  <2>2. \A a \in {theheap, theheap + 4, Start, TheEnd + 4} : m1[a] = m[a]
    <3>1. {theheap, theheap + 4} \subseteq Control /\ Control \subseteq Words
      BY Addresses DEF Control
    <3> QED
      BY <1>1, <1>5, <3>1, WordsApart
  <2> QED
    BY <1>1, <1>5, <2>1, <2>2 DEF Headers
<1>7. FreeList(m1, F, r)
  <2>1. b + 4 \in HeaderWords(B, z) /\ b + z[b] \in HeaderWords(B, z)
    BY <1>1 DEF HeaderWords
  <2>2. LinkWords(F) \cap HeaderWords(B, z) = {} /\ LinkWords(F) \subseteq Words
    BY <1>1, LinksApart
  <2>3. \A a \in LinkWords(F) : m1[a] = m[a]
    BY <1>5, <2>1, <2>2
  <2> QED
    BY <1>1, <2>3, LinksKept
<1>8. /\ m2 \in [Words -> Int]
      /\ FreeList(m2, G, CutRank(F, r, b))
      /\ \A a \in HeaderWords(B, z) : m2[a] = m1[a]
      /\ Untouched(m1, m2, z, B \ G)
  <2>1. m1 \in [Words -> Int] /\ Layout(B, z) /\ F \subseteq B /\ FreeList(m1, F, r)
    BY <1>1, <1>5, <1>7
  <2> HIDE DEF m2
  <2>2. Unlinked(m1, m2, B, z, F, r, b)
    BY <1>4, <2>1, UnlinkKeeps
  <2> QED
    BY <2>2 DEF Unlinked
<1> HIDE DEF m2
<1>9. Headers(m2, B, z, G)
  BY <1>6, <1>8, HeadersKept
<1>10. Apart(z, G)
  BY DEF Heap, Apart
<1>11. Untouched(m, m2, z, B \ F)
  <2> SUFFICES ASSUME NEW x \in B \ F, NEW a \in Words, x + 8 <= a, a < x + z[x]
               PROVE  m2[a] = m[a]
    BY DEF Untouched
  <2>1. m2[a] = m1[a]
    BY <1>8 DEF Untouched
  <2>2. a # b + 4 /\ a # b + z[b]
    BY <1>1, BodyApart
  <2> QED
    BY <1>5, <2>1, <2>2
<1> QED
  BY <1>1, <1>4, <1>8, <1>9, <1>10, <1>11 DEF Heap, m2
-----------------------------------------------------------------------------
(* A piece is given back *)

\* The blocks before and behind a block, and whether they are free.
LEMMA Neighbours ==
  ASSUME NEW m, NEW B, NEW z, NEW F, Layout(B, z), Headers(m, B, z, F), NEW b \in B
  PROVE  /\ IF IsFree(m[b]) THEN prevblock(m, b) \in F /\ prevblock(m, b) + z[prevblock(m, b)] = b
            ELSE \A p \in F : p + z[p] # b
         /\ IsFree(m[nextblock(m, b) + 4]) <=> b + z[b] \in F
         /\ nextblock(m, b) = b + z[b]
<1>3. nextblock(m, b) = b + z[b] /\ (IsFree(m[b + z[b] + 4]) <=> b + z[b] \in F)
  <2>1. nextblock(m, b) = b + z[b]
    BY FlagsAre
  <2>2. CASE b + z[b] \in B
    BY <2>1, <2>2, FlagsAre
  <2>3. CASE b + z[b] \notin B
    <3>1. b + z[b] = TheEnd
      BY <2>3 DEF Layout
    <3>2. m[TheEnd + 4] = 1 /\ ~ IsFree(1)
      BY DEF Headers, IsFree
    <3> QED
      BY <2>1, <2>3, <3>1, <3>2 DEF Headers
  <2> QED
    BY <2>1, <2>2, <2>3
<1>1. CASE b = Start
  <2>1. m[b] = 1 /\ ~ IsFree(1)
    BY <1>1 DEF Headers, IsFree
  <2>2. \A p \in F : p + z[p] # b
    <3> SUFFICES ASSUME NEW p \in F PROVE p + z[p] # b
      OBVIOUS
    <3>1. p \in B
      BY DEF Headers
    <3>2. p \in Int /\ z[p] \in Int /\ z[p] >= 16 /\ Start <= p /\ Start \in Int
      BY <3>1, BlockPlaces, Params DEF Place
    <3> QED
      BY <1>1, <3>2
  <2> QED
    BY <2>1, <2>2, FlagsAre, <1>3
<1>2. CASE b # Start
  <2>1. PICK p \in B : p + z[p] = b
    BY <1>2 DEF Layout
  <2>2. p \in Int /\ z[p] \in Int /\ b \in Int
    BY <2>1, BlockPlaces
  <2>3. Size(m[b]) = z[p] /\ (IsFree(m[b]) <=> p \in F)
    BY <2>1, FlagsAre
  <2>4. prevblock(m, b) = p
    BY <2>1, <2>2, <2>3 DEF prevblock
  <2>5. \A q \in F : q + z[q] = b => q = p
    BY <2>1, WordsApart DEF Headers
  <2> QED
    BY <2>1, <2>3, <2>4, <2>5, <1>3
<1> QED
  BY <1>1, <1>2, <1>3

\* The headers when one block has grown over others, or has changed its flag.
LEMMA HeadersMerged ==
  ASSUME NEW m, NEW B, NEW z, NEW F, Layout(B, z), Headers(m, B, z, F),
         NEW C, NEW y, Layout(C, y), C \subseteq B, NEW p \in C, \A x \in C : x # p => y[x] = z[x],
         NEW G, G \subseteq C, \A x \in C : x # p => (x \in G <=> x \in F),
         NEW m2 \in [Words -> Int], m2[p + 4] = Flag(y, G, p), m2[p + y[p]] = Flag(y, G, p),
         \A a \in HeaderWords(C, y) : a # p + 4 /\ a # p + y[p] => m2[a] = m[a]
  PROVE  Headers(m2, C, y, G)
<1>1. ASSUME NEW x \in C PROVE m2[x + 4] = Flag(y, G, x) /\ m2[x + y[x]] = Flag(y, G, x)
  <2>1. CASE x = p
    BY <2>1
  <2>2. CASE x # p
    <3>1. x + 4 # p + 4 /\ x + 4 # p + y[p] /\ x + y[x] # p + 4 /\ x + y[x] # p + y[p]
      BY <2>2, WordsApart
    <3>2. x + 4 \in HeaderWords(C, y) /\ x + y[x] \in HeaderWords(C, y)
      BY DEF HeaderWords
    <3>3. m2[x + 4] = m[x + 4] /\ m2[x + y[x]] = m[x + y[x]]
      BY <3>1, <3>2
    <3>4. m[x + 4] = Flag(z, F, x) /\ m[x + z[x]] = Flag(z, F, x) /\ y[x] = z[x]
      BY <2>2 DEF Headers
    <3> QED
      BY <2>2, <3>3, <3>4 DEF Flag
  <2> QED
    BY <2>1, <2>2
<1>2. \A a \in {theheap, theheap + 4, Start, TheEnd + 4} : m2[a] = m[a]
  <2>1. {theheap, theheap + 4} \subseteq Control
    BY DEF Control
  <2>2. {p + 4, p + y[p]} \subseteq Words \ Control
    BY WordsApart
  <2>3. p + 4 # Start /\ p + 4 # TheEnd + 4 /\ p + y[p] # Start /\ p + y[p] # TheEnd + 4
    BY WordsApart
  <2>4. {theheap, theheap + 4, Start, TheEnd + 4} \subseteq HeaderWords(C, y)
    BY DEF HeaderWords
  <2> QED
    BY <2>1, <2>2, <2>3, <2>4
<1> QED
  BY <1>1, <1>2 DEF Headers

\* The list when a block is put at its front, and when one takes another's place.
LEMMA LinksPushed ==
  ASSUME NEW m \in [Words -> Int], NEW F, NEW r, FreeList(m, F, r), NEW b, b \notin F, b # head, b # tail, NEW m2,
         m2[next(b)] = m[next(head)], m2[prev(b)] = head, m2[next(head)] = b, m2[prev(m[next(head)])] = b,
         \A x \in F : m2[next(x)] = m[next(x)],
         \A y \in F \cup {tail} : y # m[next(head)] => m2[prev(y)] = m[prev(y)]
  PROVE  FreeList(m2, F \cup {b}, PushRank(F, r, b))
<1> DEFINE nx == NextOf(m, F)
           pv == PrevOf(m, F)
<1> HIDE DEF head, tail, next, prev
<1>1. nx[head] = m[next(head)] /\ Chain(F, nx, pv, r) /\ nx[head] \in F \cup {tail} /\ head \notin F /\ tail \notin F
  BY DEF NextOf, FreeList, Chain
<1>2. \A x \in F \cup {b, head} : m2[next(x)] = IF x = b THEN nx[head] ELSE IF x = head THEN b ELSE m[next(x)]
  BY <1>1
<1>3. \A y \in F \cup {b, tail} : m2[prev(y)] = IF y = b THEN head ELSE IF y = nx[head] THEN b ELSE m[prev(y)]
  BY <1>1
<1>4. (\A x \in F \cup {head} : nx[x] = m[next(x)]) /\ (\A y \in F \cup {tail} : pv[y] = m[prev(y)])
  BY DEF NextOf, PrevOf
<1> HIDE DEF nx, pv
<1>5. NextOf(m2, F \cup {b}) = PushNext(F, nx, b)
  <2>1. F \cup {b} \cup {head} = F \cup {b, head}
    OBVIOUS
  <2> QED
    BY <1>2, <1>4, <2>1 DEF NextOf, PushNext
<1>6. PrevOf(m2, F \cup {b}) = PushPrev(F, nx, pv, b)
  <2>1. F \cup {b} \cup {tail} = F \cup {b, tail}
    OBVIOUS
  <2> QED
    BY <1>3, <1>4, <2>1 DEF PrevOf, PushPrev
<1>7. Chain(F \cup {b}, PushNext(F, nx, b), PushPrev(F, nx, pv, b), PushRank(F, r, b))
  BY <1>1, ChainPush
<1> QED
  BY <1>5, <1>6, <1>7 DEF FreeList

LEMMA LinksSwapped ==
  ASSUME NEW m \in [Words -> Int], NEW F, NEW r, FreeList(m, F, r), NEW n \in F, NEW b, b \notin F, b # head, b # tail, NEW m2,
         m2[next(b)] = m[next(n)], m2[prev(b)] = m[prev(n)],
         m2[next(m[prev(n)])] = b, m2[prev(m[next(n)])] = b,
         \A x \in F \cup {head} : x # m[prev(n)] /\ x # n => m2[next(x)] = m[next(x)],
         \A y \in F \cup {tail} : y # m[next(n)] /\ y # n => m2[prev(y)] = m[prev(y)]
  PROVE  FreeList(m2, (F \ {n}) \cup {b}, SwapRank(F, r, n, b))
<1> DEFINE nx == NextOf(m, F)
           pv == PrevOf(m, F)
<1> HIDE DEF head, tail, next, prev
<1>1. /\ nx[n] = m[next(n)] /\ pv[n] = m[prev(n)] /\ Chain(F, nx, pv, r)
      /\ nx[n] \in F \cup {tail} /\ pv[n] \in F \cup {head} /\ head \notin F /\ tail \notin F
  BY DEF NextOf, PrevOf, FreeList, Chain
<1>2. \A x \in (F \ {n}) \cup {b, head} : m2[next(x)] = IF x = b THEN nx[n] ELSE IF x = pv[n] THEN b ELSE m[next(x)]
  BY <1>1
<1>3. \A y \in (F \ {n}) \cup {b, tail} : m2[prev(y)] = IF y = b THEN pv[n] ELSE IF y = nx[n] THEN b ELSE m[prev(y)]
  BY <1>1
<1>4. (\A x \in F \cup {head} : nx[x] = m[next(x)]) /\ (\A y \in F \cup {tail} : pv[y] = m[prev(y)])
  BY DEF NextOf, PrevOf
<1> HIDE DEF nx, pv
<1>5. NextOf(m2, (F \ {n}) \cup {b}) = SwapNext(F, nx, pv, n, b)
  <2>1. (F \ {n}) \cup {b} \cup {head} = (F \ {n}) \cup {b, head}
    OBVIOUS
  <2> QED
    BY <1>2, <1>4, <2>1 DEF NextOf, SwapNext
<1>6. PrevOf(m2, (F \ {n}) \cup {b}) = SwapPrev(F, nx, pv, n, b)
  <2>1. (F \ {n}) \cup {b} \cup {tail} = (F \ {n}) \cup {b, tail}
    OBVIOUS
  <2> QED
    BY <1>3, <1>4, <2>1 DEF PrevOf, SwapPrev
<1>7. Chain((F \ {n}) \cup {b}, SwapNext(F, nx, pv, n, b), SwapPrev(F, nx, pv, n, b), SwapRank(F, r, n, b))
  BY <1>1, ChainSwap
<1> QED
  BY <1>5, <1>6, <1>7 DEF FreeList
-----------------------------------------------------------------------------
(* The four ways to free a block *)

\* Every used block but b is where it was, with its words.
UsedKept(m, m2, B, z, F, b, B2, z2, F2) ==
  /\ B2 \ F2 = (B \ F) \ {b}
  /\ \A u \in (B \ F) \ {b} : z2[u] = z[u]
  /\ Untouched(m, m2, z, (B \ F) \ {b})

\* Two blocks become one.
LEMMA MergedSizes ==
  ASSUME NEW B, NEW z, Layout(B, z), NEW p \in B, NEW b \in B, p + z[p] = b
  PROVE  /\ Layout(B \ {b}, JoinSizes(z, B, p)) /\ p \in B \ {b}
         /\ JoinSizes(z, B, p)[p] = z[p] + z[b] /\ p + JoinSizes(z, B, p)[p] = b + z[b]
         /\ \A x \in B \ {b} : x # p => JoinSizes(z, B, p)[x] = z[x]
<1>1. p + z[p] \in B
  OBVIOUS
<1>2. Layout(B \ {b}, JoinSizes(z, B, p)) /\ p \in B \ {b}
  BY <1>1, JoinLayout
<1>3. p \in Int /\ z[p] \in Int /\ z[b] \in Int /\ b \in Int
  BY BlockPlaces
<1>4. JoinSizes(z, B, p) = [x \in B \ {b} |-> IF x = p THEN z[p] + z[b] ELSE z[x]]
  BY DEF JoinSizes
<1>5. /\ JoinSizes(z, B, p)[p] = z[p] + z[b]
      /\ \A x \in B \ {b} : x # p => JoinSizes(z, B, p)[x] = z[x]
  BY <1>2, <1>4
<1>6. p + JoinSizes(z, B, p)[p] = b + z[b]
  BY <1>3, <1>5
<1> QED
  BY <1>2, <1>5, <1>6

LEMMA JoinPrevKeeps ==
  ASSUME NEW m, NEW B, NEW z, NEW F, NEW r, Heap(m, B, z, F, r), NEW b \in B \ F, IsFree(m[b]), b + z[b] \notin F
  PROVE  LET m2 == JoinPrev(m, b)
             p  == prevblock(m, b)
             C  == B \ {b}
             y  == JoinSizes(z, B, p)
         IN Heap(m2, C, y, F, r) /\ p \in F /\ UsedKept(m, m2, B, z, F, b, C, y, F)
<1> DEFINE m2 == JoinPrev(m, b)
           p  == prevblock(m, b)
           C  == B \ {b}
           y  == JoinSizes(z, B, p)
<1>1. Layout(B, z) /\ Headers(m, B, z, F) /\ FreeList(m, F, r) /\ b \in B /\ F \subseteq B /\ m \in [Words -> Int]
  BY DEF Heap, Headers
<1>2. p \in F /\ p + z[p] = b /\ p \in B /\ nextblock(m, b) = b + z[b]
  BY <1>1, Neighbours
<1>3. /\ Layout(C, y) /\ p \in C /\ y[p] = z[p] + z[b] /\ p + y[p] = b + z[b]
      /\ \A x \in C : x # p => y[x] = z[x]
  <2> HIDE DEF p
  <2> QED
    BY <1>1, <1>2, MergedSizes
<1>4. m[p + 4] = z[p] /\ Size(m[b + 4]) = z[b]
  <2>1. Size(m[b + 4]) = z[b]
    BY <1>1, FlagsAre
  <2> QED
    BY <1>1, <1>2, <2>1 DEF Headers, Flag
<1>5. m2 = [m EXCEPT ![p + 4] = y[p], ![p + y[p]] = y[p]]
  BY <1>2, <1>3, <1>4 DEF JoinPrev
<1>6. {p + 4, p + y[p]} \subseteq Words /\ y[p] \in Int
  BY <1>3, WordsApart, BlockPlaces
<1> HIDE DEF m2, p, y
<1>7. /\ m2 \in [Words -> Int] /\ m2[p + 4] = y[p] /\ m2[p + y[p]] = y[p]
      /\ \A a \in Words : a # p + 4 /\ a # p + y[p] => m2[a] = m[a]
  BY <1>1, <1>5, <1>6
<1>8. F \subseteq C
  BY <1>1
<1>9. HeaderWords(C, y) \subseteq Words /\ LinkWords(F) \subseteq Words /\ LinkWords(F) \cap HeaderWords(C, y) = {}
  BY <1>3, <1>8, LinksApart
<1>10. Headers(m2, C, y, F)
  <2>1. Flag(y, F, p) = y[p]
    BY <1>2 DEF Flag
  <2>2. \A a \in HeaderWords(C, y) : a # p + 4 /\ a # p + y[p] => m2[a] = m[a]
    BY <1>7, <1>9
  <2>3. /\ m2[p + 4] = Flag(y, F, p) /\ m2[p + y[p]] = Flag(y, F, p) /\ C \subseteq B
        /\ \A x \in C : x # p => (x \in F <=> x \in F)
    BY <1>7, <2>1
  <2> HIDE DEF C
  <2> QED
    BY <1>1, <1>3, <1>7, <1>8, <2>2, <2>3, HeadersMerged
<1>11. FreeList(m2, F, r)
  <2>1. p + 4 \in HeaderWords(C, y) /\ p + y[p] \in HeaderWords(C, y)
    BY <1>3 DEF HeaderWords
  <2>2. \A a \in LinkWords(F) : m2[a] = m[a]
    BY <1>7, <1>9, <2>1
  <2> QED
    BY <1>1, <2>2, LinksKept
<1>12. Apart(y, F)
  <2>1. \A x \in F : x + z[x] \notin F
    BY DEF Heap, Apart
  <2> QED
    BY <1>3, <1>8, <2>1 DEF Apart
<1>13. UsedKept(m, m2, B, z, F, b, C, y, F)
  <2>1. Untouched(m, m2, z, (B \ F) \ {b})
    <3> SUFFICES ASSUME NEW u \in (B \ F) \ {b}, NEW a \in Words, u + 8 <= a, a < u + z[u]
                 PROVE  m2[a] = m[a]
      BY DEF Untouched
    <3>1. a # p + 4 /\ a # b + z[b]
      BY <1>1, <1>2, BodyApart
    <3> QED
      BY <1>3, <1>7, <3>1
  <2>2. C \ F = (B \ F) \ {b} /\ \A u \in (B \ F) \ {b} : y[u] = z[u]
    BY <1>2, <1>3
  <2> QED
    BY <2>1, <2>2 DEF UsedKept
<1> QED
  BY <1>2, <1>3, <1>10, <1>11, <1>12, <1>13 DEF Heap, m2, p, y

LEMMA JoinBothKeeps ==
  ASSUME NEW m, NEW B, NEW z, NEW F, NEW r, Heap(m, B, z, F, r), NEW b \in B \ F, IsFree(m[b]), b + z[b] \in F
  PROVE  LET m2 == JoinBoth(m, b)
             p  == prevblock(m, b)
             n  == b + z[b]
             C  == (B \ {b}) \ {n}
             y  == JoinSizes(JoinSizes(z, B, p), B \ {b}, p)
         IN Heap(m2, C, y, F \ {n}, CutRank(F, r, n)) /\ p \in F \ {n} /\ UsedKept(m, m2, B, z, F, b, C, y, F \ {n})
<1> DEFINE m2 == JoinBoth(m, b)
           p  == prevblock(m, b)
           n  == b + z[b]
           D  == B \ {b}
           x1 == JoinSizes(z, B, p)
           C  == D \ {n}
           y  == JoinSizes(x1, D, p)
           G  == F \ {n}
           m1 == [m EXCEPT ![p + 4] = y[p], ![p + y[p]] = y[p]]
<1>1. Layout(B, z) /\ Headers(m, B, z, F) /\ FreeList(m, F, r) /\ b \in B /\ F \subseteq B /\ m \in [Words -> Int]
  BY DEF Heap, Headers
<1>2. p \in F /\ p + z[p] = b /\ p \in B /\ nextblock(m, b) = n
  BY <1>1, Neighbours
<1>3. n \in F /\ n \in B /\ n # b /\ n # p /\ n \in Int /\ z[n] \in Int /\ z[b] \in Int /\ z[p] \in Int /\ p \in Int
  <2>1. n \in F /\ n \in B /\ b \in Int /\ z[b] \in Int /\ z[b] >= 16
    BY <1>1, BlockPlaces
  <2>2. p \in Int /\ z[p] \in Int /\ z[p] >= 16 /\ z[n] \in Int
    BY <1>1, <1>2, <2>1, BlockPlaces
  <2> HIDE DEF p
  <2> QED
    BY <1>2, <2>1, <2>2
<1> HIDE DEF p, n
<1>4. /\ Layout(D, x1) /\ p \in D /\ x1[p] = z[p] + z[b] /\ p + x1[p] = n
      /\ \A x \in D : x # p => x1[x] = z[x]
  <2>1. p \in B /\ b \in B /\ p + z[p] = b /\ Layout(B, z)
    BY <1>1, <1>2
  <2> QED
    BY <2>1, MergedSizes DEF n
<1> HIDE DEF x1
<1>5. /\ Layout(C, y) /\ p \in C /\ y[p] = x1[p] + x1[n] /\ p + y[p] = n + x1[n]
      /\ \A x \in C : x # p => y[x] = x1[x]
  <2>1. p \in D /\ n \in D /\ p + x1[p] = n /\ Layout(D, x1)
    BY <1>3, <1>4
  <2> HIDE DEF D
  <2> QED
    BY <2>1, MergedSizes
<1> HIDE DEF y
<1>6. /\ y[p] = z[p] + z[n] + z[b] /\ p + y[p] = n + z[n]
      /\ \A x \in C : x # p => y[x] = z[x]
  BY <1>3, <1>4, <1>5
<1>7. m[p + 4] = z[p] /\ m[n + 4] = z[n] /\ Size(m[b + 4]) = z[b]
  <2>1. Size(m[b + 4]) = z[b]
    BY <1>1, FlagsAre
  <2> QED
    BY <1>1, <1>2, <1>3, <2>1 DEF Headers, Flag
<1>8. m2 = Unlink(m1, n)
  BY <1>2, <1>6, <1>7 DEF JoinBoth, p, n
<1>9. {p + 4, p + y[p]} \subseteq Words /\ y[p] \in Int
  BY <1>5, WordsApart, BlockPlaces
<1> HIDE DEF m2, m1
<1>10. /\ m1 \in [Words -> Int] /\ m1[p + 4] = y[p] /\ m1[p + y[p]] = y[p]
       /\ \A a \in Words : a # p + 4 /\ a # p + y[p] => m1[a] = m[a]
  BY <1>1, <1>9 DEF m1
<1>11. C \subseteq B /\ G \subseteq C /\ p \in G /\ \A x \in C : x # p => (x \in G <=> x \in F)
  BY <1>1, <1>2, <1>3
<1>12. HeaderWords(C, y) \subseteq HeaderWords(B, z)
  <2>1. \A x \in C : x + y[x] \in {c + z[c] : c \in B}
    BY <1>3, <1>6, <1>11
  <2> QED
    BY <1>11, <2>1 DEF HeaderWords
<1>13. HeaderWords(B, z) \subseteq Words /\ LinkWords(F) \subseteq Words /\ LinkWords(F) \cap HeaderWords(B, z) = {}
  BY <1>1, LinksApart
<1>14. Headers(m1, C, y, G)
  <2>1. Flag(y, G, p) = y[p]
    BY <1>11 DEF Flag
  <2>2. \A a \in HeaderWords(C, y) : a # p + 4 /\ a # p + y[p] => m1[a] = m[a]
    BY <1>10, <1>12, <1>13
  <2>3. m1[p + 4] = Flag(y, G, p) /\ m1[p + y[p]] = Flag(y, G, p)
    BY <1>10, <2>1
  <2> HIDE DEF C, G
  <2> QED
    BY <1>1, <1>5, <1>6, <1>10, <1>11, <2>2, <2>3, HeadersMerged
<1>15. FreeList(m1, F, r)
  <2>1. p + 4 \in HeaderWords(B, z) /\ p + y[p] \in HeaderWords(B, z)
    BY <1>2, <1>3, <1>6 DEF HeaderWords
  <2>2. \A a \in LinkWords(F) : m1[a] = m[a]
    BY <1>10, <1>13, <2>1
  <2> QED
    BY <1>1, <2>2, LinksKept
<1>16. /\ m2 \in [Words -> Int] /\ FreeList(m2, G, CutRank(F, r, n))
       /\ \A a \in HeaderWords(B, z) : m2[a] = m1[a]
       /\ Untouched(m1, m2, z, B \ G)
  <2>1. Unlinked(m1, m2, B, z, F, r, n)
    BY <1>1, <1>3, <1>8, <1>10, <1>15, UnlinkKeeps
  <2> QED
    BY <2>1 DEF Unlinked
<1>17. Headers(m2, C, y, G)
  <2>1. \A a \in HeaderWords(C, y) : m2[a] = m1[a]
    BY <1>12, <1>16
  <2> HIDE DEF C, G
  <2> QED
    BY <1>14, <1>16, <2>1, HeadersKept
<1>18. Apart(y, G)
  <2>1. \A x \in F : x + z[x] \notin F
    BY DEF Heap, Apart
  <2> QED
    BY <1>3, <1>6, <1>11, <2>1 DEF Apart
<1>19. UsedKept(m, m2, B, z, F, b, C, y, G)
  <2>1. Untouched(m, m2, z, (B \ F) \ {b})
    <3> SUFFICES ASSUME NEW u \in (B \ F) \ {b}, NEW a \in Words, u + 8 <= a, a < u + z[u]
                 PROVE  m2[a] = m[a]
      BY DEF Untouched
    <3>1. a # p + 4 /\ a # n + z[n]
      BY <1>1, <1>2, <1>3, BodyApart
    <3>2. m2[a] = m1[a]
      BY <1>16 DEF Untouched
    <3> QED
      BY <1>6, <1>10, <3>1, <3>2
  <2>2. C \ G = (B \ F) \ {b} /\ \A u \in (B \ F) \ {b} : y[u] = z[u]
    BY <1>2, <1>3, <1>6
  <2> QED
    BY <2>1, <2>2 DEF UsedKept
<1> QED
  BY <1>5, <1>11, <1>16, <1>17, <1>18, <1>19 DEF Heap, m2, p, n, x1, y

LEMMA JoinNextKeeps ==
  ASSUME NEW m, NEW B, NEW z, NEW F, NEW r, Heap(m, B, z, F, r), NEW b \in B \ F, ~ IsFree(m[b]), b + z[b] \in F
  PROVE  LET m2 == JoinNext(m, b)
             n  == b + z[b]
             C  == B \ {n}
             y  == JoinSizes(z, B, b)
             G  == (F \ {n}) \cup {b}
         IN Heap(m2, C, y, G, SwapRank(F, r, n, b)) /\ UsedKept(m, m2, B, z, F, b, C, y, G)
<1> DEFINE m2 == JoinNext(m, b)
           n  == b + z[b]
           C  == B \ {n}
           y  == JoinSizes(z, B, b)
           G  == (F \ {n}) \cup {b}
           w  == m[next(n)]
           u  == m[prev(n)]
           nx == NextOf(m, F)
           pv == PrevOf(m, F)
<1>1. /\ Layout(B, z) /\ Headers(m, B, z, F) /\ FreeList(m, F, r) /\ b \in B /\ F \subseteq B /\ m \in [Words -> Int]
      /\ n \in F /\ n \in B
  BY DEF Heap, Headers
<1>2. nextblock(m, b) = n /\ \A p \in F : p + z[p] # b
  BY <1>1, Neighbours
<1>3. n # b /\ n \in Int /\ b \in Int /\ z[n] \in Int /\ z[b] \in Int /\ z[n] >= 16 /\ z[b] >= 16
  <2>1. b \in Int /\ z[b] \in Int /\ z[b] >= 16
    BY <1>1, BlockPlaces
  <2>2. z[n] \in Int /\ z[n] >= 16
    BY <1>1, BlockPlaces
  <2> QED
    BY <2>1, <2>2
<1>4. /\ Layout(C, y) /\ b \in C /\ y[b] = z[b] + z[n] /\ b + y[b] = n + z[n]
      /\ \A x \in C : x # b => y[x] = z[x]
  <2>1. b \in B /\ n \in B /\ b + z[b] = n /\ Layout(B, z)
    BY <1>1
  <2> HIDE DEF n
  <2> QED
    BY <2>1, MergedSizes
<1> HIDE DEF n, y
<1>5. m[n + 4] = z[n] /\ Size(m[b + 4]) = z[b]
  <2>1. Size(m[b + 4]) = z[b]
    BY <1>1, FlagsAre
  <2> QED
    BY <1>1, <2>1 DEF Headers, Flag
<1>6. Chain(F, nx, pv, r) /\ nx[n] = w /\ pv[n] = u
  BY <1>1 DEF FreeList, NextOf, PrevOf
<1>7. w \in F \cup {tail} /\ u \in F \cup {head} /\ w # n /\ u # n /\ m[next(u)] = n /\ m[prev(w)] = n
  <2>1. /\ nx[n] \in F \cup {tail} /\ pv[n] \in F \cup {head} /\ pv[nx[n]] = n /\ nx[pv[n]] = n
        /\ r[n] < r[nx[n]] /\ r[pv[n]] < r[nx[pv[n]]] /\ r[n] \in Int
    BY <1>1, <1>6 DEF Chain
  <2>2. w \in F \cup {tail} /\ u \in F \cup {head}
    BY <1>6, <2>1
  <2>3. nx[u] = m[next(u)] /\ pv[w] = m[prev(w)]
    BY <2>2 DEF NextOf, PrevOf
  <2> QED
    BY <1>1, <1>6, <2>1, <2>3, HeadIsNotTail DEF Chain
<1>8. w # b /\ u # b /\ b \notin F
  <2>1. b \notin F /\ b # head /\ b # tail
    BY <1>1, LinkPlaces
  <2> QED
    BY <1>7, <2>1
<1> DEFINE m0 == [m EXCEPT ![b + 4] = y[b], ![b + y[b]] = y[b],
                           ![b + 8] = w, ![b + 12] = u, ![u + 8] = b, ![w + 12] = b]
<1>9. m2 = IF m0[first] = n THEN [m0 EXCEPT ![first] = b] ELSE m0
  <2>1. Size(m[b + 4]) + m[n + 4] = y[b]
    BY <1>4, <1>5
  <2>2. b + 2 * 4 = b + 8 /\ b + 3 * 4 = b + 12 /\ u + 2 * 4 = u + 8 /\ w + 3 * 4 = w + 12 /\ theheap + 2 * 4 = theheap + 8
    OBVIOUS
  <2> HIDE DEF w, u
  <2> QED
    BY <1>2, <2>1, <2>2 DEF JoinNext, Put, w, u
<1>10. /\ next(b) \in Words /\ prev(b) \in Words /\ next(u) \in Words /\ prev(w) \in Words
       /\ b + 4 \in Words /\ b + y[b] \in Words /\ b + 4 # b + y[b] /\ next(head) \in Words
       /\ w \in Int /\ u \in Int /\ y[b] \in Int
  <2>1. LinksFit(B, z, F \cup {b})
    <3>1. F \cup {b} \subseteq B
      BY <1>1
    <3> QED
      BY <1>1, <3>1, LinkPlaces
  <2>2. next(b) \in Words /\ prev(b) \in Words /\ next(u) \in Words /\ prev(w) \in Words /\ next(head) \in Words
    <3> HIDE DEF next, prev, head, tail, w, u
    <3> QED
      BY <1>7, <2>1 DEF LinksFit
  <2>3. b + 4 \in Words /\ b + y[b] \in Words /\ y[b] \in Int
    BY <1>4, WordsApart, BlockPlaces
  <2>4. \A x \in F \cup {head, tail} : x \in Int
    BY <1>1, BlockPlaces, Params
  <2> QED
    BY <1>3, <1>4, <1>7, <2>2, <2>3, <2>4
<1>11. LinkWords(F \cup {b}) \cap HeaderWords(B, z) = {} /\ HeaderWords(B, z) \subseteq Words
  <2>1. F \cup {b} \subseteq B
    BY <1>1
  <2> QED
    BY <1>1, <2>1, LinksApart
<1>12. /\ next(b) \in LinkWords(F \cup {b}) /\ prev(b) \in LinkWords(F \cup {b})
       /\ next(u) \in LinkWords(F \cup {b}) /\ prev(w) \in LinkWords(F \cup {b})
       /\ b + 4 \in HeaderWords(B, z) /\ b + y[b] \in HeaderWords(B, z)
  <2>1. b + 4 \in HeaderWords(B, z) /\ b + y[b] \in HeaderWords(B, z)
    BY <1>1, <1>4 DEF HeaderWords
  <2> HIDE DEF next, prev, head, tail, w, u
  <2> QED
    BY <1>7, <2>1 DEF LinkWords
<1>13. /\ next(u) # prev(w) /\ next(b) # prev(b) /\ next(u) # next(b) /\ next(u) # prev(b) /\ prev(w) # next(b) /\ prev(w) # prev(b)
       /\ \A x \in F \cup {head} : x # u => next(x) \notin {next(b), prev(b), next(u), prev(w), b + 4, b + y[b]}
       /\ \A x \in F \cup {tail} : x # w => prev(x) \notin {next(b), prev(b), next(u), prev(w), b + 4, b + y[b]}
  <2>1. LinksFit(B, z, F \cup {b})
    <3>1. F \cup {b} \subseteq B
      BY <1>1
    <3> QED
      BY <1>1, <3>1, LinkPlaces
  <2>2. \A x \in F \cup {head} : x # b
    BY <1>1, <1>8, LinkPlaces
  <2>3. \A x \in F \cup {tail} : x # b
    BY <1>1, <1>8, LinkPlaces
  <2>4. \A x \in F \cup {b, head} : b + 4 # next(x) /\ b + y[b] # next(x)
    BY <1>11, <1>12 DEF LinkWords
  <2>5. \A x \in F \cup {b, tail} : b + 4 # prev(x) /\ b + y[b] # prev(x)
    BY <1>11, <1>12 DEF LinkWords
  <2>6. /\ \A x \in F \cup {b, head}, c \in F \cup {b, tail} : next(x) # prev(c)
        /\ \A x \in F \cup {b, head}, c \in F \cup {b, head} : next(x) = next(c) => x = c
        /\ \A x \in F \cup {b, tail}, c \in F \cup {b, tail} : prev(x) = prev(c) => x = c
    <3> HIDE DEF next, prev, head, tail
    <3> QED
      BY <2>1 DEF LinksFit
  <2> HIDE DEF next, prev, head, tail, w, u
  <2> QED
    BY <1>7, <1>8, <2>2, <2>3, <2>4, <2>5, <2>6
<1> HIDE DEF m2, m0
<1>14. /\ m0 \in [Words -> Int] /\ m0[b + 4] = y[b] /\ m0[b + y[b]] = y[b]
       /\ m0[next(b)] = w /\ m0[prev(b)] = u /\ m0[next(u)] = b /\ m0[prev(w)] = b
       /\ \A a \in Words : a \notin {next(b), prev(b), next(u), prev(w), b + 4, b + y[b]} => m0[a] = m[a]
  <2>1. next(b) # b + 4 /\ next(b) # b + y[b] /\ prev(b) # b + 4 /\ prev(b) # b + y[b]
        /\ next(u) # b + 4 /\ next(u) # b + y[b] /\ prev(w) # b + 4 /\ prev(w) # b + y[b]
    BY <1>11, <1>12
  <2>2. b + 4 # b + y[b]
    BY <1>3, <1>4
  <2>3. m0 = [m EXCEPT ![b + 4] = y[b], ![b + y[b]] = y[b],
                       ![next(b)] = w, ![prev(b)] = u, ![next(u)] = b, ![prev(w)] = b]
    <3>1. b + 2 * 4 = b + 8 /\ b + 3 * 4 = b + 12 /\ u + 2 * 4 = u + 8 /\ w + 3 * 4 = w + 12
      OBVIOUS
    <3> HIDE DEF w, u
    <3> QED
      BY <3>1 DEF m0
  <2> HIDE DEF next, prev, w, u
  <2> QED
    BY <1>1, <1>3, <1>10, <1>13, <2>1, <2>2, <2>3
<1>15. m2 = m0
  <2>1. m0[next(head)] # n
    <3>1. CASE u = head
      BY <1>3, <1>14, <3>1
    <3>2. CASE u # head
      <4>1. m0[next(head)] = m[next(head)]
        <5> HIDE DEF next, prev, head, tail, w, u
        <5> QED
          BY <1>10, <1>13, <1>14, <3>2
      <4>2. nx[head] = m[next(head)] /\ pv[nx[head]] = head
        BY <1>6 DEF NextOf, Chain
      <4> QED
        BY <1>6, <3>2, <4>1, <4>2
    <3> QED
      BY <3>1, <3>2
  <2> QED
    BY <1>9, <2>1
<1>16. C \subseteq B /\ G \subseteq C /\ b \in G /\ \A x \in C : x # b => (x \in G <=> x \in F)
  BY <1>1, <1>3
<1>17. HeaderWords(C, y) \subseteq HeaderWords(B, z)
  <2>1. \A x \in C : x + y[x] \in {c + z[c] : c \in B}
    BY <1>1, <1>4, <1>16
  <2> QED
    BY <1>16, <2>1 DEF HeaderWords
<1>18. Headers(m2, C, y, G)
  <2>1. Flag(y, G, b) = y[b]
    BY <1>16 DEF Flag
  <2>2. \A a \in HeaderWords(C, y) : a # b + 4 /\ a # b + y[b] => m2[a] = m[a]
    BY <1>11, <1>12, <1>14, <1>15, <1>17
  <2>3. m2 \in [Words -> Int] /\ m2[b + 4] = Flag(y, G, b) /\ m2[b + y[b]] = Flag(y, G, b)
    BY <1>14, <1>15, <2>1
  <2> HIDE DEF C, G
  <2> QED
    BY <1>1, <1>4, <1>16, <2>2, <2>3, HeadersMerged
<1>19. FreeList(m2, G, SwapRank(F, r, n, b))
  <2>1. b # head /\ b # tail
    BY <1>1, LinkPlaces
  <2>2. \A x \in F \cup {head} : next(x) \in Words
    BY <1>1, LinkPlaces DEF LinksFit
  <2>3. \A x \in F \cup {tail} : prev(x) \in Words
    BY <1>1, LinkPlaces DEF LinksFit
  <2>4. \A x \in F \cup {head} : x # u /\ x # n => m2[next(x)] = m[next(x)]
    <3> HIDE DEF next, prev, head, tail, w, u
    <3> QED
      BY <1>13, <1>14, <1>15, <2>2
  <2>5. \A x \in F \cup {tail} : x # w /\ x # n => m2[prev(x)] = m[prev(x)]
    <3> HIDE DEF next, prev, head, tail, w, u
    <3> QED
      BY <1>13, <1>14, <1>15, <2>3
  <2>6. /\ m2[next(b)] = m[next(n)] /\ m2[prev(b)] = m[prev(n)]
        /\ m2[next(m[prev(n)])] = b /\ m2[prev(m[next(n)])] = b
    BY <1>14, <1>15
  <2>7. /\ \A x \in F \cup {head} : x # m[prev(n)] /\ x # n => m2[next(x)] = m[next(x)]
        /\ \A x \in F \cup {tail} : x # m[next(n)] /\ x # n => m2[prev(x)] = m[prev(x)]
    BY <2>4, <2>5
  <2> HIDE DEF next, prev, head, tail, w, u
  <2> QED
    BY <1>1, <1>8, <2>1, <2>6, <2>7, LinksSwapped
<1>20. Apart(y, G)
  <2>1. \A x \in F : x + z[x] \notin F
    BY DEF Heap, Apart
  <2>2. n + z[n] # b
    <3>1. n = b + z[b]
      BY DEF n
    <3> QED
      BY <1>3, <3>1
  <2> QED
    BY <1>1, <1>2, <1>4, <1>16, <2>1, <2>2 DEF Apart
<1>21. UsedKept(m, m2, B, z, F, b, C, y, G)
  <2>1. Untouched(m, m2, z, (B \ F) \ {b})
    <3> SUFFICES ASSUME NEW x \in (B \ F) \ {b}, NEW a \in Words, x + 8 <= a, a < x + z[x]
                 PROVE  m2[a] = m[a]
      BY DEF Untouched
    <3>1. /\ a # b + 4 /\ a # n + z[n] /\ a # next(b) /\ a # prev(b) /\ a \notin Control
          /\ \A c \in F : a # next(c) /\ a # prev(c)
      BY <1>1, BodyApart
    <3>2. next(head) \in Control /\ prev(tail) \in Control
      BY Params DEF Control
    <3>3. a # next(u) /\ a # prev(w)
      <4> HIDE DEF next, prev, head, tail, w, u
      <4> QED
        BY <1>7, <3>1, <3>2
    <3> QED
      BY <1>4, <1>14, <1>15, <3>1, <3>3
  <2>2. C \ G = (B \ F) \ {b} /\ \A x \in (B \ F) \ {b} : y[x] = z[x]
    BY <1>1, <1>3, <1>4
  <2> QED
    BY <2>1, <2>2 DEF UsedKept
<1> QED
  BY <1>4, <1>18, <1>19, <1>20, <1>21 DEF Heap, m2, n, y

LEMMA EnlistKeeps ==
  ASSUME NEW m, NEW B, NEW z, NEW F, NEW r, Heap(m, B, z, F, r), NEW b \in B \ F, ~ IsFree(m[b]), b + z[b] \notin F
  PROVE  LET m2 == Enlist(m, b)
             G  == F \cup {b}
         IN Heap(m2, B, z, G, PushRank(F, r, b)) /\ UsedKept(m, m2, B, z, F, b, B, z, G)
<1> DEFINE m2 == Enlist(m, b)
           G  == F \cup {b}
           w  == m[next(head)]
           s  == z[b]
           nx == NextOf(m, F)
           pv == PrevOf(m, F)
<1>1. /\ Layout(B, z) /\ Headers(m, B, z, F) /\ FreeList(m, F, r) /\ b \in B /\ F \subseteq B /\ m \in [Words -> Int]
      /\ G \subseteq B
  BY DEF Heap, Headers
<1>2. nextblock(m, b) = b + s /\ \A p \in F : p + z[p] # b
  BY <1>1, Neighbours
<1>3. b \in Int /\ s \in Int /\ s >= 16 /\ Size(m[b + 4]) = s
  BY <1>1, BlockPlaces, FlagsAre
<1> HIDE DEF s
<1>4. w \in F \cup {tail} /\ head # tail /\ b # head /\ b # tail /\ w # b
  <2>1. nx[head] = w /\ nx[head] \in F \cup {tail}
    BY <1>1 DEF FreeList, NextOf, Chain
  <2>2. head # tail /\ b # head /\ b # tail
    BY <1>1, LinkPlaces
  <2> QED
    BY <2>1, <2>2
<1>5. m2 = [m EXCEPT ![b + s] = s, ![b + 4] = s, ![prev(b)] = head, ![next(b)] = w, ![next(head)] = b, ![prev(w)] = b]
  <2>1. first = next(head)
    BY Params
  <2>2. Enlist(m, b) = [m EXCEPT ![b + s] = s, ![b + 4] = s, ![prev(b)] = head, ![next(b)] = m[first], ![first] = b, ![prev(m[first])] = b]
    BY <1>3 DEF Enlist
  <2> HIDE DEF first, next, prev, head
  <2> QED
    BY <2>1, <2>2
<1>6. LinksFit(B, z, G)
  BY <1>1, LinkPlaces
<1>7. /\ next(b) \in Words /\ prev(b) \in Words /\ next(head) \in Words /\ prev(w) \in Words
      /\ next(head) # prev(w) /\ next(b) # prev(b) /\ next(head) # next(b) /\ next(head) # prev(b)
      /\ prev(w) # next(b) /\ prev(w) # prev(b)
      /\ \A x \in F : next(x) \in Words /\ next(x) \notin {next(b), prev(b), next(head), prev(w)}
      /\ \A x \in F \cup {tail} : x # w => prev(x) \in Words /\ prev(x) \notin {next(b), prev(b), next(head), prev(w)}
  <2>1. /\ \A x \in F \cup {b, head} : next(x) \in Words
        /\ \A x \in F \cup {b, tail} : prev(x) \in Words
        /\ \A x \in F \cup {b, head}, c \in F \cup {b, tail} : next(x) # prev(c)
        /\ \A x \in F \cup {b, head}, c \in F \cup {b, head} : next(x) = next(c) => x = c
        /\ \A x \in F \cup {b, tail}, c \in F \cup {b, tail} : prev(x) = prev(c) => x = c
    <3> HIDE DEF next, prev, head, tail
    <3> QED
      BY <1>6 DEF LinksFit
  <2>2. head \notin F /\ b \notin F
    BY <1>1, LinkPlaces
  <2> HIDE DEF next, prev, head, tail, w
  <2> QED
    BY <1>4, <2>1, <2>2
<1>8. /\ LinkWords(G) \cap HeaderWords(B, z) = {} /\ HeaderWords(B, z) \subseteq Words /\ LinkWords(G) \subseteq Words
      /\ {next(b), prev(b), next(head), prev(w)} \subseteq LinkWords(G)
      /\ \A x \in F : next(x) \in LinkWords(G)
      /\ \A x \in F \cup {tail} : prev(x) \in LinkWords(G)
      /\ b + 4 \in HeaderWords(B, z) /\ b + s \in HeaderWords(B, z) /\ b + 4 # b + s
  <2>1. b + 4 \in HeaderWords(B, z) /\ b + s \in HeaderWords(B, z) /\ b + 4 # b + s
    BY <1>1, <1>3 DEF HeaderWords, s
  <2>2. LinkWords(G) \cap HeaderWords(B, z) = {} /\ HeaderWords(B, z) \subseteq Words /\ LinkWords(G) \subseteq Words
    BY <1>1, LinksApart
  <2> HIDE DEF next, prev, head, tail, w
  <2> QED
    BY <1>4, <2>1, <2>2 DEF LinkWords
<1>9. w \in Int /\ head \in Int
  <2>1. \A x \in F : x \in Int
    BY <1>1, BlockPlaces
  <2> QED
    BY <1>4, <2>1, Params
<1> HIDE DEF m2
<1>10. /\ m2 \in [Words -> Int] /\ m2[b + 4] = s /\ m2[b + s] = s
       /\ m2[next(b)] = w /\ m2[prev(b)] = head /\ m2[next(head)] = b /\ m2[prev(w)] = b
       /\ \A a \in Words : a \notin {next(b), prev(b), next(head), prev(w), b + 4, b + s} => m2[a] = m[a]
  <2>1. /\ next(b) # b + 4 /\ next(b) # b + s /\ prev(b) # b + 4 /\ prev(b) # b + s
        /\ next(head) # b + 4 /\ next(head) # b + s /\ prev(w) # b + 4 /\ prev(w) # b + s
        /\ b + 4 \in Words /\ b + s \in Words
    BY <1>8
  <2> HIDE DEF next, prev, head, w
  <2> QED
    BY <1>1, <1>3, <1>5, <1>7, <1>8, <1>9, <2>1
<1>11. Headers(m2, B, z, G)
  <2>1. Flag(z, G, b) = z[b]
    BY DEF Flag
  <2>2. \A a \in HeaderWords(B, z) : a # b + 4 /\ a # b + z[b] => m2[a] = m[a]
    BY <1>8, <1>10 DEF s
  <2>3. m2 \in [Words -> Int] /\ m2[b + 4] = Flag(z, G, b) /\ m2[b + z[b]] = Flag(z, G, b)
    BY <1>10, <2>1 DEF s
  <2>4. B \subseteq B /\ b \in B /\ (\A x \in B : x # b => z[x] = z[x]) /\ \A x \in B : x # b => (x \in G <=> x \in F)
    BY <1>1
  <2> HIDE DEF G
  <2> QED
    BY <1>1, <2>2, <2>3, <2>4, HeadersMerged
<1>12. FreeList(m2, G, PushRank(F, r, b))
  <2>1. \A x \in F : m2[next(x)] = m[next(x)]
    BY <1>7, <1>8, <1>10
  <2>2. \A x \in F \cup {tail} : x # w => m2[prev(x)] = m[prev(x)]
    BY <1>7, <1>8, <1>10
  <2>3. /\ m2[next(b)] = m[next(head)] /\ m2[prev(b)] = head /\ m2[next(head)] = b /\ m2[prev(m[next(head)])] = b
        /\ \A x \in F \cup {tail} : x # m[next(head)] => m2[prev(x)] = m[prev(x)]
    BY <1>10, <2>2
  <2> HIDE DEF next, prev, head, tail, w
  <2> QED
    BY <1>1, <1>4, <2>1, <2>3, LinksPushed
<1>13. Apart(z, G)
  <2>1. \A x \in F : x + z[x] \notin F
    BY DEF Heap, Apart
  <2>2. b + z[b] # b
    BY <1>3 DEF s
  <2> QED
    BY <1>2, <2>1, <2>2 DEF Apart
<1>14. UsedKept(m, m2, B, z, F, b, B, z, G)
  <2>1. Untouched(m, m2, z, (B \ F) \ {b})
    <3> SUFFICES ASSUME NEW x \in (B \ F) \ {b}, NEW a \in Words, x + 8 <= a, a < x + z[x]
                 PROVE  m2[a] = m[a]
      BY DEF Untouched
    <3>1. /\ a # b + 4 /\ a # b + s /\ a # next(b) /\ a # prev(b) /\ a \notin Control
          /\ \A c \in F : a # next(c) /\ a # prev(c)
      BY <1>1, BodyApart DEF s
    <3>2. next(head) \in Control /\ prev(tail) \in Control
      BY Params DEF Control
    <3>3. a # next(head) /\ a # prev(w)
      <4> HIDE DEF next, prev, head, tail, w
      <4> QED
        BY <1>4, <3>1, <3>2
    <3> QED
      BY <1>10, <3>1, <3>3
  <2> QED
    BY <2>1 DEF UsedKept
<1> QED
  BY <1>1, <1>11, <1>12, <1>13, <1>14 DEF Heap, m2

\* Words of a block's body change, those of the links of a free one excepted.
LEMMA BodyFrame ==
  ASSUME NEW m, NEW B, NEW z, NEW F, NEW r, Heap(m, B, z, F, r), NEW b \in B, NEW m2 \in [Words -> Int],
         \A a \in Words : m2[a] = m[a] \/ (b + 8 <= a /\ a < b + z[b]),
         b \in F => m2[next(b)] = m[next(b)] /\ m2[prev(b)] = m[prev(b)]
  PROVE  Heap(m2, B, z, F, r) /\ Untouched(m, m2, z, B \ {b})
<1>1. Layout(B, z) /\ F \subseteq B
  BY DEF Heap, Headers
<1>2. HeaderWords(B, z) \subseteq Words /\ LinkWords(F) \subseteq Words
  BY <1>1, LinksApart
<1>3. ASSUME NEW a \in Words, b + 8 <= a, a < b + z[b]
      PROVE  /\ a \notin Control /\ a # Start /\ a # TheEnd + 4
             /\ \A c \in B : a # c + 4 /\ a # c + z[c] /\ (c # b => a # c + 8 /\ a # c + 12)
  <2>1. /\ b \in Int /\ z[b] \in Int /\ b + z[b] <= TheEnd /\ TheEnd \in Int /\ a \in Int
        /\ Start \in Int /\ Start <= b
    BY <1>1, BlockPlaces, Addresses, Params DEF Place
  <2>2. a # Start /\ a # TheEnd + 4
    BY <1>3, <2>1
  <2> QED
    BY <1>1, <1>3, <2>2, BodyApart
<1>4. \A a \in HeaderWords(B, z) : m2[a] = m[a]
  <2> SUFFICES ASSUME NEW a \in HeaderWords(B, z), m2[a] # m[a] PROVE FALSE
    OBVIOUS
  <2>1. a \in Words /\ b + 8 <= a /\ a < b + z[b]
    BY <1>2
  <2>2. theheap \in Control /\ theheap + 4 \in Control
    BY DEF Control
  <2> QED
    BY <1>3, <2>1, <2>2 DEF HeaderWords
<1>5. \A a \in LinkWords(F) : m2[a] = m[a]
  <2> SUFFICES ASSUME NEW a \in LinkWords(F), m2[a] # m[a] PROVE FALSE
    OBVIOUS
  <2>1. a \in Words /\ b + 8 <= a /\ a < b + z[b]
    BY <1>2
  <2>2. next(head) \in Control /\ prev(tail) \in Control
    BY Params DEF Control
  <2>3. a \notin Control /\ \A c \in B : c # b => a # next(c) /\ a # prev(c)
    BY <1>3, <2>1
  <2>4. a \in {next(x) : x \in F \cup {head}} \cup {prev(x) : x \in F \cup {tail}}
    BY DEF LinkWords
  <2> HIDE DEF next, prev, head, tail
  <2> QED
    BY <1>1, <2>2, <2>3, <2>4
<1>6. Heap(m2, B, z, F, r)
  BY <1>4, <1>5, HeapFrame
<1>7. Untouched(m, m2, z, B \ {b})
  <2> SUFFICES ASSUME NEW u \in B \ {b}, NEW a \in Words, u + 8 <= a, a < u + z[u] PROVE m2[a] = m[a]
    BY DEF Untouched
  <2>1. /\ b \in Int /\ z[b] \in Int /\ z[b] >= 16 /\ u \in Int /\ z[u] \in Int /\ z[u] >= 16 /\ a \in Int
    BY <1>1, BlockPlaces, Addresses
  <2>2. b + z[b] <= u \/ u + z[u] <= b
    BY <1>1, BlocksApart
  <2>3. ~ (b + 8 <= a /\ a < b + z[b])
    BY <2>1, <2>2
  <2> QED
    BY <2>3
<1> QED
  BY <1>6, <1>7

\* What Fill does.
LEMMA WordsOfIs ==
  ASSUME NEW p \in Int, NEW n \in Int, NEW a \in WordsOf(p, n)
  PROVE  a \in Int /\ p <= a /\ a + 4 <= p + 4 * n /\ (p % 4 = 0 => a % 4 = 0)
<1>1. PICK i \in 0..n - 1 : a = p + 4 * i
  BY DEF WordsOf
<1>2. 4 * i + 4 <= 4 * n /\ 0 <= 4 * i /\ i \in Int
  BY <1>1
<1> QED
  BY <1>1, <1>2

LEMMA FillIs ==
  ASSUME NEW m \in [Words -> Int], NEW p, NEW n, NEW value \in Int
  PROVE  /\ Fill(m, p, n, value) \in [Words -> Int]
         /\ \A a \in Words : Fill(m, p, n, value)[a] = IF a \in WordsOf(p, n) THEN value ELSE m[a]
  BY DEF Fill

LEMMA EmptiedKeeps ==
  ASSUME NEW m, NEW B, NEW z, NEW F, NEW r, Heap(m, B, z, F, r), NEW b \in F
  PROVE  Heap(Emptied(m, b), B, z, F, r) /\ Untouched(m, Emptied(m, b), z, B \ {b})
<1> DEFINE m2 == Emptied(m, b)
           s == z[b]
           n == (s - 16) \div 4
<1>1. Layout(B, z) /\ Headers(m, B, z, F) /\ F \subseteq B /\ m \in [Words -> Int] /\ b \in B
  BY DEF Heap, Headers
<1>2. b \in Int /\ s \in Int /\ s >= 16 /\ s % 4 = 0 /\ m[b + 4] = s
  BY <1>1, BlockPlaces DEF Headers, Flag
<1>3. m2 = Fill(m, b + 16, n, JUNK) /\ JUNK \in Int
  BY <1>2 DEF Emptied, JUNK
<1> HIDE DEF m2, s
<1>4. n \in Int /\ 4 * n = s - 16
  BY <1>2
<1> HIDE DEF n
<1>5. m2 \in [Words -> Int] /\ \A a \in Words : a \notin WordsOf(b + 16, n) => m2[a] = m[a]
  BY <1>1, <1>3, FillIs
<1>6. \A a \in WordsOf(b + 16, n) : a \in Int /\ b + 16 <= a /\ a < b + s
  <2> SUFFICES ASSUME NEW a \in WordsOf(b + 16, n) PROVE a \in Int /\ b + 16 <= a /\ a < b + s
    OBVIOUS
  <2>1. b + 16 \in Int
    BY <1>2
  <2>2. a \in Int /\ b + 16 <= a /\ a + 4 <= b + 16 + 4 * n
    BY <1>4, <2>1, WordsOfIs
  <2> QED
    BY <1>2, <1>4, <2>2
<1>7. \A a \in Words : m2[a] = m[a] \/ (b + 8 <= a /\ a < b + z[b])
  <2> SUFFICES ASSUME NEW a \in WordsOf(b + 16, n) PROVE b + 8 <= a /\ a < b + z[b]
    BY <1>5
  <2>1. a \in Int /\ b + 16 <= a /\ a < b + s
    BY <1>6
  <2> QED
    BY <1>2, <2>1 DEF s
<1>8. m2[next(b)] = m[next(b)] /\ m2[prev(b)] = m[prev(b)]
  <2>1. next(b) \in Words /\ prev(b) \in Words
    BY <1>1, WordsApart
  <2>2. next(b) \notin WordsOf(b + 16, n) /\ prev(b) \notin WordsOf(b + 16, n)
    BY <1>2, <1>6
  <2> QED
    BY <1>5, <2>1, <2>2
<1> QED
  BY <1>1, <1>5, <1>7, <1>8, BodyFrame DEF m2

\* The heap when the block b has been freed.
FreedHeap(m, m2, B, z, F, b) ==
  \E B2, z2, F2, r2 : Heap(m2, B2, z2, F2, r2) /\ UsedKept(m, m2, B, z, F, b, B2, z2, F2)

LEMMA EmptiedFrees ==
  ASSUME NEW m, NEW m1, NEW B, NEW z, NEW F, NEW b,
         NEW B2, NEW z2, NEW F2, NEW r2, Heap(m1, B2, z2, F2, r2), UsedKept(m, m1, B, z, F, b, B2, z2, F2), NEW c \in F2
  PROVE  FreedHeap(m, Emptied(m1, c), B, z, F, b)
<1> DEFINE m2 == Emptied(m1, c)
           U == (B \ F) \ {b}
<1>1. Heap(m2, B2, z2, F2, r2) /\ Untouched(m1, m2, z2, B2 \ {c})
  BY EmptiedKeeps
<1>2. B2 \ F2 = U /\ (\A u \in U : z2[u] = z[u]) /\ Untouched(m, m1, z, U)
  BY DEF UsedKept
<1> HIDE DEF m2
<1>3. Untouched(m, m2, z, U)
  <2> SUFFICES ASSUME NEW u \in U, NEW a \in Words, u + 8 <= a, a < u + z[u] PROVE m2[a] = m[a]
    BY DEF Untouched
  <2>1. u \in B2 \ {c} /\ z2[u] = z[u]
    BY <1>2
  <2>2. m2[a] = m1[a]
    BY <1>1, <2>1 DEF Untouched
  <2>3. m1[a] = m[a]
    BY <1>2 DEF Untouched
  <2> QED
    BY <2>2, <2>3
<1>4. UsedKept(m, m2, B, z, F, b, B2, z2, F2)
  BY <1>2, <1>3 DEF UsedKept
<1> QED
  BY <1>1, <1>4 DEF FreedHeap, m2

LEMMA JoinedKeeps ==
  ASSUME NEW m, NEW B, NEW z, NEW F, NEW r, Heap(m, B, z, F, r), NEW b \in B \ F
  PROVE  FreedHeap(m, Joined(m, b), B, z, F, b)
<1>1. IsFree(m[nextblock(m, b) + 4]) <=> b + z[b] \in F
  BY Neighbours DEF Heap
<1> DEFINE before == IsFree(m[b])
           after == IsFree(m[nextblock(m, b) + 4])
           J == Joined(m, b)
<1>2. /\ before /\ after => J = Emptied(JoinBoth(m, b), prevblock(m, b))
      /\ before /\ ~ after => J = Emptied(JoinPrev(m, b), prevblock(m, b))
      /\ ~ before /\ after => J = Emptied(JoinNext(m, b), b)
      /\ ~ before /\ ~ after => J = Emptied(Enlist(m, b), b)
  BY DEF Joined
<1> HIDE DEF J
<1>3. CASE before /\ after
  <2>1. IsFree(m[b]) /\ b + z[b] \in F /\ J = Emptied(JoinBoth(m, b), prevblock(m, b))
    BY <1>1, <1>2, <1>3
  <2> DEFINE m1 == JoinBoth(m, b)
             p == prevblock(m, b)
             n == b + z[b]
             C == (B \ {b}) \ {n}
             y == JoinSizes(JoinSizes(z, B, p), B \ {b}, p)
  <2>2. Heap(m1, C, y, F \ {n}, CutRank(F, r, n)) /\ p \in F \ {n} /\ UsedKept(m, m1, B, z, F, b, C, y, F \ {n})
    BY <2>1, JoinBothKeeps
  <2> HIDE DEF m1, p, n, C, y
  <2>3. FreedHeap(m, Emptied(m1, p), B, z, F, b)
    BY <2>2, EmptiedFrees
  <2> QED
    BY <2>1, <2>3 DEF m1, p, J
<1>4. CASE before /\ ~ after
  <2>1. IsFree(m[b]) /\ b + z[b] \notin F /\ J = Emptied(JoinPrev(m, b), prevblock(m, b))
    BY <1>1, <1>2, <1>4
  <2> DEFINE m1 == JoinPrev(m, b)
             p == prevblock(m, b)
             C == B \ {b}
             y == JoinSizes(z, B, p)
  <2>2. Heap(m1, C, y, F, r) /\ p \in F /\ UsedKept(m, m1, B, z, F, b, C, y, F)
    BY <2>1, JoinPrevKeeps
  <2> HIDE DEF m1, p, C, y
  <2>3. FreedHeap(m, Emptied(m1, p), B, z, F, b)
    BY <2>2, EmptiedFrees
  <2> QED
    BY <2>1, <2>3 DEF m1, p, J
<1>5. CASE ~ before /\ after
  <2>1. ~ IsFree(m[b]) /\ b + z[b] \in F /\ J = Emptied(JoinNext(m, b), b)
    BY <1>1, <1>2, <1>5
  <2> DEFINE m1 == JoinNext(m, b)
             n == b + z[b]
             C == B \ {n}
             y == JoinSizes(z, B, b)
             G == (F \ {n}) \cup {b}
  <2>2. Heap(m1, C, y, G, SwapRank(F, r, n, b)) /\ UsedKept(m, m1, B, z, F, b, C, y, G)
    BY <2>1, JoinNextKeeps
  <2>3. b \in G
    OBVIOUS
  <2> HIDE DEF m1, n, C, y, G
  <2>4. FreedHeap(m, Emptied(m1, b), B, z, F, b)
    BY <2>2, <2>3, EmptiedFrees
  <2> QED
    BY <2>1, <2>4 DEF m1, J
<1>6. CASE ~ before /\ ~ after
  <2>1. ~ IsFree(m[b]) /\ b + z[b] \notin F /\ J = Emptied(Enlist(m, b), b)
    BY <1>1, <1>2, <1>6
  <2> DEFINE m1 == Enlist(m, b)
             G == F \cup {b}
  <2>2. Heap(m1, B, z, G, PushRank(F, r, b)) /\ UsedKept(m, m1, B, z, F, b, B, z, G)
    BY <2>1, EnlistKeeps
  <2>3. b \in G
    OBVIOUS
  <2> HIDE DEF m1, G
  <2>4. FreedHeap(m, Emptied(m1, b), B, z, F, b)
    BY <2>2, <2>3, EmptiedFrees
  <2> QED
    BY <2>1, <2>4 DEF m1, J
<1> QED
  BY <1>3, <1>4, <1>5, <1>6
-----------------------------------------------------------------------------
(* Walks *)

LEMMA LeastOf ==
  ASSUME NEW S, S \subseteq Nat, S # {}
  PROVE  \E k \in S : \A j \in S : k <= j
<1> DEFINE R == {pair \in Nat \X Nat : pair[1] < pair[2]}
<1>1. IsWellFoundedOn(R, Nat)
  BY NatLessThanWellFounded, Zenon DEF OpToRel
<1> HIDE DEF R
<1>2. PICK k \in S : \A j \in S : ~ (<< j, k >> \in R)
  BY <1>1, WFMin, Zenon
<1>3. \A j \in S : ~ (j < k)
  BY <1>2 DEF R
<1> QED
  BY <1>3

LEMMA MinIs ==
  ASSUME NEW S, S \subseteq Nat, S # {}
  PROVE  Min(S) \in S /\ \A j \in S : Min(S) <= j
<1>1. \E k \in S : \A j \in S : k <= j
  BY LeastOf
<1> QED
  BY <1>1 DEF Min

\* A walk by g from v has an N-th member.
Walk(V, v, g, N, f) == f \in [0..N -> V] /\ f[0] = v /\ \A i \in 1..N : f[i] = g[f[i - 1]]

LEMMA WalkExists ==
  ASSUME NEW V, NEW v \in V, NEW g \in [V -> V], NEW N \in Nat
  PROVE  \E f : Walk(V, v, g, N, f)
<1> DEFINE Bad == {k \in Nat : ~ \E f : Walk(V, v, g, k, f)}
<1>1. SUFFICES ASSUME Bad # {} PROVE FALSE
  OBVIOUS
<1>2. PICK k \in Bad : \A j \in Bad : k <= j
  <2>1. Bad \subseteq Nat
    OBVIOUS
  <2> HIDE DEF Bad
  <2> QED
    BY <1>1, <2>1, LeastOf
<1>3. k \in Nat /\ ~ \E f : Walk(V, v, g, k, f)
  OBVIOUS
<1>4. CASE k = 0
  <2> DEFINE f == [i \in 0..0 |-> v]
  <2>1. Walk(V, v, g, 0, f)
    BY DEF Walk
  <2> QED
    BY <1>3, <1>4, <2>1
<1>5. CASE k # 0
  <2>1. k - 1 \in Nat /\ k - 1 \notin Bad
    BY <1>2, <1>3, <1>5
  <2>2. PICK f : Walk(V, v, g, k - 1, f)
    BY <2>1
  <2> DEFINE h == [i \in 0..k |-> IF i = k THEN g[f[k - 1]] ELSE f[i]]
  <2> HIDE DEF Bad
  <2>3. f \in [0..k - 1 -> V] /\ f[0] = v /\ \A i \in 1..k - 1 : f[i] = g[f[i - 1]]
    BY <2>2 DEF Walk
  <2>4. /\ \A i \in 0..k : h[i] = IF i = k THEN g[f[k - 1]] ELSE f[i]
        /\ h \in [0..k -> V]
    <3>1. \A i \in 0..k : i # k => f[i] \in V
      BY <1>3, <2>3
    <3>2. g[f[k - 1]] \in V
      BY <1>3, <2>1, <2>3
    <3> QED
      BY <3>1, <3>2
  <2> HIDE DEF h
  <2>5. h[0] = v /\ \A i \in 1..k : h[i] = g[h[i - 1]]
    <3>1. h[0] = v
      BY <1>3, <1>5, <2>3, <2>4
    <3>2. ASSUME NEW i \in 1..k PROVE h[i] = g[h[i - 1]]
      <4>1. h[i - 1] = f[i - 1] /\ i - 1 \in 0..k - 1
        BY <1>3, <2>4
      <4> QED
        BY <1>3, <2>3, <2>4, <4>1
    <3> QED
      BY <3>1, <3>2
  <2>6. Walk(V, v, g, k, h)
    BY <2>4, <2>5 DEF Walk
  <2> QED
    BY <1>3, <2>6
<1> QED
  BY <1>4, <1>5

\* The members of the list, and the tail.
ListStep(m, F) == [x \in F \cup {tail} |-> IF x = tail THEN tail ELSE m[next(x)]]
Most == HeapSize \div 16

LEMMA MostIs == Most \in Nat /\ 16 * Most <= HeapSize /\ HeapSize < 16 * Most + 16 /\ Most >= 1 /\ Most < HeapSize
  BY Params DEF Most

LEMMA ListedIs ==
  ASSUME NEW m, NEW F, NEW r, FreeList(m, F, r)
  PROVE  Walk(F \cup {tail}, m[first], ListStep(m, F), Most, Listed(m))
<1> DEFINE V == F \cup {tail}
           g == ListStep(m, F)
<1>1. m[first] \in V /\ g \in [V -> V]
  <2>1. Chain(F, NextOf(m, F), PrevOf(m, F), r)
    BY DEF FreeList
  <2>2. \A x \in F \cup {head} : m[next(x)] \in V
    BY <2>1 DEF Chain, NextOf
  <2>3. first = next(head)
    BY Params
  <2> QED
    BY <2>2, <2>3 DEF ListStep
<1>2. Most \in Nat
  BY MostIs
<1> HIDE DEF V, g
<1>3. PICK f : Walk(V, m[first], g, Most, f)
  BY <1>1, <1>2, WalkExists
<1> DEFINE Eq(e) == e = [i \in 0..HeapSize \div sizeof_heap_block |->
                           IF i = 0 THEN m[first]
                           ELSE LET b == e[i - 1] IN IF b = tail THEN tail ELSE m[next(b)]]
<1>4. ASSUME NEW e PROVE Eq(e) <=> e = [i \in 0..Most |-> IF i = 0 THEN m[first] ELSE IF e[i - 1] = tail THEN tail ELSE m[next(e[i - 1])]]
  <2>1. HeapSize \div sizeof_heap_block = Most
    BY DEF Most
  <2> QED
    BY <2>1
<1>5. \A x \in V : g[x] = IF x = tail THEN tail ELSE m[next(x)]
  BY DEF V, g, ListStep
<1>6. Eq(f)
  <2>1. f \in [0..Most -> V] /\ f[0] = m[first] /\ \A i \in 1..Most : f[i] = g[f[i - 1]]
    BY <1>3 DEF Walk
  <2>2. ASSUME NEW i \in 0..Most, i # 0 PROVE f[i] = IF f[i - 1] = tail THEN tail ELSE m[next(f[i - 1])]
    <3>1. i \in 1..Most /\ f[i - 1] \in V
      BY <1>2, <2>1, <2>2
    <3> QED
      BY <1>5, <2>1, <3>1
  <2>3. f = [i \in 0..Most |-> IF i = 0 THEN m[first] ELSE IF f[i - 1] = tail THEN tail ELSE m[next(f[i - 1])]]
    BY <2>1, <2>2
  <2> QED
    BY <1>4, <2>3
<1> DEFINE L == CHOOSE e : Eq(e)
<1>7. Listed(m) = L
  BY DEF Listed
<1>8. Eq(L)
  BY <1>6
<1> HIDE DEF L, Eq
<1>9. L = [i \in 0..Most |-> IF i = 0 THEN m[first] ELSE IF L[i - 1] = tail THEN tail ELSE m[next(L[i - 1])]]
  BY <1>4, <1>8
<1>10. L[0] = m[first] /\ \A i \in 1..Most : L[i] = IF L[i - 1] = tail THEN tail ELSE m[next(L[i - 1])]
  <2>1. ASSUME NEW i \in 1..Most PROVE i \in 0..Most /\ i # 0
    BY <1>2
  <2>2. 0 \in 0..Most
    BY <1>2
  <2> QED
    BY <1>9, <2>1, <2>2
<1>11. \A i \in 0..Most : L[i] \in V
  <2> DEFINE Bad == {i \in 0..Most : L[i] \notin V}
  <2>1. SUFFICES ASSUME Bad # {} PROVE FALSE
    OBVIOUS
  <2>2. PICK k \in Bad : \A j \in Bad : k <= j
    <3>1. Bad \subseteq Nat
      BY <1>2
    <3> HIDE DEF Bad
    <3> QED
      BY <2>1, <3>1, LeastOf
  <2>3. k \in 0..Most /\ L[k] \notin V
    OBVIOUS
  <2>4. k # 0
    BY <1>1, <1>10, <2>3
  <2>5. k \in 1..Most /\ k - 1 \in 0..Most /\ k - 1 \notin Bad
    BY <1>2, <2>2, <2>3, <2>4
  <2>6. L[k - 1] \in V
    BY <2>5
  <2>7. L[k] = g[L[k - 1]]
    BY <1>5, <1>10, <2>5, <2>6
  <2> QED
    BY <1>1, <2>3, <2>6, <2>7
<1>12. L \in [0..Most -> V]
  <2>1. DOMAIN L = 0..Most /\ L = [i \in 0..Most |-> L[i]]
    BY <1>9
  <2> QED
    BY <1>11, <2>1
<1>13. \A i \in 1..Most : L[i] = g[L[i - 1]]
  <2> SUFFICES ASSUME NEW i \in 1..Most PROVE L[i] = g[L[i - 1]]
    OBVIOUS
  <2>1. L[i - 1] \in V
    BY <1>2, <1>11
  <2> QED
    BY <1>5, <1>10, <2>1
<1> QED
  BY <1>7, <1>10, <1>12, <1>13 DEF Walk, V, g

\* A list that leads through every member of F once, and then stays at the tail.
Enumerates(L, F, pv, n) ==
  /\ L \in [0..Most -> F \cup {tail}] /\ n \in 0..Most
  /\ \A i \in 0..Most : L[i] = tail <=> n <= i
  /\ \A i, j \in 0..n - 1 : L[i] = L[j] => i = j
  /\ \A x \in F : \E i \in 0..n - 1 : L[i] = x
  /\ \A i \in 0..n : pv[L[i]] = IF i = 0 THEN head ELSE L[i - 1]

\* There are fewer blocks than places in the list.
LEMMA FewBlocks ==
  ASSUME NEW B, NEW z, Layout(B, z), NEW f \in [0..Most -> B]
  PROVE  \E i, j \in 0..Most : i # j /\ f[i] = f[j]
<1> DEFINE slot(b) == (b - Start) \div 16
           g == [i \in 0..Most |-> slot(f[i])]
<1>1. ASSUME NEW b \in B
      PROVE  b \in Int /\ z[b] \in Int /\ z[b] >= 16 /\ slot(b) \in 0..Most - 1 /\ slot(b) \in Int
             /\ 16 * slot(b) <= b - Start /\ b - Start < 16 * slot(b) + 16
  <2>1. b \in Int /\ z[b] \in Int /\ z[b] >= 16 /\ b + z[b] <= Start + HeapSize - 8 /\ Start <= b /\ Start \in Int
    BY BlockPlaces, Params DEF Place, TheEnd
  <2>2. b - Start \in Nat /\ b - Start <= HeapSize - 24
    BY <2>1, Params
  <2> DEFINE d == b - Start
             q == slot(b)
  <2>3. q \in Int /\ 16 * q <= d /\ d < 16 * q + 16
    <3>1. q = d \div 16
      OBVIOUS
    <3> HIDE DEF d, q
    <3> QED
      BY <2>2, <3>1 DEF d
  <2> HIDE DEF d, q
  <2>4. q \in 0..Most - 1
    BY <2>2, <2>3, MostIs, Params DEF d
  <2> QED
    BY <2>1, <2>3, <2>4 DEF d, q
<1> HIDE DEF slot
<1>2. g \in [0..Most -> 0..Most - 1]
  BY <1>1
<1>3. PICK i \in 0..Most, j \in 0..Most : i # j /\ g[i] = g[j]
  <2>1. Most \in Int
    BY MostIs
  <2>2. IsFiniteSet(0..Most) /\ Cardinality(0..Most) = Most + 1
    BY <2>1, FS_Interval, MostIs
  <2>3. IsFiniteSet(0..Most - 1) /\ Cardinality(0..Most - 1) = Most
    <3> DEFINE k == Most - 1
    <3>1. k \in Int /\ k >= 0 /\ 0 \in Int /\ k + 1 = Most
      BY MostIs
    <3> HIDE DEF k
    <3>2. IsFiniteSet(0..k) /\ Cardinality(0..k) = IF 0 > k THEN 0 ELSE k - 0 + 1
      BY <3>1, FS_Interval
    <3>3. IsFiniteSet(0..k) /\ Cardinality(0..k) = Most
      BY <3>1, <3>2
    <3> QED
      BY <3>3 DEF k
  <2>4. Cardinality(0..Most - 1) < Cardinality(0..Most)
    BY <2>1, <2>2, <2>3
  <2> HIDE DEF g
  <2> QED
    BY <1>2, <2>2, <2>3, <2>4, FS_PigeonHole
<1>4. slot(f[i]) = slot(f[j])
  BY <1>3
<1>5. f[i] = f[j]
  <2> SUFFICES ASSUME f[i] # f[j] PROVE FALSE
    OBVIOUS
  <2>1. f[i] \in B /\ f[j] \in B
    OBVIOUS
  <2> DEFINE b == f[i]
             c == f[j]
  <2>2. b + z[b] <= c \/ c + z[c] <= b
    BY <2>1, BlocksApart
  <2>4. b \in B /\ c \in B /\ slot(b) = slot(c)
    BY <1>4, <2>1
  <2> HIDE DEF b, c
  <2>3. /\ b \in Int /\ z[b] \in Int /\ z[b] >= 16 /\ slot(b) \in Int
        /\ 16 * slot(b) <= b - Start /\ b - Start < 16 * slot(b) + 16
    BY <1>1, <2>4
  <2>5. /\ c \in Int /\ z[c] \in Int /\ z[c] >= 16 /\ slot(c) \in Int
        /\ 16 * slot(c) <= c - Start /\ c - Start < 16 * slot(c) + 16
    BY <1>1, <2>4
  <2> QED
    BY <2>2, <2>3, <2>4, <2>5, Params
<1> QED
  BY <1>3, <1>5

LEMMA ListEnumerates ==
  ASSUME NEW m, NEW B, NEW z, NEW F, NEW r, Heap(m, B, z, F, r)
  PROVE  \E n : Enumerates(Listed(m), F, PrevOf(m, F), n)
<1> DEFINE L == Listed(m)
           nx == NextOf(m, F)
           pv == PrevOf(m, F)
           before(i) == IF i = 0 THEN head ELSE L[i - 1]
<1>1. Chain(F, nx, pv, r) /\ Layout(B, z) /\ F \subseteq B /\ Most \in Nat
  BY MostIs DEF Heap, FreeList, Headers
<1>2. /\ L \in [0..Most -> F \cup {tail}]
      /\ L[0] = nx[head] /\ \A i \in 1..Most : L[i] = IF L[i - 1] = tail THEN tail ELSE nx[L[i - 1]]
  <2>1. Walk(F \cup {tail}, m[first], ListStep(m, F), Most, L)
    BY ListedIs DEF Heap
  <2>2. /\ L \in [0..Most -> F \cup {tail}] /\ L[0] = m[first]
        /\ \A i \in 1..Most : L[i] = ListStep(m, F)[L[i - 1]]
    BY <2>1 DEF Walk
  <2>3. m[first] = nx[head]
    BY Params DEF NextOf
  <2>4. \A x \in F \cup {tail} : ListStep(m, F)[x] = IF x = tail THEN tail ELSE m[next(x)]
    BY DEF ListStep
  <2>5. \A x \in F : nx[x] = m[next(x)]
    BY DEF NextOf
  <2>6. \A i \in 1..Most : L[i - 1] \in F \cup {tail}
    BY <1>1, <2>2
  <2> HIDE DEF L, nx
  <2> QED
    BY <2>2, <2>3, <2>4, <2>5, <2>6
<1> HIDE DEF L, nx, pv
<1>3. /\ head # tail /\ head \notin F /\ tail \notin F
      /\ \A x \in F \cup {head} : nx[x] \in F \cup {tail} /\ pv[nx[x]] = x /\ r[x] < r[nx[x]]
      /\ \A x \in F \cup {head, tail} : r[x] \in Int
      /\ \A x \in F : r[head] < r[x] /\ r[x] < r[tail]
      /\ \A x, y \in F : r[x] = r[y] => x = y
      /\ \A x \in F \cup {head}, y \in F \cup {tail} : r[x] < r[y] => r[nx[x]] <= r[y]
  BY <1>1, HeadIsNotTail DEF Chain
\* A step along the list.
<1>4. ASSUME NEW i \in 0..Most, before(i) # tail
      PROVE  /\ before(i) \in F \cup {head} /\ L[i] = nx[before(i)] /\ L[i] \in F \cup {tail}
             /\ pv[L[i]] = before(i) /\ r[before(i)] < r[L[i]]
  <2>1. before(i) \in F \cup {head} /\ L[i] = nx[before(i)]
    <3>1. CASE i = 0
      BY <1>2, <3>1
    <3>2. CASE i # 0
      BY <1>1, <1>2, <1>4, <3>2
    <3> QED
      BY <3>1, <3>2
  <2> HIDE DEF before
  <2> QED
    BY <1>3, <2>1
\* The tail stays.
<1>5. ASSUME NEW i \in 0..Most, NEW j \in 0..Most, L[i] = tail, i <= j PROVE L[j] = tail
  <2> DEFINE Bad == {k \in 0..Most : i <= k /\ L[k] # tail}
  <2>1. SUFFICES ASSUME Bad # {} PROVE FALSE
    BY <1>5
  <2>2. PICK k \in Bad : \A l \in Bad : k <= l
    <3>1. Bad \subseteq Nat
      BY <1>1
    <3> HIDE DEF Bad
    <3> QED
      BY <2>1, <3>1, LeastOf
  <2>3. k \in 1..Most /\ k - 1 \in 0..Most /\ i <= k - 1 /\ L[k] # tail
    BY <1>1, <1>5
  <2>4. k - 1 \notin Bad
    BY <2>2, <2>3
  <2>5. L[k - 1] = tail
    BY <2>3, <2>4
  <2> QED
    BY <1>2, <2>3, <2>5
\* Ranks grow.
<1>6. ASSUME NEW i \in 0..Most, NEW j \in 0..Most, L[i] # tail, i < j PROVE r[L[i]] < r[L[j]]
  <2> DEFINE Bad == {k \in 0..Most : i < k /\ ~ (r[L[i]] < r[L[k]])}
  <2>1. SUFFICES ASSUME Bad # {} PROVE FALSE
    BY <1>6
  <2>2. PICK k \in Bad : \A l \in Bad : k <= l
    <3>1. Bad \subseteq Nat
      BY <1>1
    <3> HIDE DEF Bad
    <3> QED
      BY <2>1, <3>1, LeastOf
  <2>3. k \in 0..Most /\ k # 0 /\ k - 1 \in 0..Most /\ i <= k - 1 /\ ~ (r[L[i]] < r[L[k]]) /\ before(k) = L[k - 1]
    BY <1>1, <1>6
  <2>4. k - 1 \notin Bad
    BY <2>2, <2>3
  <2>5. L[i] \in F /\ L[k] \in F \cup {tail} /\ L[k - 1] \in F \cup {tail}
    BY <1>2, <1>6, <2>3
  <2>6. CASE L[k - 1] = tail
    <3>1. L[k] = tail
      BY <1>2, <1>1, <2>3, <2>6
    <3> QED
      BY <1>3, <2>3, <2>5, <3>1
  <2>7. CASE L[k - 1] # tail
    <3>1. r[L[k - 1]] < r[L[k]]
      <4>1. before(k) # tail
        BY <2>3, <2>7
      <4>2. r[before(k)] < r[L[k]]
        BY <1>4, <2>3, <4>1
      <4> QED
        BY <2>3, <4>2
    <3>2. i = k - 1 \/ r[L[i]] < r[L[k - 1]]
      BY <2>3, <2>4
    <3> QED
      BY <1>3, <2>3, <2>5, <3>1, <3>2
  <2> QED
    BY <2>6, <2>7
\* The tail is reached.
<1>7. \E i \in 0..Most : L[i] = tail
  <2> SUFFICES ASSUME \A i \in 0..Most : L[i] # tail PROVE FALSE
    OBVIOUS
  <2>1. L \in [0..Most -> B]
    BY <1>1, <1>2
  <2>2. PICK i \in 0..Most, j \in 0..Most : i # j /\ L[i] = L[j]
    BY <1>1, <2>1, FewBlocks
  <2>3. i < j \/ j < i
    BY <2>2, <1>1
  <2>4. r[L[i]] \in Int
    BY <1>2, <1>3
  <2> QED
    BY <1>6, <2>2, <2>3, <2>4
<1> DEFINE Tails == {i \in 0..Most : L[i] = tail}
<1>8. PICK n \in Tails : \A i \in Tails : n <= i
  <2>1. Tails \subseteq Nat /\ Tails # {}
    BY <1>1, <1>7
  <2> HIDE DEF Tails
  <2> QED
    BY <2>1, LeastOf
<1>9. n \in 0..Most /\ L[n] = tail
  OBVIOUS
<1>10. \A i \in 0..Most : L[i] = tail <=> n <= i
  BY <1>5, <1>8, <1>9
<1> HIDE DEF Tails
<1>11. ASSUME NEW i \in 0..n - 1, NEW j \in 0..n - 1, L[i] = L[j] PROVE i = j
  <2>1. i \in 0..Most /\ j \in 0..Most /\ L[i] # tail /\ L[j] # tail
    BY <1>1, <1>9, <1>10
  <2>2. r[L[i]] \in Int
    BY <1>2, <1>3, <2>1
  <2> QED
    BY <1>6, <1>11, <2>1, <2>2
\* Every free block is met.
<1>12. ASSUME NEW x \in F PROVE \E i \in 0..n - 1 : L[i] = x
  <2> DEFINE Ahead == {i \in 0..Most : r[x] <= r[L[i]]}
  <2>1. n \in Ahead
    BY <1>3, <1>9
  <2>2. PICK k \in Ahead : \A i \in Ahead : k <= i
    <3>1. Ahead \subseteq Nat
      BY <1>1
    <3> HIDE DEF Ahead
    <3> QED
      BY <2>1, <3>1, LeastOf
  <2>3. k \in 0..Most /\ r[x] <= r[L[k]] /\ k <= n
    BY <2>1, <2>2
  <2>4. before(k) # tail /\ r[before(k)] < r[x]
    <3>1. CASE k = 0
      BY <1>3, <3>1
    <3>2. CASE k # 0
      <4>1. k - 1 \in 0..Most /\ k - 1 \notin Ahead /\ ~ (n <= k - 1)
        <5>1. k - 1 \in 0..Most /\ ~ (n <= k - 1) /\ ~ (k <= k - 1)
          BY <1>1, <1>9, <2>3, <3>2
        <5> QED
          BY <2>2, <5>1
      <4>2. L[k - 1] # tail /\ ~ (r[x] <= r[L[k - 1]]) /\ L[k - 1] \in F \cup {tail}
        BY <1>2, <1>10, <4>1
      <4> QED
        BY <1>3, <3>2, <4>2
    <3> QED
      BY <3>1, <3>2
  <2>5. before(k) \in F \cup {head} /\ L[k] = nx[before(k)] /\ L[k] \in F \cup {tail}
    BY <1>4, <2>3, <2>4
  <2>6. r[L[k]] <= r[x]
    <3> HIDE DEF before
    <3> QED
      BY <1>3, <2>4, <2>5
  <2>7. r[L[k]] = r[x]
    BY <1>3, <2>3, <2>5, <2>6
  <2>8. L[k] = x
    BY <1>3, <2>5, <2>7
  <2>9. ~ (n <= k)
    BY <1>3, <1>10, <2>3, <2>8
  <2> QED
    BY <1>9, <2>3, <2>8, <2>9
<1>13. ASSUME NEW i \in 0..n PROVE pv[L[i]] = before(i)
  <2>1. i \in 0..Most /\ before(i) # tail
    <3>1. i \in 0..Most
      BY <1>1, <1>9
    <3>2. CASE i = 0
      BY <1>3, <3>1, <3>2
    <3>3. CASE i # 0
      <4>1. i - 1 \in 0..Most /\ ~ (n <= i - 1)
        BY <1>1, <1>9, <3>1, <3>3
      <4> QED
        BY <1>10, <3>1, <3>3, <4>1
    <3> QED
      BY <3>1, <3>2, <3>3
  <2> QED
    BY <1>4, <2>1
<1>14. Enumerates(L, F, pv, n)
  <2>1. /\ \A i, j \in 0..n - 1 : L[i] = L[j] => i = j
        /\ \A x \in F : \E i \in 0..n - 1 : L[i] = x
        /\ \A i \in 0..n : pv[L[i]] = IF i = 0 THEN head ELSE L[i - 1]
    BY <1>11, <1>12, <1>13
  <2> QED
    BY <1>2, <1>9, <1>10, <2>1 DEF Enumerates
<1> QED
  BY <1>14 DEF L, pv

\* The block that is found, if there is one.
LEMMA FirstFitIs ==
  ASSUME NEW m, NEW B, NEW z, NEW F, NEW r, Heap(m, B, z, F, r), NEW dsize \in Int
  PROVE  LET b == FirstFit(m, dsize)
         IN (b \in F /\ z[b] >= dsize) \/ (b = tail /\ \A x \in F : z[x] < dsize)
<1> DEFINE L == Listed(m)
           fits == {i \in DOMAIN L : L[i] = tail \/ m[front_flag(L[i])] >= dsize}
           k == Min(fits)
<1>1. FirstFit(m, dsize) = L[k]
  BY DEF FirstFit
<1>2. PICK n : Enumerates(L, F, PrevOf(m, F), n)
  BY ListEnumerates
<1> HIDE DEF L
<1>3. /\ L \in [0..Most -> F \cup {tail}] /\ n \in 0..Most /\ Most \in Nat
      /\ \A i \in 0..Most : L[i] = tail <=> n <= i
      /\ \A x \in F : \E i \in 0..n - 1 : L[i] = x
  BY <1>2, MostIs DEF Enumerates
<1>4. \A x \in F : m[x + 4] = z[x] /\ z[x] \in Int
  <2>1. F \subseteq B /\ Layout(B, z) /\ \A b \in B : m[b + 4] = Flag(z, F, b)
    BY DEF Heap, Headers
  <2> QED
    BY <2>1, BlockPlaces DEF Flag
<1>5. k \in fits /\ \A j \in fits : k <= j
  <2>1. fits \subseteq Nat /\ n \in fits
    BY <1>3
  <2> HIDE DEF fits
  <2> QED
    BY <2>1, MinIs
<1> HIDE DEF k
<1>6. k \in 0..Most /\ (L[k] = tail \/ m[L[k] + 4] >= dsize) /\ L[k] \in F \cup {tail}
  BY <1>3, <1>5
<1>7. CASE L[k] = tail
  <2>1. ASSUME NEW x \in F PROVE z[x] < dsize
    <3>1. PICK i \in 0..n - 1 : L[i] = x
      BY <1>3
    <3>2. i \in 0..Most /\ ~ (n <= i) /\ n <= k
      BY <1>3, <1>6, <1>7, <3>1
    <3>3. i \notin fits
      BY <1>3, <1>5, <1>6, <3>2
    <3>4. ~ (m[x + 4] >= dsize)
      BY <1>3, <3>1, <3>2, <3>3
    <3> QED
      BY <1>4, <3>4
  <2> QED
    BY <1>1, <1>7, <2>1
<1>8. CASE L[k] # tail
  BY <1>1, <1>4, <1>6, <1>8
<1> QED
  BY <1>7, <1>8

\* The walk over the blocks.
BlockStep(B, z) == [b \in B \cup {TheEnd} |-> IF b = TheEnd THEN TheEnd ELSE b + z[b]]

LEMMA WalkReaches ==
  ASSUME NEW B, NEW z, Layout(B, z), NEW W, Walk(B \cup {TheEnd}, Start, BlockStep(B, z), Most + 1, W)
  PROVE  {W[i] : i \in DOMAIN W} = B \cup {TheEnd}
<1> DEFINE V == B \cup {TheEnd}
           N == Most + 1
<1>1. /\ \A b \in B : b \in Int /\ z[b] \in Int /\ z[b] >= 16 /\ Start <= b /\ b + z[b] <= TheEnd /\ b + z[b] \in V
      /\ \A b, c \in B : b < c => b + z[b] <= c
      /\ TheEnd \in Int /\ Start \in Int /\ Start <= TheEnd
  <2>1. \A b \in B : b \in Int /\ z[b] \in Int /\ z[b] >= 16 /\ Start <= b /\ b + z[b] <= TheEnd
    BY BlockPlaces DEF Place
  <2>2. TheEnd \in Int /\ Start \in Int /\ Start <= TheEnd
    BY Params DEF TheEnd
  <2> QED
    BY <2>1, <2>2 DEF Layout
<1>2. N \in Nat /\ N >= 1 /\ Start + 16 * N > TheEnd
  BY MostIs, Params DEF TheEnd
<1> HIDE DEF N
<1>3. W \in [0..N -> V] /\ W[0] = Start /\ \A i \in 1..N : W[i] = IF W[i - 1] = TheEnd THEN TheEnd ELSE W[i - 1] + z[W[i - 1]]
  <2>1. W \in [0..N -> V] /\ W[0] = Start /\ \A i \in 1..N : W[i] = BlockStep(B, z)[W[i - 1]]
    BY DEF Walk, N
  <2>2. \A i \in 1..N : W[i - 1] \in V
    BY <1>2, <2>1
  <2> QED
    BY <2>1, <2>2 DEF BlockStep
<1>4. W[N] = TheEnd
  <2> DEFINE Bad == {i \in 0..N : W[i] # TheEnd /\ W[i] < Start + 16 * i}
  <2>1. Bad = {}
    <3> SUFFICES ASSUME Bad # {} PROVE FALSE
      OBVIOUS
    <3>1. PICK k \in Bad : \A j \in Bad : k <= j
      <4>1. Bad \subseteq Nat
        BY <1>2
      <4> HIDE DEF Bad
      <4> QED
        BY <4>1, LeastOf
    <3>2. k \in 0..N /\ W[k] # TheEnd /\ W[k] < Start + 16 * k
      OBVIOUS
    <3>3. k # 0
      BY <1>1, <1>3, <3>2
    <3>4. k \in 1..N /\ k - 1 \in 0..N /\ k - 1 \notin Bad
      BY <1>2, <3>1, <3>2, <3>3
    <3>5. W[k - 1] # TheEnd /\ W[k] = W[k - 1] + z[W[k - 1]] /\ W[k - 1] \in B
      BY <1>3, <3>2, <3>4
    <3>6. ~ (W[k - 1] < Start + 16 * (k - 1))
      BY <3>4, <3>5
    <3> HIDE DEF Bad
    <3> QED
      BY <1>1, <1>2, <3>2, <3>5, <3>6
  <2>2. N \in 0..N /\ N \notin Bad
    BY <1>2, <2>1
  <2>3. W[N] \in V /\ ~ (W[N] # TheEnd /\ W[N] < Start + 16 * N)
    BY <1>3, <2>2
  <2>4. \A b \in B : b < TheEnd
    BY <1>1
  <2> QED
    BY <1>1, <1>2, <2>3, <2>4
<1>5. ASSUME NEW x \in V PROVE \E i \in 0..N : W[i] = x
  <2> DEFINE Ahead == {i \in 0..N : x <= W[i]}
  <2>1. x \in Int /\ Start <= x /\ x <= TheEnd
    BY <1>1
  <2>2. N \in Ahead
    BY <1>2, <1>4, <2>1
  <2>3. PICK k \in Ahead : \A j \in Ahead : k <= j
    <3>1. Ahead \subseteq Nat
      BY <1>2
    <3> HIDE DEF Ahead
    <3> QED
      BY <2>2, <3>1, LeastOf
  <2>4. k \in 0..N /\ x <= W[k]
    OBVIOUS
  <2>5. CASE k = 0
    BY <1>1, <1>3, <2>1, <2>4, <2>5
  <2>6. CASE k # 0
    <3>1. k \in 1..N /\ k - 1 \in 0..N /\ ~ (k <= k - 1)
      BY <1>2, <2>4, <2>6
    <3>2. ~ (x <= W[k - 1])
      BY <2>3, <3>1
    <3>3. W[k - 1] \in B /\ W[k - 1] < x
      <4>1. W[k - 1] \in V
        BY <1>3, <3>1
      <4>2. W[k - 1] # TheEnd
        BY <2>1, <3>2
      <4>3. W[k - 1] \in B
        BY <4>1, <4>2
      <4>4. W[k - 1] \in Int
        BY <1>1, <4>3
      <4> QED
        BY <2>1, <3>2, <4>3, <4>4
    <3>4. W[k] = W[k - 1] + z[W[k - 1]]
      BY <1>1, <1>3, <2>1, <3>1, <3>3
    <3>5. W[k] <= x
      BY <1>1, <3>3, <3>4
    <3>6. W[k] \in Int
      BY <1>1, <3>3, <3>4
    <3> QED
      BY <2>1, <2>4, <3>5, <3>6
  <2> QED
    BY <2>5, <2>6
<1> QED
  BY <1>3, <1>5

LEMMA WalkedIs ==
  ASSUME NEW B, NEW z, NEW F, NEW r, Heap(mem, B, z, F, r)
  PROVE  Walked = B \cup {TheEnd}
<1> DEFINE V == B \cup {TheEnd}
           g == BlockStep(B, z)
           N == Most + 1
           Eq(e) == e = [i \in 0..HeapSize \div sizeof_heap_block + 1 |->
                           IF i = 0 THEN mem[start]
                           ELSE LET b == e[i - 1]
                                IN IF front_flag(b) \notin Words \/ mem[front_flag(b)] = USED THEN b ELSE nextblock(mem, b)]
           Then(b) == IF b + 4 \notin Words \/ mem[b + 4] = 1 THEN b ELSE nextblock(mem, b)
<1>1. Layout(B, z) /\ Headers(mem, B, z, F) /\ mem[theheap] = Start /\ Start \in B
  BY DEF Heap, Headers, Layout
<1>2. g \in [V -> V] /\ Start \in V /\ N \in Nat
  <2>1. \A b \in B : b + z[b] \in V
    BY <1>1 DEF Layout
  <2> QED
    BY <1>1, <2>1, MostIs DEF BlockStep
<1>3. ASSUME NEW x \in V PROVE Then(x) = g[x]
  <2>1. CASE x = TheEnd
    <3>1. mem[TheEnd + 4] = 1
      BY <1>1 DEF Headers
    <3> QED
      BY <2>1, <3>1 DEF BlockStep
  <2>2. CASE x # TheEnd
    <3>1. x \in B /\ x + 4 \in Words /\ nextblock(mem, x) = x + z[x]
      BY <1>1, <2>2, WordsApart, FlagsAre
    <3>2. mem[x + 4] # 1
      <4>1. mem[x + 4] = Flag(z, F, x) /\ z[x] \in Int /\ z[x] >= 16
        BY <1>1, <3>1, BlockPlaces DEF Headers
      <4> QED
        BY <4>1 DEF Flag
    <3> QED
      BY <2>2, <3>1, <3>2 DEF BlockStep
  <2> QED
    BY <2>1, <2>2
<1>4. ASSUME NEW e PROVE Eq(e) <=> e = [i \in 0..N |-> IF i = 0 THEN Start ELSE Then(e[i - 1])]
  <2>1. HeapSize \div sizeof_heap_block + 1 = N
    BY DEF Most
  <2> QED
    BY <1>1, <2>1
<1> HIDE DEF Eq, Then, V, g, N
<1>5. PICK f : Walk(V, Start, g, N, f)
  BY <1>2, WalkExists
<1>6. Eq(f)
  <2>1. f \in [0..N -> V] /\ f[0] = Start /\ \A i \in 1..N : f[i] = g[f[i - 1]]
    BY <1>5 DEF Walk
  <2>2. ASSUME NEW i \in 0..N, i # 0 PROVE f[i] = Then(f[i - 1])
    <3>1. i \in 1..N /\ f[i - 1] \in V
      BY <1>2, <2>1, <2>2
    <3> QED
      BY <1>3, <2>1, <3>1
  <2>3. f = [i \in 0..N |-> IF i = 0 THEN Start ELSE Then(f[i - 1])]
    BY <2>1, <2>2
  <2> QED
    BY <1>4, <2>3
<1> DEFINE L == CHOOSE e : Eq(e)
<1>7. Walked = {L[i] : i \in DOMAIN L}
  BY DEF Walked, Eq
<1>8. Eq(L)
  BY <1>6
<1> HIDE DEF L
<1>9. L = [i \in 0..N |-> IF i = 0 THEN Start ELSE Then(L[i - 1])]
  BY <1>4, <1>8
<1>10. L[0] = Start /\ \A i \in 1..N : L[i] = Then(L[i - 1])
  <2>1. ASSUME NEW i \in 1..N PROVE i \in 0..N /\ i # 0
    BY <1>2
  <2>2. 0 \in 0..N
    BY <1>2
  <2> QED
    BY <1>9, <2>1, <2>2
<1>11. \A i \in 0..N : L[i] \in V
  <2> DEFINE Bad == {i \in 0..N : L[i] \notin V}
  <2>1. SUFFICES ASSUME Bad # {} PROVE FALSE
    OBVIOUS
  <2>2. PICK k \in Bad : \A j \in Bad : k <= j
    <3>1. Bad \subseteq Nat
      BY <1>2
    <3> HIDE DEF Bad
    <3> QED
      BY <2>1, <3>1, LeastOf
  <2>3. k \in 0..N /\ L[k] \notin V
    OBVIOUS
  <2>4. k # 0
    BY <1>2, <1>10, <2>3
  <2>5. k \in 1..N /\ k - 1 \in 0..N /\ k - 1 \notin Bad
    BY <1>2, <2>2, <2>3, <2>4
  <2>6. L[k - 1] \in V
    BY <2>5
  <2>7. L[k] = g[L[k - 1]]
    BY <1>3, <1>10, <2>5, <2>6
  <2> QED
    BY <1>2, <2>3, <2>6, <2>7
<1>12. L \in [0..N -> V]
  <2>1. DOMAIN L = 0..N /\ L = [i \in 0..N |-> L[i]]
    BY <1>9
  <2> QED
    BY <1>11, <2>1
<1>13. \A i \in 1..N : L[i] = g[L[i - 1]]
  <2> SUFFICES ASSUME NEW i \in 1..N PROVE L[i] = g[L[i - 1]]
    OBVIOUS
  <2>1. L[i - 1] \in V
    BY <1>2, <1>11
  <2> QED
    BY <1>3, <1>10, <2>1
<1>14. Walk(B \cup {TheEnd}, Start, BlockStep(B, z), Most + 1, L)
  BY <1>10, <1>12, <1>13 DEF Walk, V, g, N
<1> QED
  BY <1>1, <1>7, <1>14, WalkReaches

\* What the invariants say of the list and the blocks follows from the heap's description.
LEMMA BlocksAre ==
  ASSUME NEW B, NEW z, NEW F, NEW r, Heap(mem, B, z, F, r)
  PROVE  Blocks = B /\ FreeBlocks = F /\ mem[final] = TheEnd /\ TheEnd \in Walked
<1>1. Layout(B, z) /\ Headers(mem, B, z, F) /\ F \subseteq B
  BY DEF Heap, Headers
<1>2. mem[final] = TheEnd
  BY <1>1 DEF Headers
<1>3. TheEnd \notin B
  <2>1. \A b \in B : b \in Int /\ z[b] \in Int /\ z[b] >= 16 /\ b + z[b] <= TheEnd /\ TheEnd \in Int
    BY <1>1, BlockPlaces
  <2> QED
    BY <2>1
<1>4. Walked = B \cup {TheEnd}
  BY WalkedIs
<1>5. Blocks = B
  BY <1>2, <1>3, <1>4 DEF Blocks
<1>6. \A b \in B : IsFree(mem[front_flag(b)]) <=> b \in F
  BY <1>1, FlagsAre
<1> QED
  BY <1>1, <1>2, <1>4, <1>5, <1>6 DEF FreeBlocks

LEMMA HeapWalkEnds ==
  ASSUME NEW B, NEW z, NEW F, NEW r, Heap(mem, B, z, F, r), TypeOK
  PROVE  WalkEnds
<1>1. Layout(B, z) /\ Headers(mem, B, z, F)
  BY DEF Heap
<1>2. Blocks = B /\ mem[final] \in Walked
  BY BlocksAre
<1>3. mem[back_flag(mem[start])] = USED
  BY <1>1 DEF Headers
<1>4. ASSUME NEW b \in B
      PROVE  LET end == nextblock(mem, b) IN back_flag(end) \in Words /\ mem[front_flag(b)] = mem[back_flag(end)]
  <2>1. nextblock(mem, b) = b + z[b] /\ b + z[b] \in Words
    BY <1>1, FlagsAre, WordsApart
  <2>2. mem[b + 4] = mem[b + z[b]]
    BY <1>1 DEF Headers
  <2> QED
    BY <2>1, <2>2
<1> QED
  BY <1>2, <1>3, <1>4 DEF WalkEnds

LEMMA HeapListIsFreeBlocks ==
  ASSUME NEW B, NEW z, NEW F, NEW r, Heap(mem, B, z, F, r)
  PROVE  ListIsFreeBlocks
<1> DEFINE L == Listed(mem)
           pv == PrevOf(mem, F)
           ends == {i \in DOMAIN L : L[i] = tail} \cup {HeapSize}
<1>1. FreeBlocks = F
  BY BlocksAre
<1>2. PICK n : Enumerates(L, F, pv, n)
  BY ListEnumerates
<1>3. /\ L \in [0..Most -> F \cup {tail}] /\ n \in 0..Most /\ Most \in Nat /\ Most < HeapSize /\ HeapSize \in Nat
      /\ \A i \in 0..Most : L[i] = tail <=> n <= i
      /\ \A i, j \in 0..n - 1 : L[i] = L[j] => i = j
      /\ \A x \in F : \E i \in 0..n - 1 : L[i] = x
      /\ \A i \in 0..n : pv[L[i]] = IF i = 0 THEN head ELSE L[i - 1]
  BY <1>2, MostIs, Params DEF Enumerates
<1> HIDE DEF L
<1>4. Min(ends) = n
  <2>1. ends \subseteq Nat /\ n \in ends
    BY <1>3
  <2>2. \A i \in ends : n <= i
    BY <1>3
  <2> HIDE DEF ends
  <2>3. Min(ends) \in ends /\ \A i \in ends : Min(ends) <= i
    BY <2>1, MinIs
  <2>4. Min(ends) \in Nat /\ n \in Nat /\ n <= Min(ends) /\ Min(ends) <= n
    BY <2>1, <2>2, <2>3
  <2> QED
    BY <2>4
<1> HIDE DEF ends
<1> DEFINE f == [i \in 0..n - 1 |-> L[i]]
<1>5. ASSUME NEW i \in 0..n - 1 PROVE i \in 0..Most /\ L[i] \in F
  <2>1. i \in 0..Most /\ ~ (n <= i)
    BY <1>3
  <2> QED
    BY <1>3, <2>1
<1>6. f \in Surjection(0..n - 1, F) /\ f \in Injection(0..n - 1, F)
  <2>1. f \in [0..n - 1 -> F] /\ (\A x \in F : \E i \in 0..n - 1 : f[i] = x) /\ \A i, j \in 0..n - 1 : f[i] = f[j] => i = j
    BY <1>3, <1>5
  <2> HIDE DEF f
  <2> QED
    BY <2>1 DEF Surjection, Injection, IsInjective
<1>7. n = Cardinality(F)
  <2> DEFINE k == n - 1
  <2>1. k \in Int /\ 0 \in Int /\ n = k + 1 /\ k >= -1
    BY <1>3
  <2> HIDE DEF f
  <2>2. f \in Surjection(0..k, F) /\ f \in Injection(0..k, F)
    BY <1>6
  <2> HIDE DEF k
  <2>3. IsFiniteSet(0..k) /\ Cardinality(0..k) = IF 0 > k THEN 0 ELSE k - 0 + 1
    BY <2>1, FS_Interval
  <2>4. Cardinality(F) = Cardinality(0..k)
    BY <2>2, <2>3, FS_Surjection
  <2> QED
    BY <2>1, <2>3, <2>4
<1>8. {L[i] : i \in 0..n - 1} = F
  BY <1>3, <1>5
<1>9. ASSUME NEW i \in 0..n PROVE mem[prev(L[i])] = IF i = 0 THEN head ELSE L[i - 1]
  <2>1. i \in 0..Most /\ L[i] \in F \cup {tail}
    BY <1>3
  <2>2. pv[L[i]] = mem[prev(L[i])]
    BY <2>1 DEF PrevOf
  <2> QED
    BY <1>3, <2>2
<1>10. \A b \in F : nextblock(mem, b) \notin F
  <2>2. Layout(B, z) /\ Headers(mem, B, z, F) /\ F \subseteq B
    BY DEF Heap, Headers
  <2>1. \A b \in F : nextblock(mem, b) = b + z[b]
    BY <2>2, FlagsAre
  <2> QED
    BY <2>1 DEF Heap, Apart
<1>11. /\ n = Cardinality(FreeBlocks) /\ {L[i] : i \in 0..n - 1} = FreeBlocks
       /\ \A i \in 0..n : mem[prev(L[i])] = IF i = 0 THEN head ELSE L[i - 1]
       /\ \A b \in FreeBlocks : nextblock(mem, b) \notin FreeBlocks
  BY <1>1, <1>7, <1>8, <1>9, <1>10
<1> QED
  BY <1>4, <1>11 DEF ListIsFreeBlocks, L, ends
-----------------------------------------------------------------------------
(* Sizes and alignments *)

LEMMA Multiples ==
  ASSUME NEW a \in Nat, a > 0, NEW k \in Int
  PROVE  (a * k) % a = 0
<1> DEFINE x == a * k
           q == x \div a
           e == x % a
<1>1. x \in Int /\ q \in Int /\ e \in Int /\ 0 <= e /\ e < a /\ x = (a * q) + e
  <2>1. x \in Int
    OBVIOUS
  <2> HIDE DEF x
  <2> QED
    BY <2>1
<1> DEFINE t == k - q
<1>2. t \in Int /\ e = a * t
  <2>1. a * k = (a * q) + e
    BY <1>1
  <2> HIDE DEF x, q, e
  <2>2. a * (k - q) = (a * k) - (a * q)
    BY <1>1
  <2>3. (a * k) \in Int /\ (a * q) \in Int /\ e = (a * k) - (a * q)
    BY <1>1, <2>1
  <2> QED
    BY <1>1, <2>2, <2>3
<1> HIDE DEF x, q, e, t
<1>3. t = 0
  <2>1. ~ (t >= 1)
    <3> SUFFICES ASSUME t >= 1 PROVE FALSE
      OBVIOUS
    <3>1. a * t >= a
      BY <1>2
    <3> QED
      BY <1>1, <1>2, <3>1
  <2>2. ~ (t <= -1)
    <3> SUFFICES ASSUME t <= -1 PROVE FALSE
      OBVIOUS
    <3>1. a * t <= -a
      BY <1>2
    <3> QED
      BY <1>1, <1>2, <3>1
  <2> QED
    BY <1>2, <2>1, <2>2
<1>4. e = 0
  BY <1>2, <1>3
<1> QED
  BY <1>4 DEF e, x

\* A multiple of a multiple of four.
LEMMA FourTimes ==
  ASSUME NEW a \in Nat, a % 4 = 0, NEW k \in Int
  PROVE  (a * k) \in Int /\ (a * k) % 4 = 0
<1> DEFINE j == a \div 4
<1>1. j \in Int /\ a = 4 * j
  OBVIOUS
<1> HIDE DEF j
<1>2. (j * k) \in Int /\ a * k = 4 * (j * k)
  BY <1>1
<1> DEFINE i == j * k
<1>3. i \in Int /\ a * k = 4 * i
  BY <1>2
<1> HIDE DEF i
<1> QED
  BY <1>3

LEMMA Division ==
  ASSUME NEW x \in Int, NEW a \in Nat, a > 0
  PROVE  /\ (x \div a) \in Int /\ (x % a) \in Int /\ 0 <= (x % a) /\ (x % a) < a
         /\ x = (a * (x \div a)) + (x % a)
  OBVIOUS

LEMMA AlignmentIs ==
  ASSUME NEW size \in Nat, NEW align \in Nat, (align % 4 = 0) \/ align < 4
  PROVE  LET a == Greater(align, pg_size)
             d == Need(size, a)
         IN /\ a \in Nat /\ a >= 4 /\ a % 4 = 0 /\ a >= align
            /\ d \in Nat /\ d % 4 = 0 /\ d >= 16 /\ d >= size + a + 8
<1> DEFINE a == Greater(align, pg_size)
           d == Need(size, a)
<1>1. a \in Nat /\ a >= 4 /\ a % 4 = 0 /\ a >= align
  BY Params DEF Greater
<1> HIDE DEF a
<1> DEFINE e == size % a
           q == size \div a
           more == IF e # 0 THEN a - e ELSE 0
           s == size + a + 8 + more
<1>2. d = IF s > 16 THEN s ELSE 16
  BY DEF Need, Greater
<1>3. e \in Int /\ q \in Int /\ 0 <= e /\ e < a /\ size = (a * q) + e
  BY <1>1, Division
<1> DEFINE t == a * q
<1>4. t \in Int /\ t % 4 = 0
  BY <1>1, <1>3, FourTimes
<1>5. size = t + e
  BY <1>3
<1> HIDE DEF d, e, q, t
<1>6. more >= 0 /\ more \in Int /\ s \in Int /\ s % 4 = 0 /\ s >= size + a + 8
  <2>1. CASE e = 0
    BY <1>1, <1>4, <1>5, <2>1
  <2>2. CASE e # 0
    <3>1. s = t + a + a + 8
      BY <1>1, <1>3, <1>4, <1>5, <2>2
    <3>2. (t + a + a + 8) % 4 = 0
      BY <1>1, <1>4
    <3> QED
      BY <1>1, <1>3, <1>4, <1>5, <2>2, <3>1, <3>2
  <2> QED
    BY <2>1, <2>2
<1> HIDE DEF more, s
<1>7. d \in Nat /\ d % 4 = 0 /\ d >= 16 /\ d >= size + a + 8
  BY <1>1, <1>2, <1>6
<1> QED
  BY <1>1, <1>7 DEF a, d

LEMMA OffsetIs ==
  ASSUME NEW a \in Nat, a >= 4, a % 4 = 0, NEW u \in Int, u % 4 = 0
  PROVE  LET o == a - (u % a)
         IN o \in Int /\ o >= 4 /\ o <= a /\ o % 4 = 0 /\ (u + o) % a = 0
<1> DEFINE e == u % a
           q == u \div a
           t == a * q
           o == a - e
<1>1. e \in Int /\ q \in Int /\ 0 <= e /\ e < a /\ u = t + e
  BY Division
<1>2. t \in Int /\ t % 4 = 0
  BY <1>1, FourTimes
<1>3. u + o = a * (q + 1)
  <2>1. a * (q + 1) = t + a
    <3> HIDE DEF q
    <3> QED
      BY <1>1
  <2> HIDE DEF e, t, q
  <2> QED
    BY <1>1, <1>2, <2>1
<1>4. (u + o) % a = 0
  <2>1. q + 1 \in Int
    BY <1>1
  <2>2. (a * (q + 1)) % a = 0
    BY <2>1, Multiples
  <2> QED
    BY <1>3, <2>2
<1> HIDE DEF e, q, t
<1>5. e % 4 = 0
  BY <1>1, <1>2
<1>6. o \in Int /\ o >= 4 /\ o <= a /\ o % 4 = 0
  BY <1>1, <1>5
<1> QED
  BY <1>4, <1>6 DEF e
-----------------------------------------------------------------------------
(* A call of __lwp_heap_allocate *)

\* A block c has come to be used, with a piece at ptr in it.
Used(m, m2, B, z, F, B2, z2, F2, r2, c) ==
  /\ Heap(m2, B2, z2, F2, r2) /\ c \in B2 /\ c \notin F2 /\ c \notin B \ F /\ B2 \ F2 = (B \ F) \cup {c}
  /\ \A u \in B \ F : z2[u] = z[u]
  /\ Untouched(m, m2, z, B \ F)

Took(m, m2, B, z, F, ptr, size, B2, z2, F2, r2, c) ==
  /\ Used(m, m2, B, z, F, B2, z2, F2, r2, c)
  /\ ptr \in Int /\ ptr % 4 = 0 /\ c + 12 <= ptr /\ ptr + size <= c + z2[c] /\ m2[ptr - 4] = ptr - c - 8

LEMMA TookBody ==
  ASSUME NEW m, NEW m1, NEW B, NEW z, NEW F, NEW ptr, NEW size \in Nat, NEW B2, NEW z2, NEW F2, NEW r2, NEW c,
         Layout(B, z), Took(m, m1, B, z, F, ptr, size, B2, z2, F2, r2, c),
         NEW m2 \in [Words -> Int], \A a \in Words : m2[a] = m1[a] \/ (ptr <= a /\ a < ptr + size)
  PROVE  Took(m, m2, B, z, F, ptr, size, B2, z2, F2, r2, c)
<1>1. /\ Heap(m1, B2, z2, F2, r2) /\ c \in B2 /\ c \notin F2 /\ c \notin B \ F /\ B2 \ F2 = (B \ F) \cup {c}
      /\ \A u \in B \ F : z2[u] = z[u]
      /\ Untouched(m, m1, z, B \ F)
      /\ ptr \in Int /\ ptr % 4 = 0 /\ c + 12 <= ptr /\ ptr + size <= c + z2[c] /\ m1[ptr - 4] = ptr - c - 8
  BY DEF Took, Used
<1>2. Layout(B2, z2) /\ c \in Int /\ z2[c] \in Int /\ Place(c) /\ c + z2[c] <= TheEnd /\ TheEnd \in Int
  BY <1>1, BlockPlaces DEF Heap
<1>3. \A a \in Words : m2[a] = m1[a] \/ (c + 8 <= a /\ a < c + z2[c])
  BY <1>1, <1>2, Addresses
<1>4. Heap(m2, B2, z2, F2, r2) /\ Untouched(m1, m2, z2, B2 \ {c})
  BY <1>1, <1>3, BodyFrame
<1>5. Untouched(m, m2, z, B \ F)
  <2> SUFFICES ASSUME NEW u \in B \ F, NEW a \in Words, u + 8 <= a, a < u + z[u] PROVE m2[a] = m[a]
    BY DEF Untouched
  <2>1. u \in B2 \ {c} /\ z2[u] = z[u]
    BY <1>1
  <2>2. m2[a] = m1[a]
    BY <1>4, <2>1 DEF Untouched
  <2> QED
    BY <1>1, <2>2 DEF Untouched
<1>6. m2[ptr - 4] = m1[ptr - 4]
  <2>1. Place(ptr - 4)
    <3>1. (ptr - 4) % 4 = 0 /\ Start <= ptr - 4 /\ ptr - 4 < Start + HeapSize /\ ptr - 4 \in Int
      BY <1>1, <1>2, Params DEF Place, TheEnd
    <3> QED
      BY <3>1 DEF Place
  <2>2. ptr - 4 \in Words /\ ~ (ptr <= ptr - 4)
    BY <1>1, <2>1, Addresses
  <2> QED
    BY <2>2
<1> QED
  BY <1>1, <1>4, <1>5, <1>6 DEF Took, Used

\* The block that is taken, before the piece is put into it.
LEMMA TakeIs ==
  ASSUME NEW m, NEW B, NEW z, NEW F, NEW r, Heap(m, B, z, F, r), NEW b \in F,
         NEW dsize \in Nat, dsize % 4 = 0, dsize >= 16, z[b] >= dsize, NEW a \in Nat, a >= 4
  PROVE  LET c  == Take(m, b, dsize, a).block
             m2 == Take(m, b, dsize, a).mem
         IN \E B2, z2, F2, r2 : Used(m, m2, B, z, F, B2, z2, F2, r2, c) /\ z2[c] >= dsize
<1>1. Layout(B, z) /\ F \subseteq B /\ m[b + 4] = z[b] /\ z[b] \in Int /\ z[b] % 4 = 0
  <2>1. Layout(B, z) /\ F \subseteq B /\ m[b + 4] = Flag(z, F, b)
    BY DEF Heap, Headers
  <2> QED
    BY <2>1, BlockPlaces DEF Flag
<1>2. CASE z[b] - dsize > a + 8
  <2>1. Take(m, b, dsize, a) = Split(m, b, dsize)
    BY <1>1, <1>2 DEF Take
  <2>2. z[b] - dsize >= 16
    BY <1>1, <1>2
  <2> DEFINE c == b + z[b] - dsize
             m2 == Split(m, b, dsize).mem
             z2 == CutSizes(z, B, b, dsize)
  <2>3. /\ Split(m, b, dsize).block = c
        /\ c \notin B /\ c \notin F /\ z2[c] = dsize
        /\ \A u \in B \ F : z2[u] = z[u]
        /\ Heap(m2, B \cup {c}, z2, F, r)
        /\ Untouched(m, m2, z, B \ F)
    BY <2>2, SplitKeeps
  <2> HIDE DEF c, m2, z2
  <2>4. (B \cup {c}) \ F = (B \ F) \cup {c} /\ z2[c] >= dsize
    BY <2>3
  <2> QED
    BY <2>1, <2>3, <2>4 DEF Used, m2
<1>3. CASE ~ (z[b] - dsize > a + 8)
  <2>1. Take(m, b, dsize, a) = Whole(m, b)
    BY <1>1, <1>3 DEF Take
  <2> DEFINE m2 == Whole(m, b).mem
  <2>2. /\ Whole(m, b).block = b
        /\ Heap(m2, B, z, F \ {b}, CutRank(F, r, b))
        /\ Untouched(m, m2, z, B \ F)
    BY WholeKeeps
  <2> HIDE DEF m2
  <2>3. B \ (F \ {b}) = (B \ F) \cup {b} /\ b \in B /\ b \notin F \ {b} /\ b \notin B \ F
    BY <1>1
  <2> QED
    BY <2>1, <2>2, <2>3 DEF Used, m2
<1> QED
  BY <1>2, <1>3

\* What the call does when there is room.
LEMMA AllocatedFound ==
  ASSUME NEW m, NEW B, NEW z, NEW F, NEW r, Heap(m, B, z, F, r),
         NEW size \in Nat, NEW align \in Nat, (align % 4 = 0) \/ align < 4,
         FirstFit(m, Need(size, Greater(align, pg_size))) # tail
  PROVE  LET got == Allocated(m, size, align)
         IN /\ got.ptr # NULL /\ got.ptr % Greater(align, pg_size) = 0
            /\ \E B2, z2, F2, r2, c : Took(m, got.mem, B, z, F, got.ptr, size, B2, z2, F2, r2, c)
<1> DEFINE a == Greater(align, pg_size)
           dsize == Need(size, a)
           b == FirstFit(m, dsize)
           taken == Take(m, b, dsize, a)
           c == taken.block
           m1 == taken.mem
           user == c + 8
           offset == a - (user % a)
           ptr == user + offset
           got == Allocated(m, size, align)
<1>1. a \in Nat /\ a >= 4 /\ a % 4 = 0 /\ dsize \in Nat /\ dsize % 4 = 0 /\ dsize >= 16 /\ dsize >= size + a + 8
  BY AlignmentIs
<1> HIDE DEF dsize
<1>2. b \in F /\ z[b] >= dsize
  <2>1. dsize \in Int
    BY <1>1
  <2>2. b # tail
    BY DEF dsize
  <2> QED
    BY <2>1, <2>2, FirstFitIs
<1> HIDE DEF a, b
<1>21. PICK B2, z2, F2, r2 : Used(m, m1, B, z, F, B2, z2, F2, r2, c) /\ z2[c] >= dsize
  BY <1>1, <1>2, TakeIs
<1>3. /\ Heap(m1, B2, z2, F2, r2) /\ c \in B2 /\ c \notin F2 /\ c \notin B \ F /\ B2 \ F2 = (B \ F) \cup {c}
      /\ \A u \in B \ F : z2[u] = z[u]
      /\ Untouched(m, m1, z, B \ F)
      /\ z2[c] >= dsize
  BY <1>21 DEF Used
<1> DEFINE body == (Size(m1[c + 4]) \div 4) - 2
           m2 == Fill(m1, user, body, JUNK)
           m3 == Put(m2, ptr - 4, offset)
<1>4. got.ptr = ptr /\ got.mem = m3
  <2>1. b # tail
    BY DEF b, dsize, a
  <2>2. got = [mem |-> m3, ptr |-> ptr]
    BY <2>1 DEF Allocated, a, b, dsize
  <2> HIDE DEF got, m3, ptr
  <2> QED
    BY <2>2
<1> HIDE DEF got, taken
<1> DEFINE s == z2[c]
<1>5. /\ Layout(B2, z2) /\ Headers(m1, B2, z2, F2) /\ c \in Int /\ s \in Int /\ s % 4 = 0 /\ s >= dsize /\ c % 4 = 0
      /\ Place(c) /\ c + s <= TheEnd /\ TheEnd \in Int /\ m1 \in [Words -> Int] /\ Size(m1[c + 4]) = s
  <2>1. Layout(B2, z2) /\ Headers(m1, B2, z2, F2)
    BY <1>3 DEF Heap
  <2> HIDE DEF c, m1
  <2>2. Size(m1[c + 4]) = z2[c]
    BY <1>3, <2>1, FlagsAre
  <2>3. c \in Int /\ z2[c] \in Int /\ z2[c] % 4 = 0 /\ Place(c) /\ c + z2[c] <= TheEnd /\ TheEnd \in Int
    BY <1>3, <2>1, BlockPlaces
  <2> QED
    BY <1>3, <2>1, <2>2, <2>3 DEF Place, Headers
<1> HIDE DEF c, m1, s
<1>6. user \in Int /\ user % 4 = 0
  BY <1>5
<1>7. offset \in Int /\ offset >= 4 /\ offset <= a /\ offset % 4 = 0 /\ ptr % a = 0
  <2> HIDE DEF user
  <2> QED
    BY <1>1, <1>6, OffsetIs
<1> HIDE DEF offset
<1>8. ptr \in Int /\ ptr % 4 = 0 /\ c + 12 <= ptr /\ ptr + size <= c + s /\ offset = ptr - c - 8
  BY <1>1, <1>5, <1>6, <1>7
<1> HIDE DEF user
<1>9. Place(ptr - 4) /\ ptr > 0
  <2>1. (ptr - 4) % 4 = 0 /\ Start <= ptr - 4 /\ ptr - 4 < Start + HeapSize /\ ptr - 4 \in Int /\ ptr > 0
    <3> HIDE DEF ptr
    <3> QED
      BY <1>5, <1>8, Params DEF Place, TheEnd
  <2> QED
    BY <2>1 DEF Place
<1>10. ptr - 4 \in Words
  BY <1>9, Addresses
<1>11. body \in Int /\ 4 * body = s - 8
  BY <1>5
<1> HIDE DEF ptr, body
<1>12. m2 \in [Words -> Int] /\ \A w \in Words : m2[w] = m1[w] \/ w \in WordsOf(user, body)
  BY <1>5, FillIs DEF JUNK
<1>13. \A w \in WordsOf(user, body) : c + 8 <= w /\ w < c + s
  <2> SUFFICES ASSUME NEW w \in WordsOf(user, body) PROVE c + 8 <= w /\ w < c + s
    OBVIOUS
  <2>1. w \in Int /\ user <= w /\ w + 4 <= user + 4 * body
    BY <1>6, <1>11, WordsOfIs
  <2>2. user = c + 8
    BY DEF user
  <2> QED
    BY <1>5, <1>11, <2>1, <2>2
<1> HIDE DEF m2
<1>14. m3 \in [Words -> Int] /\ m3[ptr - 4] = offset /\ \A w \in Words : m3[w] = m2[w] \/ w = ptr - 4
  BY <1>7, <1>10, <1>12 DEF Put
<1> HIDE DEF m3
<1>15. \A w \in Words : m3[w] = m1[w] \/ (c + 8 <= w /\ w < c + z2[c])
  <2>1. c + 8 <= ptr - 4 /\ ptr - 4 < c + s
    BY <1>1, <1>5, <1>8
  <2> QED
    BY <1>12, <1>13, <1>14, <2>1 DEF s
<1>16. Heap(m3, B2, z2, F2, r2) /\ Untouched(m1, m3, z2, B2 \ {c})
  BY <1>3, <1>14, <1>15, BodyFrame
<1>17. Untouched(m, m3, z, B \ F)
  <2> SUFFICES ASSUME NEW u \in B \ F, NEW w \in Words, u + 8 <= w, w < u + z[u] PROVE m3[w] = m[w]
    BY DEF Untouched
  <2>1. u \in B2 \ {c} /\ z2[u] = z[u]
    BY <1>3
  <2>2. m3[w] = m1[w]
    BY <1>16, <2>1 DEF Untouched
  <2> QED
    BY <1>3, <2>2 DEF Untouched
<1>18. Took(m, m3, B, z, F, ptr, size, B2, z2, F2, r2, c)
  BY <1>3, <1>8, <1>14, <1>16, <1>17 DEF Took, Used, s
<1>19. got.ptr # NULL /\ got.ptr % a = 0
  BY <1>4, <1>7, <1>9
<1>20. Took(m, got.mem, B, z, F, got.ptr, size, B2, z2, F2, r2, c)
  BY <1>4, <1>18
<1> QED
  BY <1>19, <1>20 DEF a, got

LEMMA AllocatedNone ==
  ASSUME NEW m, NEW B, NEW z, NEW F, NEW r, Heap(m, B, z, F, r), NEW size \in Nat, NEW align \in Nat,
         (align % 4 = 0) \/ align < 4, FirstFit(m, Need(size, Greater(align, pg_size))) = tail
  PROVE  /\ Allocated(m, size, align).ptr = NULL /\ Allocated(m, size, align).mem = m
         /\ \A x \in F : z[x] < Need(size, Greater(align, pg_size))
<1> DEFINE d == Need(size, Greater(align, pg_size))
<1>1. d \in Int
  BY AlignmentIs
<1>2. Allocated(m, size, align) = [mem |-> m, ptr |-> NULL]
  BY DEF Allocated
<1> HIDE DEF d
<1>3. FirstFit(m, d) = tail
  BY DEF d
<1>4. tail \notin F
  BY LinkPlaces DEF Heap, Headers
<1>5. \A x \in F : z[x] < d
  BY <1>1, <1>3, <1>4, FirstFitIs
<1> QED
  BY <1>2, <1>5 DEF d
-----------------------------------------------------------------------------
(* Pieces *)

\* The pieces h have their owners, one block each, and lie in them.
Owned(m, B, z, F, h, o) ==
  /\ o \in [DOMAIN h -> B \ F]
  /\ \A p, q \in DOMAIN h : o[p] = o[q] => p = q
  /\ \A u \in B \ F : \E p \in DOMAIN h : o[p] = u
  /\ \A p \in DOMAIN h :
       /\ p \in Int /\ p % 4 = 0 /\ h[p] \in Sizes
       /\ o[p] + 12 <= p /\ p + h[p] <= o[p] + z[o[p]] /\ m[p - 4] = p - o[p] - 8

\* The callers' data is in the pieces.
Holds(m, h, d) ==
  /\ DOMAIN d = DOMAIN h
  /\ \A p \in DOMAIN h :
       /\ d[p] \in [words : Nat, tag : Int] /\ 4 * d[p].words <= h[p]
       /\ \A a \in WordsOf(p, d[p].words) : m[a] = d[p].tag

LEMMA SizesAre == Sizes \subseteq Nat /\ Sizes \subseteq Int
  BY LwpHeapAssumption DEF LwpHeapAssumption

\* The words of a piece.
PieceIn(B, z, F, h, p, u) ==
  /\ u \in B /\ u \notin F /\ u \in Int /\ z[u] \in Int /\ Place(p) /\ p - 4 \in Words /\ h[p] \in Nat
  /\ u + 8 <= p - 4 /\ p + h[p] <= u + z[u] /\ p - 4 < u + z[u]
  /\ \A n \in Nat : 4 * n <= h[p] => \A a \in WordsOf(p, n) : a \in Words /\ u + 8 <= a /\ a < u + z[u] /\ p <= a /\ a < p + h[p]

LEMMA PieceIsIn ==
  ASSUME NEW m, NEW B, NEW z, NEW F, NEW h, NEW o, Layout(B, z), Owned(m, B, z, F, h, o), NEW p \in DOMAIN h
  PROVE  PieceIn(B, z, F, h, p, o[p]) /\ usrblockat(m, p) = o[p]
<1> DEFINE u == o[p]
           s == z[u]
           k == h[p]
<1>1. u \in B /\ u \notin F /\ p \in Int /\ p % 4 = 0 /\ k \in Nat /\ u + 12 <= p /\ p + k <= u + s /\ m[p - 4] = p - u - 8
  BY SizesAre DEF Owned
<1>2. u \in Int /\ s \in Int /\ u + s <= TheEnd /\ TheEnd \in Int /\ Start \in Int /\ Start <= u
  BY <1>1, BlockPlaces, Params DEF Place
<1> HIDE DEF u, s, k
<1>3. p - 4 \in Int /\ (p - 4) % 4 = 0 /\ Start <= p - 4 /\ p < Start + HeapSize /\ Start <= p /\ p - 4 < Start + HeapSize
  BY <1>1, <1>2, Params DEF TheEnd
<1>4. Place(p) /\ Place(p - 4)
  BY <1>1, <1>3 DEF Place
<1>5. ASSUME NEW n \in Nat, 4 * n <= k, NEW a \in WordsOf(p, n)
      PROVE  a \in Words /\ u + 8 <= a /\ a < u + s /\ p <= a /\ a < p + k
  <2>1. a \in Int /\ p <= a /\ a + 4 <= p + 4 * n /\ a % 4 = 0
    BY <1>1, WordsOfIs
  <2>2. u + 8 <= a /\ a < u + s /\ a < p + k /\ Start <= a /\ a < Start + HeapSize
    BY <1>1, <1>2, <1>5, <2>1, Params DEF TheEnd
  <2>3. Place(a)
    BY <2>1, <2>2 DEF Place
  <2> QED
    BY <2>1, <2>2, <2>3, Addresses
<1>6. usrblockat(m, p) = u
  BY <1>1, <1>2 DEF usrblockat
<1>7. u + 8 <= p - 4 /\ p - 4 < u + s
  BY <1>1, <1>2
<1>8. p - 4 \in Words
  BY <1>4, Addresses
<1> QED
  BY <1>1, <1>2, <1>4, <1>5, <1>6, <1>7, <1>8 DEF PieceIn, u, s, k

\* A piece whose block is untouched.
LEMMA PieceKept ==
  ASSUME NEW m, NEW m2, NEW B, NEW z, NEW F, NEW h, NEW o, Layout(B, z), Owned(m, B, z, F, h, o), NEW p \in DOMAIN h,
         NEW U, Untouched(m, m2, z, U), o[p] \in U
  PROVE  /\ m2[p - 4] = m[p - 4]
         /\ \A n \in Nat : 4 * n <= h[p] => \A a \in WordsOf(p, n) : a \in Words /\ m2[a] = m[a]
<1>1. PieceIn(B, z, F, h, p, o[p])
  BY PieceIsIn
<1> DEFINE u == o[p]
<1>2. \A a \in Words : u + 8 <= a /\ a < u + z[u] => m2[a] = m[a]
  BY DEF Untouched
<1>3. /\ p - 4 \in Words /\ u + 8 <= p - 4 /\ p - 4 < u + z[u]
      /\ \A n \in Nat : 4 * n <= h[p] => \A a \in WordsOf(p, n) : a \in Words /\ u + 8 <= a /\ a < u + z[u]
  BY <1>1 DEF PieceIn
<1> QED
  BY <1>2, <1>3

LEMMA HoldsKept ==
  ASSUME NEW m, NEW m2, NEW B, NEW z, NEW F, NEW h, NEW o, Layout(B, z), Owned(m, B, z, F, h, o),
         NEW d, Holds(m, h, d), NEW p \in DOMAIN h, NEW U, Untouched(m, m2, z, U), o[p] \in U
  PROVE  \A a \in WordsOf(p, d[p].words) : m2[a] = d[p].tag
<1>1. d[p].words \in Nat /\ 4 * d[p].words <= h[p] /\ \A a \in WordsOf(p, d[p].words) : m[a] = d[p].tag
  BY DEF Holds
<1>2. \A a \in WordsOf(p, d[p].words) : m2[a] = m[a]
  BY <1>1, PieceKept
<1> QED
  BY <1>1, <1>2

\* A new piece.
LEMMA TookOwned ==
  ASSUME NEW m, NEW B, NEW z, NEW F, NEW h, NEW o, Layout(B, z), Owned(m, B, z, F, h, o),
         NEW m2, NEW ptr, NEW size \in Sizes, NEW B2, NEW z2, NEW F2, NEW r2, NEW c,
         Took(m, m2, B, z, F, ptr, size, B2, z2, F2, r2, c)
  PROVE  Owned(m2, B2, z2, F2, With(h, ptr, size), With(o, ptr, c)) /\ ptr \notin DOMAIN h /\ DOMAIN o = DOMAIN h
<1> DEFINE h2 == With(h, ptr, size)
           o2 == With(o, ptr, c)
           D == DOMAIN h
<1>1. /\ Heap(m2, B2, z2, F2, r2) /\ c \in B2 /\ c \notin F2 /\ c \notin B \ F /\ B2 \ F2 = (B \ F) \cup {c}
      /\ \A u \in B \ F : z2[u] = z[u]
      /\ Untouched(m, m2, z, B \ F)
      /\ ptr \in Int /\ ptr % 4 = 0 /\ c + 12 <= ptr /\ ptr + size <= c + z2[c] /\ m2[ptr - 4] = ptr - c - 8
  BY DEF Took, Used
<1>2. /\ o \in [D -> B \ F]
      /\ \A p, q \in D : o[p] = o[q] => p = q
      /\ \A u \in B \ F : \E p \in D : o[p] = u
      /\ \A p \in D : /\ p \in Int /\ p % 4 = 0 /\ h[p] \in Sizes
                      /\ o[p] + 12 <= p /\ p + h[p] <= o[p] + z[o[p]] /\ m[p - 4] = p - o[p] - 8
  BY DEF Owned
<1>3. Layout(B2, z2)
  BY <1>1 DEF Heap
<1>4. ASSUME NEW p \in D PROVE p # ptr
  <2> DEFINE u == o[p]
  <2>1. u \in B2 /\ u # c /\ z2[u] = z[u] /\ c \in B2
    BY <1>1, <1>2
  <2>2. u + z2[u] <= c \/ c + z2[c] <= u
    BY <1>3, <2>1, BlocksApart
  <2>3. u \in Int /\ z2[u] \in Int /\ c \in Int /\ z2[c] \in Int
    BY <1>3, <2>1, BlockPlaces
  <2>4. p \in Int /\ h[p] \in Nat /\ u + 12 <= p /\ p + h[p] <= u + z2[u] /\ size \in Nat
    BY <1>2, <2>1, SizesAre
  <2> HIDE DEF u
  <2> QED
    BY <1>1, <2>2, <2>3, <2>4
<1>5. ptr \notin D
  BY <1>4
<1>6. /\ DOMAIN h2 = D \cup {ptr} /\ h2[ptr] = size /\ \A p \in D : h2[p] = h[p]
      /\ DOMAIN o2 = D \cup {ptr} /\ o2[ptr] = c /\ \A p \in D : o2[p] = o[p]
      /\ o2 = [p \in D \cup {ptr} |-> o2[p]]
  BY <1>2, <1>5 DEF With
<1> HIDE DEF h2, o2, D
<1>7. o2 \in [D \cup {ptr} -> B2 \ F2]
  <2>1. \A p \in D \cup {ptr} : o2[p] \in B2 \ F2
    BY <1>1, <1>2, <1>6
  <2> QED
    BY <1>6, <2>1
<1>8. \A p, q \in D \cup {ptr} : o2[p] = o2[q] => p = q
  BY <1>1, <1>2, <1>6
<1>9. \A u \in B2 \ F2 : \E p \in D \cup {ptr} : o2[p] = u
  <2> SUFFICES ASSUME NEW u \in B2 \ F2 PROVE \E p \in D \cup {ptr} : o2[p] = u
    OBVIOUS
  <2>1. CASE u = c
    BY <1>6, <2>1
  <2>2. CASE u # c
    <3>1. PICK p \in D : o[p] = u
      BY <1>1, <1>2, <2>2
    <3> QED
      BY <1>6, <3>1
  <2> QED
    BY <2>1, <2>2
<1>10. ASSUME NEW p \in D \cup {ptr}
       PROVE  /\ p \in Int /\ p % 4 = 0 /\ h2[p] \in Sizes
              /\ o2[p] + 12 <= p /\ p + h2[p] <= o2[p] + z2[o2[p]] /\ m2[p - 4] = p - o2[p] - 8
  <2>1. CASE p = ptr
    BY <1>1, <1>6, <2>1
  <2>2. CASE p \in D
    <3>1. o[p] \in B \ F
      BY <1>2, <2>2
    <3>2. m2[p - 4] = m[p - 4]
      BY <1>1, <2>2, <3>1, PieceKept DEF D
    <3> QED
      BY <1>1, <1>2, <1>6, <2>2, <3>1, <3>2
  <2> QED
    BY <2>1, <2>2
<1>11. DOMAIN o = DOMAIN h
  BY <1>2 DEF D
<1> QED
  BY <1>5, <1>6, <1>7, <1>8, <1>9, <1>10, <1>11 DEF Owned, h2, o2, D

\* A piece goes.
LEMMA FreedOwned ==
  ASSUME NEW m, NEW B, NEW z, NEW F, NEW h, NEW o, Layout(B, z), Owned(m, B, z, F, h, o), NEW p \in DOMAIN h,
         NEW m2, NEW B2, NEW z2, NEW F2, UsedKept(m, m2, B, z, F, o[p], B2, z2, F2)
  PROVE  Owned(m2, B2, z2, F2, Without(h, p), Without(o, p))
<1> DEFINE h2 == Without(h, p)
           o2 == Without(o, p)
           D == DOMAIN h
           E == D \ {p}
<1>1. /\ B2 \ F2 = (B \ F) \ {o[p]} /\ \A u \in (B \ F) \ {o[p]} : z2[u] = z[u]
      /\ Untouched(m, m2, z, (B \ F) \ {o[p]})
  BY DEF UsedKept
<1>2. /\ o \in [D -> B \ F]
      /\ \A x, y \in D : o[x] = o[y] => x = y
      /\ \A u \in B \ F : \E x \in D : o[x] = u
      /\ \A x \in D : /\ x \in Int /\ x % 4 = 0 /\ h[x] \in Sizes
                      /\ o[x] + 12 <= x /\ x + h[x] <= o[x] + z[o[x]] /\ m[x - 4] = x - o[x] - 8
  BY DEF Owned
<1>3. DOMAIN h2 = E /\ (\A x \in E : h2[x] = h[x]) /\ DOMAIN o2 = E /\ (\A x \in E : o2[x] = o[x]) /\ o2 = [x \in E |-> o2[x]]
  BY <1>2 DEF Without
<1> HIDE DEF h2, o2, D
<1>4. \A x \in E : o[x] \in (B \ F) \ {o[p]}
  BY <1>2 DEF D
<1>5. o2 \in [E -> B2 \ F2]
  BY <1>1, <1>3, <1>4
<1>6. \A u \in B2 \ F2 : \E x \in E : o2[x] = u
  BY <1>1, <1>2, <1>3
<1>7. ASSUME NEW x \in E PROVE m2[x - 4] = m[x - 4]
  <2>1. x \in DOMAIN h /\ o[x] \in (B \ F) \ {o[p]}
    BY <1>4 DEF D
  <2> QED
    BY <1>1, <2>1, PieceKept
<1>8. \A x, y \in E : o2[x] = o2[y] => x = y
  BY <1>2, <1>3
<1>9. \A x \in E : /\ x \in Int /\ x % 4 = 0 /\ h2[x] \in Sizes
                   /\ o2[x] + 12 <= x /\ x + h2[x] <= o2[x] + z2[o2[x]] /\ m2[x - 4] = x - o2[x] - 8
  BY <1>1, <1>2, <1>3, <1>4, <1>7
<1> QED
  BY <1>3, <1>5, <1>6, <1>8, <1>9 DEF Owned, h2, o2

\* The callers' data when a piece comes and when one goes.
LEMMA TookHolds ==
  ASSUME NEW m, NEW B, NEW z, NEW F, NEW h, NEW o, Layout(B, z), Owned(m, B, z, F, h, o), NEW d, Holds(m, h, d),
         NEW m2, NEW ptr, NEW size \in Sizes, NEW B2, NEW z2, NEW F2, NEW r2, NEW c,
         Took(m, m2, B, z, F, ptr, size, B2, z2, F2, r2, c),
         NEW e \in [words : Nat, tag : Int], 4 * e.words <= size, \A a \in WordsOf(ptr, e.words) : m2[a] = e.tag
  PROVE  Holds(m2, With(h, ptr, size), With(d, ptr, e))
<1> DEFINE h2 == With(h, ptr, size)
           d2 == With(d, ptr, e)
           D == DOMAIN h
<1>1. ptr \notin D
  BY TookOwned
<1>2. DOMAIN d = D /\ \A p \in D : d[p] \in [words : Nat, tag : Int] /\ 4 * d[p].words <= h[p]
  BY DEF Holds
<1>3. /\ DOMAIN h2 = D \cup {ptr} /\ h2[ptr] = size /\ \A p \in D : h2[p] = h[p]
      /\ DOMAIN d2 = D \cup {ptr} /\ d2[ptr] = e /\ \A p \in D : d2[p] = d[p]
  BY <1>1, <1>2 DEF With
<1>4. ASSUME NEW p \in D PROVE \A a \in WordsOf(p, d[p].words) : m2[a] = d[p].tag
  <2>1. Untouched(m, m2, z, B \ F) /\ o[p] \in B \ F
    BY DEF Took, Used, Owned
  <2> HIDE DEF D
  <2>2. p \in DOMAIN h
    BY DEF D
  <2> QED
    BY <2>1, <2>2, HoldsKept
<1> HIDE DEF h2, d2, D
<1>5. \A p \in D \cup {ptr} :
        /\ d2[p] \in [words : Nat, tag : Int] /\ 4 * d2[p].words <= h2[p]
        /\ \A a \in WordsOf(p, d2[p].words) : m2[a] = d2[p].tag
  BY <1>2, <1>3, <1>4
<1> QED
  BY <1>3, <1>5 DEF Holds, h2, d2

LEMMA FreedHolds ==
  ASSUME NEW m, NEW B, NEW z, NEW F, NEW h, NEW o, Layout(B, z), Owned(m, B, z, F, h, o), NEW d, Holds(m, h, d),
         NEW p \in DOMAIN h, NEW m2, NEW B2, NEW z2, NEW F2, UsedKept(m, m2, B, z, F, o[p], B2, z2, F2)
  PROVE  Holds(m2, Without(h, p), Without(d, p))
<1> DEFINE h2 == Without(h, p)
           d2 == Without(d, p)
           E == DOMAIN h \ {p}
<1>1. DOMAIN d = DOMAIN h /\ \A x \in E : d[x] \in [words : Nat, tag : Int] /\ 4 * d[x].words <= h[x]
  BY DEF Holds
<1>2. DOMAIN h2 = E /\ DOMAIN d2 = E /\ \A x \in E : h2[x] = h[x] /\ d2[x] = d[x]
  BY <1>1 DEF Without
<1>3. ASSUME NEW x \in E PROVE \A a \in WordsOf(x, d[x].words) : m2[a] = d[x].tag
  <2>1. Untouched(m, m2, z, (B \ F) \ {o[p]}) /\ o[x] \in (B \ F) \ {o[p]}
    BY DEF UsedKept, Owned
  <2>2. x \in DOMAIN h
    OBVIOUS
  <2> HIDE DEF E
  <2> QED
    BY <2>1, <2>2, HoldsKept
<1> HIDE DEF h2, d2, E
<1>4. \A x \in E :
        /\ d2[x] \in [words : Nat, tag : Int] /\ 4 * d2[x].words <= h2[x]
        /\ \A a \in WordsOf(x, d2[x].words) : m2[a] = d2[x].tag
  BY <1>1, <1>2, <1>3
<1> QED
  BY <1>2, <1>4 DEF Holds, h2, d2

\* A heap with the pieces h and their data d.
Sound(m, h, d) ==
  \E B, z, F, r, o : Heap(m, B, z, F, r) /\ Owned(m, B, z, F, h, o) /\ Holds(m, h, d)

\* What __lwp_heap_free and __lwp_heap_realloc ask of a pointer holds of every piece.
LEMMA PieceCanBeFreed ==
  ASSUME NEW m, NEW B, NEW z, NEW F, NEW r, NEW h, NEW o,
         Heap(m, B, z, F, r), Owned(m, B, z, F, h, o), NEW p \in DOMAIN h
  PROVE  IsPiece(m, p) /\ CanBeFreed(m, p) /\ p # NULL
<1> DEFINE u == o[p]
           n == nextblock(m, u)
<1>1. Layout(B, z) /\ Headers(m, B, z, F)
  BY DEF Heap
<1>2. PieceIn(B, z, F, h, p, u) /\ usrblockat(m, p) = u
  BY <1>1, PieceIsIn
<1>3. u \in B /\ u \notin F /\ p # NULL
  BY <1>2, Params DEF PieceIn, Place
<1> HIDE DEF u
<1>4. \A b \in B \cup {TheEnd} : blockin(m, b)
  <2>1. m[start] = Start /\ m[final] = TheEnd
    BY <1>1 DEF Headers
  <2>2. \A b \in B : Start <= b /\ b <= TheEnd
    <3> SUFFICES ASSUME NEW b \in B PROVE Start <= b /\ b <= TheEnd
      OBVIOUS
    <3>1. b \in Int /\ Start <= b /\ z[b] \in Nat /\ b + z[b] <= TheEnd
      BY <1>1 DEF Layout, Place
    <3>2. TheEnd \in Int
      BY Params DEF Place
    <3> QED
      BY <3>1, <3>2
  <2>3. Start <= TheEnd /\ TheEnd <= TheEnd
    BY Params DEF Place
  <2> QED
    BY <2>1, <2>2, <2>3 DEF blockin
<1>5. n = u + z[u] /\ n \in B \cup {TheEnd} /\ ~ IsFree(m[front_flag(u)])
  <2>1. nextblock(m, u) = u + z[u] /\ ~ IsFree(m[u + 4])
    BY <1>1, <1>3, FlagsAre
  <2>2. u + z[u] \in B \cup {TheEnd}
    BY <1>1, <1>3 DEF Layout
  <2> QED
    BY <2>1, <2>2
<1>6. m[front_flag(u)] = m[back_flag(n)]
  BY <1>1, <1>3, <1>5 DEF Headers
<1>7. IsFree(m[back_flag(u)]) => prevblock(m, u) \in B
  <2>1. IsFree(m[u]) => prevblock(m, u) \in F
    BY <1>1, <1>3, Neighbours
  <2> QED
    BY <1>1, <2>1 DEF Headers
<1>8. blockin(m, u) /\ blockin(m, n) /\ (IsFree(m[back_flag(u)]) => blockin(m, prevblock(m, u)))
  BY <1>3, <1>4, <1>5, <1>7
<1>9. IsPiece(m, p)
  BY <1>2, <1>3, <1>5, <1>8 DEF IsPiece
<1> HIDE DEF n
<1>10. CanBeFreed(m, p)
  BY <1>2, <1>6, <1>8, <1>9 DEF CanBeFreed, n
<1> QED
  BY <1>3, <1>9, <1>10

LEMMA FreedSound ==
  ASSUME NEW m, NEW B, NEW z, NEW F, NEW r, NEW h, NEW o, NEW d,
         Heap(m, B, z, F, r), Owned(m, B, z, F, h, o), Holds(m, h, d), NEW p \in DOMAIN h
  PROVE  Sound(Freed(m, p), Without(h, p), Without(d, p))
<1>1. Layout(B, z)
  BY DEF Heap
<1>2. usrblockat(m, p) = o[p] /\ o[p] \in B \ F
  <2>1. usrblockat(m, p) = o[p]
    BY <1>1, PieceIsIn
  <2>2. o[p] \in B \ F
    BY DEF Owned
  <2> QED
    BY <2>1, <2>2
<1>3. FreedHeap(m, Joined(m, o[p]), B, z, F, o[p])
  BY <1>2, JoinedKeeps
<1> DEFINE m2 == Freed(m, p)
<1>4. FreedHeap(m, m2, B, z, F, o[p])
  <2>1. CanBeFreed(m, p)
    BY PieceCanBeFreed
  <2> QED
    BY <1>2, <1>3, <2>1 DEF Freed
<1> HIDE DEF m2
<1>5. PICK B2, z2, F2, r2 : Heap(m2, B2, z2, F2, r2) /\ UsedKept(m, m2, B, z, F, o[p], B2, z2, F2)
  BY <1>4 DEF FreedHeap
<1>6. Owned(m2, B2, z2, F2, Without(h, p), Without(o, p))
  BY <1>1, <1>5, FreedOwned
<1>7. Holds(m2, Without(h, p), Without(d, p))
  BY <1>1, <1>5, FreedHolds
<1> QED
  BY <1>5, <1>6, <1>7 DEF Sound, m2
-----------------------------------------------------------------------------
(* The inductive invariant *)

Answered == answer.call # "free" => answer.ret \in DOMAIN held \cup {NULL}

IndInv == Sound(mem, held, data) /\ Answered

LEMMA AlignsAre ==
  ASSUME NEW align \in Aligns
  PROVE  /\ align \in Nat /\ ((align % 4 = 0) \/ align < 4)
         /\ align = 0 \/ align > pg_size \/ pg_size % align = 0
  BY LwpHeapAssumption DEF LwpHeapAssumption

LEMMA InitMemory ==
  ASSUME Init
  PROVE  /\ mem \in [Words -> Int]
         /\ mem[Start] = 1 /\ mem[Start + 4] = HeapSize - 8 /\ mem[Start + 8] = tail /\ mem[Start + 12] = head
         /\ mem[theheap] = Start /\ mem[theheap + 8] = Start /\ mem[theheap + 16] = Start
         /\ mem[TheEnd] = HeapSize - 8 /\ mem[TheEnd + 4] = 1 /\ mem[theheap + 4] = TheEnd
<1>1. {theheap, theheap + 4, theheap + 8, theheap + 12, theheap + 16} \subseteq Words
  BY Addresses DEF Control
<1>2. TheEnd \in Int /\ TheEnd = Start + (HeapSize - 8) /\ TheEnd >= Start + 16
  BY Params DEF TheEnd
<1>3. {Start, Start + 4, Start + 8, Start + 12, TheEnd, TheEnd + 4} \subseteq Words
  <2>1. Place(Start) /\ Place(Start + 4) /\ Place(Start + 8) /\ Place(Start + 12) /\ Place(TheEnd) /\ Place(TheEnd + 4)
    BY <1>2, Params DEF Place
  <2> QED
    BY <2>1, Addresses
<1>4. mem = [[a \in Words |-> -1] EXCEPT
               ![Start] = 1, ![Start + 4] = HeapSize - 8,
               ![Start + 8] = tail, ![Start + 12] = head,
               ![theheap] = Start, ![theheap + 8] = Start, ![theheap + 12] = 0, ![theheap + 16] = Start,
               ![TheEnd] = HeapSize - 8, ![TheEnd + 4] = 1, ![theheap + 4] = TheEnd]
  <2>1. HeapSize - 2 * 4 = HeapSize - 8 /\ Start + 2 * 4 = Start + 8 /\ Start + 3 * 4 = Start + 12
        /\ theheap + 2 * 4 = theheap + 8 /\ theheap + 3 * 4 = theheap + 12 /\ theheap + 4 * 4 = theheap + 16
    OBVIOUS
  <2> QED
    BY <1>2, <2>1 DEF Init, JUNK
<1>5. /\ theheap \in Int /\ Start \in Int /\ HeapSize \in Int
      /\ theheap + 20 <= Start \/ TheEnd + 8 <= theheap
  BY Params DEF TheEnd
<1>6. tail \in Int /\ head \in Int
  BY <1>5
<1> HIDE DEF tail, head
<1>7. /\ \A i, j \in {0, 4, 8, 12} : i # j => Start + i # Start + j
      /\ \A a \in {theheap, theheap + 4, theheap + 8, theheap + 12, theheap + 16},
            b \in {Start, Start + 4, Start + 8, Start + 12, TheEnd, TheEnd + 4} : a # b
      /\ \A a \in {Start, Start + 4, Start + 8, Start + 12}, b \in {TheEnd, TheEnd + 4} : a # b
  BY <1>2, <1>5
<1> DEFINE m1 == [[a \in Words |-> -1] EXCEPT
               ![Start] = 1, ![Start + 4] = HeapSize - 8,
               ![Start + 8] = tail, ![Start + 12] = head]
           m2 == [m1 EXCEPT ![theheap] = Start, ![theheap + 8] = Start, ![theheap + 12] = 0, ![theheap + 16] = Start]
<1>8. mem = [m2 EXCEPT ![TheEnd] = HeapSize - 8, ![TheEnd + 4] = 1, ![theheap + 4] = TheEnd]
  BY <1>4
<1>9. /\ m1 \in [Words -> Int] /\ m1[Start] = 1 /\ m1[Start + 4] = HeapSize - 8 /\ m1[Start + 8] = tail /\ m1[Start + 12] = head
  BY <1>3, <1>5, <1>6
<1> HIDE DEF m1
<1>10. /\ m2 \in [Words -> Int] /\ m2[Start] = 1 /\ m2[Start + 4] = HeapSize - 8 /\ m2[Start + 8] = tail /\ m2[Start + 12] = head
       /\ m2[theheap] = Start /\ m2[theheap + 8] = Start /\ m2[theheap + 16] = Start
  BY <1>1, <1>3, <1>5, <1>7, <1>9
<1> HIDE DEF m2
<1>11. theheap + 4 # theheap /\ theheap + 4 # theheap + 8 /\ theheap + 4 # theheap + 16 /\ TheEnd # TheEnd + 4
  BY <1>2, <1>5
<1> QED
  BY <1>1, <1>2, <1>3, <1>5, <1>7, <1>8, <1>10, <1>11

LEMMA InitIndInv ==
  ASSUME Init
  PROVE  IndInv
<1> DEFINE B == {Start}
           s == HeapSize - 8
           z == [b \in {Start} |-> s]
           r == [x \in {Start} \cup {head, tail} |-> IF x = head THEN 0 ELSE IF x = Start THEN 1 ELSE 2]
           o == [p \in {} |-> 0]
<1>1. /\ mem \in [Words -> Int]
      /\ mem[Start] = 1 /\ mem[Start + 4] = s /\ mem[Start + 8] = tail /\ mem[Start + 12] = head
      /\ mem[theheap] = Start /\ mem[theheap + 8] = Start /\ mem[theheap + 16] = Start
      /\ mem[TheEnd] = s /\ mem[TheEnd + 4] = 1 /\ mem[theheap + 4] = TheEnd
  BY InitMemory
<1>2. s \in Nat /\ s >= 16 /\ s % 4 = 0 /\ Start + s = TheEnd /\ TheEnd # Start /\ Start \in Int /\ TheEnd \in Int
  BY Params DEF TheEnd
<1> HIDE DEF s
<1>3. Layout(B, z)
  BY <1>2, Params DEF Layout
<1>4. Headers(mem, B, z, B)
  BY <1>1, <1>2 DEF Headers, Flag
<1>5. FreeList(mem, B, r)
  <2>1. head \notin B /\ tail \notin B /\ head # tail
    BY <1>3, LinkPlaces
  <2> DEFINE nx == NextOf(mem, B)
             pv == PrevOf(mem, B)
  <2>2. nx = [x \in B \cup {head} |-> IF x = head THEN Start ELSE tail]
    <3>1. mem[next(head)] = Start /\ mem[next(Start)] = tail
      <4>1. theheap + 2 * 4 = theheap + 8 /\ Start + 2 * 4 = Start + 8
        OBVIOUS
      <4> QED
        BY <1>1, <4>1
    <3> HIDE DEF head, tail, next
    <3> QED
      BY <2>1, <3>1 DEF NextOf
  <2>3. pv = [y \in B \cup {tail} |-> IF y = tail THEN Start ELSE head]
    <3>1. mem[prev(tail)] = Start /\ mem[prev(Start)] = head
      <4>1. (theheap + 4) + 3 * 4 = theheap + 16 /\ Start + 3 * 4 = Start + 12
        BY Params
      <4> QED
        BY <1>1, <4>1
    <3> HIDE DEF head, tail, prev
    <3> QED
      BY <2>1, <3>1 DEF PrevOf
  <2> HIDE DEF nx, pv, head, tail
  <2>4. r[head] = 0 /\ r[Start] = 1 /\ r[tail] = 2 /\ r \in [B \cup {head, tail} -> Int]
    BY <2>1
  <2> HIDE DEF r
  <2>5. Chain(B, nx, pv, r)
    BY <2>1, <2>2, <2>3, <2>4 DEF Chain
  <2> QED
    BY <2>5 DEF FreeList, nx, pv
<1>6. Apart(z, B)
  BY <1>2 DEF Apart
<1>7. DOMAIN held = {} /\ DOMAIN data = {} /\ answer.ret = NULL
  BY DEF Init, Called
<1>8. Owned(mem, B, z, B, held, o)
  BY <1>7 DEF Owned
<1>9. Holds(mem, held, data)
  BY <1>7 DEF Holds
<1>10. Heap(mem, B, z, B, r)
  BY <1>3, <1>4, <1>5, <1>6 DEF Heap
<1> HIDE DEF B, z, r, o
<1>11. Sound(mem, held, data)
  BY <1>8, <1>9, <1>10 DEF Sound
<1> QED
  BY <1>7, <1>11 DEF IndInv, Answered

\* A call of Alloc or Memalign.
LEMMA ProvideKeeps ==
  ASSUME IndInv, NEW call, NEW size \in Sizes, NEW align \in Nat, (align % 4 = 0) \/ align < 4,
         Provide(call, size, align)
  PROVE  IndInv'
<1> DEFINE got == Allocated(mem, size, align)
           n == size \div 4
           a == Greater(align, pg_size)
<1>1. size \in Nat /\ align \in Nat /\ ((align % 4 = 0) \/ align < 4)
  BY SizesAre
<1>2. PICK B, z, F, r, o : Heap(mem, B, z, F, r) /\ Owned(mem, B, z, F, held, o) /\ Holds(mem, held, data)
  BY DEF IndInv, Sound
<1>3. Layout(B, z)
  BY <1>2 DEF Heap
<1>4. CASE FirstFit(mem, Need(size, a)) = tail
  <2>1. got.ptr = NULL /\ got.mem = mem
    BY <1>1, <1>2, <1>4, AllocatedNone
  <2> HIDE DEF got
  <2>2. mem' = mem /\ held' = held /\ data' = data /\ answer' = Called(call, size, align, NULL)
    BY <2>1 DEF Provide, got
  <2>3. answer'.ret = NULL
    BY <2>2 DEF Called
  <2> QED
    BY <2>2, <2>3 DEF IndInv, Answered
<1>5. CASE FirstFit(mem, Need(size, a)) # tail
  <2>1. got.ptr # NULL /\ \E B2, z2, F2, r2, c : Took(mem, got.mem, B, z, F, got.ptr, size, B2, z2, F2, r2, c)
    BY <1>1, <1>2, <1>5, AllocatedFound
  <2> DEFINE ptr == got.ptr
             tag == TagFor(ptr)
             e == [words |-> n, tag |-> tag]
             m2 == Fill(got.mem, ptr, n, tag)
  <2> HIDE DEF got
  <2>2. /\ mem' = m2 /\ held' = With(held, ptr, size) /\ data' = With(data, ptr, e)
        /\ answer' = Called(call, size, align, ptr)
    BY <2>1 DEF Provide, got
  <2>3. PICK B2, z2, F2, r2, c : Took(mem, got.mem, B, z, F, ptr, size, B2, z2, F2, r2, c)
    BY <2>1
  <2>4. ptr \in Int /\ got.mem \in [Words -> Int]
    BY <2>3 DEF Took, Used, Heap, Headers
  <2> HIDE DEF ptr
  <2>5. tag \in Int
    BY <2>4 DEF TagFor
  <2> HIDE DEF tag
  <2>6. n \in Nat /\ 4 * n <= size
    BY <1>1
  <2> HIDE DEF n
  <2>7. m2 \in [Words -> Int] /\ \A w \in Words : m2[w] = IF w \in WordsOf(ptr, n) THEN tag ELSE got.mem[w]
    BY <2>4, <2>5, FillIs
  <2>8. \A w \in Words : m2[w] = got.mem[w] \/ (ptr <= w /\ w < ptr + size)
    <3> SUFFICES ASSUME NEW w \in Words, w \in WordsOf(ptr, n) PROVE ptr <= w /\ w < ptr + size
      BY <2>7
    <3>1. w \in Int /\ ptr <= w /\ w + 4 <= ptr + 4 * n
      BY <2>4, <2>6, WordsOfIs
    <3> QED
      BY <1>1, <2>4, <2>6, <3>1
  <2> HIDE DEF m2
  <2>9. Took(mem, m2, B, z, F, ptr, size, B2, z2, F2, r2, c)
    BY <1>1, <1>3, <2>3, <2>7, <2>8, TookBody
  <2>10. Owned(m2, B2, z2, F2, With(held, ptr, size), With(o, ptr, c))
    BY <1>2, <1>3, <2>9, TookOwned
  <2>11. Heap(m2, B2, z2, F2, r2)
    BY <2>9 DEF Took, Used
  <2>12. \A w \in WordsOf(ptr, n) : w \in Words
    <3> DEFINE h2 == With(held, ptr, size)
    <3>1. ptr \in DOMAIN h2 /\ h2[ptr] = size
      BY DEF With
    <3> HIDE DEF h2
    <3>2. Layout(B2, z2) /\ Owned(m2, B2, z2, F2, h2, With(o, ptr, c))
      BY <2>10, <2>11 DEF Heap, h2
    <3>3. PieceIn(B2, z2, F2, h2, ptr, With(o, ptr, c)[ptr])
      BY <3>1, <3>2, PieceIsIn
    <3> QED
      BY <2>6, <3>1, <3>3 DEF PieceIn
  <2>13. e \in [words : Nat, tag : Int] /\ 4 * e.words <= size /\ \A w \in WordsOf(ptr, e.words) : m2[w] = e.tag
    BY <2>5, <2>6, <2>7, <2>12
  <2> HIDE DEF e
  <2>14. Holds(m2, With(held, ptr, size), With(data, ptr, e))
    BY <1>2, <1>3, <2>9, <2>13, TookHolds
  <2>15. Sound(mem', held', data')
    BY <2>2, <2>10, <2>11, <2>14 DEF Sound
  <2>16. answer'.ret \in DOMAIN held'
    BY <2>2 DEF Called, With
  <2> QED
    BY <2>15, <2>16 DEF IndInv, Answered
<1> QED
  BY <1>4, <1>5

\* A call of Dealloc.
LEMMA ReleaseKeeps ==
  ASSUME IndInv, NEW p \in DOMAIN held \cup {NULL}, Release(p)
  PROVE  IndInv'
<1>1. PICK B, z, F, r, o : Heap(mem, B, z, F, r) /\ Owned(mem, B, z, F, held, o) /\ Holds(mem, held, data)
  BY DEF IndInv, Sound
<1>2. /\ mem' = Freed(mem, p) /\ held' = Without(held, p) /\ data' = Without(data, p)
      /\ answer'.call = "free"
  BY DEF Release, Called
<1>3. Sound(mem', held', data')
  <2>1. CASE p \in DOMAIN held
    BY <1>1, <1>2, <2>1, FreedSound
  <2>2. CASE p = NULL
    <3>1. NULL \notin DOMAIN held /\ NULL \notin DOMAIN data
      BY <1>1, PieceCanBeFreed DEF Holds
    <3>2. mem' = mem
      BY <1>2, <2>2 DEF Freed, CanBeFreed, IsPiece
    <3>3. held' = [q \in DOMAIN held |-> held[q]] /\ data' = [q \in DOMAIN data |-> data[q]]
      BY <1>2, <2>2, <3>1 DEF Without
    <3>4. /\ DOMAIN held' = DOMAIN held /\ DOMAIN data' = DOMAIN data /\ DOMAIN data = DOMAIN held
          /\ \A q \in DOMAIN held : held'[q] = held[q] /\ data'[q] = data[q]
      BY <1>1, <3>3 DEF Holds
    <3>5. Owned(mem', B, z, F, held', o)
      BY <1>1, <3>2, <3>4 DEF Owned
    <3>6. Holds(mem', held', data')
      BY <1>1, <3>2, <3>4 DEF Holds
    <3> QED
      BY <1>1, <3>2, <3>5, <3>6 DEF Sound
  <2> QED
    BY <2>1, <2>2
<1> QED
  BY <1>2, <1>3 DEF IndInv, Answered

\* What a call of Realloc finds: the room behind the piece's beginning in its block.
LEMMA RoomIs ==
  ASSUME NEW m, NEW B, NEW z, NEW F, NEW r, NEW h, NEW o, Heap(m, B, z, F, r), Owned(m, B, z, F, h, o), NEW p \in DOMAIN h
  PROVE  LET room == nextblock(m, usrblockat(m, p)) - p
         IN room \in Int /\ room = o[p] + z[o[p]] - p /\ h[p] <= room /\ PieceIn(B, z, F, h, p, o[p])
<1>1. Layout(B, z) /\ Headers(m, B, z, F)
  BY DEF Heap
<1>2. PieceIn(B, z, F, h, p, o[p]) /\ usrblockat(m, p) = o[p]
  BY <1>1, PieceIsIn
<1> DEFINE u == o[p]
<1>3. u \in B /\ u \in Int /\ z[u] \in Int /\ Place(p) /\ h[p] \in Nat /\ p + h[p] <= u + z[u]
  BY <1>2 DEF PieceIn
<1> HIDE DEF u
<1>4. nextblock(m, u) = u + z[u]
  BY <1>1, <1>3, FlagsAre
<1>5. p \in Int
  BY <1>3 DEF Place
<1>6. u + z[u] - p \in Int /\ h[p] <= u + z[u] - p
  BY <1>3, <1>5
<1> DEFINE room == nextblock(m, usrblockat(m, p)) - p
<1>7. usrblockat(m, p) = u
  BY <1>2 DEF u
<1>8. room = (u + z[u]) - p
  BY <1>4, <1>7, Zenon
<1> HIDE DEF room
<1>9. room \in Int /\ room = u + z[u] - p /\ h[p] <= room
  BY <1>3, <1>5, <1>6, <1>8
<1>10. room = o[p] + z[o[p]] - p
  BY <1>9 DEF u
<1> QED
  BY <1>2, <1>9, <1>10 DEF room

\* The piece stays where it is.
LEMMA ResizedSound ==
  ASSUME NEW m, NEW B, NEW z, NEW F, NEW r, NEW h, NEW o, NEW d,
         Heap(m, B, z, F, r), Owned(m, B, z, F, h, o), Holds(m, h, d), NEW p \in DOMAIN h, NEW size \in Sizes,
         size <= o[p] + z[o[p]] - p
  PROVE  Sound(m, [h EXCEPT ![p] = size], [d EXCEPT ![p].words = IF size \div 4 < @ THEN size \div 4 ELSE @])
<1> DEFINE h2 == [h EXCEPT ![p] = size]
           n == size \div 4
           w == IF n < d[p].words THEN n ELSE d[p].words
           d2 == [d EXCEPT ![p].words = IF size \div 4 < @ THEN size \div 4 ELSE @]
<1>1. Layout(B, z) /\ PieceIn(B, z, F, h, p, o[p])
  BY PieceIsIn DEF Heap
<1>2. size \in Nat /\ n \in Nat /\ 4 * n <= size /\ o[p] \in Int /\ z[o[p]] \in Int /\ p \in Int
  <2>1. size \in Nat
    BY SizesAre
  <2> QED
    BY <1>1, <2>1 DEF PieceIn, Place
<1>3. DOMAIN h2 = DOMAIN h /\ h2[p] = size /\ \A q \in DOMAIN h : q # p => h2[q] = h[q]
  OBVIOUS
<1> HIDE DEF h2
<1>4. Owned(m, B, z, F, h2, o)
  <2>1. p + size <= o[p] + z[o[p]]
    BY <1>2
  <2> QED
    BY <1>3, <2>1 DEF Owned
<1>5. DOMAIN d = DOMAIN h /\ \A q \in DOMAIN h : /\ d[q] \in [words : Nat, tag : Int] /\ 4 * d[q].words <= h[q]
                                                  /\ \A a \in WordsOf(q, d[q].words) : m[a] = d[q].tag
  BY DEF Holds
<1>6. /\ DOMAIN d2 = DOMAIN h /\ d2[p] = [d[p] EXCEPT !.words = w]
      /\ \A q \in DOMAIN h : q # p => d2[q] = d[q]
  BY <1>5
<1> HIDE DEF d2, n
<1>7. w \in Nat /\ w <= n /\ w <= d[p].words
  BY <1>2, <1>5
<1>8. d2[p] \in [words : Nat, tag : Int] /\ d2[p].words = w /\ d2[p].tag = d[p].tag
  BY <1>5, <1>6, <1>7
<1> HIDE DEF w
<1>9. \A a \in WordsOf(p, w) : a \in WordsOf(p, d[p].words)
  <2>1. \A i \in 0..w - 1 : i \in 0..d[p].words - 1
    BY <1>5, <1>7
  <2> QED
    BY <2>1 DEF WordsOf
<1>10. 4 * w <= size
  BY <1>2, <1>7
<1>11. Holds(m, h2, d2)
  BY <1>3, <1>5, <1>6, <1>8, <1>9, <1>10 DEF Holds
<1> QED
  BY <1>4, <1>11 DEF Sound, h2, d2, n

\* memcpy: what it changes, and what it brings.
LEMMA CopiedIs ==
  ASSUME NEW m \in [Words -> Int], NEW from \in Int, NEW to \in Int, NEW dsize \in Nat,
         \A i \in 0..(dsize \div 4) - 1 : from + 4 * i \in Words
  PROVE  LET m2 == Copied(m, from, to, dsize)
         IN /\ m2 \in [Words -> Int]
            /\ \A a \in Words : m2[a] = m[a] \/ (to <= a /\ a < to + dsize)
            /\ \A i \in 0..(dsize \div 4) - 1 : to + 4 * i \in Words => m2[to + 4 * i] = m[from + 4 * i]
<1> DEFINE n == dsize \div 4
           m2 == Copied(m, from, to, dsize)
<1>1. n \in Nat /\ 4 * n <= dsize
  OBVIOUS
<1>2. m2 = [a \in Words |-> IF a \in WordsOf(to, n) THEN m[from + (a - to)] ELSE m[a]]
  BY DEF Copied
<1>3. \A i \in 0..n - 1 : from + 4 * i \in Words
  OBVIOUS
<1> HIDE DEF n, m2
<1>4. ASSUME NEW a \in WordsOf(to, n)
      PROVE  \E i \in 0..n - 1 : a = to + 4 * i /\ from + (a - to) = from + 4 * i /\ from + 4 * i \in Words /\ to <= a /\ a < to + dsize
  <2>1. PICK i \in 0..n - 1 : a = to + 4 * i
    BY DEF WordsOf
  <2>2. i \in Int /\ 0 <= i /\ i <= n - 1
    BY <1>1
  <2>3. from + (a - to) = from + 4 * i /\ to <= a /\ a < to + dsize
    BY <1>1, <2>1, <2>2
  <2> QED
    BY <1>3, <2>1, <2>3
<1>5. m2 \in [Words -> Int]
  <2>1. \A a \in WordsOf(to, n) : m[from + (a - to)] \in Int
    BY <1>4
  <2> QED
    BY <1>2, <2>1
<1>6. \A a \in Words : m2[a] = m[a] \/ (to <= a /\ a < to + dsize)
  BY <1>2, <1>4
<1>7. ASSUME NEW i \in 0..n - 1, to + 4 * i \in Words PROVE m2[to + 4 * i] = m[from + 4 * i]
  <2> DEFINE a == to + 4 * i
  <2>1. a \in WordsOf(to, n)
    BY DEF WordsOf
  <2>2. i \in Int
    BY <1>1
  <2>3. from + (a - to) = from + 4 * i
    BY <2>2
  <2>4. a \in Words
    BY <1>7
  <2> HIDE DEF a
  <2>5. m2[a] = m[from + (a - to)]
    BY <1>2, <2>1, <2>4
  <2> QED
    BY <2>3, <2>5 DEF a
<1> QED
  BY <1>5, <1>6, <1>7 DEF n, m2

\* The piece moves: a new one is taken, its contents are copied, the old one is freed.
LEMMA MovedSound ==
  ASSUME NEW m, NEW B, NEW z, NEW F, NEW r, NEW h, NEW o, NEW d,
         Heap(m, B, z, F, r), Owned(m, B, z, F, h, o), Holds(m, h, d), NEW p \in DOMAIN h, NEW size \in Sizes,
         NEW room \in Int, room = o[p] + z[o[p]] - p, h[p] <= room, room < size,
         NEW m1, NEW ptr, NEW B2, NEW z2, NEW F2, NEW r2, NEW c,
         Took(m, m1, B, z, F, ptr, size, B2, z2, F2, r2, c)
  PROVE  Sound(Freed(Copied(m1, p, ptr, room), p), With(Without(h, p), ptr, size), With(Without(d, p), ptr, d[p]))
<1> DEFINE u == o[p]
           s == z[u]
           m2 == Copied(m1, p, ptr, room)
           e == d[p]
           h2 == With(h, ptr, size)
           d2 == With(d, ptr, e)
           o2 == With(o, ptr, c)
<1>1. Layout(B, z) /\ PieceIn(B, z, F, h, p, u)
  BY PieceIsIn DEF Heap
<1>2. /\ u \in B /\ u \in Int /\ s \in Int /\ p \in Int /\ Place(p) /\ h[p] \in Nat /\ size \in Nat /\ size \in Int
      /\ p % 4 = 0 /\ Start <= p /\ u + s <= TheEnd /\ TheEnd \in Int
  <2>1. u \in B /\ u \in Int /\ s \in Int /\ Place(p) /\ h[p] \in Nat
    BY <1>1 DEF PieceIn
  <2> QED
    BY <1>1, <2>1, SizesAre, BlockPlaces DEF Place
<1>3. room \in Nat /\ room = u + s - p
  BY <1>2
<1> HIDE DEF u, s
<1>4. p + room <= TheEnd
  BY <1>2, <1>3
<1>5. ptr \in Int /\ m1 \in [Words -> Int]
  BY DEF Took, Used, Heap, Headers
<1> DEFINE n == room \div 4
<1>6. \A i \in 0..n - 1 : p + 4 * i \in Words
  <2> SUFFICES ASSUME NEW i \in 0..n - 1 PROVE p + 4 * i \in Words
    OBVIOUS
  <2>1. n \in Nat /\ 4 * n <= room
    BY <1>3
  <2> HIDE DEF n
  <2>2. i \in Int /\ 0 <= i /\ i <= n - 1
    BY <2>1
  <2>3. (p + 4 * i) \in Int /\ (p + 4 * i) % 4 = 0 /\ Start <= p + 4 * i /\ p + 4 * i < Start + HeapSize
    BY <1>2, <1>3, <1>4, <2>1, <2>2, Params DEF TheEnd
  <2>4. Place(p + 4 * i)
    BY <2>3 DEF Place
  <2> QED
    BY <2>4, Addresses
<1>7. /\ m2 \in [Words -> Int]
      /\ \A a \in Words : m2[a] = m1[a] \/ (ptr <= a /\ a < ptr + room)
      /\ \A i \in 0..n - 1 : ptr + 4 * i \in Words => m2[ptr + 4 * i] = m1[p + 4 * i]
  <2>1. p \in Int /\ room \in Nat /\ ptr \in Int /\ m1 \in [Words -> Int]
    BY <1>2, <1>3, <1>5
  <2>2. \A i \in 0..(room \div 4) - 1 : p + 4 * i \in Words
    BY <1>6
  <2> QED
    BY <2>1, <2>2, CopiedIs, Zenon
<1> HIDE DEF m2
<1>8. \A a \in Words : m2[a] = m1[a] \/ (ptr <= a /\ a < ptr + size)
  <2> SUFFICES ASSUME NEW a \in Words, ptr <= a, a < ptr + room PROVE a < ptr + size
    BY <1>7
  <2>1. a \in Int
    BY Addresses
  <2> QED
    BY <1>2, <1>5, <2>1
<1>9. Took(m, m2, B, z, F, ptr, size, B2, z2, F2, r2, c)
  BY <1>1, <1>2, <1>7, <1>8, TookBody
<1>10. Owned(m2, B2, z2, F2, h2, o2) /\ ptr \notin DOMAIN h
  BY <1>1, <1>9, TookOwned
<1>11. Heap(m2, B2, z2, F2, r2)
  BY <1>9 DEF Took, Used
<1>12. e \in [words : Nat, tag : Int] /\ 4 * e.words <= h[p] /\ \A a \in WordsOf(p, e.words) : m[a] = e.tag
  BY DEF Holds
<1> DEFINE w == e.words
<1>13. w \in Nat /\ 4 * w <= h[p] /\ w <= n /\ 4 * w <= size /\ n \in Nat /\ \A a \in WordsOf(p, w) : m[a] = e.tag
  <2>1. w \in Nat /\ \A a \in WordsOf(p, w) : m[a] = e.tag
    BY <1>12
  <2>2. 4 * w <= h[p]
    BY <1>12
  <2> HIDE DEF w, e
  <2>3. w <= n /\ 4 * w <= size /\ n \in Nat
    BY <1>2, <1>3, <2>1, <2>2
  <2> QED
    BY <2>1, <2>2, <2>3
<1> HIDE DEF w, n, e
<1>14. \A a \in WordsOf(p, w) : m1[a] = m[a]
  <2>1. Untouched(m, m1, z, B \ F) /\ o[p] \in B \ F
    BY DEF Took, Used, Owned
  <2> QED
    BY <1>1, <1>13, <2>1, PieceKept
<1>15. \A a \in WordsOf(ptr, w) : a \in Words
  <2> DEFINE U2 == o2[ptr]
  <2>1. ptr \in DOMAIN h2 /\ h2[ptr] = size
    BY DEF With
  <2> HIDE DEF h2, o2
  <2>2. PieceIn(B2, z2, F2, h2, ptr, U2)
    BY <1>10, <1>11, <2>1, PieceIsIn DEF Heap
  <2> QED
    BY <1>13, <2>1, <2>2 DEF PieceIn
<1>16. \A a \in WordsOf(ptr, w) : m2[a] = e.tag
  <2> SUFFICES ASSUME NEW i \in 0..w - 1, ptr + 4 * i \in Words PROVE m2[ptr + 4 * i] = e.tag
    <3>1. \A a \in WordsOf(ptr, w) : \E i \in 0..w - 1 : a = ptr + 4 * i
      BY DEF WordsOf
    <3> QED
      BY <1>15, <3>1
  <2>1. i \in 0..n - 1
    BY <1>13
  <2>2. m2[ptr + 4 * i] = m1[p + 4 * i]
    BY <1>7, <2>1 DEF n
  <2>3. p + 4 * i \in WordsOf(p, w)
    BY DEF WordsOf
  <2> QED
    BY <1>13, <1>14, <2>2, <2>3
<1>17. Holds(m2, h2, d2)
  <2>1. e \in [words : Nat, tag : Int] /\ 4 * e.words <= size /\ \A a \in WordsOf(ptr, e.words) : m2[a] = e.tag
    BY <1>12, <1>13, <1>16 DEF w
  <2> QED
    BY <1>1, <1>9, <2>1, TookHolds
<1>18. p \in DOMAIN h2 /\ p # ptr
  BY <1>10 DEF With
<1>19. DOMAIN d = DOMAIN h
  BY DEF Holds
<1>20. Without(h2, p) = With(Without(h, p), ptr, size) /\ Without(d2, p) = With(Without(d, p), ptr, e)
  BY <1>10, <1>18, <1>19 DEF With, Without
<1> HIDE DEF h2, d2, o2
<1>21. Sound(Freed(m2, p), Without(h2, p), Without(d2, p))
  BY <1>10, <1>11, <1>17, <1>18, FreedSound
<1> QED
  BY <1>20, <1>21 DEF m2, e

\* A call of Realloc.
LEMMA ResizeKeeps ==
  ASSUME IndInv, NEW p \in DOMAIN held, NEW size \in Sizes, Resize(p, size)
  PROVE  IndInv'
<1> DEFINE dsize == nextblock(mem, usrblockat(mem, p)) - p
           got == Allocated(mem, size, 0)
           a == Greater(0, pg_size)
<1>1. PICK B, z, F, r, o : Heap(mem, B, z, F, r) /\ Owned(mem, B, z, F, held, o) /\ Holds(mem, held, data)
  BY DEF IndInv, Sound
<1>2. dsize \in Int /\ dsize = o[p] + z[o[p]] - p /\ held[p] <= dsize
  BY <1>1, RoomIs
<1>3. size \in Nat /\ size \in Int /\ 0 \in Nat /\ 0 % 4 = 0
  BY SizesAre
<1> HIDE DEF dsize, got
<1>4. CASE dsize >= size
  <2>1. /\ mem' = mem /\ held' = [held EXCEPT ![p] = size]
        /\ data' = [data EXCEPT ![p].words = IF size \div 4 < @ THEN size \div 4 ELSE @]
        /\ answer' = Called("realloc", size, 0, p)
    BY <1>2, <1>3, <1>4 DEF Resize, Room, dsize
  <2>2. size <= o[p] + z[o[p]] - p
    BY <1>2, <1>3, <1>4
  <2>3. Sound(mem', held', data')
    BY <1>1, <2>1, <2>2, ResizedSound
  <2>4. answer'.ret \in DOMAIN held'
    BY <2>1 DEF Called
  <2> QED
    BY <2>3, <2>4 DEF IndInv, Answered
<1>5. CASE dsize < size /\ got.ptr = NULL
  <2>1. /\ mem' = Freed(got.mem, p) /\ held' = Without(held, p) /\ data' = Without(data, p)
        /\ answer' = Called("realloc", size, 0, NULL)
    BY <1>2, <1>3, <1>5 DEF Resize, Room, dsize, got
  <2>2. got.mem = mem
    <3>1. FirstFit(mem, Need(size, a)) = tail
      BY <1>1, <1>3, <1>5, AllocatedFound DEF got
    <3> QED
      BY <1>1, <1>3, <3>1, AllocatedNone DEF got
  <2>3. Sound(mem', held', data')
    BY <1>1, <2>1, <2>2, FreedSound
  <2>4. answer'.ret = NULL
    BY <2>1 DEF Called
  <2> QED
    BY <2>3, <2>4 DEF IndInv, Answered
<1>6. CASE dsize < size /\ got.ptr # NULL
  <2>1. /\ mem' = Freed(Copied(got.mem, p, got.ptr, dsize), p)
        /\ held' = With(Without(held, p), got.ptr, size) /\ data' = With(Without(data, p), got.ptr, data[p])
        /\ answer' = Called("realloc", size, 0, got.ptr)
    BY <1>2, <1>3, <1>6 DEF Resize, Room, dsize, got
  <2>2. FirstFit(mem, Need(size, a)) # tail
    BY <1>1, <1>3, <1>6, AllocatedNone DEF got
  <2>3. PICK B2, z2, F2, r2, c : Took(mem, got.mem, B, z, F, got.ptr, size, B2, z2, F2, r2, c)
    BY <1>1, <1>3, <2>2, AllocatedFound DEF got
  <2>4. Sound(mem', held', data')
    BY <1>1, <1>2, <1>6, <2>1, <2>3, MovedSound
  <2>5. answer'.ret \in DOMAIN held'
    BY <2>1 DEF Called, With
  <2> QED
    BY <2>4, <2>5 DEF IndInv, Answered
<1> QED
  BY <1>2, <1>3, <1>4, <1>5, <1>6
-----------------------------------------------------------------------------
(* The heap stays in order *)

LEMMA TypeOf ==
  ASSUME IndInv
  PROVE  TypeOK
<1>1. PICK B, z, F, r, o : Heap(mem, B, z, F, r) /\ Owned(mem, B, z, F, held, o) /\ Holds(mem, held, data)
  BY DEF IndInv, Sound
<1>2. Layout(B, z) /\ mem \in [Words -> Int]
  BY <1>1 DEF Heap, Headers
<1>3. DOMAIN data = DOMAIN held
  BY <1>1 DEF Holds
<1>4. ASSUME NEW p \in DOMAIN held PROVE p \in Words /\ held[p] \in Sizes
  <2>1. PieceIn(B, z, F, held, p, o[p])
    BY <1>1, <1>2, PieceIsIn
  <2>2. Place(p)
    BY <2>1 DEF PieceIn
  <2>3. p \in Words
    BY <2>2, Addresses
  <2> QED
    BY <1>1, <2>3 DEF Owned
<1> QED
  BY <1>2, <1>3, <1>4 DEF TypeOK, IndInv, Answered

\* A piece is resized, NULL becomes a new piece.
LEMMA ReallocateIs ==
  ASSUME IndInv, NEW p \in DOMAIN held \cup {NULL}, NEW size, Reallocate(p, size)
  PROVE  \/ p \in DOMAIN held /\ Resize(p, size)
         \/ p = NULL /\ Provide("realloc", size, 0)
<1>1. CASE p \in DOMAIN held
  <2>1. IsPiece(mem, p)
    BY <1>1, PieceCanBeFreed DEF IndInv, Sound
  <2> QED
    BY <1>1, <2>1 DEF Reallocate
<1>2. CASE p = NULL
  <2>1. ~ IsPiece(mem, p)
    BY <1>2 DEF IsPiece
  <2> QED
    BY <1>2, <2>1 DEF Reallocate
<1> QED
  BY <1>1, <1>2

LEMMA NextKeeps ==
  ASSUME IndInv, [Next]_vars
  PROVE  IndInv'
<1>1. ASSUME NEW size \in Sizes, NEW align \in Aligns, Allocate(size, align) PROVE IndInv'
  <2>1. align \in Nat /\ ((align % 4 = 0) \/ align < 4)
    BY AlignsAre
  <2> QED
    BY <1>1, <2>1, ProvideKeeps DEF Allocate
<1>2. ASSUME NEW p \in DOMAIN held \cup {NULL}, Release(p) PROVE IndInv'
  BY <1>2, ReleaseKeeps
<1>3. ASSUME NEW p \in DOMAIN held \cup {NULL}, NEW size \in Sizes, Reallocate(p, size) PROVE IndInv'
  <2>1. CASE Resize(p, size) /\ p \in DOMAIN held
    BY <2>1, ResizeKeeps
  <2>2. CASE Provide("realloc", size, 0)
    <3>1. 0 \in Nat /\ 0 % 4 = 0
      OBVIOUS
    <3> QED
      BY <2>2, <3>1, ProvideKeeps
  <2> QED
    BY <1>3, <2>1, <2>2, ReallocateIs
<1>4. CASE UNCHANGED vars
  BY <1>4 DEF vars, IndInv, Answered
<1> QED
  BY <1>1, <1>2, <1>3, <1>4 DEF Next

\* The heap is a row of blocks, each free or the owner of one piece, whose free ones are the list.
THEOREM HeapInvariant == Spec => []IndInv
<1>1. Init => IndInv
  BY InitIndInv
<1>2. IndInv /\ [Next]_vars => IndInv'
  BY NextKeeps
<1> QED
  BY <1>1, <1>2, PTL DEF Spec

\* The walk of __lwp_heap_getinfo over the blocks comes to the end of the heap and meets
\* headers that agree, whatever was allocated, freed and resized before.
THEOREM HeapWalks == Spec => []WalkEnds
<1>1. IndInv => WalkEnds
  <2> SUFFICES ASSUME IndInv PROVE WalkEnds
    OBVIOUS
  <2>1. PICK B, z, F, r, o : Heap(mem, B, z, F, r)
    BY DEF IndInv, Sound
  <2>2. TypeOK
    BY TypeOf
  <2> QED
    BY <2>1, <2>2, HeapWalkEnds
<1> QED
  BY <1>1, HeapInvariant, PTL

\* The list that __lwp_heap_allocate searches holds every free block once in either direction,
\* and __lwp_heap_free leaves no two free blocks side by side.
THEOREM HeapListsFree == Spec => []ListIsFreeBlocks
<1>1. IndInv => ListIsFreeBlocks
  <2> SUFFICES ASSUME IndInv PROVE ListIsFreeBlocks
    OBVIOUS
  <2>1. PICK B, z, F, r, o : Heap(mem, B, z, F, r)
    BY DEF IndInv, Sound
  <2> QED
    BY <2>1, HeapListIsFreeBlocks
<1> QED
  BY <1>1, HeapInvariant, PTL

\* No call writes into a piece that is handed out, and __lwp_heap_realloc brings a piece's
\* contents along.
THEOREM HeapKeepsData == Spec => []DataIntact
<1>1. IndInv => DataIntact
  BY DEF IndInv, Sound, Holds, DataIntact
<1> QED
  BY <1>1, HeapInvariant, PTL
-----------------------------------------------------------------------------
(* The callers see pieces that are theirs alone *)

Bytes(p, n) == p .. p + n - 1

LEMMA PiecesApart ==
  ASSUME IndInv, NEW p \in DOMAIN held
  PROVE  /\ p \in Start..Start + HeapSize - 1 /\ Bytes(p, held[p]) \subseteq Start..Start + HeapSize - 1
         /\ \A q \in DOMAIN held \ {p} : Bytes(p, held[p]) \cap Bytes(q, held[q]) = {}
<1>1. PICK B, z, F, r, o : Heap(mem, B, z, F, r) /\ Owned(mem, B, z, F, held, o)
  BY DEF IndInv, Sound
<1>2. Layout(B, z)
  BY <1>1 DEF Heap
<1>3. ASSUME NEW q \in DOMAIN held
      PROVE  /\ o[q] \in B /\ o[q] \in Int /\ z[o[q]] \in Int /\ Start <= o[q] /\ o[q] + z[o[q]] <= TheEnd /\ q \in Int /\ held[q] \in Nat
             /\ o[q] + 12 <= q /\ q + held[q] <= o[q] + z[o[q]]
  <2>1. PieceIn(B, z, F, held, q, o[q])
    BY <1>1, <1>2, PieceIsIn
  <2>2. /\ o[q] \in B /\ o[q] \in Int /\ z[o[q]] \in Int /\ Place(q) /\ held[q] \in Nat
    BY <2>1 DEF PieceIn
  <2>3. o[q] + 12 <= q /\ q + held[q] <= o[q] + z[o[q]]
    BY <1>1 DEF Owned
  <2> QED
    BY <1>2, <2>2, <2>3, BlockPlaces DEF Place
<1>4. p \in Start..Start + HeapSize - 1
  <2>1. Place(p)
    BY <1>1, <1>2, PieceIsIn DEF PieceIn
  <2> QED
    BY <2>1, Params DEF Place
<1>5. Bytes(p, held[p]) \subseteq Start..Start + HeapSize - 1
  <2> DEFINE u == o[p]
             s == z[u]
             k == held[p]
  <2>1. u \in Int /\ s \in Int /\ Start <= u /\ u + s <= TheEnd /\ p \in Int /\ k \in Nat /\ u + 12 <= p /\ p + k <= u + s
    BY <1>3
  <2> HIDE DEF u, s, k
  <2>2. p..p + k - 1 \subseteq Start..Start + HeapSize - 1
    BY <2>1, Params DEF TheEnd
  <2> QED
    BY <2>2 DEF Bytes, k
<1>6. ASSUME NEW q \in DOMAIN held, q # p PROVE Bytes(p, held[p]) \cap Bytes(q, held[q]) = {}
  <2> DEFINE u == o[p]
             s == z[u]
             k == held[p]
             v == o[q]
             t == z[v]
             l == held[q]
  <2>1. u \in B /\ v \in B /\ u # v
    BY <1>1, <1>3, <1>6 DEF Owned
  <2>2. u + s <= v \/ v + t <= u
    BY <1>2, <2>1, BlocksApart
  <2>3. u \in Int /\ s \in Int /\ p \in Int /\ k \in Nat /\ u + 12 <= p /\ p + k <= u + s
    BY <1>3
  <2>4. v \in Int /\ t \in Int /\ q \in Int /\ l \in Nat /\ v + 12 <= q /\ q + l <= v + t
    BY <1>3
  <2> HIDE DEF u, s, k, v, t, l
  <2>5. p + k <= q \/ q + l <= p
    BY <2>2, <2>3, <2>4
  <2>6. (p..p + k - 1) \cap (q..q + l - 1) = {}
    BY <2>3, <2>4, <2>5
  <2> QED
    BY <2>6 DEF Bytes, k, l
<1> QED
  BY <1>4, <1>5, <1>6

PiecesDisjoint ==
  \A p \in DOMAIN held :
    /\ p \in Start..Start + HeapSize - 1 /\ Bytes(p, held[p]) \subseteq Start..Start + HeapSize - 1
    /\ \A q \in DOMAIN held \ {p} : Bytes(p, held[p]) \cap Bytes(q, held[q]) = {}

LEMMA PiecesDisjointNext == IndInv' => PiecesDisjoint'
<1>1. IndInv => PiecesDisjoint
  BY PiecesApart DEF PiecesDisjoint
<1> QED
  BY <1>1, PTL

\* A piece of the next state is free of the others.
LEMMA PieceFree ==
  ASSUME IndInv', NEW p \in DOMAIN held', NEW others, others = DOMAIN held' \ {p}, \A q \in others : held[q] = held'[q]
  PROVE  p \in Start..Start + HeapSize - 1 /\ Pieces!Free(p, held'[p], others)
<1>1. PiecesDisjoint'
  BY PiecesDisjointNext
<1>2. /\ p \in Start..Start + HeapSize - 1 /\ Bytes(p, held'[p]) \subseteq Start..Start + HeapSize - 1
      /\ \A q \in DOMAIN held' \ {p} : Bytes(p, held'[p]) \cap Bytes(q, held'[q]) = {}
  BY <1>1 DEF PiecesDisjoint
<1> QED
  BY <1>2 DEF Pieces!Free, Pieces!Piece, Bytes

LEMMA FitsNone ==
  ASSUME NEW m, NEW B, NEW z, NEW F, NEW r, Heap(m, B, z, F, r), F = B, NEW d \in Int, \A x \in F : z[x] < d
  PROVE  ~ (d <= HeapSize - 8)
<1>1. Start \in B /\ Layout(B, z) /\ Apart(z, B)
  BY DEF Heap, Layout
<1>2. Start + z[Start] \in B \cup {TheEnd} /\ Start + z[Start] \notin B
  BY <1>1 DEF Layout, Apart
<1>3. z[Start] \in Int /\ Start \in Int
  BY <1>1, BlockPlaces
<1>4. z[Start] = HeapSize - 8
  BY <1>2, <1>3, Params DEF TheEnd
<1> QED
  BY <1>1, <1>4, Params

LEMMA AlignedAsAsked ==
  ASSUME NEW align \in Aligns, NEW ptr \in Int, ptr % Greater(align, pg_size) = 0
  PROVE  align = 0 \/ ptr % align = 0
<1>1. align \in Nat /\ (align = 0 \/ align > pg_size \/ pg_size % align = 0) /\ pg_size \in Nat /\ pg_size > 0
  BY AlignsAre, Params
<1>2. CASE align > pg_size
  BY <1>1, <1>2 DEF Greater
<1>3. CASE ~ (align > pg_size) /\ align # 0
  <2>1. Greater(align, pg_size) = pg_size /\ pg_size % align = 0 /\ align > 0
    BY <1>1, <1>3 DEF Greater
  <2> DEFINE k == pg_size \div align
             j == ptr \div pg_size
  <2>2. k \in Int /\ pg_size = align * k + (pg_size % align)
    BY <1>1, <2>1, Division
  <2>3. j \in Int /\ ptr = pg_size * j + (ptr % pg_size)
    BY <1>1, Division
  <2> HIDE DEF k, j
  <2>4. (align * k) \in Int /\ (pg_size * j) \in Int
    BY <1>1, <2>2, <2>3
  <2>5. pg_size = align * k
    BY <1>1, <2>1, <2>2, <2>4
  <2>6. ptr = pg_size * j
    BY <2>1, <2>3, <2>4
  <2>7. ptr = align * (k * j) /\ k * j \in Int
    BY <1>1, <2>2, <2>3, <2>5, <2>6
  <2>8. (align * (k * j)) % align = 0
    BY <1>1, <2>1, <2>7, Multiples
  <2> QED
    BY <2>7, <2>8
<1> QED
  BY <1>1, <1>2, <1>3

\* A call that provides a piece finds one apart from the others, or none, but not
\* none in an empty heap that is large enough.
LEMMA ProvideIs ==
  ASSUME IndInv, IndInv', NEW call, NEW size \in Sizes, NEW align \in Nat, (align % 4 = 0) \/ align < 4,
         Provide(call, size, align)
  PROVE  \/ /\ held' = held /\ answer' = Called(call, size, align, NULL)
            /\ DOMAIN held # {} \/ ~ FitsHeap(size, align)
         \/ \E ptr \in Int \ DOMAIN held :
              /\ ptr % Greater(align, pg_size) = 0
              /\ ptr \in Start..Start + HeapSize - 1 /\ Pieces!Free(ptr, size, DOMAIN held)
              /\ held' = With(held, ptr, size) /\ answer' = Called(call, size, align, ptr)
<1> DEFINE got == Allocated(mem, size, align)
           a == Greater(align, pg_size)
<1>1. size \in Nat /\ align \in Nat /\ ((align % 4 = 0) \/ align < 4)
  BY SizesAre
<1>2. PICK B, z, F, r, o : Heap(mem, B, z, F, r) /\ Owned(mem, B, z, F, held, o)
  BY DEF IndInv, Sound
<1>3. Layout(B, z) /\ F \subseteq B
  BY <1>2 DEF Heap, Headers
<1>4. CASE FirstFit(mem, Need(size, a)) = tail
  <2>1. got.ptr = NULL /\ got.mem = mem /\ \A x \in F : z[x] < Need(size, a)
    BY <1>1, <1>2, <1>4, AllocatedNone
  <2> HIDE DEF got
  <2>2. held' = held /\ answer' = Called(call, size, align, NULL)
    BY <2>1 DEF Provide, got
  <2>3. ASSUME DOMAIN held = {} PROVE ~ FitsHeap(size, align)
    <3>1. F = B
      BY <1>2, <1>3, <2>3 DEF Owned
    <3>2. Need(size, a) \in Int
      BY <1>1, AlignmentIs
    <3>3. ~ (Need(size, a) <= HeapSize - 8)
      BY <1>2, <2>1, <3>1, <3>2, FitsNone
    <3> QED
      BY <3>3 DEF FitsHeap
  <2> QED
    BY <2>2, <2>3
<1>5. CASE FirstFit(mem, Need(size, a)) # tail
  <2>1. got.ptr # NULL /\ got.ptr % a = 0 /\ \E B2, z2, F2, r2, c : Took(mem, got.mem, B, z, F, got.ptr, size, B2, z2, F2, r2, c)
    BY <1>1, <1>2, <1>5, AllocatedFound
  <2> DEFINE ptr == got.ptr
  <2> HIDE DEF got
  <2>2. held' = With(held, ptr, size) /\ answer' = Called(call, size, align, ptr)
    BY <2>1 DEF Provide, got
  <2>3. PICK B2, z2, F2, r2, c : Took(mem, got.mem, B, z, F, ptr, size, B2, z2, F2, r2, c)
    BY <2>1
  <2>4. ptr \notin DOMAIN held /\ ptr \in Int
    <3>1. ptr \notin DOMAIN held
      BY <1>2, <1>3, <2>3, TookOwned
    <3>2. ptr \in Int
      BY <2>3 DEF Took
    <3> QED
      BY <3>1, <3>2
  <2>5. ptr % a = 0
    BY <2>1
  <2> HIDE DEF ptr
  <2>6. /\ ptr \in DOMAIN held' /\ held'[ptr] = size /\ DOMAIN held = DOMAIN held' \ {ptr}
        /\ \A q \in DOMAIN held : held[q] = held'[q]
    BY <2>2, <2>4 DEF With
  <2>7. ptr \in Start..Start + HeapSize - 1 /\ Pieces!Free(ptr, size, DOMAIN held)
    BY <2>6, PieceFree
  <2> QED
    BY <2>2, <2>4, <2>5, <2>7
<1> QED
  BY <1>4, <1>5

LEMMA AllocateImplements ==
  ASSUME IndInv, IndInv', NEW size \in Sizes, NEW align \in Aligns, Allocate(size, align)
  PROVE  Pieces!Refuse(size, align) \/ Pieces!Allocate(answer'.ret, size, align)
<1>1. align \in Nat /\ ((align % 4 = 0) \/ align < 4) /\ Provide("alloc", size, align)
  BY AlignsAre DEF Allocate
<1>2. CASE /\ held' = held /\ answer' = Called("alloc", size, align, NULL)
           /\ DOMAIN held # {} \/ ~ FitsHeap(size, align)
  BY <1>2 DEF Pieces!Refuse, Pieces!Called, Called
<1>3. ASSUME NEW ptr \in Int \ DOMAIN held,
             ptr % Greater(align, pg_size) = 0,
             ptr \in Start..Start + HeapSize - 1, Pieces!Free(ptr, size, DOMAIN held),
             held' = With(held, ptr, size), answer' = Called("alloc", size, align, ptr)
      PROVE  Pieces!Allocate(answer'.ret, size, align)
  <2>1. align = 0 \/ ptr % align = 0
    BY <1>3, AlignedAsAsked
  <2>2. answer'.ret = ptr /\ answer' = Pieces!Called("alloc", size, align, ptr) /\ held' = Pieces!With(held, ptr, size)
    BY <1>3 DEF Called, Pieces!Called, With, Pieces!With
  <2>3. Pieces!Allocate(ptr, size, align)
    BY <1>3, <2>1, <2>2 DEF Pieces!Allocate, Pieces!Aligned
  <2> QED
    BY <2>2, <2>3
<1> QED
  BY <1>1, <1>2, <1>3, ProvideIs

\* NULL is given a new piece, if there is room for one.
LEMMA ReallocateNullImplements ==
  ASSUME IndInv, IndInv', NEW size \in Sizes, Provide("realloc", size, 0)
  PROVE  Pieces!Keep(NULL, size) \/ Pieces!Resize(NULL, answer'.ret, size)
<1>1. 0 \in Nat /\ 0 % 4 = 0
  OBVIOUS
<1>2. NULL \notin DOMAIN held
  BY PieceCanBeFreed DEF IndInv, Sound
<1>3. CASE /\ held' = held /\ answer' = Called("realloc", size, 0, NULL)
           /\ DOMAIN held # {} \/ ~ FitsHeap(size, 0)
  BY <1>2, <1>3 DEF Pieces!Keep, Pieces!Called, Called
<1>4. ASSUME NEW ptr \in Int \ DOMAIN held,
             ptr \in Start..Start + HeapSize - 1, Pieces!Free(ptr, size, DOMAIN held),
             held' = With(held, ptr, size), answer' = Called("realloc", size, 0, ptr)
      PROVE  Pieces!Resize(NULL, answer'.ret, size)
  <2>1. DOMAIN held \ {NULL} = DOMAIN held
    BY <1>2
  <2>2. answer'.ret = ptr /\ answer' = Pieces!Called("realloc", size, 0, ptr)
    BY <1>4 DEF Called, Pieces!Called
  <2>3. held' = Pieces!With(Pieces!Without(NULL), ptr, size)
    BY <1>4, <2>1 DEF With, Pieces!With, Pieces!Without
  <2>4. Pieces!Resize(NULL, ptr, size)
    BY <1>4, <2>1, <2>2, <2>3 DEF Pieces!Resize
  <2> QED
    BY <2>2, <2>4
<1> QED
  BY <1>1, <1>3, <1>4, ProvideIs

LEMMA ResizeImplements ==
  ASSUME IndInv, IndInv', NEW p \in DOMAIN held, NEW size \in Sizes, Resize(p, size)
  PROVE  LosesPiece \/ Pieces!Resize(p, answer'.ret, size)
<1> DEFINE dsize == nextblock(mem, usrblockat(mem, p)) - p
           got == Allocated(mem, size, 0)
           a == Greater(0, pg_size)
           q == answer'.ret
<1>1. PICK B, z, F, r, o : Heap(mem, B, z, F, r) /\ Owned(mem, B, z, F, held, o)
  BY DEF IndInv, Sound
<1>2. Layout(B, z) /\ dsize \in Int /\ held[p] <= dsize /\ held[p] \in Nat
  BY <1>1, RoomIs DEF Heap, PieceIn
<1>3. size \in Nat /\ size \in Int /\ 0 \in Nat /\ 0 % 4 = 0
  BY SizesAre
<1> HIDE DEF dsize, got
<1>4. CASE dsize < size /\ got.ptr = NULL
  <2>1. held' = Without(held, p) /\ answer' = Called("realloc", size, 0, NULL)
    BY <1>2, <1>3, <1>4 DEF Resize, Room, dsize, got
  <2>2. size > held[p]
    BY <1>2, <1>3, <1>4
  <2> QED
    BY <2>1, <2>2 DEF LosesPiece
<1>5. CASE dsize >= size \/ got.ptr # NULL
  <2>1. /\ held' = With(Without(held, p), q, size) /\ answer' = Called("realloc", size, 0, q)
        /\ q \notin DOMAIN held \ {p}
    <3>1. CASE dsize >= size
      <4>1. answer' = Called("realloc", size, 0, p) /\ held' = [held EXCEPT ![p] = size]
        BY <1>2, <1>3, <3>1 DEF Resize, Room, dsize
      <4>2. q = p
        BY <4>1 DEF Called
      <4>3. [held EXCEPT ![p] = size] = With(Without(held, p), p, size)
        BY DEF With, Without
      <4> QED
        BY <4>1, <4>2, <4>3
    <3>2. CASE dsize < size /\ got.ptr # NULL
      <4>1. held' = With(Without(held, p), got.ptr, size) /\ answer' = Called("realloc", size, 0, got.ptr)
        BY <1>2, <1>3, <3>2 DEF Resize, Room, dsize, got
      <4>2. q = got.ptr
        BY <4>1 DEF Called
      <4>3. FirstFit(mem, Need(size, a)) # tail
        BY <1>1, <1>3, <3>2, AllocatedNone DEF got
      <4>4. PICK B2, z2, F2, r2, c : Took(mem, got.mem, B, z, F, got.ptr, size, B2, z2, F2, r2, c)
        BY <1>1, <1>3, <4>3, AllocatedFound DEF got
      <4>5. got.ptr \notin DOMAIN held
        BY <1>1, <1>2, <4>4, TookOwned
      <4> QED
        BY <4>1, <4>2, <4>5
    <3> QED
      BY <1>2, <1>3, <1>5, <3>1, <3>2
  <2> HIDE DEF q
  <2> DEFINE others == DOMAIN held \ {p}
  <2>2. /\ q \in DOMAIN held' /\ held'[q] = size /\ others = DOMAIN held' \ {q}
        /\ \A x \in others : held[x] = held'[x]
    BY <2>1 DEF With, Without
  <2> HIDE DEF others
  <2>3. q \in Start..Start + HeapSize - 1 /\ Pieces!Free(q, size, others)
    BY <2>2, PieceFree
  <2>4. answer' = Pieces!Called("realloc", size, 0, q) /\ held' = Pieces!With(Pieces!Without(p), q, size)
    BY <2>1 DEF Called, Pieces!Called, With, Pieces!With, Without, Pieces!Without
  <2>5. Pieces!Resize(p, q, size)
    BY <2>1, <2>3, <2>4 DEF Pieces!Resize, others
  <2> QED
    BY <2>5 DEF q
<1> QED
  BY <1>2, <1>3, <1>4, <1>5

\* Alloc, Memalign, Realloc and Dealloc hand out aligned pieces of the heap that do not overlap,
\* and a heap that has been given back in full refuses nothing that fits a new one.  The one call
\* that is not the allocator's is the Realloc that finds no room for a piece to grow and loses it.
THEOREM HeapAllocates == Spec => AllocatesAsPromised
<1>1. Init => Pieces!Init
  BY DEF Init, Pieces!Init, Called, Pieces!Called
<1>2. IndInv /\ IndInv' /\ [Next]_vars => [Pieces!Next \/ LosesPiece]_<<held, answer>>
  <2> SUFFICES ASSUME IndInv, IndInv', [Next]_vars PROVE [Pieces!Next \/ LosesPiece]_<<held, answer>>
    OBVIOUS
  <2>1. ASSUME NEW size \in Sizes, NEW align \in Aligns, Allocate(size, align) PROVE Pieces!Next
    <3>1. Pieces!Refuse(size, align) \/ Pieces!Allocate(answer'.ret, size, align)
      BY <2>1, AllocateImplements
    <3> QED
      BY <3>1 DEF Pieces!Next
  <2>2. ASSUME NEW p \in DOMAIN held \cup {NULL}, Release(p) PROVE Pieces!Next
    <3>1. Pieces!Release(p)
      BY <2>2 DEF Release, Pieces!Release, Without, Pieces!Without, Called, Pieces!Called
    <3> QED
      BY <3>1 DEF Pieces!Next
  <2>3. ASSUME NEW p \in DOMAIN held \cup {NULL}, NEW size \in Sizes, Reallocate(p, size)
        PROVE  Pieces!Next \/ LosesPiece
    <3>1. CASE p \in DOMAIN held /\ Resize(p, size)
      <4>1. LosesPiece \/ Pieces!Resize(p, answer'.ret, size)
        BY <3>1, ResizeImplements
      <4> QED
        BY <4>1 DEF Pieces!Next
    <3>2. CASE p = NULL /\ Provide("realloc", size, 0)
      <4>1. Pieces!Keep(p, size) \/ Pieces!Resize(p, answer'.ret, size)
        BY <3>2, ReallocateNullImplements
      <4> QED
        BY <4>1 DEF Pieces!Next
    <3> QED
      BY <2>3, <3>1, <3>2, ReallocateIs
  <2>4. CASE UNCHANGED vars
    BY <2>4 DEF vars
  <2> QED
    BY <2>1, <2>2, <2>3, <2>4 DEF Next
<1> QED
  BY <1>1, <1>2, HeapInvariant, PTL DEF Spec, AllocatesAsPromised
=============================================================================
