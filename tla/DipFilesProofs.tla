--------------------------- MODULE DipFilesProofs ---------------------------
(***************************************************************************)
(* Proofs about DipFiles, for a table of any size, any set of files and    *)
(* any clock: the two pointer lists always partition the slots, every read *)
(* gets the file it asks for, the open list is sorted by age, only expired *)
(* and oldest files are closed, and the table is an LRU list.              *)
(***************************************************************************)
EXTENDS DipFiles, SequenceTheorems, WellFoundedInduction, TLAPS

\* A nonempty set of naturals has a least element.
LEMMA LeastNat ==
  ASSUME NEW T, T \subseteq Nat, T # {}
  PROVE  \E m \in T : \A k \in T : m <= k
<1> DEFINE R == {ss \in Nat \X Nat : ss[1] < ss[2]}
<1>1. IsWellFoundedOn(R, Nat)
  BY NatLessThanWellFounded, Zenon DEF OpToRel
<1> HIDE DEF R
<1>2. PICK m \in T : \A k \in T : <<k, m>> \notin R
  BY <1>1, WFMin, Zenon
<1>3. \A k \in T : ~ (k < m)
  BY <1>2 DEF R
<1> QED
  BY <1>3

-----------------------------------------------------------------------------
(* Chains *)

LEMMA ChainType ==
  ASSUME NEW c \in Chains
  PROVE  /\ Len(c) \in 0..MaxOpenFiles
         /\ c \in [1..Len(c) -> Slots]
<1>1. PICK n \in 0..MaxOpenFiles : c \in [1..n -> Slots]
  BY DEF Chains
<1>2. n \in Nat
  BY DipFilesAssumption
<1>3. c \in Seq(Slots) /\ Len(c) = n
  BY <1>1, <1>2
<1> QED
  BY <1>1, <1>3

LEMMA MakeChain ==
  ASSUME NEW n \in 0..MaxOpenFiles, NEW c \in [1..n -> Slots]
  PROVE  c \in Chains /\ Len(c) = n
<1>1. n \in Nat
  BY DipFilesAssumption
<1>2. c \in Seq(Slots) /\ Len(c) = n
  BY <1>1
<1> QED
  BY <1>2 DEF Chains

\* One chain is a prefix of any other that starts at the same slot.
LEMMA ChainPrefix ==
  ASSUME NEW h, NEW c \in Chains, NEW d \in Chains,
         IsChain(h, c), IsChain(h, d)
  PROVE  \A i \in 1..Len(c) : i <= Len(d) /\ c[i] = d[i]
<1> DEFINE T == {i \in 1..Len(c) : ~ (i <= Len(d) /\ c[i] = d[i])}
<1>0. /\ Len(c) \in Nat /\ c \in [1..Len(c) -> Slots]
      /\ Len(d) \in Nat /\ d \in [1..Len(d) -> Slots]
      /\ NULL \notin Slots
  BY ChainType, DipFilesAssumption DEF Slots, NULL
<1>1. SUFFICES ASSUME T # {} PROVE FALSE
  OBVIOUS
<1>2. PICK m \in T : \A k \in T : m <= k
  <2>1. T \subseteq Nat
    BY <1>0
  <2> QED
    BY <1>1, <2>1, LeastNat, Zenon
<1>3. m \in 1..Len(c) /\ ~ (m <= Len(d) /\ c[m] = d[m])
  BY <1>0, <1>2
<1>6. \A k \in 1..Len(c) : k < m => k <= Len(d) /\ c[k] = d[k]
  BY <1>0, <1>2
<1> HIDE DEF T
<1>4. CASE m = 1
  <2>1. h = c[1] /\ c[1] \in Slots
    BY <1>0, <1>3, <1>4 DEF IsChain
  <2>2. Len(d) # 0 /\ h = d[1]
    BY <2>1, <1>0 DEF IsChain
  <2>3. 1 <= Len(d)
    BY <2>2, <1>0
  <2> QED
    BY <2>1, <2>2, <2>3, <1>3, <1>4
<1>5. CASE m > 1
  <2>1. m - 1 \in 1..Len(c) /\ m - 1 < m /\ m - 1 # Len(c)
    BY <1>0, <1>3, <1>5
  <2>2. m - 1 \in 1..Len(d) /\ c[m - 1] = d[m - 1]
    BY <2>1, <1>0, <1>3, <1>6
  <2>3. next[c[m - 1]] = c[m - 1 + 1] /\ m - 1 + 1 = m /\ c[m] \in Slots
    BY <1>0, <1>3, <2>1 DEF IsChain
  <2>4. m - 1 # Len(d)
    BY <2>2, <2>3, <1>0 DEF IsChain
  <2>5. m <= Len(d) /\ next[d[m - 1]] = d[m - 1 + 1]
    BY <2>2, <2>4, <1>0, <1>3 DEF IsChain
  <2> QED
    BY <2>2, <2>3, <2>5, <1>3
<1> QED
  BY <1>0, <1>3, <1>4, <1>5

LEMMA SameFunction ==
  ASSUME NEW D, NEW R, NEW c \in [D -> R], NEW d \in [D -> R], \A i \in D : c[i] = d[i]
  PROVE  c = d
OBVIOUS

\* A head starts one chain only.
LEMMA ChainUnique ==
  ASSUME NEW h, NEW c \in Chains, NEW d \in Chains,
         IsChain(h, c), IsChain(h, d)
  PROVE  c = d
<1>0. Len(c) \in Nat /\ Len(d) \in Nat
  BY ChainType, DipFilesAssumption
<1>7. c \in [1..Len(c) -> Slots] /\ d \in [1..Len(d) -> Slots]
  BY ChainType
<1>1. \A i \in 1..Len(c) : i <= Len(d) /\ c[i] = d[i]
  BY ChainPrefix
<1>2. \A i \in 1..Len(d) : i <= Len(c) /\ d[i] = c[i]
  BY ChainPrefix
<1>3. Len(c) <= Len(d)
  <2>1. Len(c) > 0 => Len(c) \in 1..Len(c)
    BY <1>0
  <2> QED
    BY <1>0, <1>1, <2>1
<1>4. Len(d) <= Len(c)
  <2>1. Len(d) > 0 => Len(d) \in 1..Len(d)
    BY <1>0
  <2> QED
    BY <1>0, <1>2, <2>1
<1>5. Len(c) = Len(d)
  BY <1>0, <1>3, <1>4
<1>6. d \in [1..Len(c) -> Slots] /\ \A i \in 1..Len(c) : c[i] = d[i]
  BY <1>1, <1>5, <1>7
<1>8. ASSUME NEW D, D = 1..Len(c) PROVE c = d
  <2>1. c \in [D -> Slots] /\ d \in [D -> Slots] /\ \A i \in D : c[i] = d[i]
    BY <1>6, <1>7, <1>8
  <2> QED
    BY <2>1, SameFunction
<1> QED
  BY <1>8

-----------------------------------------------------------------------------
(* The three things the handlers do to the lists.  o and f are the open    *)
(* and the free list before the step; each lemma names the lists after it, *)
(* and says how the new open list p comes from o.                          *)

\* The i-th slot comes to the front.
Moved(p, o, i) ==
  /\ Len(p) = Len(o) /\ p[1] = o[i]
  /\ \A j \in 1..(i - 1) : p[j + 1] = o[j]
  /\ \A j \in (i + 1)..Len(o) : p[j] = o[j]

\* s joins the list at its front.
Pushed(p, o, s) ==
  /\ Len(p) = Len(o) + 1 /\ p[1] = s
  /\ \A j \in 1..Len(o) : p[j + 1] = o[j]

\* The first k slots are kept.
Kept(p, o, k) ==
  /\ k \in 0..Len(o) /\ Len(p) = k
  /\ \A j \in 1..k : p[j] = o[j]

\* The i-th open slot moves to the front (GetFile of an open file, or of a new
\* file that takes over the last slot of a full table).
LEMMA MoveStep ==
  ASSUME NEW o \in Chains, NEW f \in Chains, Partition(o, f),
         NEW i \in 2..Len(o),
         OpenFiles' = o[i], FreeFiles' = FreeFiles,
         next'[o[i]] = o[1],
         next'[o[i - 1]] = next[o[i]],
         \A s \in Slots : s # o[i] /\ s # o[i - 1] => next'[s] = next[s],
         \A s \in Slots : fd'[s] = NoFd <=> fd[s] = NoFd
  PROVE  SlotsPartitioned' /\ \E p \in Chains : IsChain(OpenFiles, p)' /\ Moved(p, o, i)
<1> DEFINE n == Len(o)
           p == [j \in 1..n |-> IF j = 1 THEN o[i] ELSE IF j <= i THEN o[j - 1] ELSE o[j]]
<1>1. /\ n \in 0..MaxOpenFiles /\ n \in Nat /\ o \in [1..n -> Slots]
      /\ Len(f) \in Nat /\ f \in [1..Len(f) -> Slots]
      /\ i \in 2..n /\ i \in 1..n /\ i - 1 \in 1..n /\ n \in 1..n
  BY ChainType, DipFilesAssumption
<1>2. p \in Chains /\ Len(p) = n
  <2>1. p \in [1..n -> Slots]
    BY <1>1
  <2> HIDE DEF p
  <2> QED
    BY <1>1, <2>1, MakeChain
<1>3. /\ p[1] = o[i]
      /\ \A j \in 1..(i - 1) : p[j + 1] = o[j]
      /\ \A j \in (i + 1)..n : p[j] = o[j]
  BY <1>1
<1> HIDE DEF p
<1>4. /\ IsChain(OpenFiles, o) /\ IsChain(FreeFiles, f)
      /\ \A j, k \in 1..n : o[j] = o[k] => j = k
      /\ \A j \in 1..n : \A k \in 1..Len(f) : o[j] # f[k]
      /\ \A j \in 1..n : fd[o[j]] # NoFd
      /\ \A j \in 1..Len(f) : fd[f[j]] = NoFd
  BY DEF Partition
<1>5. /\ next[o[n]] = NULL
      /\ \A k \in 1..(n - 1) : next[o[k]] = o[k + 1]
  BY <1>1, <1>4 DEF IsChain
<1>6. IsChain(OpenFiles, p)'
  <2>1. n > 0 /\ p[1] = o[i]
    BY <1>1, <1>3
  <2>2. next'[p[n]] = NULL
    <3>1. CASE i = n
      <4>1. n - 1 \in 1..(i - 1) /\ n - 1 + 1 = n
        BY <3>1, <1>1
      <4>2. p[n - 1 + 1] = o[n - 1]
        BY <4>1, <1>3, Zenon
      <4>3. p[n] = o[n - 1]
        BY <4>1, <4>2
      <4> QED
        BY <3>1, <4>3, <1>5
    <3>2. CASE i # n
      <4>1. p[n] = o[n] /\ o[n] # o[i] /\ o[n] # o[i - 1] /\ o[n] \in Slots
        BY <3>2, <1>1, <1>3, <1>4
      <4> QED
        BY <4>1, <1>5
    <3> QED
      BY <3>1, <3>2
  <2>3. ASSUME NEW j \in 1..(n - 1)
        PROVE  next'[p[j]] = p[j + 1]
    <3>0. j \in 1..n /\ j + 1 \in 1..n
      BY <1>1
    <3>1. CASE j = 1
      <4>1. p[j] = o[i] /\ p[j + 1] = o[1]
        BY <3>1, <1>1, <1>3
      <4> QED
        BY <4>1
    <3>2. CASE j > 1 /\ j < i
      <4>1. j - 1 \in 1..(i - 1) /\ j \in 1..(i - 1) /\ j - 1 \in 1..(n - 1)
        BY <3>2, <1>1
      <4>2. p[j - 1 + 1] = o[j - 1] /\ p[j + 1] = o[j]
        BY <4>1, <1>3
      <4>3. j - 1 + 1 = j
        BY <3>0
      <4>4. o[j - 1] # o[i] /\ o[j - 1] # o[i - 1] /\ o[j - 1] \in Slots
        BY <3>2, <4>1, <1>1, <1>4
      <4>5. next[o[j - 1]] = o[j - 1 + 1]
        BY <4>1, <1>5
      <4> QED
        BY <4>2, <4>3, <4>4, <4>5
    <3>3. CASE j > 1 /\ j = i
      <4>1. j - 1 \in 1..(i - 1) /\ j - 1 + 1 = j
        BY <3>3, <1>1
      <4>2. p[j] = o[i - 1]
        BY <4>1, <3>3, <1>3
      <4>3. p[j + 1] = o[i + 1] /\ i \in 1..(n - 1)
        BY <3>3, <3>0, <1>1, <1>3
      <4> QED
        BY <4>2, <4>3, <1>5
    <3>4. CASE j > i
      <4>1. p[j] = o[j] /\ p[j + 1] = o[j + 1]
        BY <3>4, <3>0, <1>1, <1>3
      <4>2. o[j] # o[i] /\ o[j] # o[i - 1] /\ o[j] \in Slots
        BY <3>4, <3>0, <1>1, <1>4
      <4> QED
        BY <4>1, <4>2, <1>5
    <3> QED
      BY <3>1, <3>2, <3>3, <3>4, <1>1
  <2> QED
    BY <1>2, <2>1, <2>2, <2>3 DEF IsChain
<1>7. IsChain(FreeFiles, f)'
  <2>1. \A j \in 1..Len(f) : f[j] \in Slots /\ f[j] # o[i] /\ f[j] # o[i - 1]
    BY <1>1, <1>4
  <2>2. \A j \in 1..Len(f) : next'[f[j]] = next[f[j]]
    BY <2>1
  <2>3. /\ Len(f) = 0 => FreeFiles' = NULL
        /\ Len(f) > 0 => FreeFiles' = f[1] /\ next[f[Len(f)]] = NULL
        /\ \A j \in 1..(Len(f) - 1) : next[f[j]] = f[j + 1]
    BY <1>4 DEF IsChain
  <2>4. \A j \in 1..(Len(f) - 1) : next'[f[j]] = f[j + 1]
    BY <1>1, <2>2, <2>3
  <2>5. Len(f) > 0 => next'[f[Len(f)]] = NULL
    BY <1>1, <2>2, <2>3
  <2> QED
    BY <2>3, <2>4, <2>5 DEF IsChain
<1>8. Partition(p, f)'
  <2>1. \A j \in 1..n : \E k \in 1..n : p[j] = o[k]
    <3> TAKE j \in 1..n
    <3>1. CASE j = 1
      BY <3>1, <1>1, <1>3
    <3>2. CASE j > 1 /\ j <= i
      <4>1. j - 1 \in 1..(i - 1) /\ j - 1 + 1 = j /\ j - 1 \in 1..n
        BY <3>2, <1>1
      <4> QED
        BY <4>1, <1>3
    <3>3. CASE j > i
      BY <3>3, <1>1, <1>3
    <3> QED
      BY <3>1, <3>2, <3>3, <1>1
  <2>2. \A j \in 1..n : \E k \in 1..n : p[k] = o[j]
    <3> TAKE j \in 1..n
    <3>1. CASE j = i
      BY <3>1, <1>1, <1>3
    <3>2. CASE j < i
      <4>1. j \in 1..(i - 1) /\ j + 1 \in 1..n
        BY <3>2, <1>1
      <4> QED
        BY <4>1, <1>3
    <3>3. CASE j > i
      BY <3>3, <1>1, <1>3
    <3> QED
      BY <3>1, <3>2, <3>3, <1>1
  <2>3. \A j, k \in 1..n : p[j] = p[k] => j = k
    <3> DEFINE g == [j \in 1..n |-> IF j = 1 THEN i ELSE IF j <= i THEN j - 1 ELSE j]
    <3>1. \A j \in 1..n : g[j] \in 1..n /\ p[j] = o[g[j]]
      <4> TAKE j \in 1..n
      <4>1. CASE j = 1
        BY <4>1, <1>1, <1>3
      <4>2. CASE j > 1 /\ j <= i
        <5>1. j - 1 \in 1..(i - 1) /\ j - 1 + 1 = j /\ j - 1 \in 1..n /\ g[j] = j - 1
          BY <4>2, <1>1
        <5> QED
          BY <5>1, <1>3
      <4>3. CASE j > i
        <5>1. g[j] = j /\ j \in (i + 1)..n
          BY <4>3, <1>1
        <5> QED
          BY <5>1, <1>3
      <4> QED
        BY <4>1, <4>2, <4>3, <1>1
    <3>2. \A j, k \in 1..n : g[j] = g[k] => j = k
      BY <1>1
    <3> HIDE DEF g
    <3> TAKE j, k \in 1..n
    <3>3. g[j] \in 1..n /\ g[k] \in 1..n /\ p[j] = o[g[j]] /\ p[k] = o[g[k]]
      BY <3>1, Zenon
    <3>4. o[g[j]] = o[g[k]] => g[j] = g[k]
      BY <3>3, <1>4, Zenon
    <3> QED
      BY <3>2, <3>3, <3>4, Zenon
  <2>4. \A j \in 1..n : fd'[p[j]] # NoFd
    <3> TAKE j \in 1..n
    <3>1. PICK k \in 1..n : p[j] = o[k]
      BY <2>1
    <3>2. o[k] \in Slots /\ fd[o[k]] # NoFd
      BY <1>1, <1>4
    <3> QED
      BY <3>1, <3>2
  <2>5. \A j \in 1..Len(f) : fd'[f[j]] = NoFd
    BY <1>1, <1>4
  <2>6. \A s \in Slots : (\E j \in 1..n : p[j] = s) \/ (\E j \in 1..Len(f) : f[j] = s)
    <3>1. \A s \in Slots : (\E j \in 1..n : o[j] = s) \/ (\E j \in 1..Len(f) : f[j] = s)
      BY DEF Partition
    <3> TAKE s \in Slots
    <3>2. \A j \in 1..n : o[j] = s => \E k \in 1..n : p[k] = s
      BY <2>2
    <3> QED
      BY <3>1, <3>2
  <2>7. n + Len(f) = MaxOpenFiles
    BY DEF Partition
  <2>8. \A j, k \in 1..Len(f) : f[j] = f[k] => j = k
    BY DEF Partition
  <2> QED
    BY <1>2, <1>6, <1>7, <2>3, <2>4, <2>5, <2>6, <2>7, <2>8 DEF Partition
<1>9. Moved(p, o, i)
  BY <1>2, <1>3 DEF Moved
<1> QED
  BY <1>2, <1>6, <1>8, <1>9 DEF SlotsPartitioned

\* The first free slot becomes the first open one (GetFile, and ReadFile's open).
LEMMA PushStep ==
  ASSUME NEW o \in Chains, NEW f \in Chains, Partition(o, f),
         FreeFiles # NULL,
         OpenFiles' = FreeFiles, FreeFiles' = next[FreeFiles],
         next'[FreeFiles] = OpenFiles,
         \A s \in Slots : s # FreeFiles => next'[s] = next[s],
         fd'[FreeFiles] # NoFd,
         \A s \in Slots : s # FreeFiles => (fd'[s] = NoFd <=> fd[s] = NoFd)
  PROVE  SlotsPartitioned' /\ \E p \in Chains : IsChain(OpenFiles, p)' /\ Pushed(p, o, FreeFiles)
<1> DEFINE n == Len(o)
           m == Len(f)
           p == [j \in 1..(n + 1) |-> IF j = 1 THEN f[1] ELSE o[j - 1]]
           q == [j \in 1..(m - 1) |-> f[j + 1]]
<1>1. /\ n \in 0..MaxOpenFiles /\ n \in Nat /\ o \in [1..n -> Slots]
      /\ m \in 0..MaxOpenFiles /\ m \in Nat /\ f \in [1..m -> Slots]
      /\ MaxOpenFiles \in Nat
  BY ChainType, DipFilesAssumption
<1>2. /\ IsChain(OpenFiles, o) /\ IsChain(FreeFiles, f)
      /\ \A j, k \in 1..n : o[j] = o[k] => j = k
      /\ \A j, k \in 1..m : f[j] = f[k] => j = k
      /\ \A j \in 1..n : \A k \in 1..m : o[j] # f[k]
      /\ \A j \in 1..n : fd[o[j]] # NoFd
      /\ \A j \in 1..m : fd[f[j]] = NoFd
      /\ n + m = MaxOpenFiles
      /\ \A s \in Slots : (\E j \in 1..n : o[j] = s) \/ (\E j \in 1..m : f[j] = s)
  BY DEF Partition
<1>3. /\ n = 0 => OpenFiles = NULL
      /\ n > 0 => OpenFiles = o[1] /\ next[o[n]] = NULL
      /\ \A k \in 1..(n - 1) : next[o[k]] = o[k + 1]
      /\ m > 0 /\ FreeFiles = f[1] /\ next[f[m]] = NULL
      /\ \A k \in 1..(m - 1) : next[f[k]] = f[k + 1]
  BY <1>1, <1>2 DEF IsChain
<1>4. /\ p \in Chains /\ Len(p) = n + 1
      /\ q \in Chains /\ Len(q) = m - 1
  <2>1. n + 1 \in 0..MaxOpenFiles /\ m - 1 \in 0..MaxOpenFiles
    BY <1>1, <1>2, <1>3
  <2>2. p \in [1..(n + 1) -> Slots]
    BY <1>1, <1>3
  <2>3. q \in [1..(m - 1) -> Slots]
    BY <1>1, <1>3
  <2> HIDE DEF p, q
  <2> QED
    BY <2>1, <2>2, <2>3, MakeChain
<1>5. /\ p[1] = f[1]
      /\ \A j \in 1..n : p[j + 1] = o[j]
      /\ \A j \in 1..(m - 1) : q[j] = f[j + 1]
  BY <1>1, <1>3
<1> HIDE DEF p, q
<1>6. /\ \A j \in 1..n : o[j] \in Slots /\ o[j] # FreeFiles
      /\ \A j \in 2..m : f[j] \in Slots /\ f[j] # FreeFiles
      /\ 1 \in 1..m
  BY <1>1, <1>2, <1>3
<1>7. IsChain(OpenFiles, p)'
  <2>1. n + 1 > 0 /\ p[1] = OpenFiles'
    BY <1>1, <1>3, <1>5
  <2>2. next'[p[n + 1]] = NULL
    <3>1. CASE n = 0
      BY <3>1, <1>1, <1>3, <1>5
    <3>2. CASE n > 0
      <4>1. n \in 1..n
        BY <3>2, <1>1
      <4> QED
        BY <3>2, <4>1, <1>3, <1>5, <1>6
    <3> QED
      BY <3>1, <3>2, <1>1
  <2>3. ASSUME NEW j \in 1..n
        PROVE  next'[p[j]] = p[j + 1]
    <3>1. CASE j = 1
      BY <3>1, <1>1, <1>3, <1>5, <2>3
    <3>2. CASE j > 1
      <4>1. j - 1 \in 1..n /\ j - 1 \in 1..(n - 1) /\ j - 1 + 1 = j
        BY <3>2, <1>1
      <4>2. next'[o[j - 1]] = next[o[j - 1]] /\ p[j] = o[j - 1]
        BY <4>1, <1>5, <1>6
      <4> QED
        BY <4>1, <4>2, <1>3, <1>5, <2>3
    <3> QED
      BY <3>1, <3>2, <1>1
  <2> QED
    <3>1. n + 1 - 1 = n /\ n + 1 # 0
      BY <1>1
    <3> QED
      BY <3>1, <1>4, <2>1, <2>2, <2>3 DEF IsChain
<1>8. IsChain(FreeFiles, q)'
  <2>1. m = 1 => FreeFiles' = NULL
    BY <1>3
  <2>2. ASSUME m > 1
        PROVE  FreeFiles' = q[1] /\ next'[q[m - 1]] = NULL
    <3>1. m \in 2..m /\ 1 \in 1..(m - 1) /\ m - 1 \in 1..(m - 1) /\ m - 1 + 1 = m
      BY <2>2, <1>1
    <3>2. q[1] = f[1 + 1] /\ q[m - 1] = f[m]
      BY <3>1, <1>5
    <3>3. next[f[1]] = f[1 + 1]
      BY <3>1, <1>3
    <3>4. next'[f[m]] = next[f[m]]
      BY <3>1, <1>6
    <3> QED
      BY <3>2, <3>3, <3>4, <1>3
  <2>3. ASSUME NEW j \in 1..(m - 1 - 1)
        PROVE  next'[q[j]] = q[j + 1]
    <3>1. j + 1 \in 2..m /\ j \in 1..(m - 1) /\ j + 1 \in 1..(m - 1)
      BY <1>1
    <3> QED
      BY <3>1, <1>3, <1>5, <1>6
  <2>4. ASSUME m - 1 = 0 PROVE m = 1
    BY <2>4, <1>1
  <2>5. m - 1 > 0 => m > 1
    BY <1>1
  <2> QED
    BY <1>4, <2>1, <2>2, <2>3, <2>4, <2>5 DEF IsChain
<1>9. Partition(p, q)'
  <2>1. n + 1 + (m - 1) = MaxOpenFiles
    BY <1>1, <1>2
  <2>2. \A j \in 1..(n + 1) : j = 1 \/ (j - 1 \in 1..n /\ p[j] = o[j - 1])
    <3> TAKE j \in 1..(n + 1)
    <3>1. CASE j # 1
      <4>1. j - 1 \in 1..n /\ j - 1 + 1 = j
        BY <3>1, <1>1
      <4>2. p[j - 1 + 1] = o[j - 1]
        BY <4>1, <1>5
      <4> QED
        BY <4>1, <4>2
    <3> QED
      BY <3>1
  <2>3. \A j \in 1..(n + 1) : fd'[p[j]] # NoFd
    BY <2>2, <1>2, <1>3, <1>5, <1>6
  <2>4. \A j \in 1..(m - 1) : j + 1 \in 2..m /\ j + 1 \in 1..m
    BY <1>1
  <2>5. \A j \in 1..(m - 1) : fd'[q[j]] = NoFd
    BY <2>4, <1>2, <1>5, <1>6
  <2>6. \A j, k \in 1..(n + 1) : p[j] = p[k] => j = k
    <3> TAKE j, k \in 1..(n + 1)
    <3>1. CASE j # 1 /\ k # 1
      <4>1. p[j] = p[k] => j - 1 = k - 1
        BY <3>1, <2>2, <1>2
      <4> QED
        BY <4>1, <1>1
    <3>2. CASE j = 1 \/ k = 1
      BY <3>2, <2>2, <1>3, <1>5, <1>6
    <3> QED
      BY <3>1, <3>2
  <2>7. \A j, k \in 1..(m - 1) : q[j] = q[k] => j = k
    <3> TAKE j, k \in 1..(m - 1)
    <3>1. q[j] = q[k] => j + 1 = k + 1
      BY <2>4, <1>2, <1>5
    <3> QED
      BY <3>1, <1>1
  <2>8. \A s \in Slots : (\E j \in 1..(n + 1) : p[j] = s) \/ (\E j \in 1..(m - 1) : q[j] = s)
    <3> TAKE s \in Slots
    <3>1. ASSUME NEW j \in 1..n, o[j] = s PROVE \E k \in 1..(n + 1) : p[k] = s
      <4>1. j + 1 \in 1..(n + 1)
        BY <1>1
      <4> QED
        BY <3>1, <4>1, <1>5
    <3>2. ASSUME NEW j \in 1..m, f[j] = s, j # 1 PROVE \E k \in 1..(m - 1) : q[k] = s
      <4>1. j - 1 \in 1..(m - 1) /\ j - 1 + 1 = j
        BY <3>2, <1>1
      <4> QED
        BY <3>2, <4>1, <1>5
    <3>3. f[1] = s => \E k \in 1..(n + 1) : p[k] = s
      <4>1. 1 \in 1..(n + 1)
        BY <1>1
      <4> QED
        BY <4>1, <1>5
    <3> QED
      BY <3>1, <3>2, <3>3, <1>2
  <2> QED
    BY <1>4, <1>7, <1>8, <2>1, <2>3, <2>5, <2>6, <2>7, <2>8 DEF Partition
<1>10. Pushed(p, o, FreeFiles)
  BY <1>3, <1>4, <1>5 DEF Pushed
<1> QED
  BY <1>4, <1>7, <1>9, <1>10 DEF SlotsPartitioned

\* The open list is cut after its first k slots; the slots after the cut go to
\* the free list one by one (the idle check, and the eviction of the last slot
\* for a file that cannot be opened).
LEMMA CutStep ==
  ASSUME NEW o \in Chains, NEW f \in Chains, Partition(o, f),
         NEW k \in 0..(Len(o) - 1),
         k = 0 => OpenFiles' = NULL,
         k > 0 => OpenFiles' = OpenFiles /\ next'[o[k]] = NULL,
         FreeFiles' = o[Len(o)],
         next'[o[k + 1]] = FreeFiles,
         \A j \in (k + 2)..Len(o) : next'[o[j]] = o[j - 1],
         \A j \in 1..(k - 1) : next'[o[j]] = next[o[j]],
         \A j \in 1..Len(f) : next'[f[j]] = next[f[j]],
         \A j \in 1..k : fd'[o[j]] # NoFd,
         \A j \in (k + 1)..Len(o) : fd'[o[j]] = NoFd,
         \A j \in 1..Len(f) : fd'[f[j]] = NoFd
  PROVE  SlotsPartitioned' /\ \E p \in Chains : IsChain(OpenFiles, p)' /\ Kept(p, o, k)
<1> DEFINE n == Len(o)
           m == Len(f)
           e == n - k
           p == [j \in 1..k |-> o[j]]
           joined == [j \in 1..(e + m) |-> IF j <= e THEN o[n + 1 - j] ELSE f[j - e]]
<1>1. /\ n \in 0..MaxOpenFiles /\ n \in Nat /\ o \in [1..n -> Slots]
      /\ m \in 0..MaxOpenFiles /\ m \in Nat /\ f \in [1..m -> Slots]
      /\ k \in Nat /\ k < n /\ e \in Nat /\ e > 0 /\ e <= n /\ n = k + e
      /\ MaxOpenFiles \in Nat
  BY ChainType, DipFilesAssumption
<1>2. /\ IsChain(OpenFiles, o) /\ IsChain(FreeFiles, f)
      /\ \A i, j \in 1..n : o[i] = o[j] => i = j
      /\ \A i, j \in 1..m : f[i] = f[j] => i = j
      /\ \A i \in 1..n : \A j \in 1..m : o[i] # f[j]
      /\ n + m = MaxOpenFiles
      /\ \A s \in Slots : (\E j \in 1..n : o[j] = s) \/ (\E j \in 1..m : f[j] = s)
  BY DEF Partition
<1>3. /\ OpenFiles = o[1]
      /\ \A j \in 1..(n - 1) : next[o[j]] = o[j + 1]
      /\ m = 0 => FreeFiles = NULL
      /\ m > 0 => FreeFiles = f[1] /\ next[f[m]] = NULL
      /\ \A j \in 1..(m - 1) : next[f[j]] = f[j + 1]
  BY <1>1, <1>2 DEF IsChain
<1>0. PICK q : q = joined
  OBVIOUS
<1>4. /\ p \in Chains /\ Len(p) = k
      /\ q \in Chains /\ Len(q) = e + m
  <2>1. k \in 0..MaxOpenFiles /\ e + m \in 0..MaxOpenFiles
    BY <1>1, <1>2
  <2>2. p \in [1..k -> Slots]
    BY <1>1
  <2>3. q \in [1..(e + m) -> Slots]
    <3>1. \A j \in 1..(e + m) : j <= e => n + 1 - j \in 1..n
      BY <1>1
    <3>2. \A j \in 1..(e + m) : ~ (j <= e) => j - e \in 1..m
      BY <1>1
    <3> QED
      BY <1>0, <1>1, <3>1, <3>2
  <2> HIDE DEF p, joined
  <2> QED
    BY <2>1, <2>2, <2>3, MakeChain
<1>5. /\ \A j \in 1..k : p[j] = o[j]
      /\ \A j \in 1..e : q[j] = o[n + 1 - j]
      /\ \A j \in 1..m : q[e + j] = f[j]
  <2>1. \A j \in 1..k : p[j] = o[j]
    BY <1>1
  <2>2. \A j \in 1..e : joined[j] = o[n + 1 - j]
    BY <1>1
  <2>3. \A j \in 1..m : joined[e + j] = f[j]
    BY <1>1
  <2> HIDE DEF joined
  <2> QED
    BY <1>0, <2>1, <2>2, <2>3
<1> HIDE DEF p, joined, e
<1>6. \A j \in 1..(e + m) : j \in 1..e \/ (j - e \in 1..m /\ e + (j - e) = j)
  BY <1>1
<1>7. IsChain(OpenFiles, p)'
  <2>1. k > 0 => OpenFiles' = p[1] /\ next'[p[k]] = NULL
    BY <1>1, <1>3, <1>5
  <2>2. \A j \in 1..(k - 1) : next'[p[j]] = p[j + 1]
    <3> TAKE j \in 1..(k - 1)
    <3>1. j \in 1..k /\ j + 1 \in 1..k /\ j \in 1..(n - 1)
      BY <1>1
    <3>2. next'[o[j]] = next[o[j]] /\ next[o[j]] = o[j + 1]
      BY <3>1, <1>3
    <3>3. p[j] = o[j] /\ p[j + 1] = o[j + 1]
      BY <3>1, <1>5
    <3> QED
      BY <3>2, <3>3
  <2> QED
    BY <1>4, <2>1, <2>2 DEF IsChain
<1>8. next'[o[k + 1]] = FreeFiles /\ q[e] = o[k + 1] /\ q[1] = o[n]
  <2>1. e \in 1..e /\ n + 1 - e = k + 1 /\ 1 \in 1..e /\ n + 1 - 1 = n
    BY <1>1
  <2> QED
    BY <2>1, <1>5
<1>9. IsChain(FreeFiles, q)'
  <2>0. PICK len : len = e + m
    OBVIOUS
  <2>1. FreeFiles' = q[1] /\ e + m > 0
    BY <1>1, <1>8
  <2>2. next'[q[e + m]] = NULL
    <3>1. CASE m = 0
      <4>1. e + m = e
        BY <3>1, <1>1
      <4> QED
        BY <4>1, <3>1, <1>8, <1>3
    <3>2. CASE m > 0
      <4>1. m \in 1..m
        BY <3>2, <1>1
      <4> QED
        BY <4>1, <3>2, <1>3, <1>5
    <3> QED
      BY <3>1, <3>2, <1>1
  <2>3. ASSUME NEW j \in 1..(len - 1)
        PROVE  next'[q[j]] = q[j + 1]
    <3>1. CASE j < e
      <4>1. j \in 1..e /\ j + 1 \in 1..e /\ n + 1 - j \in (k + 2)..n
        BY <3>1, <1>1, <2>0
      <4>2. n + 1 - (j + 1) = n + 1 - j - 1
        BY <1>1, <2>0
      <4>3. next'[o[n + 1 - j]] = o[n + 1 - j - 1]
        BY <4>1
      <4>4. q[j] = o[n + 1 - j] /\ q[j + 1] = o[n + 1 - (j + 1)]
        BY <4>1, <1>5
      <4> QED
        BY <4>2, <4>3, <4>4
    <3>2. CASE j = e
      <4>1. m > 0 /\ 1 \in 1..m
        BY <3>2, <1>1, <2>0
      <4>2. q[e + 1] = f[1]
        BY <4>1, <1>5
      <4> QED
        BY <3>2, <4>1, <4>2, <1>3, <1>8
    <3>3. CASE j > e
      <4>1. j - e \in 1..m /\ j - e \in 1..(m - 1) /\ j - e + 1 \in 1..m
        BY <3>3, <1>1, <2>0
      <4>2. e + (j - e) = j /\ e + (j - e + 1) = j + 1
        BY <1>1, <2>0
      <4>3. q[e + (j - e)] = f[j - e] /\ q[e + (j - e + 1)] = f[j - e + 1]
        BY <4>1, <1>5
      <4>4. next'[f[j - e]] = f[j - e + 1]
        BY <4>1, <1>3
      <4> QED
        BY <4>2, <4>3, <4>4
    <3> QED
      BY <3>1, <3>2, <3>3, <1>1, <2>0
  <2>4. e + m # 0
    BY <1>1
  <2>5. Len(q) = len /\ len # 0 /\ next'[q[len]] = NULL
    BY <1>4, <2>2, <2>4, <2>0
  <2>6. FreeFiles' = q[1]
    BY <2>1
  <2>7. /\ \A j \in 1..(Len(q) - 1) : next'[q[j]] = q[j + 1]
        /\ next'[q[Len(q)]] = NULL /\ Len(q) # 0
    BY <2>3, <2>5, Zenon
  <2> QED
    BY <2>6, <2>7, Zenon DEF IsChain
<1>10. \A j \in 1..e : n + 1 - j \in 1..n /\ n + 1 - j \in (k + 1)..n
  BY <1>1
<1>11. Partition(p, q)'
  <2>1. k + (e + m) = MaxOpenFiles
    BY <1>1, <1>2
  <2>2. \A j \in 1..k : fd'[p[j]] # NoFd
    BY <1>5
  <2>3. \A j \in 1..(e + m) : fd'[q[j]] = NoFd
    <3>1. \A j \in 1..e : fd'[q[j]] = NoFd
      BY <1>5, <1>10
    <3>2. \A j \in 1..m : fd'[q[e + j]] = NoFd
      BY <1>5
    <3> QED
      BY <3>1, <3>2, <1>6
  <2>4. \A i, j \in 1..k : p[i] = p[j] => i = j
    BY <1>1, <1>2, <1>5
  <2>5. \A i, j \in 1..(e + m) : q[i] = q[j] => i = j
    <3>1. \A i, j \in 1..e : q[i] = q[j] => i = j
      <4> TAKE i, j \in 1..e
      <4>0. q[i] = o[n + 1 - i] /\ q[j] = o[n + 1 - j]
        BY <1>5
      <4>1. q[i] = q[j] => n + 1 - i = n + 1 - j
        <5>1. n + 1 - i \in 1..n /\ n + 1 - j \in 1..n
          BY <1>10
        <5>2. \A u, v \in 1..n : o[u] = o[v] => u = v
          BY <1>2
        <5>3. o[n + 1 - i] = o[n + 1 - j] => n + 1 - i = n + 1 - j
          BY <5>1, <5>2, Zenon
        <5> QED
          BY <4>0, <5>3, Zenon
      <4> QED
        BY <4>1, <1>1
    <3>2. \A i, j \in 1..m : q[e + i] = q[e + j] => i = j
      BY <1>2, <1>5
    <3>3. \A i \in 1..e : \A j \in 1..m : q[i] # q[e + j]
      BY <1>2, <1>5, <1>10
    <3> TAKE i, j \in 1..(e + m)
    <3>4. CASE i \in 1..e /\ j \in 1..e
      BY <3>4, <3>1
    <3>5. CASE i \in 1..e /\ j \notin 1..e
      BY <3>5, <3>3, <1>6
    <3>6. CASE i \notin 1..e /\ j \in 1..e
      BY <3>6, <3>3, <1>6
    <3>7. CASE i \notin 1..e /\ j \notin 1..e
      <4>1. i - e \in 1..m /\ j - e \in 1..m /\ e + (i - e) = i /\ e + (j - e) = j
        BY <3>7, <1>6
      <4>2. q[i] = q[j] => i - e = j - e
        BY <4>1, <3>2
      <4> QED
        BY <4>1, <4>2
    <3> QED
      BY <3>4, <3>5, <3>6, <3>7
  <2>6. \A s \in Slots : (\E j \in 1..k : p[j] = s) \/ (\E j \in 1..(e + m) : q[j] = s)
    <3> TAKE s \in Slots
    <3>1. ASSUME NEW j \in 1..n, o[j] = s, j <= k PROVE \E i \in 1..k : p[i] = s
      <4>1. j \in 1..k
        BY <3>1, <1>1
      <4> QED
        BY <3>1, <4>1, <1>5
    <3>2. ASSUME NEW j \in 1..n, o[j] = s, j > k PROVE \E i \in 1..(e + m) : q[i] = s
      <4>1. n + 1 - j \in 1..e /\ n + 1 - j \in 1..(e + m)
        BY <3>2, <1>1
      <4>3. n + 1 - (n + 1 - j) = j
        BY <1>1
      <4>2. q[n + 1 - j] = o[n + 1 - (n + 1 - j)]
        BY <4>1, <1>5
      <4> QED
        BY <3>2, <4>1, <4>2, <4>3
    <3>3. ASSUME NEW j \in 1..m, f[j] = s PROVE \E i \in 1..(e + m) : q[i] = s
      <4>1. e + j \in 1..(e + m)
        BY <1>1
      <4> QED
        BY <3>3, <4>1, <1>5
    <3>4. \A j \in 1..n : j <= k \/ j > k
      BY <1>1
    <3> QED
      BY <3>1, <3>2, <3>3, <3>4, <1>2
  <2> QED
    BY <1>4, <1>7, <1>9, <2>1, <2>2, <2>3, <2>4, <2>5, <2>6 DEF Partition
<1>12. Kept(p, o, k)
  BY <1>1, <1>4, <1>5 DEF Kept
<1> QED
  BY <1>4, <1>7, <1>11, <1>12 DEF SlotsPartitioned

-----------------------------------------------------------------------------
(* Descriptors: what closing some slots and opening one do to the part of  *)
(* the invariant that does not mention the lists.                          *)

FilesOK(d, fs, ids) ==
  /\ \A s \in Slots : d[s] # NoFd => fs[d[s]] = ids[s] /\ ids[s] # NoFile
  /\ \A s, t \in Slots : d[s] # NoFd /\ d[s] = d[t] => s = t
  /\ \A x \in Fds : fs[x] # NoFile => \E s \in Slots : d[s] = x
  /\ \A s, t \in Slots : d[s] # NoFd /\ d[t] # NoFd /\ ids[s] = ids[t] => s = t

\* d2 and fs2 are d and fs after the slots of E have been closed.
Closing(E, d, fs, d2, fs2) ==
  /\ E \subseteq Slots
  /\ \A s \in Slots : d2[s] = IF s \in E THEN NoFd ELSE d[s]
  /\ \A x \in Fds : fs2[x] = IF \E s \in E : d[s] = x THEN NoFile ELSE fs[x]

LEMMA CloseSlots ==
  ASSUME NEW d \in [Slots -> Fds \cup {NoFd}], NEW fs, NEW ids, FilesOK(d, fs, ids),
         NEW E, NEW d2, NEW fs2, Closing(E, d, fs, d2, fs2)
  PROVE  FilesOK(d2, fs2, ids)
<1> USE DEF Closing
<1>1. \A s \in Slots : d2[s] # NoFd =>
        s \notin E /\ d2[s] = d[s] /\ d[s] \in Fds /\ fs2[d[s]] = fs[d[s]]
  <2> TAKE s \in Slots
  <2>1. SUFFICES ASSUME d2[s] # NoFd
                 PROVE  s \notin E /\ d2[s] = d[s] /\ d[s] \in Fds /\ fs2[d[s]] = fs[d[s]]
    OBVIOUS
  <2>2. s \notin E /\ d2[s] = d[s] /\ d[s] \in Fds
    BY <2>1
  <2>3. \A t \in E : d[t] # d[s]
    BY <2>1, <2>2 DEF FilesOK
  <2> QED
    BY <2>2, <2>3
<1>2. \A x \in Fds : fs2[x] # NoFile => \E s \in Slots : d2[s] = x
  <2> TAKE x \in Fds
  <2>1. SUFFICES ASSUME fs2[x] # NoFile PROVE \E s \in Slots : d2[s] = x
    OBVIOUS
  <2>2. fs[x] # NoFile /\ \A s \in E : d[s] # x
    BY <2>1
  <2>3. PICK s \in Slots : d[s] = x
    BY <2>2 DEF FilesOK
  <2> QED
    BY <2>2, <2>3
<1> QED
  BY <1>1, <1>2 DEF FilesOK

LEMMA OpenSlot ==
  ASSUME NEW d \in [Slots -> Fds \cup {NoFd}],
         NEW fs \in [Fds -> FileIds \cup {NoFile}],
         NEW ids \in [Slots -> FileIds \cup {NoFile}], FilesOK(d, fs, ids),
         NEW s \in Slots, d[s] = NoFd, NEW x \in Fds, fs[x] = NoFile, NEW id \in FileIds,
         \A t \in Slots : d[t] # NoFd => ids[t] # id
  PROVE  FilesOK([d EXCEPT ![s] = x], [fs EXCEPT ![x] = id], [ids EXCEPT ![s] = id])
<1> DEFINE d2 == [d EXCEPT ![s] = x]
           fs2 == [fs EXCEPT ![x] = id]
           ids2 == [ids EXCEPT ![s] = id]
<1>1. /\ d2[s] = x /\ ids2[s] = id /\ fs2[x] = id
      /\ \A t \in Slots : t # s => d2[t] = d[t] /\ ids2[t] = ids[t]
      /\ \A y \in Fds : y # x => fs2[y] = fs[y]
      /\ id # NoFile /\ x # NoFd
  BY DipFilesAssumption
<1> HIDE DEF d2, fs2, ids2
<1>2. \A t \in Slots : d[t] # NoFd => d[t] \in Fds /\ d[t] # x
  <2>1. \A t \in Slots : d[t] # NoFd => fs[d[t]] # NoFile
    BY DEF FilesOK
  <2> QED
    BY <2>1
<1>3. \A t \in Slots : d2[t] # NoFd => fs2[d2[t]] = ids2[t] /\ ids2[t] # NoFile
  BY <1>1, <1>2 DEF FilesOK
<1>4. \A t, u \in Slots : d2[t] # NoFd /\ d2[t] = d2[u] => t = u
  BY <1>1, <1>2 DEF FilesOK
<1>5. \A y \in Fds : fs2[y] # NoFile => \E t \in Slots : d2[t] = y
  <2>1. ASSUME NEW y \in Fds, y # x, fs2[y] # NoFile PROVE \E t \in Slots : d2[t] = y
    <3>1. PICK t \in Slots : d[t] = y
      BY <2>1, <1>1 DEF FilesOK
    <3>2. t # s
      BY <3>1, DipFilesAssumption
    <3> QED
      BY <3>1, <3>2, <1>1
  <2> QED
    BY <2>1, <1>1
<1>6. \A t, u \in Slots : d2[t] # NoFd /\ d2[u] # NoFd /\ ids2[t] = ids2[u] => t = u
  BY <1>1 DEF FilesOK
<1>7. FilesOK(d2, fs2, ids2)
  BY <1>3, <1>4, <1>5, <1>6 DEF FilesOK
<1> QED
  BY <1>7 DEF d2, fs2, ids2

-----------------------------------------------------------------------------
(* What GetFile returns *)

Inv ==
  /\ TypeOK /\ SlotsPartitioned
  /\ FilesOK(fd, fsFile, fileid)
  /\ RightFile

\* GetFile's slot held the file already.
IsHit(c, g, id, i) ==
  /\ i \in 1..Len(c) /\ fileid[c[i]] = id
  /\ g = MoveToFront(c, i)

\* The file was not open: a free slot is taken, or the last slot of a full table.
IsTake(g) ==
  /\ FreeFiles # NULL
  /\ g = [this |-> FreeFiles, open |-> FreeFiles, free |-> next[FreeFiles],
          next |-> [next EXCEPT ![FreeFiles] = OpenFiles], fd |-> fd]
IsEvict(c, g) ==
  /\ FreeFiles = NULL /\ Len(c) = MaxOpenFiles
  /\ g = [this |-> c[MaxOpenFiles], open |-> c[MaxOpenFiles], free |-> NULL,
          next |-> [next EXCEPT ![c[MaxOpenFiles - 1]] = NULL, ![c[MaxOpenFiles]] = OpenFiles],
          fd |-> [fd EXCEPT ![c[MaxOpenFiles]] = NoFd]]
NotOpen(id) == \A s \in Slots : fd[s] # NoFd => fileid[s] # id

(* What the handlers do, said of the open list c before and p after the    *)
(* step: the order of the slots, and what becomes of their fields.         *)

\* A read of a file that is open.
Reused(id) ==
  \E c, p \in Chains : IsChain(OpenFiles, c) /\ IsChain(OpenFiles, p)' /\
    \E i \in 1..Len(c) :
      /\ fileid[c[i]] = id /\ Moved(p, c, i)
      /\ lastaccess' = [lastaccess EXCEPT ![c[i]] = now]
      /\ UNCHANGED <<fd, fileid, now, late>>

\* A read of a file that is opened, in a free slot or in the oldest one's.
Added(id) ==
  /\ NotOpen(id)
  /\ \E c, p \in Chains : IsChain(OpenFiles, c) /\ IsChain(OpenFiles, p)' /\
       \E s \in Slots :
         /\ \/ Len(c) < MaxOpenFiles /\ Pushed(p, c, s) /\ fd[s] = NoFd
            \/ Len(c) = MaxOpenFiles /\ Moved(p, c, Len(c)) /\ s = c[Len(c)]
         /\ \A t \in Slots : t # s => fd'[t] = fd[t]
         /\ fileid' = [fileid EXCEPT ![s] = id]
         /\ lastaccess' = [lastaccess EXCEPT ![s] = now]
         /\ UNCHANGED <<now, late>>

\* A read of a file that cannot be opened: the oldest is closed if all slots were taken.
Refused(id) ==
  /\ NotOpen(id)
  /\ \E c, p \in Chains : IsChain(OpenFiles, c) /\ IsChain(OpenFiles, p)' /\
       /\ \/ Len(c) < MaxOpenFiles /\ Kept(p, c, Len(c)) /\ fd' = fd
          \/ /\ Len(c) = MaxOpenFiles /\ Kept(p, c, Len(c) - 1)
             /\ \A t \in Slots : t # c[Len(c)] => fd'[t] = fd[t]
       /\ UNCHANGED <<fileid, lastaccess, now, late>>

\* The idle check closes the first expired file and all that follow it.
Dropped ==
  \E c, p \in Chains : IsChain(OpenFiles, c) /\ IsChain(OpenFiles, p)' /\
    \E k \in 0..Len(c) :
      /\ Kept(p, c, k)
      /\ \A i \in 1..k : Age(c[i]) < Timeout
      /\ k < Len(c) => Age(c[k + 1]) >= Timeout
      /\ \A s \in Slots : fd'[s] # fd[s] => \E i \in (k + 1)..Len(c) : c[i] = s
      /\ late' = 0 /\ UNCHANGED <<fileid, lastaccess, now>>

LEMMA GetFileCases ==
  ASSUME Inv, NEW id \in FileIds, NEW c \in Chains, IsChain(OpenFiles, c),
         NEW g, g = GetFile(id, c)
  PROVE  \E f \in Chains :
           /\ Partition(c, f)
           /\ \/ \E i \in 1..Len(c) : IsHit(c, g, id, i)
              \/ NotOpen(id) /\ IsTake(g)
              \/ NotOpen(id) /\ IsEvict(c, g)
<1>1. PICK f \in Chains : Partition(c, f)
  <2>1. PICK o, f \in Chains : Partition(o, f)
    BY DEF Inv, SlotsPartitioned
  <2>2. o = c
    BY <2>1, ChainUnique DEF Partition
  <2> QED
    BY <2>1, <2>2
<1>2. /\ Len(c) \in 0..MaxOpenFiles /\ Len(c) \in Nat /\ c \in [1..Len(c) -> Slots]
      /\ Len(f) \in Nat /\ f \in [1..Len(f) -> Slots]
      /\ MaxOpenFiles \in Nat /\ MaxOpenFiles >= 2
  BY ChainType, DipFilesAssumption
<1>3. /\ IsChain(FreeFiles, f) /\ Len(c) + Len(f) = MaxOpenFiles
      /\ \A i, j \in 1..Len(c) : c[i] = c[j] => i = j
      /\ \A i \in 1..Len(f) : fd[f[i]] = NoFd
      /\ \A s \in Slots : (\E i \in 1..Len(c) : c[i] = s) \/ (\E i \in 1..Len(f) : f[i] = s)
  BY <1>1 DEF Partition
<1>4. CASE Find(id, c) # {}
  <2>1. Find(id, c) \subseteq Nat
    BY <1>2 DEF Find
  <2>2. \E i \in Find(id, c) : \A j \in Find(id, c) : i <= j
    BY <1>4, <2>1, LeastNat
  <2> DEFINE i == CHOOSE i \in Find(id, c) : \A j \in Find(id, c) : i <= j
  <2>3. i \in Find(id, c)
    BY <2>2
  <2>4. g = MoveToFront(c, i)
    BY <1>4 DEF GetFile
  <2>5. i \in 1..Len(c) /\ fileid[c[i]] = id
    BY <2>3 DEF Find
  <2> HIDE DEF i
  <2> QED
    BY <1>1, <2>4, <2>5 DEF IsHit
<1>5. CASE Find(id, c) = {}
  <2>1. g = TakeSlot(c)
    BY <1>5 DEF GetFile
  <2>2. NotOpen(id)
    <3> SUFFICES ASSUME NEW s \in Slots, fd[s] # NoFd PROVE fileid[s] # id
      BY DEF NotOpen
    <3>1. PICK i \in 1..Len(c) : c[i] = s
      BY <1>3
    <3> QED
      BY <3>1, <1>5 DEF Find
  <2>3. CASE FreeFiles # NULL
    <3>1. FreeFiles \in Slots /\ next \in [Slots -> Pointer]
      BY <2>3 DEF Inv, TypeOK, Pointer
    <3>2. IsTake(g)
      BY <2>1, <2>3, <3>1 DEF TakeSlot, IsTake
    <3> QED
      BY <1>1, <2>2, <3>2
  <2>4. CASE FreeFiles = NULL
    <3>1. Len(f) = 0
      <4>1. Len(f) > 0 => 1 \in 1..Len(f) /\ FreeFiles = f[1]
        BY <1>2, <1>3 DEF IsChain
      <4> QED
        BY <4>1, <2>4, <1>2 DEF Slots, NULL
    <3>2. Len(c) = MaxOpenFiles
      BY <3>1, <1>2, <1>3
    <3> DEFINE M == MaxOpenFiles
    <3>3. M \in 1..M /\ M - 1 \in 1..M /\ M # M - 1
      BY <1>2
    <3>4. c[M] \in Slots /\ c[M - 1] \in Slots /\ c[M] # c[M - 1]
      BY <3>2, <3>3, <1>2, <1>3
    <3>5. next[c[M]] = NULL
      BY <3>2, <1>2 DEF IsChain
    <3>6. next \in [Slots -> Pointer]
      BY DEF Inv, TypeOK
    <3> HIDE DEF M
    <3> DEFINE room == [next EXCEPT ![c[M - 1]] = NULL, ![c[M]] = NULL]
    <3>7. CloseOldest(c) = [free |-> c[M], next |-> room, fd |-> [fd EXCEPT ![c[M]] = NoFd]]
      BY <3>2, <3>5, <2>4 DEF CloseOldest, M
    <3>8. room[c[M]] = NULL
      BY <3>4, <3>6
    <3>9. [room EXCEPT ![c[M]] = OpenFiles]
            = [next EXCEPT ![c[M - 1]] = NULL, ![c[M]] = OpenFiles]
      BY <3>4, <3>6
    <3> HIDE DEF room
    <3>10. IsEvict(c, g)
      <4>1. g = [this |-> c[M], open |-> c[M], free |-> room[c[M]],
                 next |-> [room EXCEPT ![c[M]] = OpenFiles],
                 fd |-> [fd EXCEPT ![c[M]] = NoFd]]
        BY <2>1, <2>4, <3>7 DEF TakeSlot
      <4>2. g = [this |-> c[M], open |-> c[M], free |-> NULL,
                 next |-> [next EXCEPT ![c[M - 1]] = NULL, ![c[M]] = OpenFiles],
                 fd |-> [fd EXCEPT ![c[M]] = NoFd]]
        BY <4>1, <3>8, <3>9
      <4> QED
        BY <2>4, <3>2, <4>2 DEF IsEvict, M
    <3> QED
      BY <1>1, <2>2, <3>10
  <2> QED
    BY <2>3, <2>4
<1> QED
  BY <1>4, <1>5

-----------------------------------------------------------------------------
(* The invariant holds at the start and is kept by each handler. *)

LEMMA InitInv == Init => Inv
<1> SUFFICES ASSUME Init PROVE Inv
  OBVIOUS
<1>0. MaxOpenFiles \in Nat /\ MaxOpenFiles >= 2 /\ MaxLate \in Nat /\ ClockMod \in Nat \ {0}
  BY DipFilesAssumption
<1>1. TypeOK
  <2>1. FreeFiles \in Pointer /\ OpenFiles \in Pointer
    BY <1>0 DEF Init, Pointer, Slots, NULL
  <2>2. next \in [Slots -> Pointer]
    <3>1. \A s \in Slots : (IF s = MaxOpenFiles THEN NULL ELSE s + 1) \in Pointer
      BY <1>0 DEF Pointer, Slots, NULL
    <3> QED
      BY <3>1 DEF Init
  <2>3. now \in 0..(ClockMod - 1) /\ late \in 0..MaxLate /\ 0 \in 0..(ClockMod - 1)
    BY <1>0 DEF Init
  <2> QED
    BY <2>1, <2>2, <2>3 DEF Init, TypeOK
<1>2. SlotsPartitioned
  <2> DEFINE M == MaxOpenFiles
             id == [j \in 1..M |-> j]
             empty == [j \in 1..0 |-> 1]
  <2>1. id \in Chains /\ Len(id) = M /\ empty \in Chains /\ Len(empty) = 0
    <3>1. id \in [1..M -> Slots] /\ empty \in [1..0 -> Slots]
      BY <1>0 DEF Slots
    <3>2. M \in 0..M /\ 0 \in 0..M
      BY <1>0
    <3> HIDE DEF id, empty
    <3> QED
      BY <3>1, <3>2, MakeChain
  <2>2. \A j \in 1..M : id[j] = j /\ j \in Slots
    BY DEF Slots
  <2> HIDE DEF id, empty
  <2>3. IsChain(OpenFiles, empty)
    BY <2>1 DEF Init, IsChain
  <2>4. IsChain(FreeFiles, id)
    <3>1. M \in 1..M /\ 1 \in 1..M /\ \A j \in 1..(M - 1) : j \in 1..M /\ j + 1 \in 1..M /\ j # M
      BY <1>0
    <3>2. FreeFiles = id[1] /\ next[id[M]] = NULL
      BY <3>1, <2>2 DEF Init
    <3>3. \A j \in 1..(M - 1) : next[id[j]] = id[j + 1]
      BY <3>1, <2>2 DEF Init
    <3> QED
      BY <3>2, <3>3, <2>1, <1>0 DEF IsChain
  <2>5. \A j \in 1..M : fd[id[j]] = NoFd
    BY <2>2 DEF Init
  <2>6. Len(empty) + Len(id) = MaxOpenFiles
    BY <2>1, <1>0
  <2>7. Partition(empty, id)
    BY <2>1, <2>2, <2>3, <2>4, <2>5, <2>6 DEF Partition, Slots
  <2> QED
    BY <2>1, <2>7 DEF SlotsPartitioned
<1>3. FilesOK(fd, fsFile, fileid)
  BY DEF Init, FilesOK
<1>4. RightFile
  BY DEF Init, RightFile
<1> QED
  BY <1>1, <1>2, <1>3, <1>4 DEF Inv

\* The lists after GetFile found the file open: it is the first slot now.
LEMMA HitKeepsSlots ==
  ASSUME Inv, NEW c \in Chains, NEW f \in Chains, Partition(c, f),
         NEW g, NEW id, NEW i \in 1..Len(c), IsHit(c, g, id, i),
         OpenFiles' = g.open, FreeFiles' = g.free, next' = g.next, fd' = fd
  PROVE  /\ SlotsPartitioned' /\ OpenFiles' \in Pointer /\ next' \in [Slots -> Pointer]
         /\ \E p \in Chains : IsChain(OpenFiles, p)' /\ Moved(p, c, i)
<1>1. /\ g.open = c[i] /\ g.free = FreeFiles
      /\ g.next = IF i = 1 THEN next
                  ELSE [next EXCEPT ![c[i - 1]] = next[c[i]], ![c[i]] = OpenFiles]
  BY DEF IsHit, MoveToFront
<1>2. /\ Len(c) \in Nat /\ c \in [1..Len(c) -> Slots] /\ c[i] \in Slots
      /\ next \in [Slots -> Pointer] /\ OpenFiles \in Pointer
  BY ChainType, DipFilesAssumption DEF Inv, TypeOK
<1>3. OpenFiles = c[1] /\ c[i] \in Pointer
  BY <1>2 DEF Partition, IsChain, Pointer
<1>4. CASE i = 1
  <2>1. Partition(c, f)'
    BY <1>1, <1>3, <1>4 DEF Partition, IsChain
  <2>2. IsChain(OpenFiles, c)'
    BY <2>1 DEF Partition
  <2>3. Moved(c, c, i)
    BY <1>2, <1>4 DEF Moved
  <2> QED
    BY <1>1, <1>2, <1>3, <1>4, <2>1, <2>2, <2>3 DEF SlotsPartitioned
<1>5. CASE i # 1
  <2>1. i \in 2..Len(c) /\ i - 1 \in 1..Len(c) /\ i - 1 # i
    BY <1>5, <1>2
  <2>2. c[i - 1] \in Slots /\ c[i - 1] # c[i]
    BY <2>1, <1>2 DEF Partition
  <2>3. next' = [next EXCEPT ![c[i - 1]] = next[c[i]], ![c[i]] = OpenFiles]
    BY <1>1, <1>5
  <2>4. /\ next'[c[i]] = c[1] /\ next'[c[i - 1]] = next[c[i]]
        /\ \A s \in Slots : s # c[i] /\ s # c[i - 1] => next'[s] = next[s]
    BY <2>2, <2>3, <1>2, <1>3
  <2>5. next' \in [Slots -> Pointer]
    BY <2>3, <1>2
  <2>6. SlotsPartitioned' /\ \E p \in Chains : IsChain(OpenFiles, p)' /\ Moved(p, c, i)
    BY <2>1, <2>4, <1>1, MoveStep
  <2> QED
    BY <2>5, <2>6, <1>1, <1>3
<1> QED
  BY <1>4, <1>5

LEMMA ReadOpenFileInv ==
  ASSUME Inv, NEW id \in FileIds, ReadOpenFile(id)
  PROVE  Inv' /\ Reused(id)
<1>1. PICK c \in Chains :
        /\ IsChain(OpenFiles, c)
        /\ LET g == GetFile(id, c) IN
             /\ g.fd[g.this] # NoFd
             /\ fd' = g.fd
             /\ fsFile' = Closed(g.fd)
             /\ FinishRead(g, id)
             /\ UNCHANGED <<fileid, now, late>>
  BY DEF ReadOpenFile
<1>2. PICK g : g = GetFile(id, c)
  OBVIOUS
<1>3. /\ g.fd[g.this] # NoFd /\ fd' = g.fd /\ fsFile' = Closed(g.fd)
      /\ FinishRead(g, id) /\ fileid' = fileid /\ now' = now /\ late' = late
  BY <1>1, <1>2
<1>4. PICK f \in Chains :
           /\ Partition(c, f)
           /\ \/ \E i \in 1..Len(c) : IsHit(c, g, id, i)
              \/ NotOpen(id) /\ IsTake(g)
              \/ NotOpen(id) /\ IsEvict(c, g)
  BY <1>1, <1>2, GetFileCases
<1>5. TypeOK
  BY DEF Inv
<1>6. ~ IsTake(g)
  <2> SUFFICES ASSUME IsTake(g) PROVE FALSE
    OBVIOUS
  <2>1. g.fd[g.this] = fd[FreeFiles] /\ FreeFiles # NULL
    BY DEF IsTake
  <2>2. Len(f) \in Nat /\ FreeFiles = f[1] /\ 1 \in 1..Len(f)
    BY <2>1, <1>4, ChainType, DipFilesAssumption DEF Partition, IsChain
  <2> QED
    BY <2>1, <2>2, <1>3, <1>4 DEF Partition
<1>7. ~ IsEvict(c, g)
  <2> SUFFICES ASSUME IsEvict(c, g) PROVE FALSE
    OBVIOUS
  <2>1. c[MaxOpenFiles] \in Slots /\ fd \in [Slots -> Fds \cup {NoFd}]
    <3>1. MaxOpenFiles \in 1..Len(c)
      BY DipFilesAssumption DEF IsEvict
    <3>2. c[MaxOpenFiles] \in Slots
      BY <3>1, ChainType
    <3> QED
      BY <3>2, <1>5 DEF TypeOK
  <2>2. g.fd = [fd EXCEPT ![c[MaxOpenFiles]] = NoFd] /\ g.this = c[MaxOpenFiles]
    BY DEF IsEvict
  <2> QED
    BY <2>1, <2>2, <1>3
<1>8. PICK i \in 1..Len(c) : IsHit(c, g, id, i)
  BY <1>4, <1>6, <1>7
<1>9. fd' = fd /\ fsFile' = fsFile
  <2>1. fd' = fd
    BY <1>3, <1>8 DEF IsHit, MoveToFront
  <2>2. fsFile \in [Fds -> FileIds \cup {NoFile}]
    BY <1>5 DEF TypeOK
  <2>3. Closed(fd) = [x \in Fds |-> fsFile[x]]
    BY DEF Closed
  <2> QED
    BY <2>1, <2>2, <2>3, <1>3
<1>10. /\ OpenFiles' = g.open /\ FreeFiles' = g.free /\ next' = g.next
       /\ lastaccess' = [lastaccess EXCEPT ![g.this] = now]
       /\ served' = [asked |-> id, got |-> fsFile'[fd'[g.this]]]
  BY <1>3 DEF FinishRead
<1>11. /\ SlotsPartitioned' /\ OpenFiles' \in Pointer /\ next' \in [Slots -> Pointer]
       /\ \E p \in Chains : IsChain(OpenFiles, p)' /\ Moved(p, c, i)
  BY <1>4, <1>8, <1>9, <1>10, HitKeepsSlots
<1>12. FilesOK(fd, fsFile, fileid)'
  BY <1>3, <1>9 DEF Inv, FilesOK
<1>13. served'.got = id /\ served'.asked = id
  <2>1. g.this = c[i] /\ fileid[c[i]] = id /\ c[i] \in Slots
    BY <1>8, ChainType DEF IsHit, MoveToFront
  <2>2. fsFile[fd[c[i]]] = fileid[c[i]]
    BY <2>1, <1>3, <1>9 DEF Inv, FilesOK
  <2> QED
    BY <2>1, <2>2, <1>9, <1>10
<1>14. TypeOK'
  <2>1. FreeFiles' \in Pointer
    BY <1>5, <1>8, <1>10 DEF IsHit, MoveToFront, TypeOK
  <2>2. lastaccess' \in [Slots -> 0..(ClockMod - 1)]
    BY <1>5, <1>10 DEF TypeOK
  <2>3. served' \in [asked : FileIds \cup {NoFile}, got : FileIds \cup {NoFile}]
    BY <1>10, <1>13
  <2> QED
    BY <2>1, <2>2, <2>3, <1>3, <1>5, <1>9, <1>11 DEF TypeOK
<1>15. Reused(id)
  <2>1. g.this = c[i] /\ fileid[c[i]] = id
    BY <1>8 DEF IsHit, MoveToFront
  <2>2. lastaccess' = [lastaccess EXCEPT ![c[i]] = now]
    BY <2>1, <1>10
  <2> QED
    BY <2>1, <2>2, <1>1, <1>3, <1>9, <1>11 DEF Reused
<1> QED
  BY <1>11, <1>12, <1>13, <1>14, <1>15 DEF Inv, RightFile

\* What a full table's eviction leaves, before the file is opened.
LEMMA EvictFacts ==
  ASSUME Inv, NEW c \in Chains, NEW f \in Chains, Partition(c, f), NEW g, IsEvict(c, g)
  PROVE  LET n == MaxOpenFiles IN
         /\ Len(c) = n /\ n \in Nat /\ n >= 2 /\ n \in 2..Len(c) /\ n - 1 \in 1..Len(c)
         /\ c[n] \in Slots /\ c[n - 1] \in Slots /\ c[n] # c[n - 1]
         /\ next[c[n]] = NULL /\ OpenFiles = c[1] /\ FreeFiles = NULL
         /\ g.next \in [Slots -> Pointer]
         /\ g.next[c[n - 1]] = NULL /\ g.next[c[n]] = OpenFiles
         /\ \A s \in Slots : s # c[n] /\ s # c[n - 1] => g.next[s] = next[s]
         /\ g.this = c[n] /\ g.open = c[n] /\ g.free = NULL
         /\ g.fd \in [Slots -> Fds \cup {NoFd}] /\ g.fd[c[n]] = NoFd
         /\ \A s \in Slots : s # c[n] => g.fd[s] = fd[s]
<1> DEFINE n == MaxOpenFiles
<1>1. /\ Len(c) = n /\ n \in Nat /\ n >= 2 /\ n \in 2..n /\ n - 1 \in 1..n
      /\ n \in 1..n /\ n # n - 1 /\ c \in [1..n -> Slots]
  BY ChainType, DipFilesAssumption DEF IsEvict
<1> HIDE DEF n
<1>2. c[n] \in Slots /\ c[n - 1] \in Slots /\ c[n] # c[n - 1]
  BY <1>1 DEF Partition
<1>3. next[c[n]] = NULL /\ OpenFiles = c[1]
  BY <1>1 DEF Partition, IsChain
<1>4. /\ FreeFiles = NULL
      /\ g.next = [next EXCEPT ![c[n - 1]] = NULL, ![c[n]] = OpenFiles]
      /\ g.this = c[n] /\ g.open = c[n] /\ g.free = NULL
      /\ g.fd = [fd EXCEPT ![c[n]] = NoFd]
  BY DEF IsEvict, n
<1>5. /\ next \in [Slots -> Pointer] /\ OpenFiles \in Pointer /\ NULL \in Pointer
      /\ fd \in [Slots -> Fds \cup {NoFd}]
  BY DEF Inv, TypeOK, Pointer
<1>6. /\ g.next \in [Slots -> Pointer]
      /\ g.next[c[n - 1]] = NULL /\ g.next[c[n]] = OpenFiles
      /\ \A s \in Slots : s # c[n] /\ s # c[n - 1] => g.next[s] = next[s]
  BY <1>2, <1>4, <1>5
<1>7. /\ g.fd \in [Slots -> Fds \cup {NoFd}] /\ g.fd[c[n]] = NoFd
      /\ \A s \in Slots : s # c[n] => g.fd[s] = fd[s]
  BY <1>2, <1>4, <1>5
<1> QED
  BY <1>1, <1>2, <1>3, <1>4, <1>6, <1>7 DEF n

\* What taking a free slot leaves, before the file is opened.
LEMMA TakeFacts ==
  ASSUME Inv, NEW c \in Chains, NEW f \in Chains, Partition(c, f), NEW g, IsTake(g)
  PROVE  /\ FreeFiles \in Slots /\ fd[FreeFiles] = NoFd /\ next[FreeFiles] \in Pointer
         /\ g.this = FreeFiles /\ g.open = FreeFiles /\ g.free = next[FreeFiles]
         /\ g.next \in [Slots -> Pointer] /\ g.next[FreeFiles] = OpenFiles
         /\ \A s \in Slots : s # FreeFiles => g.next[s] = next[s]
         /\ g.fd = fd
<1>1. /\ FreeFiles # NULL
      /\ g.this = FreeFiles /\ g.open = FreeFiles /\ g.free = next[FreeFiles]
      /\ g.next = [next EXCEPT ![FreeFiles] = OpenFiles]
      /\ g.fd = fd
  BY DEF IsTake
<1>2. FreeFiles \in Slots /\ next \in [Slots -> Pointer] /\ OpenFiles \in Pointer
  BY <1>1 DEF Inv, TypeOK, Pointer
<1>3. fd[FreeFiles] = NoFd
  <2>1. Len(f) \in Nat /\ FreeFiles = f[1] /\ 1 \in 1..Len(f)
    BY <1>1, ChainType, DipFilesAssumption DEF Partition, IsChain
  <2> QED
    BY <2>1 DEF Partition
<1> QED
  BY <1>1, <1>2, <1>3

\* Either way the slot is empty, and the other files stay as they are.
LEMMA EmptySlot ==
  ASSUME Inv, NEW c \in Chains, NEW f \in Chains, Partition(c, f), NEW g,
         IsTake(g) \/ IsEvict(c, g)
  PROVE  /\ g.this \in Slots /\ g.fd[g.this] = NoFd
         /\ g.fd \in [Slots -> Fds \cup {NoFd}]
         /\ g.open \in Pointer /\ g.free \in Pointer
         /\ g.next \in [Slots -> Pointer]
         /\ \A s \in Slots : g.fd[s] # NoFd => fd[s] # NoFd
         /\ Closed(g.fd) \in [Fds -> FileIds \cup {NoFile}]
         /\ FilesOK(g.fd, Closed(g.fd), fileid)
<1>1. /\ fd \in [Slots -> Fds \cup {NoFd}]
      /\ fsFile \in [Fds -> FileIds \cup {NoFile}]
      /\ FilesOK(fd, fsFile, fileid)
      /\ FreeFiles \in Pointer
  BY DEF Inv, TypeOK
<1>2. Closed(g.fd) \in [Fds -> FileIds \cup {NoFile}]
  BY <1>1 DEF Closed
<1>3. CASE IsTake(g)
  <2>1. Closed(fd) = fsFile
    <3>1. Closed(fd) = [x \in Fds |-> fsFile[x]]
      BY DEF Closed
    <3> QED
      BY <3>1, <1>1
  <2>2. /\ g.this \in Slots /\ g.fd[g.this] = NoFd /\ g.fd = fd
        /\ g.open \in Pointer /\ g.free \in Pointer
        /\ g.next \in [Slots -> Pointer]
    BY <1>3, TakeFacts DEF Pointer
  <2> QED
    BY <1>1, <1>2, <2>1, <2>2
<1>4. CASE IsEvict(c, g)
  <2> DEFINE last == c[MaxOpenFiles]
  <2>1. /\ last \in Slots /\ g.this = last /\ g.open = last /\ g.free = NULL
        /\ g.next \in [Slots -> Pointer]
        /\ g.fd \in [Slots -> Fds \cup {NoFd}] /\ g.fd[last] = NoFd
        /\ \A s \in Slots : s # last => g.fd[s] = fd[s]
    BY <1>4, EvictFacts
  <2> HIDE DEF last
  <2>2. fd[last] # NoFd
    <3>1. last = c[Len(c)] /\ Len(c) \in 1..Len(c)
      BY <1>4, DipFilesAssumption DEF IsEvict, last
    <3> QED
      BY <3>1 DEF Partition
  <2>3. \A x \in Fds : Closed(g.fd)[x] = IF \E s \in {last} : fd[s] = x THEN NoFile ELSE fsFile[x]
    <3> TAKE x \in Fds
    <3>1. NoFd # x
      BY DipFilesAssumption
    <3>2. (\E s \in Slots : fd[s] = x /\ g.fd[s] # x) <=> fd[last] = x
      BY <2>1, <3>1
    <3> QED
      BY <3>2 DEF Closed
  <2>4. \A s \in Slots : g.fd[s] = IF s \in {last} THEN NoFd ELSE fd[s]
    BY <2>1
  <2>5. FilesOK(g.fd, Closed(g.fd), fileid)
    <3>1. Closing({last}, fd, fsFile, g.fd, Closed(g.fd))
      BY <2>1, <2>3, <2>4 DEF Closing
    <3> QED
      BY <3>1, <1>1, CloseSlots
  <2> QED
    BY <1>2, <2>1, <2>5 DEF Pointer
<1> QED
  BY <1>3, <1>4

LEMMA ReadNewFileInv ==
  ASSUME Inv, NEW id \in FileIds, ReadNewFile(id)
  PROVE  Inv' /\ Added(id)
<1>1. PICK c \in Chains :
        /\ IsChain(OpenFiles, c)
        /\ LET g == GetFile(id, c) IN
             /\ g.fd[g.this] = NoFd
             /\ \E x \in Fds :
                  /\ Closed(g.fd)[x] = NoFile
                  /\ fd' = [g.fd EXCEPT ![g.this] = x]
                  /\ fsFile' = [Closed(g.fd) EXCEPT ![x] = id]
             /\ fileid' = [fileid EXCEPT ![g.this] = id]
             /\ FinishRead(g, id)
             /\ UNCHANGED <<now, late>>
  BY DEF ReadNewFile
<1>2. PICK g : g = GetFile(id, c)
  OBVIOUS
<1>3. PICK x \in Fds :
        /\ Closed(g.fd)[x] = NoFile
        /\ fd' = [g.fd EXCEPT ![g.this] = x]
        /\ fsFile' = [Closed(g.fd) EXCEPT ![x] = id]
  BY <1>1, <1>2
<1>4. /\ g.fd[g.this] = NoFd
      /\ fileid' = [fileid EXCEPT ![g.this] = id]
      /\ FinishRead(g, id) /\ now' = now /\ late' = late
  BY <1>1, <1>2
<1>5. PICK f \in Chains :
        /\ Partition(c, f)
        /\ \/ \E i \in 1..Len(c) : IsHit(c, g, id, i)
           \/ NotOpen(id) /\ IsTake(g)
           \/ NotOpen(id) /\ IsEvict(c, g)
  BY <1>1, <1>2, GetFileCases
<1>6. ~ \E i \in 1..Len(c) : IsHit(c, g, id, i)
  <2> SUFFICES ASSUME NEW i \in 1..Len(c), IsHit(c, g, id, i) PROVE FALSE
    OBVIOUS
  <2>1. g.fd = fd /\ g.this = c[i]
    BY DEF IsHit, MoveToFront
  <2> QED
    BY <2>1, <1>4, <1>5 DEF Partition
<1>7. NotOpen(id) /\ (IsTake(g) \/ IsEvict(c, g))
  BY <1>5, <1>6
<1>8. /\ g.this \in Slots /\ g.fd \in [Slots -> Fds \cup {NoFd}]
      /\ g.open \in Pointer /\ g.free \in Pointer
      /\ g.next \in [Slots -> Pointer]
      /\ \A s \in Slots : g.fd[s] # NoFd => fd[s] # NoFd
      /\ Closed(g.fd) \in [Fds -> FileIds \cup {NoFile}]
      /\ FilesOK(g.fd, Closed(g.fd), fileid)
  BY <1>5, <1>7, EmptySlot
<1>9. /\ TypeOK /\ fileid \in [Slots -> FileIds \cup {NoFile}]
      /\ lastaccess \in [Slots -> 0..(ClockMod - 1)] /\ now \in 0..(ClockMod - 1)
  BY DEF Inv, TypeOK
<1>10. /\ OpenFiles' = g.open /\ FreeFiles' = g.free /\ next' = g.next
       /\ lastaccess' = [lastaccess EXCEPT ![g.this] = now]
       /\ served' = [asked |-> id, got |-> fsFile'[fd'[g.this]]]
  BY <1>4 DEF FinishRead
<1>11. FilesOK(fd, fsFile, fileid)'
  <2>1. \A t \in Slots : g.fd[t] # NoFd => fileid[t] # id
    BY <1>7, <1>8 DEF NotOpen
  <2>2. FilesOK([g.fd EXCEPT ![g.this] = x], [Closed(g.fd) EXCEPT ![x] = id],
                [fileid EXCEPT ![g.this] = id])
    BY <2>1, <1>3, <1>4, <1>8, <1>9, OpenSlot
  <2>3. FilesOK(fd', fsFile', fileid')
    BY <2>2, <1>3, <1>4, Zenon
  <2> QED
    BY <2>3 DEF FilesOK
<1>12. served'.got = id /\ served'.asked = id
  <2>1. fd'[g.this] = x /\ fsFile'[x] = id
    BY <1>3, <1>8
  <2> QED
    BY <2>1, <1>10
<1>13. fd'[g.this] # NoFd /\ \A s \in Slots : s # g.this => fd'[s] = g.fd[s]
  BY <1>3, <1>8, DipFilesAssumption
<1>14. /\ SlotsPartitioned'
       /\ \E p \in Chains : IsChain(OpenFiles, p)' /\
            \/ Len(c) < MaxOpenFiles /\ Pushed(p, c, g.this) /\ fd[g.this] = NoFd
            \/ Len(c) = MaxOpenFiles /\ Moved(p, c, Len(c)) /\ g.this = c[Len(c)]
  <2>1. CASE IsTake(g)
    <3>1. /\ FreeFiles \in Slots /\ g.this = FreeFiles /\ g.open = FreeFiles
          /\ g.free = next[FreeFiles] /\ g.next[FreeFiles] = OpenFiles
          /\ \A s \in Slots : s # FreeFiles => g.next[s] = next[s]
          /\ g.fd = fd
      BY <2>1, <1>5, TakeFacts
    <3>2. FreeFiles # NULL /\ \A s \in Slots : s # FreeFiles => (fd'[s] = NoFd <=> fd[s] = NoFd)
      BY <2>1, <3>1, <1>13 DEF IsTake
    <3>3. Len(c) < MaxOpenFiles /\ fd[g.this] = NoFd
      <4>1. Len(f) \in Nat /\ Len(c) \in Nat /\ Len(f) > 0
        BY <3>2, <1>5, ChainType, DipFilesAssumption DEF Partition, IsChain
      <4>2. Len(c) + Len(f) = MaxOpenFiles
        BY <1>5 DEF Partition
      <4> QED
        BY <4>1, <4>2, <3>1, <2>1, <1>5, TakeFacts
    <3>4. SlotsPartitioned' /\ \E p \in Chains : IsChain(OpenFiles, p)' /\ Pushed(p, c, FreeFiles)
      BY <3>1, <3>2, <1>5, <1>10, <1>13, PushStep
    <3> QED
      BY <3>1, <3>3, <3>4
  <2>2. CASE IsEvict(c, g)
    <3> DEFINE n == Len(c)
    <3>1. /\ n \in 2..n /\ n - 1 \in 1..n
          /\ c[n] \in Slots /\ c[n - 1] \in Slots
          /\ next[c[n]] = NULL /\ OpenFiles = c[1] /\ FreeFiles = NULL
          /\ g.next[c[n - 1]] = NULL /\ g.next[c[n]] = OpenFiles
          /\ \A s \in Slots : s # c[n] /\ s # c[n - 1] => g.next[s] = next[s]
          /\ g.this = c[n] /\ g.open = c[n] /\ g.free = NULL
          /\ \A s \in Slots : s # c[n] => g.fd[s] = fd[s]
      BY <2>2, <1>5, EvictFacts
    <3>2. fd[c[n]] # NoFd
      BY <3>1, <1>5 DEF Partition
    <3>3. \A s \in Slots : fd'[s] = NoFd <=> fd[s] = NoFd
      BY <3>1, <3>2, <1>13
    <3>4. /\ OpenFiles' = c[n] /\ FreeFiles' = FreeFiles
          /\ next'[c[n]] = c[1] /\ next'[c[n - 1]] = next[c[n]]
          /\ \A s \in Slots : s # c[n] /\ s # c[n - 1] => next'[s] = next[s]
      BY <3>1, <1>10
    <3>5. SlotsPartitioned' /\ \E p \in Chains : IsChain(OpenFiles, p)' /\ Moved(p, c, n)
      BY <3>1, <3>3, <3>4, <1>5, MoveStep
    <3>6. n = MaxOpenFiles
      BY <2>2 DEF IsEvict
    <3> QED
      BY <3>1, <3>5, <3>6
  <2> QED
    BY <2>1, <2>2, <1>7
<1>15. TypeOK'
  <2>1. fd' \in [Slots -> Fds \cup {NoFd}] /\ fsFile' \in [Fds -> FileIds \cup {NoFile}]
    BY <1>3, <1>8
  <2>2. fileid' \in [Slots -> FileIds \cup {NoFile}]
    BY <1>4, <1>9
  <2>3. lastaccess' \in [Slots -> 0..(ClockMod - 1)]
    BY <1>9, <1>10
  <2>4. served' \in [asked : FileIds \cup {NoFile}, got : FileIds \cup {NoFile}]
    BY <1>10, <1>12
  <2>5. OpenFiles' \in Pointer /\ FreeFiles' \in Pointer /\ next' \in [Slots -> Pointer]
    BY <1>8, <1>10
  <2> QED
    BY <2>1, <2>2, <2>3, <2>4, <2>5, <1>4, <1>9 DEF TypeOK
<1>16. Added(id)
  <2>1. \A t \in Slots : t # g.this => fd'[t] = fd[t]
    <3>1. CASE IsTake(g)
      BY <3>1, <1>5, <1>13, TakeFacts
    <3>2. CASE IsEvict(c, g)
      BY <3>2, <1>5, <1>13, EvictFacts
    <3> QED
      BY <3>1, <3>2, <1>7
  <2> QED
    BY <2>1, <1>1, <1>4, <1>7, <1>8, <1>10, <1>14 DEF Added
<1> QED
  BY <1>11, <1>12, <1>14, <1>15, <1>16 DEF Inv, RightFile

LEMMA ReadFailedInv ==
  ASSUME Inv, NEW id \in FileIds, ReadFailed(id)
  PROVE  Inv' /\ Refused(id)
<1>1. PICK c \in Chains :
        /\ IsChain(OpenFiles, c)
        /\ LET g == GetFile(id, c) IN
             /\ g.fd[g.this] = NoFd
             /\ OpenFiles' = g.next[g.this]
             /\ next' = [g.next EXCEPT ![g.this] = g.free]
             /\ FreeFiles' = g.this
             /\ fd' = g.fd
             /\ fsFile' = Closed(g.fd)
             /\ served' = [asked |-> id, got |-> NoFile]
             /\ UNCHANGED <<fileid, lastaccess, now, late>>
  BY DEF ReadFailed
<1>2. PICK g : g = GetFile(id, c)
  OBVIOUS
<1>3. /\ g.fd[g.this] = NoFd
      /\ OpenFiles' = g.next[g.this]
      /\ next' = [g.next EXCEPT ![g.this] = g.free]
      /\ FreeFiles' = g.this
      /\ fd' = g.fd
      /\ fsFile' = Closed(g.fd)
      /\ served' = [asked |-> id, got |-> NoFile]
      /\ UNCHANGED <<fileid, lastaccess, now, late>>
  BY <1>1, <1>2
<1>5. PICK f \in Chains :
        /\ Partition(c, f)
        /\ \/ \E i \in 1..Len(c) : IsHit(c, g, id, i)
           \/ NotOpen(id) /\ IsTake(g)
           \/ NotOpen(id) /\ IsEvict(c, g)
  BY <1>1, <1>2, GetFileCases
<1>6. ~ \E i \in 1..Len(c) : IsHit(c, g, id, i)
  <2> SUFFICES ASSUME NEW i \in 1..Len(c), IsHit(c, g, id, i) PROVE FALSE
    OBVIOUS
  <2>1. g.fd = fd /\ g.this = c[i]
    BY DEF IsHit, MoveToFront
  <2> QED
    BY <2>1, <1>3, <1>5 DEF Partition
<1>7. NotOpen(id) /\ (IsTake(g) \/ IsEvict(c, g))
  BY <1>5, <1>6
<1>8. /\ g.this \in Slots /\ g.fd \in [Slots -> Fds \cup {NoFd}]
      /\ g.free \in Pointer
      /\ g.next \in [Slots -> Pointer]
      /\ Closed(g.fd) \in [Fds -> FileIds \cup {NoFile}]
      /\ FilesOK(g.fd, Closed(g.fd), fileid)
  BY <1>5, <1>7, EmptySlot
<1>9. /\ next'[g.this] = g.free
      /\ \A s \in Slots : s # g.this => next'[s] = g.next[s]
      /\ next' \in [Slots -> Pointer]
  BY <1>3, <1>8
<1>10. FilesOK(fd, fsFile, fileid)'
  <2>1. FilesOK(fd', fsFile', fileid')
    BY <1>3, <1>8
  <2> QED
    BY <2>1 DEF FilesOK
<1>11. /\ SlotsPartitioned'
       /\ \E p \in Chains : IsChain(OpenFiles, p)' /\
            \/ Len(c) < MaxOpenFiles /\ Kept(p, c, Len(c)) /\ fd' = fd
            \/ /\ Len(c) = MaxOpenFiles /\ Kept(p, c, Len(c) - 1)
               /\ \A t \in Slots : t # c[Len(c)] => fd'[t] = fd[t]
  <2>1. CASE IsTake(g)
    <3>1. /\ FreeFiles \in Slots /\ g.this = FreeFiles
          /\ g.free = next[FreeFiles] /\ g.next[FreeFiles] = OpenFiles
          /\ \A s \in Slots : s # FreeFiles => g.next[s] = next[s]
          /\ g.fd = fd
      BY <2>1, <1>5, TakeFacts
    <3>2. OpenFiles' = OpenFiles /\ FreeFiles' = FreeFiles /\ fd' = fd
      BY <3>1, <1>3
    <3>3. \A s \in Slots : next'[s] = next[s]
      BY <3>1, <1>9
    <3>4. next' = next
      BY <3>3, <1>9, SameFunction DEF Inv, TypeOK
    <3>5. Partition(c, f)'
      BY <3>2, <3>4, <1>5 DEF Partition, IsChain
    <3>6. IsChain(OpenFiles, c)'
      BY <3>5 DEF Partition
    <3>7. Len(c) < MaxOpenFiles /\ Kept(c, c, Len(c))
      <4>1. Len(f) \in Nat /\ Len(c) \in Nat /\ Len(f) > 0
        BY <2>1, <1>5, ChainType, DipFilesAssumption DEF IsTake, Partition, IsChain
      <4>2. Len(c) + Len(f) = MaxOpenFiles
        BY <1>5 DEF Partition
      <4> QED
        BY <4>1, <4>2 DEF Kept
    <3> QED
      BY <3>2, <3>5, <3>6, <3>7 DEF SlotsPartitioned
  <2>2. CASE IsEvict(c, g)
    <3>1. PICK n : n = Len(c)
      OBVIOUS
    <3>2. /\ n \in Nat /\ n >= 2 /\ n - 1 \in 0..(n - 1) /\ n - 1 \in 1..n /\ n \in 1..n
          /\ c[n] \in Slots /\ c[n - 1] \in Slots /\ c[n] # c[n - 1]
          /\ OpenFiles = c[1] /\ FreeFiles = NULL
          /\ g.next[c[n - 1]] = NULL /\ g.next[c[n]] = OpenFiles
          /\ \A s \in Slots : s # c[n] /\ s # c[n - 1] => g.next[s] = next[s]
          /\ g.this = c[n] /\ g.free = NULL
          /\ g.fd[c[n]] = NoFd
          /\ \A s \in Slots : s # c[n] => g.fd[s] = fd[s]
      BY <2>2, <1>5, <3>1, EvictFacts
    <3>3. /\ c \in [1..n -> Slots] /\ f \in [1..Len(f) -> Slots] /\ Len(f) \in Nat
      BY <3>1, ChainType, DipFilesAssumption
    <3>4. /\ \A i, j \in 1..n : c[i] = c[j] => i = j
          /\ \A j \in 1..Len(f) : f[j] # c[n] /\ f[j] # c[n - 1]
          /\ \A j \in 1..n : fd[c[j]] # NoFd
          /\ \A j \in 1..Len(f) : fd[f[j]] = NoFd
      BY <3>1, <3>2, <1>5 DEF Partition
    <3>5. /\ n - 1 > 0 /\ OpenFiles' = OpenFiles /\ next'[c[n - 1]] = NULL
          /\ FreeFiles' = c[n] /\ next'[c[n]] = FreeFiles
      BY <3>2, <1>3, <1>9
    <3>6. \A s \in Slots : s # c[n] /\ s # c[n - 1] => next'[s] = next[s]
      BY <3>2, <1>9
    <3>7. \A j \in 1..(n - 1 - 1) : next'[c[j]] = next[c[j]]
      <4> TAKE j \in 1..(n - 1 - 1)
      <4>1. j \in 1..n /\ j # n /\ j # n - 1
        BY <3>2
      <4>2. c[j] # c[n] /\ c[j] # c[n - 1] /\ c[j] \in Slots
        BY <4>1, <3>2, <3>3, <3>4
      <4> QED
        BY <4>2, <3>6
    <3>8. \A j \in 1..Len(f) : next'[f[j]] = next[f[j]]
      BY <3>3, <3>4, <3>6
    <3>9. \A j \in 1..(n - 1) : fd'[c[j]] # NoFd
      <4> TAKE j \in 1..(n - 1)
      <4>1. j \in 1..n /\ j # n
        BY <3>2
      <4>2. c[j] # c[n] /\ c[j] \in Slots
        BY <4>1, <3>2, <3>3, <3>4
      <4> QED
        BY <4>1, <4>2, <3>2, <3>4, <1>3
    <3>10. \A j \in 1..Len(f) : fd'[f[j]] = NoFd
      BY <3>2, <3>3, <3>4, <1>3
    <3>11. n - 1 + 1 = n /\ \A j \in (n - 1 + 1)..n : j = n
      BY <3>2
    <3>12. \A j \in (n - 1 + 2)..n : FALSE
      BY <3>2
    <3>13. \A j \in (n - 1 + 1)..n : fd'[c[j]] = NoFd
      BY <3>2, <3>11, <1>3
    <3>14. PICK k : k = n - 1
      OBVIOUS
    <3>15. k \in 0..(Len(c) - 1) /\ k > 0 /\ k # 0
      BY <3>1, <3>2, <3>14
    <3>16. SlotsPartitioned' /\ \E p \in Chains : IsChain(OpenFiles, p)' /\ Kept(p, c, k)
      BY <3>1, <3>5, <3>7, <3>8, <3>9, <3>10, <3>11, <3>12, <3>13, <3>14, <3>15, <1>5, CutStep
    <3>17. Len(c) = MaxOpenFiles
      BY <2>2 DEF IsEvict
    <3> QED
      BY <3>1, <3>2, <3>14, <3>16, <3>17, <1>3
  <2> QED
    BY <2>1, <2>2, <1>7
<1>12. TypeOK'
  <2>1. OpenFiles' \in Pointer /\ FreeFiles' \in Pointer
    BY <1>3, <1>8 DEF Pointer
  <2>2. served' \in [asked : FileIds \cup {NoFile}, got : FileIds \cup {NoFile}]
    BY <1>3
  <2> QED
    BY <2>1, <2>2, <1>3, <1>8, <1>9 DEF Inv, TypeOK
<1>13. Refused(id)
  BY <1>1, <1>3, <1>7, <1>11 DEF Refused
<1> QED
  BY <1>3, <1>10, <1>11, <1>12, <1>13 DEF Inv, RightFile

LEMMA IdleCheckInv ==
  ASSUME Inv, IdleCheck
  PROVE  Inv' /\ Dropped
<1>1. PICK c \in Chains :
        /\ IsChain(OpenFiles, c)
        /\ \E k \in 0..Len(c) :
             /\ \A i \in 1..k : Age(c[i]) < Timeout
             /\ k < Len(c) => Age(c[k + 1]) >= Timeout
             /\ LET expired == {c[i] : i \in (k + 1)..Len(c)} IN
                  /\ OpenFiles' = IF k = 0 THEN NULL ELSE OpenFiles
                  /\ FreeFiles' = IF k = Len(c) THEN FreeFiles ELSE c[Len(c)]
                  /\ next' = [s \in Slots |->
                                IF k > 0 /\ s = c[k] THEN NULL
                                ELSE IF s \in expired
                                  THEN LET i == CHOOSE i \in (k + 1)..Len(c) : c[i] = s
                                       IN IF i = k + 1 THEN FreeFiles ELSE c[i - 1]
                                  ELSE next[s]]
                  /\ fd' = [s \in Slots |-> IF s \in expired THEN NoFd ELSE fd[s]]
                  /\ fsFile' = [x \in Fds |-> IF \E s \in expired : fd[s] = x
                                              THEN NoFile ELSE fsFile[x]]
  BY DEF IdleCheck
<1>20. PICK k \in 0..Len(c) :
          /\ \A i \in 1..k : Age(c[i]) < Timeout
          /\ k < Len(c) => Age(c[k + 1]) >= Timeout
          /\ LET expired == {c[i] : i \in (k + 1)..Len(c)} IN
               /\ OpenFiles' = IF k = 0 THEN NULL ELSE OpenFiles
               /\ FreeFiles' = IF k = Len(c) THEN FreeFiles ELSE c[Len(c)]
               /\ next' = [s \in Slots |->
                             IF k > 0 /\ s = c[k] THEN NULL
                             ELSE IF s \in expired
                               THEN LET i == CHOOSE i \in (k + 1)..Len(c) : c[i] = s
                                    IN IF i = k + 1 THEN FreeFiles ELSE c[i - 1]
                               ELSE next[s]]
               /\ fd' = [s \in Slots |-> IF s \in expired THEN NoFd ELSE fd[s]]
               /\ fsFile' = [x \in Fds |-> IF \E s \in expired : fd[s] = x
                                           THEN NoFile ELSE fsFile[x]]
  BY <1>1
<1>2. PICK E :
        /\ k \in 0..Len(c)
        /\ E = {c[i] : i \in (k + 1)..Len(c)}
        /\ OpenFiles' = IF k = 0 THEN NULL ELSE OpenFiles
        /\ FreeFiles' = IF k = Len(c) THEN FreeFiles ELSE c[Len(c)]
        /\ next' = [s \in Slots |->
                      IF k > 0 /\ s = c[k] THEN NULL
                      ELSE IF s \in E
                        THEN LET i == CHOOSE i \in (k + 1)..Len(c) : c[i] = s
                             IN IF i = k + 1 THEN FreeFiles ELSE c[i - 1]
                        ELSE next[s]]
        /\ fd' = [s \in Slots |-> IF s \in E THEN NoFd ELSE fd[s]]
        /\ fsFile' = [x \in Fds |-> IF \E s \in E : fd[s] = x THEN NoFile ELSE fsFile[x]]
  BY <1>20
<1>3. late' = 0 /\ UNCHANGED <<fileid, lastaccess, now, served>>
  BY DEF IdleCheck
<1>4. PICK f \in Chains : Partition(c, f)
  <2>1. PICK o, f \in Chains : Partition(o, f)
    BY DEF Inv, SlotsPartitioned
  <2>2. o = c
    BY <2>1, <1>1, ChainUnique DEF Partition
  <2> QED
    BY <2>1, <2>2
<1>5. PICK n : n = Len(c)
  OBVIOUS
<1>6. /\ n \in Nat /\ c \in [1..n -> Slots]
      /\ f \in [1..Len(f) -> Slots] /\ Len(f) \in Nat
      /\ k \in 0..n /\ k \in Nat
  BY <1>5, ChainType, DipFilesAssumption
<1>7. /\ \A i, j \in 1..n : c[i] = c[j] => i = j
      /\ \A i \in 1..n : \A j \in 1..Len(f) : c[i] # f[j]
      /\ \A j \in 1..n : fd[c[j]] # NoFd
      /\ \A j \in 1..Len(f) : fd[f[j]] = NoFd
  BY <1>4, <1>5 DEF Partition
<1>8. /\ E \subseteq Slots
      /\ \A i \in (k + 1)..n : i \in 1..n /\ c[i] \in E /\ c[i] \in Slots
      /\ \A i \in 1..k : i \in 1..n /\ c[i] \notin E /\ c[i] \in Slots
      /\ \A j \in 1..Len(f) : f[j] \notin E /\ f[j] \in Slots
  BY <1>2, <1>5, <1>6, <1>7
<1>9. /\ next \in [Slots -> Pointer] /\ OpenFiles \in Pointer /\ FreeFiles \in Pointer
      /\ NULL \in Pointer
      /\ fd \in [Slots -> Fds \cup {NoFd}] /\ fsFile \in [Fds -> FileIds \cup {NoFile}]
      /\ FilesOK(fd, fsFile, fileid)
  BY DEF Inv, TypeOK, Pointer
<1>10. FilesOK(fd, fsFile, fileid)'
  <2>1. FilesOK(fd', fsFile', fileid)
    <3>1. Closing(E, fd, fsFile, fd', fsFile')
      BY <1>2, <1>8, <1>9 DEF Closing
    <3> QED
      BY <3>1, <1>9, CloseSlots
  <2> QED
    BY <2>1, <1>3 DEF FilesOK
<1>11. \A i \in (k + 1)..n : (CHOOSE j \in (k + 1)..n : c[j] = c[i]) = i
  BY <1>7, <1>8
<1>12. /\ \A s \in Slots : k > 0 /\ s = c[k] => next'[s] = NULL
       /\ \A s \in Slots : s \notin E /\ ~ (k > 0 /\ s = c[k]) => next'[s] = next[s]
       /\ \A s \in Slots : s \in E /\ ~ (k > 0 /\ s = c[k]) =>
            next'[s] = LET i == CHOOSE i \in (k + 1)..n : c[i] = s
                       IN IF i = k + 1 THEN FreeFiles ELSE c[i - 1]
  BY <1>2, <1>5
<1>13. k > 0 => k \in 1..k /\ c[k] \notin E
  BY <1>6, <1>8
<1>14. \A i \in (k + 1)..n : next'[c[i]] = IF i = k + 1 THEN FreeFiles ELSE c[i - 1]
  <2> TAKE i \in (k + 1)..n
  <2>1. c[i] \in E /\ c[i] \in Slots /\ ~ (k > 0 /\ c[i] = c[k])
    BY <1>8, <1>13
  <2>2. next'[c[i]] = LET l == CHOOSE j \in (k + 1)..n : c[j] = c[i]
                      IN IF l = k + 1 THEN FreeFiles ELSE c[l - 1]
    BY <2>1, <1>12, Zenon
  <2>3. (CHOOSE j \in (k + 1)..n : c[j] = c[i]) = i
    BY <1>11, Zenon
  <2> QED
    BY <2>2, <2>3, Zenon
<1>15. next' \in [Slots -> Pointer]
  <2>1. \A s \in Slots : next'[s] \in Pointer
    <3> TAKE s \in Slots
    <3>1. CASE s \in E /\ ~ (k > 0 /\ s = c[k])
      <4>1. PICK i \in (k + 1)..n : s = c[i]
        BY <3>1, <1>2, <1>5
      <4>2. next'[s] = IF i = k + 1 THEN FreeFiles ELSE c[i - 1]
        BY <4>1, <1>14
      <4>3. i # k + 1 => i - 1 \in 1..n
        BY <1>6
      <4> QED
        BY <4>2, <4>3, <1>6, <1>9 DEF Pointer
    <3> QED
      BY <3>1, <1>9, <1>12
  <2>2. next' = [s \in Slots |-> next'[s]]
    BY <1>2
  <2> QED
    BY <2>1, <2>2
<1>16. SlotsPartitioned' /\ \E p \in Chains : IsChain(OpenFiles, p)' /\ Kept(p, c, k)
  <2>1. CASE k = n
    <3>1. E = {}
      BY <2>1, <1>2, <1>5, <1>6
    <3>2. \A s \in Slots : next'[s] = next[s]
      <4>1. k > 0 => next[c[k]] = NULL
        BY <2>1, <1>1, <1>5 DEF IsChain
      <4> QED
        BY <3>1, <4>1, <1>12
    <3>3. next' = next
      BY <3>2, <1>9, <1>15, SameFunction
    <3>4. fd' = fd
      <4>1. fd' = [s \in Slots |-> fd[s]]
        BY <3>1, <1>2
      <4> QED
        BY <4>1, <1>9
    <3>5. OpenFiles' = OpenFiles /\ FreeFiles' = FreeFiles
      <4>1. k = 0 => OpenFiles = NULL
        BY <2>1, <1>1, <1>5 DEF IsChain
      <4> QED
        BY <4>1, <2>1, <1>2, <1>5
    <3>6. Partition(c, f)'
      BY <3>3, <3>4, <3>5, <1>4 DEF Partition, IsChain
    <3>7. IsChain(OpenFiles, c)'
      BY <3>6 DEF Partition
    <3>8. Kept(c, c, k)
      BY <2>1, <1>5, <1>6 DEF Kept
    <3> QED
      BY <3>6, <3>7, <3>8 DEF SlotsPartitioned
  <2>2. CASE k # n
    <3>1. k \in 0..(n - 1) /\ k + 1 \in (k + 1)..n
      BY <2>2, <1>6
    <3>2. /\ k = 0 => OpenFiles' = NULL
          /\ k > 0 => OpenFiles' = OpenFiles /\ next'[c[k]] = NULL
          /\ FreeFiles' = c[n]
      <4>1. k > 0 => k # 0 /\ c[k] \in Slots
        BY <1>6, <1>8, <1>13
      <4> QED
        BY <4>1, <2>2, <1>2, <1>5, <1>12
    <3>3. next'[c[k + 1]] = FreeFiles
      BY <3>1, <1>14
    <3>4. \A j \in (k + 2)..n : next'[c[j]] = c[j - 1]
      <4> TAKE j \in (k + 2)..n
      <4>1. j \in (k + 1)..n /\ j # k + 1
        BY <1>6
      <4> QED
        BY <4>1, <1>14
    <3>5. \A j \in 1..(k - 1) : next'[c[j]] = next[c[j]]
      <4> TAKE j \in 1..(k - 1)
      <4>1. j \in 1..k /\ j # k /\ k \in 1..n
        BY <1>6
      <4>2. c[j] \in Slots /\ c[j] \notin E /\ c[j] # c[k]
        BY <4>1, <1>7, <1>8
      <4> QED
        BY <4>2, <1>12
    <3>6. \A j \in 1..Len(f) : next'[f[j]] = next[f[j]]
      <4>1. \A j \in 1..Len(f) : k > 0 => f[j] # c[k]
        BY <1>7, <1>8, <1>13
      <4> QED
        BY <4>1, <1>8, <1>12
    <3>7. /\ \A j \in 1..k : fd'[c[j]] # NoFd
          /\ \A j \in (k + 1)..n : fd'[c[j]] = NoFd
          /\ \A j \in 1..Len(f) : fd'[f[j]] = NoFd
      BY <1>2, <1>7, <1>8
    <3> QED
      BY <3>1, <3>2, <3>3, <3>4, <3>5, <3>6, <3>7, <1>4, <1>5, CutStep
  <2> QED
    BY <2>1, <2>2
<1>17. TypeOK'
  <2>1. OpenFiles' \in Pointer
    BY <1>2, <1>9
  <2>2. FreeFiles' \in Pointer
    <3>1. k # n => n \in 1..n
      BY <1>6
    <3> QED
      BY <3>1, <1>2, <1>5, <1>6, <1>9 DEF Pointer
  <2>3. fd' \in [Slots -> Fds \cup {NoFd}] /\ fsFile' \in [Fds -> FileIds \cup {NoFile}]
    BY <1>2, <1>9
  <2>4. late' \in 0..MaxLate
    BY <1>3, DipFilesAssumption
  <2> QED
    BY <2>1, <2>2, <2>3, <2>4, <1>3, <1>15 DEF Inv, TypeOK
<1>18. Dropped
  <2>1. \A s \in Slots : fd'[s] # fd[s] => s \in E
    BY <1>2, <1>9
  <2>2. \A s \in Slots : fd'[s] # fd[s] => \E i \in (k + 1)..Len(c) : c[i] = s
    BY <2>1, <1>2
  <2>3. late' = 0 /\ UNCHANGED <<fileid, lastaccess, now>>
    BY <1>3
  <2>4. PICK p \in Chains : IsChain(OpenFiles, p)' /\ Kept(p, c, k)
    BY <1>16
  <2> QED
    BY <2>2, <2>3, <2>4, <1>1, <1>20 DEF Dropped
<1> QED
  BY <1>3, <1>10, <1>16, <1>17, <1>18 DEF Inv, RightFile

LEMMA NextInv ==
  ASSUME Inv, [Next]_vars
  PROVE  Inv'
<1>1. CASE Tick
  <2>1. now' \in 0..(ClockMod - 1)
    <3>1. now \in Nat /\ ClockMod \in Nat \ {0}
      BY DipFilesAssumption DEF Inv, TypeOK
    <3>2. (now + 1) % ClockMod \in 0..(ClockMod - 1)
      BY <3>1
    <3> QED
      BY <3>2, <1>1 DEF Tick
  <2>2. late' \in 0..MaxLate
    BY <1>1, DipFilesAssumption DEF Tick, Inv, TypeOK
  <2>3. UNCHANGED <<pool, fsFile, served>>
    BY <1>1 DEF Tick
  <2>4. TypeOK' /\ RightFile' /\ FilesOK(fd, fsFile, fileid)'
    BY <2>1, <2>2, <2>3 DEF Inv, TypeOK, RightFile, FilesOK, pool
  <2>5. SlotsPartitioned'
    BY <2>3 DEF Inv, SlotsPartitioned, Partition, IsChain, pool
  <2> QED
    BY <2>4, <2>5 DEF Inv
<1>2. CASE UNCHANGED vars
  <2>1. TypeOK' /\ RightFile' /\ FilesOK(fd, fsFile, fileid)'
    BY <1>2 DEF Inv, TypeOK, RightFile, FilesOK, vars, pool
  <2>2. SlotsPartitioned'
    BY <1>2 DEF Inv, SlotsPartitioned, Partition, IsChain, vars, pool
  <2> QED
    BY <2>1, <2>2 DEF Inv
<1>3. CASE IdleCheck
  BY <1>3, IdleCheckInv
<1>4. ASSUME NEW id \in FileIds, Read(id) PROVE Inv'
  BY <1>4, ReadOpenFileInv, ReadNewFileInv, ReadFailedInv DEF Read
<1> QED
  BY <1>1, <1>2, <1>3, <1>4 DEF Next

LEMMA Invariance == Spec => []Inv
<1>1. Inv /\ [Next]_vars => Inv'
  BY NextInv
<1> QED
  BY <1>1, InitInv, PTL DEF Spec

-----------------------------------------------------------------------------
\* Every pointer GetFile, ReadFile and the idle check follow is a slot or the
\* end of a list: no reachable state takes them through NULL.
THEOREM TypeCorrect == Spec => []TypeOK
<1>1. Inv => TypeOK
  BY DEF Inv
<1> QED
  BY <1>1, Invariance, PTL

\* The two lists partition the slots of DIP::OpenFiles and DIP::FreeFiles.
THEOREM ListsIntact == Spec => []SlotsPartitioned
<1>1. Inv => SlotsPartitioned
  BY DEF Inv
<1> QED
  BY <1>1, Invariance, PTL

\* Every descriptor is closed exactly when its slot is given up.
THEOREM NoLeak == Spec => []DescriptorsMatch
<1>1. Inv => DescriptorsMatch
  BY DEF Inv, FilesOK, DescriptorsMatch
<1> QED
  BY <1>1, Invariance, PTL

\* GetFile opens no file that is open already.
THEOREM NeverTwice == Spec => []OpenedOnce
<1>1. Inv => OpenedOnce
  BY DEF Inv, FilesOK, OpenedOnce
<1> QED
  BY <1>1, Invariance, PTL

\* ReadFile reads from the file of the patch, or from none.
THEOREM ReadsRightFile == Spec => []RightFile
<1>1. Inv => RightFile
  BY DEF Inv
<1> QED
  BY <1>1, Invariance, PTL

-----------------------------------------------------------------------------
(* What each step does, by cases *)

\* Nothing else happens to the lists.
LEMMA NextCases ==
  ASSUME Inv, [Next]_vars
  PROVE  \/ \E id \in FileIds : Reused(id) \/ Added(id) \/ Refused(id)
         \/ Dropped
         \/ Tick
         \/ UNCHANGED vars
BY ReadOpenFileInv, ReadNewFileInv, ReadFailedInv, IdleCheckInv DEF Next, Read

-----------------------------------------------------------------------------
(* The order of the open list *)

\* A file was read within the timeout, and the delay of the next check so far.
Ordered(c) ==
  \A i \in 1..Len(c) :
    /\ Age(c[i]) < Timeout + late
    /\ i > 1 => Age(c[i - 1]) <= Age(c[i])
InOrder == \E c \in Chains : IsChain(OpenFiles, c) /\ Ordered(c)

\* One turn of the clock at most.
LEMMA SmallRemainder ==
  ASSUME NEW C \in Nat \ {0}, NEW x \in Int, -C < x, x < C
  PROVE  x % C = IF x < 0 THEN x + C ELSE x
<1>1. (x % C) \in 0..(C - 1) /\ x = C * (x \div C) + (x % C)
  OBVIOUS
<1>2. PICK q \in Int : x = C * q + (x % C)
  <2>1. x \div C \in Int
    OBVIOUS
  <2> QED
    BY <1>1, <2>1
<1>3. PICK r \in 0..(C - 1) : r = (x % C)
  BY <1>1
<1>4. x = C * q + r
  BY <1>2, <1>3
<1>5. q > 0 => C * q >= C
  OBVIOUS
<1>6. q < -1 => C * q <= -2 * C
  OBVIOUS
<1>7. q = 0 => C * q = 0
  OBVIOUS
<1>8. q = -1 => C * q = -C
  OBVIOUS
<1>9. q = 0 \/ q = -1
  BY <1>4, <1>5, <1>6
<1> QED
  BY <1>3, <1>4, <1>7, <1>8, <1>9

\* The age of a slot after the clock has gone on.
LEMMA AgeAfterTick ==
  ASSUME NEW C \in Nat \ {0}, NEW n \in 0..(C - 1), NEW a \in 0..(C - 1),
         ((n - a) % C) + 1 < C
  PROVE  (((n + 1) % C) - a) % C = ((n - a) % C) + 1
<1>1. (n - a) % C = IF n - a < 0 THEN n - a + C ELSE n - a
  <2>1. n - a \in Int /\ -C < n - a /\ n - a < C
    OBVIOUS
  <2> QED
    BY <2>1, SmallRemainder
<1>2. (n + 1) % C = IF n + 1 = C THEN 0 ELSE n + 1
  <2>1. CASE n + 1 = C
    <3>1. n + 1 = C * 1 + 0
      BY <2>1
    <3>2. C % C = 0
      OBVIOUS
    <3> QED
      BY <2>1, <3>2
  <2>2. CASE n + 1 # C
    BY <2>2, SmallRemainder
  <2> QED
    BY <2>1, <2>2
<1>3. PICK m \in 0..(C - 1) : m = (n + 1) % C
  BY <1>2
<1>4. (m - a) % C = IF m - a < 0 THEN m - a + C ELSE m - a
  <2>1. m - a \in Int /\ -C < m - a /\ m - a < C
    OBVIOUS
  <2> QED
    BY <2>1, SmallRemainder
<1>5. CASE n + 1 = C
  BY <1>1, <1>2, <1>3, <1>4, <1>5
<1>6. CASE n + 1 # C
  BY <1>1, <1>2, <1>3, <1>4, <1>6
<1> QED
  BY <1>5, <1>6

\* Ages are times of the clock, and a slot that was just stamped is of age 0.
LEMMA ZeroAge ==
  ASSUME Inv
  PROVE  /\ \A s \in Slots : Age(s) \in 0..(ClockMod - 1)
         /\ (now - now) % ClockMod = 0
<1>1. ClockMod \in Nat \ {0} /\ now \in 0..(ClockMod - 1) /\ lastaccess \in [Slots -> 0..(ClockMod - 1)]
  BY DipFilesAssumption DEF Inv, TypeOK
<1>2. \A s \in Slots : Age(s) \in 0..(ClockMod - 1)
  <2> TAKE s \in Slots
  <2>1. now - lastaccess[s] \in Int
    BY <1>1
  <2> QED
    BY <1>1, <2>1 DEF Age
<1>3. now - now = 0 /\ 0 % ClockMod = 0
  BY <1>1
<1> QED
  BY <1>2, <1>3

\* The slots of c have ages below L, and do not get younger along the list.
Sorted(V, L, c) ==
  \A j \in 1..Len(c) : V[c[j]] \in Nat /\ V[c[j]] < L /\ (j > 1 => V[c[j - 1]] <= V[c[j]])
SameButAt(A, B, c, i) == \A j \in 1..Len(c) : j # i => B[c[j]] = A[c[j]]

\* A file that was just read is put in front of others that keep their order.
LEMMA FrontOrdered ==
  ASSUME NEW A, NEW B, NEW L \in Nat \ {0}, NEW c \in Chains, NEW p \in Chains, NEW i \in Nat,
         Sorted(A, L, c),
         \/ Pushed(p, c, p[1]) /\ i = 0
         \/ i \in 1..Len(c) /\ Moved(p, c, i),
         B[p[1]] = 0, SameButAt(A, B, c, i)
  PROVE  Sorted(B, L, p)
<1>1. Len(c) \in Nat /\ Len(p) \in Nat
  BY ChainType, DipFilesAssumption
<1>2. ASSUME NEW n \in Nat, n = Len(c), NEW m \in Nat, m = Len(p)
      PROVE  \A j \in 1..m : B[p[j]] \in Nat /\ B[p[j]] < L /\ (j > 1 => B[p[j - 1]] <= B[p[j]])
  <2>0. \A j \in 1..n : A[c[j]] \in Nat /\ A[c[j]] < L /\ (j > 1 => A[c[j - 1]] <= A[c[j]])
    BY <1>2 DEF Sorted
  <2>3. \A j \in 1..n : j # i => B[c[j]] = A[c[j]]
    BY <1>2 DEF SameButAt
  <2>1. CASE Pushed(p, c, p[1]) /\ i = 0
    <3>1. m = n + 1 /\ \A j \in 1..n : p[j + 1] = c[j]
      BY <2>1, <1>2 DEF Pushed
    <3>2. \A j \in 1..m : j # 1 => j - 1 \in 1..n /\ p[j] = c[j - 1] /\ B[c[j - 1]] = A[c[j - 1]]
      <4> TAKE j \in 1..m
      <4> SUFFICES ASSUME j # 1 PROVE j - 1 \in 1..n /\ p[j] = c[j - 1] /\ B[c[j - 1]] = A[c[j - 1]]
        OBVIOUS
      <4>1. j - 1 \in 1..n /\ j - 1 + 1 = j /\ j - 1 # i
        BY <2>1, <3>1
      <4>2. p[j - 1 + 1] = c[j - 1]
        BY <4>1, <3>1
      <4> QED
        BY <4>1, <4>2, <2>3
    <3> TAKE j \in 1..m
    <3>3. CASE j = 1
      BY <3>3
    <3>4. CASE j = 2
      <4>1. j - 1 = 1 /\ j - 1 \in 1..n
        BY <3>4, <3>1
      <4> QED
        BY <3>4, <4>1, <3>2, <2>0
    <3>5. CASE j > 2
      <4>1. j # 1 /\ j - 1 # 1 /\ j - 1 \in 1..m /\ j - 1 > 1
        BY <3>5
      <4>2. A[c[j - 1 - 1]] <= A[c[j - 1]] /\ A[c[j - 1]] \in Nat /\ A[c[j - 1]] < L
        BY <4>1, <3>2, <2>0
      <4> QED
        BY <4>1, <4>2, <3>2
    <3> QED
      BY <3>3, <3>4, <3>5
  <2>2. CASE i \in 1..Len(c) /\ Moved(p, c, i)
    <3>1. /\ i \in 1..n /\ m = n
          /\ \A j \in 1..(i - 1) : p[j + 1] = c[j]
          /\ \A j \in (i + 1)..n : p[j] = c[j]
      BY <2>2, <1>2 DEF Moved
    <3>2. \A j \in 2..i : j - 1 \in 1..n /\ p[j] = c[j - 1] /\ B[c[j - 1]] = A[c[j - 1]]
      <4> TAKE j \in 2..i
      <4>1. j - 1 \in 1..(i - 1) /\ j - 1 \in 1..n /\ j - 1 + 1 = j /\ j - 1 # i
        BY <3>1
      <4>2. p[j - 1 + 1] = c[j - 1]
        BY <4>1, <3>1
      <4> QED
        BY <4>1, <4>2, <2>3
    <3>3. \A j \in (i + 1)..n : p[j] = c[j] /\ B[c[j]] = A[c[j]] /\ j \in 1..n
      BY <3>1, <2>3
    <3>4. \A j \in (i + 1)..n : j > i + 1 => j - 1 \in (i + 1)..n
      BY <3>1
    <3>5. i > 1 => i \in 2..i /\ A[c[i - 1]] <= A[c[i]] /\ A[c[i]] \in Nat /\ A[c[i - 1]] \in Nat
      <4> SUFFICES ASSUME i > 1 PROVE i \in 2..i /\ i - 1 \in 1..n
        BY <2>0, <3>1
      <4> QED
        BY <3>1
    <3> TAKE j \in 1..m
    <3>6. CASE j = 1
      BY <3>6
    <3>7. CASE j \in 2..i
      <4>1. A[c[j - 1]] \in Nat /\ A[c[j - 1]] < L
        BY <3>7, <3>2, <2>0
      <4>2. CASE j = 2
        <5>1. j - 1 = 1
          BY <4>2
        <5> QED
          BY <4>1, <5>1, <3>2, <3>7
      <4>3. CASE j # 2
        <5>1. j - 1 \in 2..i /\ j - 1 > 1 /\ j - 1 \in 1..n
          BY <3>7, <4>3, <3>1
        <5>2. A[c[j - 1 - 1]] <= A[c[j - 1]]
          BY <5>1, <2>0
        <5> QED
          BY <4>1, <5>1, <5>2, <3>2, <3>7
      <4> QED
        BY <4>2, <4>3
    <3>8. CASE j \in (i + 1)..n
      <4>1. B[p[j]] = A[c[j]] /\ A[c[j]] \in Nat /\ A[c[j]] < L /\ A[c[j - 1]] <= A[c[j]]
        <5>1. j \in 1..n /\ j > 1
          BY <3>8, <3>1
        <5> QED
          BY <5>1, <3>8, <3>3, <2>0
      <4>2. CASE j = i + 1
        <5>1. j - 1 = i
          BY <4>2, <3>1
        <5>2. CASE i = 1
          BY <4>1, <5>1, <5>2
        <5>3. CASE i > 1
          <6>1. B[p[i]] = A[c[i - 1]] /\ A[c[i - 1]] <= A[c[i]] /\ A[c[i]] \in Nat /\ A[c[i - 1]] \in Nat
            BY <5>3, <3>5, <3>2
          <6> QED
            BY <4>1, <5>1, <6>1
        <5> QED
          BY <5>2, <5>3, <3>1
      <4>3. CASE j # i + 1
        <5>1. j - 1 \in (i + 1)..n
          BY <3>8, <4>3, <3>1
        <5>2. B[p[j - 1]] = A[c[j - 1]]
          BY <5>1, <3>3
        <5> QED
          BY <4>1, <5>2
      <4> QED
        BY <4>2, <4>3
    <3> QED
      BY <3>1, <3>6, <3>7, <3>8
  <2> QED
    BY <2>1, <2>2, <1>2
<1> QED
  BY <1>1, <1>2 DEF Sorted

\* The sequence that the pointers of the open list spell.
LEMMA OpenList ==
  ASSUME Inv, NEW c \in Chains, IsChain(OpenFiles, c)
  PROVE  /\ Len(c) \in Nat /\ Len(c) <= MaxOpenFiles /\ c \in [1..Len(c) -> Slots]
         /\ \A i, j \in 1..Len(c) : c[i] = c[j] => i = j
         /\ \A i \in 1..Len(c) : fd[c[i]] # NoFd
         /\ \A s \in Slots : fd[s] # NoFd => \E i \in 1..Len(c) : c[i] = s
<1>1. PICK o, f \in Chains : Partition(o, f)
  BY DEF Inv, SlotsPartitioned
<1>2. o = c
  BY <1>1, ChainUnique DEF Partition
<1>3. Len(c) \in 0..MaxOpenFiles /\ c \in [1..Len(c) -> Slots] /\ MaxOpenFiles \in Nat
  BY ChainType, DipFilesAssumption
<1>4. /\ \A i, j \in 1..Len(c) : c[i] = c[j] => i = j
      /\ \A i \in 1..Len(c) : fd[c[i]] # NoFd
      /\ \A i \in 1..Len(f) : fd[f[i]] = NoFd
      /\ \A s \in Slots : (\E i \in 1..Len(c) : c[i] = s) \/ (\E i \in 1..Len(f) : f[i] = s)
  BY <1>1, <1>2 DEF Partition
<1>5. \A s \in Slots : fd[s] # NoFd => \E i \in 1..Len(c) : c[i] = s
  BY <1>4
<1> QED
  BY <1>3, <1>4, <1>5

\* A read stamps the slot it puts in front, and no other.
LEMMA ReadKeepsOrder ==
  ASSUME Inv, NEW c \in Chains, IsChain(OpenFiles, c), Ordered(c),
         NEW p \in Chains, IsChain(OpenFiles, p)', NEW s \in Slots,
         \/ \E i \in 1..Len(c) : Moved(p, c, i) /\ s = c[i]
         \/ Pushed(p, c, s) /\ \A j \in 1..Len(c) : c[j] # s,
         lastaccess' = [lastaccess EXCEPT ![s] = now], now' = now, late' = late
  PROVE  InOrder'
<1>1. PICK A : A = [t \in Slots |-> Age(t)]
  OBVIOUS
<1>2. PICK B : B = [t \in Slots |-> (now' - lastaccess'[t]) % ClockMod]
  OBVIOUS
<1>3. \A t \in Slots : A[t] = Age(t) /\ Age(t) \in Nat /\ (t # s => B[t] = A[t]) /\ B[s] = 0
  <2>1. lastaccess \in [Slots -> 0..(ClockMod - 1)] /\ ClockMod \in Nat \ {0}
    BY DipFilesAssumption DEF Inv, TypeOK
  <2>2. lastaccess'[s] = now /\ \A t \in Slots : t # s => lastaccess'[t] = lastaccess[t]
    BY <2>1
  <2>3. \A t \in Slots : t # s => B[t] = Age(t)
    BY <1>2, <2>2 DEF Age
  <2>4. B[s] = (now - now) % ClockMod
    BY <1>2, <2>2
  <2> QED
    BY <1>1, <2>1, <2>3, <2>4, ZeroAge
<1>4. PICK L \in Nat \ {0} : L = Timeout + late
  BY DipFilesAssumption DEF Inv, TypeOK
<1>5. Len(c) \in Nat /\ c \in [1..Len(c) -> Slots] /\ \A i, j \in 1..Len(c) : c[i] = c[j] => i = j
  BY OpenList
<1>6. Sorted(A, L, c)
  <2> SUFFICES ASSUME NEW j \in 1..Len(c)
               PROVE  A[c[j]] \in Nat /\ A[c[j]] < L /\ (j > 1 => A[c[j - 1]] <= A[c[j]])
    BY DEF Sorted
  <2>1. c[j] \in Slots /\ (j > 1 => j - 1 \in 1..Len(c))
    BY <1>5
  <2>2. j > 1 => c[j - 1] \in Slots
    BY <2>1, <1>5
  <2> QED
    BY <2>1, <2>2, <1>3, <1>4 DEF Ordered
<1>7. p[1] = s /\ \E i \in Nat :
        /\ \/ Pushed(p, c, p[1]) /\ i = 0
           \/ i \in 1..Len(c) /\ Moved(p, c, i)
        /\ SameButAt(A, B, c, i)
  <2>1. CASE \E i \in 1..Len(c) : Moved(p, c, i) /\ s = c[i]
    <3>1. PICK i \in 1..Len(c) : Moved(p, c, i) /\ s = c[i]
      BY <2>1
    <3>2. p[1] = s /\ i \in Nat
      BY <3>1, <1>5 DEF Moved
    <3>3. \A j \in 1..Len(c) : j # i => c[j] # s /\ c[j] \in Slots
      BY <3>1, <1>5
    <3> QED
      BY <3>1, <3>2, <3>3, <1>3 DEF SameButAt
  <2>2. CASE Pushed(p, c, s) /\ \A j \in 1..Len(c) : c[j] # s
    <3>1. p[1] = s
      BY <2>2 DEF Pushed
    <3>2. \A j \in 1..Len(c) : c[j] # s /\ c[j] \in Slots
      BY <2>2, <1>5
    <3> QED
      BY <2>2, <3>1, <3>2, <1>3 DEF SameButAt
  <2> QED
    BY <2>1, <2>2
<1>8. PICK i \in Nat :
        /\ \/ Pushed(p, c, p[1]) /\ i = 0
           \/ i \in 1..Len(c) /\ Moved(p, c, i)
        /\ SameButAt(A, B, c, i)
  BY <1>7
<1>9. Sorted(B, L, p)
  <2>1. B[p[1]] = 0
    BY <1>3, <1>7
  <2> QED
    BY <1>6, <1>8, <2>1, FrontOrdered
<1>10. Len(p) \in Nat /\ p \in [1..Len(p) -> Slots]
  BY ChainType, DipFilesAssumption
<1>11. \A j \in 1..Len(p) :
         /\ B[p[j]] = (now' - lastaccess'[p[j]]) % ClockMod
         /\ j > 1 => B[p[j - 1]] = (now' - lastaccess'[p[j - 1]]) % ClockMod
  <2> TAKE j \in 1..Len(p)
  <2>1. p[j] \in Slots /\ (j > 1 => j - 1 \in 1..Len(p))
    BY <1>10
  <2>2. j > 1 => p[j - 1] \in Slots
    BY <2>1, <1>10
  <2> QED
    BY <2>1, <2>2, <1>2
<1>12. Ordered(p)'
  BY <1>4, <1>9, <1>11 DEF Sorted, Ordered, Age
<1> QED
  BY <1>12 DEF InOrder

\* Every step keeps the order; a tick cannot make an age wrap.
LEMMA OrderStep ==
  ASSUME Inv, InOrder, [Next]_vars
  PROVE  InOrder'
<1>1. PICK o \in Chains : IsChain(OpenFiles, o) /\ Ordered(o)
  BY DEF InOrder
<1>2. \A c \in Chains : IsChain(OpenFiles, c) => Ordered(c)
  BY <1>1, ChainUnique
<1>3. ASSUME NEW id \in FileIds, Reused(id) PROVE InOrder'
  <2>1. PICK c, p \in Chains : IsChain(OpenFiles, c) /\ IsChain(OpenFiles, p)' /\
          \E i \in 1..Len(c) :
            /\ fileid[c[i]] = id /\ Moved(p, c, i)
            /\ lastaccess' = [lastaccess EXCEPT ![c[i]] = now]
            /\ UNCHANGED <<fd, fileid, now, late>>
    BY <1>3 DEF Reused
  <2>2. PICK i \in 1..Len(c) :
          /\ fileid[c[i]] = id /\ Moved(p, c, i)
          /\ lastaccess' = [lastaccess EXCEPT ![c[i]] = now]
          /\ UNCHANGED <<fd, fileid, now, late>>
    BY <2>1
  <2>3. c[i] \in Slots
    BY <2>1, OpenList
  <2> QED
    BY <1>2, <2>1, <2>2, <2>3, ReadKeepsOrder
<1>4. ASSUME NEW id \in FileIds, Added(id) PROVE InOrder'
  <2>1. PICK c, p \in Chains : IsChain(OpenFiles, c) /\ IsChain(OpenFiles, p)' /\
          \E s \in Slots :
            /\ \/ Len(c) < MaxOpenFiles /\ Pushed(p, c, s) /\ fd[s] = NoFd
               \/ Len(c) = MaxOpenFiles /\ Moved(p, c, Len(c)) /\ s = c[Len(c)]
            /\ lastaccess' = [lastaccess EXCEPT ![s] = now]
            /\ UNCHANGED <<now, late>>
    BY <1>4 DEF Added
  <2>2. PICK s \in Slots :
            /\ \/ Len(c) < MaxOpenFiles /\ Pushed(p, c, s) /\ fd[s] = NoFd
               \/ Len(c) = MaxOpenFiles /\ Moved(p, c, Len(c)) /\ s = c[Len(c)]
            /\ lastaccess' = [lastaccess EXCEPT ![s] = now]
            /\ UNCHANGED <<now, late>>
    BY <2>1
  <2>3. fd[s] = NoFd => \A j \in 1..Len(c) : c[j] # s
    BY <2>1, OpenList
  <2>4. Len(c) = MaxOpenFiles => Len(c) \in 1..Len(c)
    BY DipFilesAssumption
  <2>5. \/ \E i \in 1..Len(c) : Moved(p, c, i) /\ s = c[i]
        \/ Pushed(p, c, s) /\ \A j \in 1..Len(c) : c[j] # s
    BY <2>2, <2>3, <2>4
  <2>6. Ordered(c)
    BY <1>2, <2>1
  <2> QED
    BY <2>1, <2>2, <2>5, <2>6, ReadKeepsOrder
<1>5. ASSUME NEW id \in FileIds, Refused(id) PROVE InOrder'
  <2>1. PICK c, p \in Chains : IsChain(OpenFiles, c) /\ IsChain(OpenFiles, p)' /\
          /\ Kept(p, c, Len(c)) \/ Kept(p, c, Len(c) - 1)
          /\ UNCHANGED <<lastaccess, now, late>>
    BY <1>5 DEF Refused
  <2>2. Len(c) \in Nat /\ Len(p) \in Nat /\ Len(p) <= Len(c) /\ \A j \in 1..Len(p) : p[j] = c[j]
    <3>1. Len(c) \in Nat /\ Len(p) \in Nat
      BY ChainType, DipFilesAssumption
    <3> QED
      BY <2>1, <3>1 DEF Kept
  <2>3. \A j \in 1..Len(p) : j \in 1..Len(c) /\ (j > 1 => p[j - 1] = c[j - 1])
    BY <2>2
  <2>4. Ordered(c)
    BY <1>2, <2>1
  <2>5. Ordered(p)'
    BY <2>1, <2>2, <2>3, <2>4 DEF Ordered, Age
  <2> QED
    BY <2>1, <2>5 DEF InOrder
<1>6. CASE Dropped
  <2>1. PICK c, p \in Chains : IsChain(OpenFiles, c) /\ IsChain(OpenFiles, p)' /\
          \E k \in 0..Len(c) :
            /\ Kept(p, c, k)
            /\ \A i \in 1..k : Age(c[i]) < Timeout
            /\ late' = 0 /\ UNCHANGED <<fileid, lastaccess, now>>
    BY <1>6 DEF Dropped
  <2>2. PICK k \in 0..Len(c) :
            /\ Kept(p, c, k)
            /\ \A i \in 1..k : Age(c[i]) < Timeout
            /\ late' = 0 /\ UNCHANGED <<fileid, lastaccess, now>>
    BY <2>1
  <2>3. Len(c) \in Nat /\ Len(p) = k /\ \A j \in 1..k : p[j] = c[j]
    <3>1. Len(c) \in Nat
      BY ChainType, DipFilesAssumption
    <3> QED
      BY <2>2, <3>1 DEF Kept
  <2>4. \A j \in 1..k : j \in 1..Len(c) /\ (j > 1 => j - 1 \in 1..k /\ p[j - 1] = c[j - 1])
    BY <2>3
  <2>5. Ordered(c)
    BY <1>2, <2>1
  <2>6. Timeout + 0 = Timeout
    BY DipFilesAssumption
  <2>7. Ordered(p)'
    BY <2>2, <2>3, <2>4, <2>5, <2>6 DEF Ordered, Age
  <2> QED
    BY <2>1, <2>7 DEF InOrder
<1>7. CASE Tick
  <2>1. /\ ClockMod \in Nat \ {0} /\ Timeout \in Nat /\ MaxLate \in Nat /\ Timeout + MaxLate < ClockMod
        /\ now \in 0..(ClockMod - 1) /\ late \in 0..MaxLate /\ late < MaxLate
        /\ lastaccess \in [Slots -> 0..(ClockMod - 1)]
    BY <1>7, DipFilesAssumption DEF Inv, TypeOK, Tick
  <2>2. /\ now' = (now + 1) % ClockMod /\ late' = late + 1 /\ lastaccess' = lastaccess
        /\ OpenFiles' = OpenFiles /\ next' = next
    BY <1>7 DEF Tick, pool
  <2>3. Len(o) \in Nat /\ o \in [1..Len(o) -> Slots]
    BY ChainType, DipFilesAssumption
  <2>4. \A j \in 1..Len(o) : Age(o[j])' = Age(o[j]) + 1 /\ Age(o[j]) \in Nat
    <3> TAKE j \in 1..Len(o)
    <3>1. o[j] \in Slots /\ lastaccess[o[j]] \in 0..(ClockMod - 1)
      BY <2>1, <2>3
    <3>2. Age(o[j]) \in Nat /\ Age(o[j]) < Timeout + late
      BY <1>1, <3>1, ZeroAge DEF Ordered
    <3>3. ((now - lastaccess[o[j]]) % ClockMod) + 1 < ClockMod
      BY <2>1, <3>2 DEF Age
    <3>4. (((now + 1) % ClockMod) - lastaccess[o[j]]) % ClockMod = ((now - lastaccess[o[j]]) % ClockMod) + 1
      BY <2>1, <3>1, <3>3, AgeAfterTick
    <3> QED
      BY <3>2, <3>4, <2>2 DEF Age
  <2>5. \A j \in 1..Len(o) : j > 1 => j - 1 \in 1..Len(o)
    BY <2>3
  <2>6. \A j \in 1..Len(o) : Age(o[j])' < Timeout + late'
    BY <1>1, <2>1, <2>2, <2>4 DEF Ordered
  <2>7. \A j \in 1..Len(o) : j > 1 => Age(o[j - 1])' <= Age(o[j])'
    <3> TAKE j \in 1..Len(o)
    <3> SUFFICES ASSUME j > 1 PROVE Age(o[j - 1])' <= Age(o[j])'
      OBVIOUS
    <3>1. Age(o[j - 1]) <= Age(o[j])
      BY <1>1 DEF Ordered
    <3>2. j - 1 \in 1..Len(o)
      BY <2>5
    <3> QED
      BY <2>4, <3>1, <3>2
  <2>8. Ordered(o)'
    BY <2>6, <2>7 DEF Ordered
  <2>9. IsChain(OpenFiles, o)'
    BY <1>1, <2>2 DEF IsChain
  <2> QED
    BY <2>8, <2>9 DEF InOrder
<1>8. CASE UNCHANGED vars
  <2>1. IsChain(OpenFiles, o)' /\ Ordered(o)'
    BY <1>1, <1>8 DEF IsChain, Ordered, Age, vars, pool
  <2> QED
    BY <2>1 DEF InOrder
<1> QED
  BY <1>3, <1>4, <1>5, <1>6, <1>7, <1>8, NextCases

LEMMA InitInOrder == Init => InOrder
<1> SUFFICES ASSUME Init PROVE InOrder
  OBVIOUS
<1> DEFINE none == [j \in 1..0 |-> 1]
<1>1. none \in Chains /\ Len(none) = 0
  <2>1. none \in [1..0 -> Slots] /\ 0 \in 0..MaxOpenFiles
    BY DipFilesAssumption
  <2> HIDE DEF none
  <2> QED
    BY <2>1, MakeChain
<1> HIDE DEF none
<1>2. IsChain(OpenFiles, none) /\ Ordered(none)
  BY <1>1 DEF Init, IsChain, Ordered
<1> QED
  BY <1>1, <1>2 DEF InOrder

LEMMA OrderInvariance == Spec => []InOrder
<1>1. Inv /\ InOrder /\ [Next]_vars => InOrder'
  BY OrderStep
<1> QED
  BY <1>1, InitInOrder, Invariance, PTL DEF Spec

\* A slot further back in the open list is at least as old.
LEMMA LaterIsOlder ==
  ASSUME Inv, NEW c \in Chains, IsChain(OpenFiles, c), Ordered(c),
         NEW i \in 1..Len(c)
  PROVE  \A j \in i..Len(c) : Age(c[i]) <= Age(c[j])
<1> DEFINE T == {j \in i..Len(c) : ~ (Age(c[i]) <= Age(c[j]))}
<1>1. Len(c) \in Nat /\ c \in [1..Len(c) -> Slots]
  BY OpenList
<1>2. \A j \in 1..Len(c) : Age(c[j]) \in Nat
  BY <1>1, ZeroAge, DipFilesAssumption
<1>3. SUFFICES ASSUME T # {} PROVE FALSE
  OBVIOUS
<1>4. PICK m \in T : \A k \in T : m <= k
  <2>1. T \subseteq Nat
    BY <1>1
  <2> QED
    BY <1>3, <2>1, LeastNat, Zenon
<1>5. m \in i..Len(c) /\ ~ (Age(c[i]) <= Age(c[m])) /\ m # i
  BY <1>1, <1>2, <1>4
<1>6. m - 1 \in i..Len(c) /\ m - 1 \notin T /\ m > 1 /\ m \in 1..Len(c) /\ m - 1 \in 1..Len(c)
  BY <1>1, <1>4, <1>5
<1>7. Age(c[i]) <= Age(c[m - 1])
  BY <1>6
<1>8. Age(c[m - 1]) <= Age(c[m])
  BY <1>6 DEF Ordered
<1> QED
  BY <1>2, <1>5, <1>6, <1>7, <1>8

\* What a step closes has expired, or was the last slot of a full list.
LEMMA ClosingStep ==
  ASSUME Inv, InOrder, [Next]_vars,
         NEW s \in Slots, fd[s] # NoFd, <<fd'[s], fileid'[s]>> # <<fd[s], fileid[s]>>
  PROVE  \/ Age(s) >= Timeout
         \/ \A t \in Slots : fd[t] # NoFd /\ Age(t) <= Age(s)
<1>1. \A c \in Chains : IsChain(OpenFiles, c) => Ordered(c)
  BY ChainUnique DEF InOrder
<1>2. ASSUME NEW c \in Chains, IsChain(OpenFiles, c), Len(c) = MaxOpenFiles, s = c[Len(c)]
      PROVE  \A t \in Slots : fd[t] # NoFd /\ Age(t) <= Age(s)
  <2>1. PICK f \in Chains : Partition(c, f)
    BY <1>2, ChainUnique DEF Inv, SlotsPartitioned, Partition
  <2>2. Len(c) + Len(f) = MaxOpenFiles /\ Len(f) \in Nat /\ MaxOpenFiles \in Nat
    BY <2>1, ChainType, DipFilesAssumption DEF Partition
  <2>3. \A t \in Slots : \E i \in 1..Len(c) : c[i] = t
    BY <1>2, <2>1, <2>2 DEF Partition
  <2>4. \A i \in 1..Len(c) : Len(c) \in i..Len(c)
    BY <1>2, <2>2
  <2>5. \A i \in 1..Len(c) : Age(c[i]) <= Age(s) /\ fd[c[i]] # NoFd
    BY <1>1, <1>2, <2>4, LaterIsOlder, OpenList
  <2> QED
    BY <2>3, <2>5
<1>3. ASSUME NEW id \in FileIds, Reused(id) PROVE FALSE
  BY <1>3 DEF Reused
<1>4. ASSUME NEW id \in FileIds, Added(id)
      PROVE  \A t \in Slots : fd[t] # NoFd /\ Age(t) <= Age(s)
  <2>1. PICK c \in Chains, t \in Slots :
           /\ IsChain(OpenFiles, c)
           /\ fd[t] = NoFd \/ (Len(c) = MaxOpenFiles /\ t = c[Len(c)])
           /\ \A u \in Slots : u # t => fd'[u] = fd[u] /\ fileid'[u] = fileid[u]
    BY <1>4 DEF Inv, TypeOK, Added
  <2>2. s = t
    BY <2>1
  <2> QED
    BY <1>2, <2>1, <2>2
<1>5. ASSUME NEW id \in FileIds, Refused(id)
      PROVE  \A t \in Slots : fd[t] # NoFd /\ Age(t) <= Age(s)
  <2>1. PICK c \in Chains :
           /\ IsChain(OpenFiles, c)
           /\ fileid' = fileid
           /\ fd' = fd \/ (Len(c) = MaxOpenFiles /\ \A u \in Slots : u # c[Len(c)] => fd'[u] = fd[u])
    BY <1>5 DEF Refused
  <2>2. Len(c) = MaxOpenFiles /\ s = c[Len(c)]
    BY <2>1
  <2> QED
    BY <1>2, <2>1, <2>2
<1>6. CASE Dropped
  <2>0. PICK c \in Chains : IsChain(OpenFiles, c) /\
           \E k \in 0..Len(c) :
             /\ k < Len(c) => Age(c[k + 1]) >= Timeout
             /\ \E i \in (k + 1)..Len(c) : c[i] = s
    <3>1. fd'[s] # fd[s]
      BY <1>6 DEF Dropped
    <3> QED
      BY <3>1, <1>6 DEF Dropped
  <2>1. PICK k \in 0..Len(c) :
           /\ k < Len(c) => Age(c[k + 1]) >= Timeout
           /\ \E i \in (k + 1)..Len(c) : c[i] = s
    BY <2>0
  <2>2. PICK i \in (k + 1)..Len(c) : c[i] = s
    BY <2>1
  <2>3. Len(c) \in Nat /\ c \in [1..Len(c) -> Slots]
    BY <2>0, OpenList
  <2>4. k < Len(c) /\ k + 1 \in 1..Len(c) /\ i \in 1..Len(c)
    BY <2>2, <2>3
  <2>5. Age(c[k + 1]) <= Age(s)
    <3>1. i \in (k + 1)..Len(c)
      BY <2>2
    <3>2. \A j \in (k + 1)..Len(c) : Age(c[k + 1]) <= Age(c[j])
      BY <1>1, <2>0, <2>4, LaterIsOlder
    <3> QED
      BY <2>2, <3>1, <3>2
  <2>6. Age(c[k + 1]) \in Nat /\ Age(s) \in Nat /\ Timeout \in Nat
    BY <2>3, <2>4, ZeroAge, DipFilesAssumption
  <2> QED
    BY <2>1, <2>4, <2>5, <2>6
<1>7. CASE Tick \/ UNCHANGED vars
  BY <1>7 DEF Tick, vars, pool
<1> QED
  BY <1>3, <1>4, <1>5, <1>6, <1>7, NextCases

\* "they're sorted": the idle check may stop at the first expired file, and
\* no file's age wraps before the check comes to it.
THEOREM SortedList == Spec => []SortedByAge
<1>1. Inv /\ InOrder => SortedByAge
  <2> SUFFICES ASSUME Inv, InOrder, NEW o \in Chains, IsChain(OpenFiles, o), NEW i \in 1..Len(o)
               PROVE  Age(o[i]) < Timeout + MaxLate /\ (i > 1 => Age(o[i - 1]) <= Age(o[i]))
    BY DEF SortedByAge
  <2>1. Ordered(o)
    BY ChainUnique DEF InOrder
  <2>2. Age(o[i]) < Timeout + late /\ (i > 1 => Age(o[i - 1]) <= Age(o[i]))
    BY <2>1 DEF Ordered
  <2>3. o[i] \in Slots
    BY OpenList
  <2>4. Age(o[i]) \in Nat /\ late \in 0..MaxLate /\ Timeout \in Nat /\ MaxLate \in Nat
    BY <2>3, ZeroAge, DipFilesAssumption DEF Inv, TypeOK
  <2> QED
    BY <2>2, <2>4
<1> QED
  BY <1>1, Invariance, OrderInvariance, PTL

\* GetFile and the idle check close no file that a game has used more recently
\* than one they leave open, unless it has expired.
THEOREM OldestIsClosed == Spec => ClosesOnlyOldest
<1>1. Inv /\ InOrder /\ [Next]_vars =>
        [\A s \in Slots : fd[s] # NoFd /\ <<fd'[s], fileid'[s]>> # <<fd[s], fileid[s]>> =>
           \/ Age(s) >= Timeout
           \/ \A t \in Slots : fd[t] # NoFd /\ Age(t) <= Age(s)]_vars
  BY ClosingStep
<1> QED
  BY <1>1, Invariance, OrderInvariance, PTL DEF Spec, ClosesOnlyOldest

-----------------------------------------------------------------------------
(* The table is an LRU list *)

\* OpenChain is the sequence the pointers spell, before a step and after it.
LEMMA OneOpenChain == \A c \in Chains : IsChain(OpenFiles, c) => OpenChain = c
BY ChainUnique DEF OpenChain

LEMMA OneOpenChainNext == (\A c \in Chains : IsChain(OpenFiles, c) => OpenChain = c)'
BY OneOpenChain, PTL

\* The files open in the slots of a list.
FilesIn(ids, c) == [i \in 1..Len(c) |-> ids[c[i]]]

LEMMA FilesInType ==
  ASSUME NEW c \in Chains, NEW ids \in [Slots -> FileIds \cup {NoFile}]
  PROVE  /\ FilesIn(ids, c) \in Seq(FileIds \cup {NoFile})
         /\ Len(FilesIn(ids, c)) = Len(c)
         /\ \A i \in 1..Len(c) : FilesIn(ids, c)[i] = ids[c[i]]
<1>1. Len(c) \in Nat /\ c \in [1..Len(c) -> Slots]
  BY ChainType, DipFilesAssumption
<1>2. ASSUME NEW n \in Nat, n = Len(c)
      PROVE  /\ [i \in 1..n |-> ids[c[i]]] \in Seq(FileIds \cup {NoFile})
             /\ Len([i \in 1..n |-> ids[c[i]]]) = n
  <2>1. \A i \in 1..n : ids[c[i]] \in FileIds \cup {NoFile}
    BY <1>1, <1>2
  <2> QED
    BY <2>1
<1> QED
  BY <1>1, <1>2 DEF FilesIn

LEMMA SameSeq ==
  ASSUME NEW S, NEW a \in Seq(S), NEW b \in Seq(S), Len(a) = Len(b),
         \A i \in 1..Len(a) : a[i] = b[i]
  PROVE  a = b
OBVIOUS

\* What SubSeq returns.
LEMMA Part ==
  ASSUME NEW S, NEW a \in Seq(S), NEW m \in 1..(Len(a) + 1), NEW n \in (m - 1)..Len(a)
  PROVE  /\ SubSeq(a, m, n) \in Seq(S) /\ Len(SubSeq(a, m, n)) = n - m + 1
         /\ \A j \in 1..(n - m + 1) : SubSeq(a, m, n)[j] = a[m + j - 1]
<1>1. \A j \in m..n : a[j] \in S
  OBVIOUS
<1>2. m \in Int /\ n \in Int
  OBVIOUS
<1>3. (IF m <= n THEN n - m + 1 ELSE 0) = n - m + 1
  OBVIOUS
<1> QED
  BY <1>1, <1>2, <1>3, SubSeqProperties

LEMMA Prefix ==
  ASSUME NEW S, NEW a \in Seq(S), NEW k \in 0..Len(a)
  PROVE  /\ SubSeq(a, 1, k) \in Seq(S) /\ Len(SubSeq(a, 1, k)) = k
         /\ \A j \in 1..k : SubSeq(a, 1, k)[j] = a[j]
<1>1. 1 \in 1..(Len(a) + 1) /\ k \in (1 - 1)..Len(a)
  OBVIOUS
<1>2. /\ SubSeq(a, 1, k) \in Seq(S) /\ Len(SubSeq(a, 1, k)) = k - 1 + 1
      /\ \A j \in 1..(k - 1 + 1) : SubSeq(a, 1, k)[j] = a[1 + j - 1]
  BY <1>1, Part, Zenon
<1>3. k - 1 + 1 = k /\ \A j \in 1..k : 1 + j - 1 = j
  OBVIOUS
<1> QED
  BY <1>2, <1>3

\* The three changes of the open list, seen in its files.
LEMMA FilesMoved ==
  ASSUME NEW c \in Chains, NEW p \in Chains, NEW i \in 1..Len(c), Moved(p, c, i),
         NEW ids \in [Slots -> FileIds \cup {NoFile}]
  PROVE  FilesIn(ids, p) = <<ids[c[i]]>> \o Lru!RemoveAt(FilesIn(ids, c), i)
<1>1. PICK a \in Seq(FileIds \cup {NoFile}) : a = FilesIn(ids, c)
  BY FilesInType
<1>2. PICK b \in Seq(FileIds \cup {NoFile}) : b = FilesIn(ids, p)
  BY FilesInType
<1>3. PICK n \in Nat : n = Len(c)
  BY ChainType, DipFilesAssumption
<1>4. /\ Len(a) = n /\ \A j \in 1..n : a[j] = ids[c[j]]
      /\ Len(b) = n /\ \A j \in 1..n : b[j] = ids[p[j]]
      /\ i \in 1..n /\ p[1] = c[i]
      /\ \A j \in 1..(i - 1) : p[j + 1] = c[j]
      /\ \A j \in (i + 1)..n : p[j] = c[j]
  BY <1>1, <1>2, <1>3, FilesInType DEF Moved
<1>5. PICK r : r = SubSeq(a, 1, i - 1) \o SubSeq(a, i + 1, n)
  OBVIOUS
<1>6. /\ r \in Seq(FileIds \cup {NoFile}) /\ Len(r) = n - 1
      /\ \A j \in 1..(i - 1) : r[j] = a[j]
      /\ \A j \in i..(n - 1) : r[j] = a[j + 1]
  <2>0. /\ 1 \in 1..(Len(a) + 1) /\ i - 1 \in (1 - 1)..Len(a) /\ i - 1 - 1 + 1 = i - 1
        /\ i + 1 \in 1..(Len(a) + 1) /\ n \in (i + 1 - 1)..Len(a) /\ n - (i + 1) + 1 = n - i
    BY <1>4
  <2>1. PICK u \in Seq(FileIds \cup {NoFile}) :
           u = SubSeq(a, 1, i - 1) /\ Len(u) = i - 1 /\ \A j \in 1..(i - 1) : u[j] = a[j]
    <3>0. PICK k : k = i - 1
      OBVIOUS
    <3>1. k \in 0..Len(a)
      BY <3>0, <1>4
    <3>2. /\ SubSeq(a, 1, k) \in Seq(FileIds \cup {NoFile}) /\ Len(SubSeq(a, 1, k)) = k
          /\ \A j \in 1..k : SubSeq(a, 1, k)[j] = a[j]
      BY <3>1, Prefix, Zenon
    <3> QED
      BY <3>0, <3>2, Zenon
  <2>2. PICK v \in Seq(FileIds \cup {NoFile}) :
           v = SubSeq(a, i + 1, n) /\ Len(v) = n - i /\ \A j \in 1..(n - i) : v[j] = a[i + 1 + j - 1]
    <3>0. PICK m : m = i + 1
      OBVIOUS
    <3>1. m \in 1..(Len(a) + 1) /\ n \in (m - 1)..Len(a)
      BY <2>0, <3>0
    <3>2. /\ SubSeq(a, m, n) \in Seq(FileIds \cup {NoFile})
          /\ Len(SubSeq(a, m, n)) = n - m + 1
          /\ \A j \in 1..(n - m + 1) : SubSeq(a, m, n)[j] = a[m + j - 1]
      BY <3>1, Part, Zenon
    <3> QED
      BY <2>0, <3>0, <3>2, Zenon
  <2>3. Len(u) = i - 1 /\ \A j \in 1..(i - 1) : u[j] = a[j]
    BY <1>4, <2>1
  <2>4. Len(v) = n - i /\ \A j \in 1..(n - i) : v[j] = a[i + j]
    BY <1>4, <2>2
  <2>5. r = u \o v
    BY <1>5, <2>1, <2>2
  <2>6. /\ r \in Seq(FileIds \cup {NoFile}) /\ Len(r) = Len(u) + Len(v)
        /\ \A j \in 1..Len(u) : r[j] = u[j]
        /\ \A j \in (Len(u) + 1)..(Len(u) + Len(v)) : r[j] = v[j - Len(u)]
    BY <2>5
  <2>7. \A j \in i..(n - 1) : r[j] = a[j + 1]
    <3> TAKE j \in i..(n - 1)
    <3>1. j \in (Len(u) + 1)..(Len(u) + Len(v)) /\ j - Len(u) = j - (i - 1) /\ j - (i - 1) \in 1..(n - i)
      BY <1>4, <2>3, <2>4
    <3>2. r[j] = v[j - (i - 1)] /\ v[j - (i - 1)] = a[i + (j - (i - 1))]
      BY <3>1, <2>4, <2>6
    <3>3. i + (j - (i - 1)) = j + 1
      BY <1>4
    <3> QED
      BY <3>2, <3>3
  <2> QED
    BY <1>4, <2>3, <2>4, <2>6, <2>7
<1>7. PICK w : w = <<ids[c[i]]>> \o r
  OBVIOUS
<1>8. /\ w \in Seq(FileIds \cup {NoFile}) /\ Len(w) = n
      /\ w[1] = ids[c[i]] /\ \A j \in 2..n : w[j] = r[j - 1]
  <2>1. ids[c[i]] \in FileIds \cup {NoFile}
    BY ChainType
  <2>2. PICK x \in FileIds \cup {NoFile} : x = ids[c[i]]
    BY <2>1
  <2>3. w = <<x>> \o r
    BY <1>7, <2>2
  <2>4. /\ w \in Seq(FileIds \cup {NoFile}) /\ Len(w) = 1 + Len(r)
        /\ w[1] = x /\ \A j \in 2..(1 + Len(r)) : w[j] = r[j - 1]
    BY <2>3, <1>6
  <2> QED
    BY <1>4, <1>6, <2>2, <2>4
<1>9. \A j \in 1..n : b[j] = w[j]
  <2> TAKE j \in 1..n
  <2>1. CASE j = 1
    BY <2>1, <1>4, <1>8
  <2>2. CASE j \in 2..i
    <3>1. j - 1 \in 1..(i - 1) /\ j - 1 + 1 = j /\ j \in 2..n /\ j - 1 \in 1..n
      BY <2>2, <1>4
    <3>2. p[j - 1 + 1] = c[j - 1] /\ w[j] = r[j - 1] /\ r[j - 1] = a[j - 1] /\ a[j - 1] = ids[c[j - 1]]
      BY <3>1, <1>4, <1>6, <1>8
    <3> QED
      BY <3>1, <3>2, <1>4
  <2>3. CASE j \in (i + 1)..n
    <3>1. j - 1 \in i..(n - 1) /\ j - 1 + 1 = j /\ j \in 2..n
      BY <2>3, <1>4
    <3>2. w[j] = r[j - 1] /\ r[j - 1] = a[j - 1 + 1] /\ p[j] = c[j]
      BY <2>3, <3>1, <1>4, <1>6, <1>8
    <3> QED
      BY <3>1, <3>2, <1>4
  <2> QED
    BY <1>4, <2>1, <2>2, <2>3
<1>10. b = w
  BY <1>4, <1>8, <1>9, SameSeq
<1> QED
  BY <1>1, <1>2, <1>3, <1>4, <1>5, <1>7, <1>10 DEF Lru!RemoveAt

\* The files after a slot has been given to another one.
LEMMA FilesGiven ==
  ASSUME NEW c \in Chains, NEW s \in Slots, NEW id \in FileIds,
         \A j \in 1..Len(c) : c[j] # s,
         NEW ids \in [Slots -> FileIds \cup {NoFile}]
  PROVE  FilesIn([ids EXCEPT ![s] = id], c) = FilesIn(ids, c)
<1>1. Len(c) \in Nat /\ c \in [1..Len(c) -> Slots]
  BY ChainType, DipFilesAssumption
<1>2. \A j \in 1..Len(c) : [ids EXCEPT ![s] = id][c[j]] = ids[c[j]]
  BY <1>1
<1> QED
  BY <1>2 DEF FilesIn

LEMMA FilesKept ==
  ASSUME NEW c \in Chains, NEW p \in Chains, NEW k \in 0..Len(c), Kept(p, c, k),
         NEW ids \in [Slots -> FileIds \cup {NoFile}]
  PROVE  FilesIn(ids, p) = SubSeq(FilesIn(ids, c), 1, k)
<1>1. PICK a \in Seq(FileIds \cup {NoFile}) :
        a = FilesIn(ids, c) /\ Len(a) = Len(c) /\ \A j \in 1..Len(c) : a[j] = ids[c[j]]
  BY FilesInType
<1>2. PICK b \in Seq(FileIds \cup {NoFile}) :
        b = FilesIn(ids, p) /\ Len(b) = Len(p) /\ \A j \in 1..Len(p) : b[j] = ids[p[j]]
  BY FilesInType
<1>3. Len(c) \in Nat /\ k \in Nat /\ k <= Len(c) /\ Len(p) = k /\ \A j \in 1..k : p[j] = c[j]
  BY ChainType, DipFilesAssumption DEF Kept
<1>4. PICK u \in Seq(FileIds \cup {NoFile}) :
        u = SubSeq(a, 1, k) /\ Len(u) = k /\ \A j \in 1..k : u[j] = a[j]
  <2>1. k \in 0..Len(a)
    BY <1>1, <1>3
  <2> QED
    BY <2>1, Prefix, Zenon
<1>5. Len(u) = k /\ \A j \in 1..k : u[j] = a[j] /\ j \in 1..Len(c)
  BY <1>3, <1>4
<1>6. b = u
  BY <1>1, <1>2, <1>3, <1>5, SameSeq
<1> QED
  BY <1>1, <1>2, <1>4, <1>6

LEMMA FilesPushed ==
  ASSUME NEW c \in Chains, NEW p \in Chains, NEW s \in Slots, Pushed(p, c, s),
         NEW ids \in [Slots -> FileIds \cup {NoFile}]
  PROVE  FilesIn(ids, p) = <<ids[s]>> \o FilesIn(ids, c)
<1>1. PICK a \in Seq(FileIds \cup {NoFile}) :
        a = FilesIn(ids, c) /\ Len(a) = Len(c) /\ \A j \in 1..Len(c) : a[j] = ids[c[j]]
  BY FilesInType
<1>2. PICK b \in Seq(FileIds \cup {NoFile}) :
        b = FilesIn(ids, p) /\ Len(b) = Len(p) /\ \A j \in 1..Len(p) : b[j] = ids[p[j]]
  BY FilesInType
<1>3. PICK n \in Nat : n = Len(c)
  BY ChainType, DipFilesAssumption
<1>4. Len(p) = n + 1 /\ p[1] = s /\ \A j \in 1..n : p[j + 1] = c[j]
  BY <1>3 DEF Pushed
<1>5. PICK x \in FileIds \cup {NoFile} : x = ids[s]
  OBVIOUS
<1>6. PICK w : w = <<x>> \o a
  OBVIOUS
<1>7. /\ w \in Seq(FileIds \cup {NoFile}) /\ Len(w) = 1 + Len(a)
      /\ w[1] = x /\ \A j \in 2..(1 + Len(a)) : w[j] = a[j - 1]
  BY <1>6
<1>8. \A j \in 1..(n + 1) : b[j] = w[j]
  <2> TAKE j \in 1..(n + 1)
  <2>1. CASE j = 1
    BY <2>1, <1>2, <1>4, <1>5, <1>7
  <2>2. CASE j # 1
    <3>1. j - 1 \in 1..n /\ j - 1 + 1 = j /\ j \in 2..(1 + n)
      BY <2>2
    <3>2. p[j - 1 + 1] = c[j - 1] /\ a[j - 1] = ids[c[j - 1]] /\ w[j] = a[j - 1]
      BY <3>1, <1>1, <1>3, <1>4, <1>7
    <3> QED
      BY <3>1, <3>2, <1>2, <1>4
  <2> QED
    BY <2>1, <2>2
<1>9. Len(b) = n + 1 /\ Len(w) = n + 1
  BY <1>1, <1>2, <1>3, <1>4, <1>7
<1>10. b = w
  <2>1. Len(b) = Len(w) /\ \A j \in 1..Len(b) : b[j] = w[j]
    BY <1>8, <1>9
  <2> QED
    BY <1>7, <2>1, SameSeq, Zenon
<1> QED
  BY <1>1, <1>2, <1>5, <1>6, <1>10

-----------------------------------------------------------------------------
\* Each handler does what LruFiles allows, and time changes nothing there.
LEMMA InitRefines == Init => Lru!Init
<1> SUFFICES ASSUME Init PROVE Lru!Init
  OBVIOUS
<1> DEFINE none == [j \in 1..0 |-> 1]
<1>1. none \in Chains /\ Len(none) = 0
  <2>1. none \in [1..0 -> Slots] /\ 0 \in 0..MaxOpenFiles
    BY DipFilesAssumption
  <2> HIDE DEF none
  <2> QED
    BY <2>1, MakeChain
<1> HIDE DEF none
<1>2. IsChain(OpenFiles, none)
  BY <1>1 DEF Init, IsChain
<1>3. OpenChain = none
  BY <1>1, <1>2, OneOpenChain
<1>4. fileid \in [Slots -> FileIds \cup {NoFile}]
  BY DEF Init
<1>5. PICK a \in Seq(FileIds \cup {NoFile}) : a = FilesIn(fileid, none) /\ Len(a) = 0
  BY <1>1, <1>4, FilesInType
<1>6. a = << >>
  BY <1>5
<1> QED
  BY <1>3, <1>5, <1>6 DEF FilesIn, Lru!Init

LEMMA HitRefines ==
  ASSUME Inv, NEW id \in FileIds, Reused(id)
  PROVE  Lru!Hit(id)
<1>1. PICK c, p \in Chains : IsChain(OpenFiles, c) /\ IsChain(OpenFiles, p)' /\
        \E i \in 1..Len(c) :
          /\ fileid[c[i]] = id /\ Moved(p, c, i)
          /\ fileid' = fileid
  BY DEF Reused
<1>2. PICK i \in 1..Len(c) : fileid[c[i]] = id /\ Moved(p, c, i) /\ fileid' = fileid
  BY <1>1
<1>3. OpenChain = c /\ OpenChain' = p
  BY <1>1, OneOpenChain, OneOpenChainNext
<1>4. fileid \in [Slots -> FileIds \cup {NoFile}]
  BY DEF Inv, TypeOK
<1>5. FilesIn(fileid, p) = <<id>> \o Lru!RemoveAt(FilesIn(fileid, c), i)
  BY <1>2, <1>4, FilesMoved
<1>6. Len(FilesIn(fileid, c)) = Len(c) /\ FilesIn(fileid, c)[i] = id
  BY <1>2, <1>4, FilesInType
<1> QED
  BY <1>2, <1>3, <1>5, <1>6 DEF FilesIn, Lru!Hit

\* No file of the list is the one that a read is about to open.
LEMMA NotInList ==
  ASSUME Inv, NEW id, NotOpen(id), NEW c \in Chains, IsChain(OpenFiles, c)
  PROVE  \A i \in 1..Len(FilesIn(fileid, c)) : FilesIn(fileid, c)[i] # id
<1>1. fileid \in [Slots -> FileIds \cup {NoFile}]
  BY DEF Inv, TypeOK
<1>2. Len(FilesIn(fileid, c)) = Len(c) /\ \A i \in 1..Len(c) : FilesIn(fileid, c)[i] = fileid[c[i]]
  BY <1>1, FilesInType
<1>3. \A i \in 1..Len(c) : c[i] \in Slots /\ fd[c[i]] # NoFd
  BY OpenList
<1> QED
  BY <1>2, <1>3 DEF NotOpen

LEMMA MissRefines ==
  ASSUME Inv, NEW id \in FileIds, Added(id)
  PROVE  Lru!Miss(id)
<1>1. PICK c, p \in Chains : IsChain(OpenFiles, c) /\ IsChain(OpenFiles, p)' /\
        \E s \in Slots :
          /\ \/ Len(c) < MaxOpenFiles /\ Pushed(p, c, s) /\ fd[s] = NoFd
             \/ Len(c) = MaxOpenFiles /\ Moved(p, c, Len(c)) /\ s = c[Len(c)]
          /\ fileid' = [fileid EXCEPT ![s] = id]
  BY DEF Added
<1>2. PICK s \in Slots :
          /\ \/ Len(c) < MaxOpenFiles /\ Pushed(p, c, s) /\ fd[s] = NoFd
             \/ Len(c) = MaxOpenFiles /\ Moved(p, c, Len(c)) /\ s = c[Len(c)]
          /\ fileid' = [fileid EXCEPT ![s] = id]
  BY <1>1
<1>3. OpenChain = c /\ OpenChain' = p
  BY <1>1, OneOpenChain, OneOpenChainNext
<1>4. fileid \in [Slots -> FileIds \cup {NoFile}]
  BY DEF Inv, TypeOK
<1>5. PICK ids \in [Slots -> FileIds \cup {NoFile}] :
        ids = fileid' /\ ids = [fileid EXCEPT ![s] = id] /\ ids[s] = id
  <2>1. [fileid EXCEPT ![s] = id] \in [Slots -> FileIds \cup {NoFile}] /\ [fileid EXCEPT ![s] = id][s] = id
    BY <1>4
  <2> QED
    BY <2>1, <1>2, Zenon
<1>6. \A i \in 1..Len(FilesIn(fileid, c)) : FilesIn(fileid, c)[i] # id
  BY <1>1, NotInList DEF Added
<1>7. Len(FilesIn(fileid, c)) = Len(c)
  BY <1>4, FilesInType
<1>8. CASE Len(c) < MaxOpenFiles /\ Pushed(p, c, s) /\ fd[s] = NoFd
  <2>1. \A j \in 1..Len(c) : c[j] # s
    BY <1>1, <1>8, OpenList
  <2>2. FilesIn(ids, p) = <<id>> \o FilesIn(ids, c)
    BY <1>5, <1>8, FilesPushed
  <2>3. FilesIn(ids, c) = FilesIn(fileid, c)
    <3>1. FilesIn([fileid EXCEPT ![s] = id], c) = FilesIn(fileid, c)
      BY <2>1, <1>4, FilesGiven
    <3>2. ids = [fileid EXCEPT ![s] = id]
      BY <1>5
    <3> HIDE DEF FilesIn
    <3> QED
      BY <3>1, <3>2
  <2>4. Len(FilesIn(fileid, c)) # MaxOpenFiles
    BY <1>7, <1>8, ChainType, DipFilesAssumption
  <2>5. FilesIn(fileid', p) = <<id>> \o FilesIn(fileid, c)
    BY <2>2, <2>3, <1>5
  <2> QED
    BY <2>4, <2>5, <1>3, <1>6 DEF FilesIn, Lru!Miss, Lru!Evicted
<1>9. CASE Len(c) = MaxOpenFiles /\ Moved(p, c, Len(c)) /\ s = c[Len(c)]
  <2>1. PICK n \in Nat \ {0} : n = Len(c)
    BY <1>9, DipFilesAssumption
  <2>2. n \in 1..Len(c) /\ c \in [1..n -> Slots] /\ c[n] = s
    BY <2>1, <1>9, ChainType
  <2>3. FilesIn(ids, p) = <<id>> \o Lru!RemoveAt(FilesIn(ids, c), n)
    <3>1. n \in 1..Len(c) /\ Moved(p, c, n) /\ ids[c[n]] = id
      BY <2>1, <2>2, <1>5, <1>9
    <3>2. FilesIn(ids, p) = <<ids[c[n]]>> \o Lru!RemoveAt(FilesIn(ids, c), n)
      BY <3>1, FilesMoved, Zenon
    <3> QED
      BY <3>1, <3>2, Zenon
  <2>4. PICK a \in Seq(FileIds \cup {NoFile}) :
          a = FilesIn(fileid, c) /\ Len(a) = n /\ \A j \in 1..n : a[j] = fileid[c[j]]
    BY <2>1, <1>4, FilesInType
  <2>5. PICK b \in Seq(FileIds \cup {NoFile}) :
          b = FilesIn(ids, c) /\ Len(b) = n /\ \A j \in 1..n : b[j] = ids[c[j]]
    BY <2>1, FilesInType
  <2>6. \A j \in 1..(n - 1) : a[j] = b[j]
    <3> TAKE j \in 1..(n - 1)
    <3>1. j \in 1..n /\ j # n
      BY <2>1
    <3>2. c[j] # s /\ c[j] \in Slots
      BY <3>1, <2>1, <2>2, <1>1, OpenList
    <3> QED
      BY <3>1, <3>2, <2>4, <2>5, <1>2, <1>4, <1>5
  <2>7. SubSeq(b, 1, n - 1) \o SubSeq(b, n + 1, n) = SubSeq(a, 1, n - 1)
    <3>1. n - 1 \in 0..Len(a) /\ n - 1 \in 0..Len(b)
      BY <2>4, <2>5
    <3>3. PICK x \in Seq(FileIds \cup {NoFile}) :
            /\ x = SubSeq(a, 1, n - 1) /\ Len(x) = n - 1
            /\ \A j \in 1..(n - 1) : x[j] = a[j]
      BY <3>1, Prefix, Zenon
    <3>4. PICK y \in Seq(FileIds \cup {NoFile}) :
            /\ y = SubSeq(b, 1, n - 1) /\ Len(y) = n - 1
            /\ \A j \in 1..(n - 1) : y[j] = b[j]
      BY <3>1, Prefix, Zenon
    <3>5. x = y
      BY <3>3, <3>4, <2>6, SameSeq
    <3>6. SubSeq(b, n + 1, n) = << >>
      BY SubSeqEmpty
    <3>7. y \o << >> = y
      BY ConcatEmptySeq
    <3> QED
      BY <3>3, <3>4, <3>5, <3>6, <3>7, Zenon
  <2>8. FilesIn(fileid', p) = <<id>> \o SubSeq(FilesIn(fileid, c), 1, MaxOpenFiles - 1)
    BY <2>1, <2>3, <2>4, <2>5, <2>7, <1>5, <1>9 DEF Lru!RemoveAt
  <2> QED
    BY <2>8, <1>3, <1>6, <1>7, <1>9 DEF FilesIn, Lru!Miss, Lru!Evicted
<1> QED
  BY <1>2, <1>8, <1>9

LEMMA FailRefines ==
  ASSUME Inv, NEW id \in FileIds, Refused(id)
  PROVE  Lru!MissAndFail(id)
<1>1. PICK c, p \in Chains : IsChain(OpenFiles, c) /\ IsChain(OpenFiles, p)' /\
        /\ \/ Len(c) < MaxOpenFiles /\ Kept(p, c, Len(c))
           \/ Len(c) = MaxOpenFiles /\ Kept(p, c, Len(c) - 1)
        /\ fileid' = fileid
  BY DEF Refused
<1>2. OpenChain = c /\ OpenChain' = p
  BY <1>1, OneOpenChain, OneOpenChainNext
<1>3. fileid \in [Slots -> FileIds \cup {NoFile}]
  BY DEF Inv, TypeOK
<1>4. \A i \in 1..Len(FilesIn(fileid, c)) : FilesIn(fileid, c)[i] # id
  BY <1>1, NotInList DEF Refused
<1>5. PICK a \in Seq(FileIds \cup {NoFile}) : a = FilesIn(fileid, c) /\ Len(a) = Len(c)
  BY <1>3, FilesInType
<1>6. Len(c) \in Nat /\ MaxOpenFiles \in Nat /\ MaxOpenFiles >= 2
  BY ChainType, DipFilesAssumption
<1>7. CASE Len(c) < MaxOpenFiles /\ Kept(p, c, Len(c))
  <2>1. FilesIn(fileid, p) = SubSeq(a, 1, Len(a))
    BY <1>3, <1>5, <1>6, <1>7, FilesKept
  <2>2. SubSeq(a, 1, Len(a)) = a
    BY SubSeqFull
  <2>3. Len(a) # MaxOpenFiles
    BY <1>5, <1>6, <1>7
  <2> QED
    BY <2>1, <2>2, <2>3, <1>1, <1>2, <1>4, <1>5 DEF FilesIn, Lru!MissAndFail, Lru!Evicted
<1>8. CASE Len(c) = MaxOpenFiles /\ Kept(p, c, Len(c) - 1)
  <2>1. FilesIn(fileid, p) = SubSeq(a, 1, MaxOpenFiles - 1)
    <3>1. Len(c) - 1 \in 0..Len(c)
      BY <1>6, <1>8
    <3> QED
      BY <3>1, <1>3, <1>5, <1>8, FilesKept
  <2> QED
    BY <2>1, <1>1, <1>2, <1>4, <1>5, <1>8 DEF FilesIn, Lru!MissAndFail, Lru!Evicted
<1> QED
  BY <1>1, <1>7, <1>8

LEMMA ExpireRefines ==
  ASSUME Inv, Dropped
  PROVE  Lru!Expire
<1>1. PICK c, p \in Chains : IsChain(OpenFiles, c) /\ IsChain(OpenFiles, p)' /\
        \E k \in 0..Len(c) : Kept(p, c, k) /\ fileid' = fileid
  BY DEF Dropped
<1>2. PICK k \in 0..Len(c) : Kept(p, c, k) /\ fileid' = fileid
  BY <1>1
<1>3. OpenChain = c /\ OpenChain' = p
  BY <1>1, OneOpenChain, OneOpenChainNext
<1>4. fileid \in [Slots -> FileIds \cup {NoFile}]
  BY DEF Inv, TypeOK
<1>5. FilesIn(fileid, p) = SubSeq(FilesIn(fileid, c), 1, k)
  BY <1>2, <1>4, FilesKept
<1>6. k \in 0..Len(FilesIn(fileid, c))
  BY <1>4, FilesInType
<1> QED
  BY <1>2, <1>3, <1>5, <1>6 DEF FilesIn, Lru!Expire

LEMMA NextRefines ==
  ASSUME Inv, [Next]_vars
  PROVE  [Lru!Next]_[i \in 1..Len(OpenChain) |-> fileid[OpenChain[i]]]
<1>1. CASE Tick \/ UNCHANGED vars
  <2>1. OpenFiles' = OpenFiles /\ next' = next /\ fileid' = fileid
    BY <1>1 DEF Tick, vars, pool
  <2>2. OpenChain' = OpenChain
    BY <2>1 DEF OpenChain, IsChain
  <2> QED
    BY <2>1, <2>2
<1>2. ASSUME NEW id \in FileIds, Reused(id) \/ Added(id) \/ Refused(id) PROVE Lru!Next
  BY <1>2, HitRefines, MissRefines, FailRefines DEF Lru!Next
<1>3. CASE Dropped
  BY <1>3, ExpireRefines DEF Lru!Next
<1> QED
  BY <1>1, <1>2, <1>3, NextCases

\* Slots, pointers and stamps are an LRU list of files to the module's caller.
THEOREM IsLruList == Spec => ImplementsLru
<1>1. Inv /\ [Next]_vars => [Lru!Next]_[i \in 1..Len(OpenChain) |-> fileid[OpenChain[i]]]
  BY NextRefines
<1> QED
  BY <1>1, InitRefines, Invariance, PTL DEF Spec, ImplementsLru, Lru!Spec
=============================================================================
