------------------------ MODULE NandEmulationProofs -------------------------
(***************************************************************************)
(* Proofs about NandEmulation, for any paths, any contents of files, any   *)
(* tables and buffers: the hook and the emulation's thread never talk past *)
(* each other; a file that is moved to the card is never lost, whatever of *)
(* it fails and whenever the power goes; and wherever files are, the game  *)
(* sees them behave as NandFiles says, which the emulation refines.        *)
(***************************************************************************)
EXTENDS NandEmulation, SequenceTheorems, WellFoundedInduction, TLAPS

-----------------------------------------------------------------------------
(* Sequences and files *)

LEMMA Params ==
  /\ MaxLen \in Nat /\ MAX_EMU_OPEN \in Nat /\ MAX_FS_OPEN \in Nat
  /\ move_size \in Nat \ {0} /\ buf_size \in Nat \ {0} /\ move_size <= buf_size
  /\ Vff \subseteq Redirected /\ Redirected \subseteq Paths /\ MayFail \subseteq Redirected /\ MayFail \cap Vff = {}
  /\ Nowhere \notin Paths /\ DevFs \notin Paths /\ Units \subseteq Nat
BY NandEmulationAssumption DEF NandEmulationAssumption

\* Sequences of one length with the same elements are one sequence.
LEMMA SameSeq ==
  ASSUME NEW S, NEW a \in Seq(S), NEW b \in Seq(S), Len(a) = Len(b),
         \A i \in 1..Len(a) : a[i] = b[i]
  PROVE  a = b
OBVIOUS

\* What SubSeq returns.
LEMMA Part ==
  ASSUME NEW S, NEW a \in Seq(S), NEW m \in 1..(Len(a) + 1), NEW n \in (m - 1)..Len(a)
  PROVE  /\ SubSeq(a, m, n) \in Seq(S) /\ Len(SubSeq(a, m, n)) = n - m + 1
         /\ \A j \in 1..(n - m + 1) : SubSeq(a, m, n)[j] = a[m + j - 1]
<1>1. \A j \in m..n : a[j] \in S
  OBVIOUS
<1>2. m \in Int /\ n \in Int
  OBVIOUS
<1>3. (IF m <= n THEN n - m + 1 ELSE 0) = n - m + 1
  OBVIOUS
<1> QED
  BY <1>1, <1>2, <1>3, SubSeqProperties

\* A sequence is all of its first units.
LEMMA AllOfIt == ASSUME NEW S, NEW d \in Seq(S) PROVE SubSeq(d, 1, Len(d)) = d
<1>1. Len(d) \in Nat
  BY LenProperties
<1>2. 1 \in 1..(Len(d) + 1) /\ Len(d) \in (1 - 1)..Len(d) /\ Len(d) - 1 + 1 = Len(d)
  BY <1>1
<1>3. /\ SubSeq(d, 1, Len(d)) \in Seq(S) /\ Len(SubSeq(d, 1, Len(d))) = Len(d) - 1 + 1
      /\ \A j \in 1..(Len(d) - 1 + 1) : SubSeq(d, 1, Len(d))[j] = d[1 + j - 1]
  BY <1>2, Part, Zenon
<1> DEFINE e == SubSeq(d, 1, Len(d))
<1> HIDE DEF e
<1>4. e \in Seq(S) /\ Len(e) = Len(d) /\ \A j \in 1..Len(e) : e[j] = d[j]
  BY <1>1, <1>2, <1>3 DEF e
<1>5. e = d
  BY <1>4, SameSeq, Zenon
<1> QED
  BY <1>5 DEF e

\* Contents are sequences of units, and none of them stands for no file.
LEMMA ContentsAre ==
  ASSUME NEW x \in Contents
  PROVE  x \in Seq(Units) /\ Len(x) \in Nat /\ Len(x) <= MaxLen /\ x # Absent
<1>1. PICK n \in 0..MaxLen : x \in [1..n -> Units]
  BY DEF Contents
<1>2. n \in Nat
  BY Params
<1>3. x \in Seq(Units) /\ Len(x) = n
  BY <1>1, <1>2
<1>4. x # Absent
  <2> SUFFICES ASSUME x = Absent PROVE FALSE
    OBVIOUS
  <2>1. Len(x) = 1 /\ x[1] = -1
    BY DEF Absent
  <2>2. x[1] \in Units
    BY <1>3, <2>1, ElementOfSeq
  <2> QED
    BY <2>1, <2>2, Params
<1> QED
  BY <1>1, <1>2, <1>3, <1>4, Params

LEMMA MakeContents ==
  ASSUME NEW x \in Seq(Units), Len(x) <= MaxLen
  PROVE  x \in Contents
<1>1. Len(x) \in 0..MaxLen /\ x \in [1..Len(x) -> Units]
  BY Params, LenProperties
<1> QED
  BY <1>1 DEF Contents

LEMMA NoContents == << >> \in Contents /\ Len(<< >>) = 0
<1> DEFINE x == << >>
<1>1. x \in Seq(Units) /\ Len(x) = 0 /\ 0 <= MaxLen
  BY Params
<1> HIDE DEF x
<1>2. x \in Contents
  BY <1>1, MakeContents
<1> QED
  BY <1>1, <1>2 DEF x

\* A write at a place in the file, or at its end.
LEMMA OverwriteIs ==
  ASSUME NEW x \in Contents, NEW p \in 0..Len(x), NEW d \in Seq(Units), p + Len(d) <= MaxLen
  PROVE  /\ Overwrite(x, p, d) \in Contents
         /\ Len(Overwrite(x, p, d)) = IF p + Len(d) > Len(x) THEN p + Len(d) ELSE Len(x)
         /\ \A i \in 1..Len(Overwrite(x, p, d)) :
              Overwrite(x, p, d)[i] = IF i <= p THEN x[i] ELSE IF i <= p + Len(d) THEN d[i - p] ELSE x[i]
<1> DEFINE a == SubSeq(x, 1, p)
           b == a \o d
           c == SubSeq(x, p + Len(d) + 1, Len(x))
           m == IF p + Len(d) > Len(x) THEN p + Len(d) ELSE Len(x)
<1>0. /\ x \in Seq(Units) /\ Len(x) \in Nat /\ Len(x) <= MaxLen /\ Len(d) \in Nat /\ p \in Nat /\ p <= Len(x)
  BY ContentsAre, LenProperties
<1>1. a \in Seq(Units) /\ Len(a) = p /\ \A i \in 1..p : a[i] = x[i]
  <2>1. 1 \in 1..(Len(x) + 1) /\ p \in (1 - 1)..Len(x)
    BY <1>0
  <2>2. /\ a \in Seq(Units) /\ Len(a) = p - 1 + 1
        /\ \A j \in 1..(p - 1 + 1) : a[j] = x[1 + j - 1]
    BY <1>0, <2>1, Part, Zenon
  <2>3. p - 1 + 1 = p /\ \A j \in 1..p : 1 + j - 1 = j
    BY <1>0
  <2> HIDE DEF a
  <2> QED
    BY <2>2, <2>3
<1> HIDE DEF a
<1>2. /\ b \in Seq(Units) /\ Len(b) = p + Len(d)
      /\ \A i \in 1..(p + Len(d)) : b[i] = IF i <= p THEN x[i] ELSE d[i - p]
  <2>1. /\ b \in Seq(Units) /\ Len(b) = Len(a) + Len(d)
        /\ \A i \in 1..Len(a) + Len(d) : b[i] = IF i <= Len(a) THEN a[i] ELSE d[i - Len(a)]
    BY <1>1, ConcatProperties, Zenon
  <2> HIDE DEF b
  <2> QED
    BY <1>0, <1>1, <2>1
<1> HIDE DEF b
<1>3. /\ c \in Seq(Units) /\ Len(c) = m - (p + Len(d))
      /\ \A i \in 1..Len(c) : c[i] = x[(p + Len(d)) + i]
  <2>1. CASE p + Len(d) > Len(x)
    <3>1. c = << >>
      BY <1>0, <2>1, SubSeqEmpty
    <3> QED
      BY <1>0, <2>1, <3>1
  <2>2. CASE ~ (p + Len(d) > Len(x))
    <3> DEFINE k == p + Len(d) + 1
    <3>1. k \in 1..(Len(x) + 1) /\ Len(x) \in (k - 1)..Len(x)
      BY <1>0, <2>2
    <3>2. /\ c \in Seq(Units) /\ Len(c) = Len(x) - k + 1
          /\ \A j \in 1..(Len(x) - k + 1) : c[j] = x[k + j - 1]
      BY <1>0, <3>1, Part, Zenon
    <3>3. Len(x) - k + 1 = m - (p + Len(d)) /\ \A j \in Int : k + j - 1 = (p + Len(d)) + j
      BY <1>0, <2>2
    <3> HIDE DEF c, k, m
    <3> QED
      BY <3>2, <3>3
  <2> QED
    BY <2>1, <2>2
<1> HIDE DEF c
<1>4. Overwrite(x, p, d) = b \o c
  BY DEF Overwrite, a, b, c
<1> DEFINE o == b \o c
<1>5. /\ o \in Seq(Units) /\ Len(o) = Len(b) + Len(c)
      /\ \A i \in 1..Len(b) + Len(c) : o[i] = IF i <= Len(b) THEN b[i] ELSE c[i - Len(b)]
  BY <1>2, <1>3, ConcatProperties, Zenon
<1> HIDE DEF o
<1>m. m \in Nat /\ m <= MaxLen /\ p + Len(d) <= m
  BY <1>0, Params
<1> HIDE DEF m
<1>6. Len(o) = m /\ Len(b) + Len(c) = m
  BY <1>0, <1>2, <1>3, <1>5, <1>m
<1>7. o \in Contents
  BY <1>5, <1>6, <1>m, MakeContents
<1>8. ASSUME NEW i \in 1..Len(o)
      PROVE  o[i] = IF i <= p THEN x[i] ELSE IF i <= p + Len(d) THEN d[i - p] ELSE x[i]
  <2>1. CASE i <= p + Len(d)
    <3>1. i \in 1..(p + Len(d)) /\ i \in 1..Len(b) + Len(c) /\ i <= Len(b)
      BY <1>0, <1>2, <1>6, <1>m, <2>1
    <3> QED
      BY <1>2, <1>5, <2>1, <3>1
  <2>2. CASE ~ (i <= p + Len(d))
    <3>1. /\ i \in 1..Len(b) + Len(c) /\ ~ (i <= Len(b)) /\ i - Len(b) \in 1..Len(c)
          /\ (p + Len(d)) + (i - Len(b)) = i /\ ~ (i <= p)
      BY <1>0, <1>2, <1>3, <1>6, <1>m, <2>2
    <3> QED
      BY <1>3, <1>5, <2>2, <3>1
  <2> QED
    BY <2>1, <2>2
<1> QED
  BY <1>4, <1>6, <1>7, <1>8 DEF o, m

\* Nothing is written.
LEMMA OverwriteNone ==
  ASSUME NEW x \in Contents, NEW p \in 0..Len(x)
  PROVE  Overwrite(x, p, << >>) = x
<1> DEFINE d == << >>
           o == Overwrite(x, p, d)
<1>1. /\ x \in Seq(Units) /\ Len(x) \in Nat /\ Len(x) <= MaxLen
      /\ d \in Seq(Units) /\ Len(d) = 0 /\ p + Len(d) = p /\ p <= MaxLen
  BY ContentsAre, Params
<1> HIDE DEF d
<1>n. p + Len(d) <= MaxLen
  BY <1>1
<1>2. /\ o \in Contents /\ Len(o) = IF p + Len(d) > Len(x) THEN p + Len(d) ELSE Len(x)
      /\ \A i \in 1..Len(o) :
           o[i] = IF i <= p THEN x[i] ELSE IF i <= p + Len(d) THEN d[i - p] ELSE x[i]
  BY <1>1, <1>n, OverwriteIs, Zenon
<1> HIDE DEF o
<1>3. Len(o) = Len(x) /\ o \in Seq(Units)
  BY <1>1, <1>2, ContentsAre
<1>4. \A i \in 1..Len(o) : o[i] = x[i]
  BY <1>1, <1>2
<1>5. o = x
  BY <1>1, <1>3, <1>4, SameSeq, Zenon
<1> QED
  BY <1>5 DEF o, d

\* What a read returns.
LEMMA SliceIs ==
  ASSUME NEW x \in Contents, NEW p \in 0..Len(x), NEW n \in Nat
  PROVE  /\ Slice(x, p, n) \in Seq(Units)
         /\ Len(Slice(x, p, n)) = IF p + n < Len(x) THEN n ELSE Len(x) - p
         /\ \A i \in 1..Len(Slice(x, p, n)) : Slice(x, p, n)[i] = x[p + i]
<1> DEFINE k == IF p + n < Len(x) THEN p + n ELSE Len(x)
           s == SubSeq(x, p + 1, k)
<1>1. x \in Seq(Units) /\ Len(x) \in Nat /\ p \in Nat /\ p <= Len(x)
  BY ContentsAre
<1>2. p + 1 \in 1..(Len(x) + 1) /\ k \in ((p + 1) - 1)..Len(x)
  BY <1>1
<1>3. k - (p + 1) + 1 = (IF p + n < Len(x) THEN n ELSE Len(x) - p) /\ \A j \in Int : (p + 1) + j - 1 = p + j
  BY <1>1
<1> HIDE DEF k
<1>4. /\ s \in Seq(Units) /\ Len(s) = k - (p + 1) + 1
      /\ \A j \in 1..(k - (p + 1) + 1) : s[j] = x[(p + 1) + j - 1]
  BY <1>1, <1>2, Part, Zenon
<1>5. Slice(x, p, n) = s
  BY DEF Slice, k, s
<1> HIDE DEF s
<1>6. Len(s) = IF p + n < Len(x) THEN n ELSE Len(x) - p
  BY <1>3, <1>4
<1>7. ASSUME NEW i \in 1..Len(s) PROVE s[i] = x[p + i]
  BY <1>3, <1>4, <1>7
<1> QED
  BY <1>4, <1>5, <1>6, <1>7
\* Two writes, one behind the other, are one write of both.
LEMMA OverwriteTwice ==
  ASSUME NEW x \in Contents, NEW p \in 0..Len(x), NEW a \in Seq(Units), NEW b \in Seq(Units),
         p + Len(a) + Len(b) <= MaxLen
  PROVE  Overwrite(Overwrite(x, p, a), p + Len(a), b) = Overwrite(x, p, a \o b)
<1> DEFINE y == Overwrite(x, p, a)
           z == Overwrite(y, p + Len(a), b)
           c == a \o b
           w == Overwrite(x, p, c)
<1>1. x \in Seq(Units) /\ Len(x) \in Nat /\ p \in Nat /\ p <= Len(x) /\ Len(a) \in Nat /\ Len(b) \in Nat
  BY ContentsAre, LenProperties
<1>2. p + Len(a) <= MaxLen
  BY <1>1, Params
<1>3. /\ y \in Contents /\ Len(y) = IF p + Len(a) > Len(x) THEN p + Len(a) ELSE Len(x)
      /\ \A i \in 1..Len(y) : y[i] = IF i <= p THEN x[i] ELSE IF i <= p + Len(a) THEN a[i - p] ELSE x[i]
  BY <1>2, OverwriteIs, Zenon
<1>4. /\ c \in Seq(Units) /\ Len(c) = Len(a) + Len(b)
      /\ \A i \in 1..Len(a) + Len(b) : c[i] = IF i <= Len(a) THEN a[i] ELSE b[i - Len(a)]
  BY ConcatProperties, Zenon
<1> HIDE DEF y, c
<1>5. p + Len(a) \in 0..Len(y) /\ (p + Len(a)) + Len(b) <= MaxLen /\ p + Len(c) <= MaxLen
  BY <1>1, <1>3, <1>4
<1>6. /\ z \in Contents /\ Len(z) = IF (p + Len(a)) + Len(b) > Len(y) THEN (p + Len(a)) + Len(b) ELSE Len(y)
      /\ \A i \in 1..Len(z) :
           z[i] = IF i <= p + Len(a) THEN y[i] ELSE IF i <= (p + Len(a)) + Len(b) THEN b[i - (p + Len(a))] ELSE y[i]
  BY <1>3, <1>5, OverwriteIs, Zenon
<1>7. /\ w \in Contents /\ Len(w) = IF p + Len(c) > Len(x) THEN p + Len(c) ELSE Len(x)
      /\ \A i \in 1..Len(w) : w[i] = IF i <= p THEN x[i] ELSE IF i <= p + Len(c) THEN c[i - p] ELSE x[i]
  BY <1>4, <1>5, OverwriteIs, Zenon
<1> HIDE DEF z, w
<1>8. Len(z) = Len(w) /\ z \in Seq(Units) /\ w \in Seq(Units) /\ Len(w) \in Nat
  <2>1. Len(z) = Len(w)
    <3>1. Len(y) = IF p + Len(a) > Len(x) THEN p + Len(a) ELSE Len(x)
      BY <1>3
    <3>2. Len(c) = Len(a) + Len(b)
      BY <1>4
    <3>3. Len(z) = IF (p + Len(a)) + Len(b) > Len(y) THEN (p + Len(a)) + Len(b) ELSE Len(y)
      BY <1>6
    <3>4. Len(w) = IF p + Len(c) > Len(x) THEN p + Len(c) ELSE Len(x)
      BY <1>7
    <3> QED
      BY <1>1, <3>1, <3>2, <3>3, <3>4
  <2> QED
    BY <1>6, <1>7, <2>1, ContentsAre
<1>9. ASSUME NEW i \in 1..Len(z) PROVE z[i] = w[i]
  <2>1. CASE i <= p
    <3>1. i <= p + Len(a) /\ i \in 1..Len(y) /\ i \in 1..Len(w)
      BY <1>1, <1>3, <1>8, <2>1
    <3> QED
      BY <1>3, <1>6, <1>7, <2>1, <3>1
  <2>2. CASE ~ (i <= p) /\ i <= p + Len(a)
    <3>1. /\ i \in 1..Len(y) /\ i \in 1..Len(w) /\ i <= p + Len(c)
          /\ i - p \in 1..Len(a) + Len(b) /\ i - p <= Len(a)
      BY <1>1, <1>3, <1>4, <1>8, <2>2
    <3> QED
      BY <1>3, <1>4, <1>6, <1>7, <2>2, <3>1
  <2>3. CASE ~ (i <= p + Len(a)) /\ i <= (p + Len(a)) + Len(b)
    <3>1. /\ i \in 1..Len(w) /\ i <= p + Len(c) /\ ~ (i <= p)
          /\ i - p \in 1..Len(a) + Len(b) /\ ~ (i - p <= Len(a)) /\ (i - p) - Len(a) = i - (p + Len(a))
      BY <1>1, <1>4, <1>8, <2>3
    <3> QED
      BY <1>4, <1>6, <1>7, <2>3, <3>1
  <2>4. CASE ~ (i <= (p + Len(a)) + Len(b))
    <3>1. /\ i \in 1..Len(w) /\ ~ (i <= p) /\ ~ (i <= p + Len(c)) /\ ~ (i <= p + Len(a)) /\ i \in 1..Len(y)
      BY <1>1, <1>3, <1>4, <1>6, <1>8, <2>4
    <3> QED
      BY <1>3, <1>6, <1>7, <2>4, <3>1
  <2>5. i \in Nat /\ p + Len(a) \in Nat /\ (p + Len(a)) + Len(b) \in Nat
    BY <1>1, <1>8
  <2> QED
    BY <1>1, <2>1, <2>2, <2>3, <2>4, <2>5
<1>10. z = w
  BY <1>8, <1>9, SameSeq, Zenon
<1> QED
  BY <1>10 DEF z, w, y, c
-----------------------------------------------------------------------------
(* Files of the card *)

RiivFiles == [path : Redirected \cup {Nowhere}, opened : BOOLEAN, pos : Nat, buffer : Seq(Units)]

\* A file that the emulation has open is somewhere in the card's file, with what
\* comes next in a buffer, if it has one.
Placed(files, f) ==
  /\ f \in RiivFiles /\ f.path \in Redirected
  /\ files[f.path] \in Contents
  /\ f.pos <= Len(files[f.path]) /\ f.pos + Len(f.buffer) <= MaxLen
  /\ f.buffer # << >> => f.path \in Vff

Fits(files, f) == Placed(files, f) /\ Len(f.buffer) < buf_size

\* The card's file with what is in the buffer, and where that ends.
View(files, f) == Overwrite(files[f.path], f.pos, f.buffer)
EndOf(f) == f.pos + Len(f.buffer)

Cards == [Redirected -> Contents \cup {Absent}]

LEMMA PlacedIs ==
  ASSUME NEW files, NEW f, Placed(files, f)
  PROVE  /\ f.path \in Redirected /\ f.opened \in BOOLEAN /\ f.pos \in Nat /\ f.buffer \in Seq(Units)
         /\ Len(f.buffer) \in Nat /\ files[f.path] \in Contents /\ files[f.path] # Absent
         /\ f.pos \in 0..Len(files[f.path]) /\ f.pos + Len(f.buffer) <= MaxLen
         /\ f = [path |-> f.path, opened |-> f.opened, pos |-> f.pos, buffer |-> f.buffer]
<1>1. /\ f.path \in Redirected /\ f.opened \in BOOLEAN /\ f.pos \in Nat /\ f.buffer \in Seq(Units)
      /\ files[f.path] \in Contents /\ f.pos <= Len(files[f.path]) /\ f.pos + Len(f.buffer) <= MaxLen
      /\ f = [path |-> f.path, opened |-> f.opened, pos |-> f.pos, buffer |-> f.buffer]
  BY DEF Placed, RiivFiles
<1>2. Len(f.buffer) \in Nat
  BY <1>1, LenProperties
<1>3. files[f.path] # Absent /\ Len(files[f.path]) \in Nat
  BY <1>1, ContentsAre
<1> QED
  BY <1>1, <1>2, <1>3

\* Opening a card's file changes only that it is open; MayFail's may stay closed.
LEMMA OpenedIs ==
  ASSUME NEW files, NEW f, Placed(files, f), NEW g \in Opened(files, f)
  PROVE  /\ g = [path |-> f.path, opened |-> g.opened, pos |-> f.pos, buffer |-> f.buffer]
         /\ g.opened \in BOOLEAN /\ Placed(files, g)
         /\ f.path \notin MayFail => g.opened
<1>1. /\ f.path \in Redirected /\ f.opened \in BOOLEAN /\ files[f.path] # Absent
      /\ f = [path |-> f.path, opened |-> f.opened, pos |-> f.pos, buffer |-> f.buffer]
  BY PlacedIs
<1>2. g = [f EXCEPT !.opened = TRUE] \/ (~ f.opened /\ f.path \in MayFail /\ g = f)
  BY <1>1 DEF Opened
<1>3. CASE g = [f EXCEPT !.opened = TRUE]
  <2>1. g = [path |-> f.path, opened |-> TRUE, pos |-> f.pos, buffer |-> f.buffer]
    BY <1>1, <1>3
  <2>2. g.opened = TRUE /\ g.path = f.path /\ g.pos = f.pos /\ g.buffer = f.buffer
    BY <2>1
  <2>3. Placed(files, g)
    BY <2>1, <2>2 DEF Placed, RiivFiles
  <2> QED
    BY <2>1, <2>2, <2>3
<1>4. CASE ~ f.opened /\ f.path \in MayFail /\ g = f
  BY <1>1, <1>4
<1> QED
  BY <1>2, <1>3, <1>4

\* A write of d has put the first n units of it at the position.
Wrote(files, f, d, c, n) ==
  /\ c.card = [files EXCEPT ![f.path] = Overwrite(files[f.path], f.pos, SubSeq(d, 1, n))]
  /\ c.f = [path |-> f.path, opened |-> c.f.opened, pos |-> f.pos + n, buffer |-> f.buffer]
  /\ c.f.opened \in BOOLEAN
  /\ c.ret = n \/ (c.ret = -1 /\ n = 0)
  /\ f.path \notin MayFail => c.ret = Len(d)

\* RiivFile::Write writes a beginning of the data, and moves behind it.
LEMMA CardWriteIs ==
  ASSUME NEW files \in Cards, NEW f, Placed(files, f), NEW d \in Seq(Units), f.pos + Len(d) <= MaxLen,
         NEW c \in CardWrite(files, f, d)
  PROVE  \E n \in 0..Len(d) : Wrote(files, f, d, c, n)
<1>1. PICK g \in Opened(files, f) :
        c \in IF ~ g.opened THEN {Card(files, g, -1)}
              ELSE {Card([files EXCEPT ![g.path] = Overwrite(@, g.pos, SubSeq(d, 1, n))],
                         [g EXCEPT !.pos = @ + n], n)
                    : n \in IF g.path \in MayFail THEN 0..Len(d) ELSE {Len(d)}}
  BY DEF CardWrite
<1>2. /\ g = [path |-> f.path, opened |-> g.opened, pos |-> f.pos, buffer |-> f.buffer]
      /\ g.opened \in BOOLEAN /\ (f.path \notin MayFail => g.opened)
  BY OpenedIs
<1>3. /\ f.path \in Redirected /\ f.pos \in Nat /\ files[f.path] \in Contents
      /\ f.pos \in 0..Len(files[f.path]) /\ Len(d) \in Nat
  BY PlacedIs, LenProperties
<1>4. g.path = f.path /\ g.pos = f.pos /\ g.buffer = f.buffer
  BY <1>2
<1>5. CASE ~ g.opened
  <2>1. c = Card(files, g, -1)
    BY <1>1, <1>5
  <2>2. c.card = files /\ c.f = g /\ c.ret = -1
    BY <2>1 DEF Card
  <2>3. Overwrite(files[f.path], f.pos, SubSeq(d, 1, 0)) = files[f.path]
    <3>1. SubSeq(d, 1, 0) = << >>
      BY SubSeqEmpty
    <3> QED
      BY <1>3, <3>1, OverwriteNone
  <2>4. files = [files EXCEPT ![f.path] = files[f.path]]
    BY <1>3 DEF Cards
  <2>5. f.pos + 0 = f.pos /\ 0 \in 0..Len(d) /\ -1 # Len(d)
    BY <1>3
  <2> QED
    BY <1>2, <1>4, <1>5, <2>2, <2>3, <2>4, <2>5 DEF Wrote
<1>6. CASE g.opened
  <2>1. PICK n \in IF g.path \in MayFail THEN 0..Len(d) ELSE {Len(d)} :
          c = Card([files EXCEPT ![g.path] = Overwrite(@, g.pos, SubSeq(d, 1, n))], [g EXCEPT !.pos = @ + n], n)
    BY <1>1, <1>6
  <2>2. n \in 0..Len(d) /\ (f.path \notin MayFail => n = Len(d))
    BY <1>3, <1>4, <2>1
  <2>3. /\ c.card = [files EXCEPT ![g.path] = Overwrite(@, g.pos, SubSeq(d, 1, n))]
        /\ c.f = [g EXCEPT !.pos = @ + n] /\ c.ret = n
    BY <2>1 DEF Card
  <2>4. c.card = [files EXCEPT ![f.path] = Overwrite(files[f.path], f.pos, SubSeq(d, 1, n))]
    BY <1>3, <1>4, <2>3 DEF Cards
  <2>5. c.f = [path |-> f.path, opened |-> g.opened, pos |-> f.pos + n, buffer |-> f.buffer]
    BY <1>2, <1>4, <2>3
  <2>6. c.f.opened = g.opened
    BY <2>5
  <2> QED
    BY <1>2, <2>2, <2>3, <2>4, <2>5, <2>6 DEF Wrote
<1> QED
  BY <1>2, <1>5, <1>6
\* A file of the card that only grows, when others stay as they are.
Grown(files, after, path) ==
  /\ after = [files EXCEPT ![path] = after[path]]
  /\ after[path] \in Contents /\ Len(files[path]) <= Len(after[path])

\* The card's file with the buffer in it has contents, and is not shorter.
LEMMA ViewIs ==
  ASSUME NEW files, NEW f, Placed(files, f)
  PROVE  /\ View(files, f) \in Contents
         /\ Len(View(files, f)) = IF EndOf(f) > Len(files[f.path]) THEN EndOf(f) ELSE Len(files[f.path])
         /\ EndOf(f) \in 0..Len(View(files, f)) /\ EndOf(f) <= MaxLen
         /\ f.buffer = << >> => View(files, f) = files[f.path] /\ EndOf(f) = f.pos
<1>1. /\ f.pos \in Nat /\ f.buffer \in Seq(Units) /\ Len(f.buffer) \in Nat /\ files[f.path] \in Contents
      /\ f.pos \in 0..Len(files[f.path]) /\ f.pos + Len(f.buffer) <= MaxLen
  BY PlacedIs
<1>2. /\ View(files, f) \in Contents
      /\ Len(View(files, f)) = IF EndOf(f) > Len(files[f.path]) THEN EndOf(f) ELSE Len(files[f.path])
  BY <1>1, OverwriteIs, Zenon DEF View, EndOf
<1>3. EndOf(f) \in Nat /\ Len(files[f.path]) \in Nat /\ EndOf(f) <= MaxLen
  BY <1>1, ContentsAre DEF EndOf
<1>4. EndOf(f) \in 0..Len(View(files, f))
  BY <1>2, <1>3
<1>5. f.buffer = << >> => View(files, f) = files[f.path]
  BY <1>1, OverwriteNone DEF View
<1>6. f.buffer = << >> => EndOf(f) = f.pos
  BY <1>1 DEF EndOf
<1> QED
  BY <1>2, <1>3, <1>4, <1>5, <1>6

\* When a buffer has been flushed the card's file is what it showed.
LEMMA FlushedIs ==
  ASSUME NEW files \in Cards, NEW f, Placed(files, f), NEW c \in Flushed(files, f)
  PROVE  /\ c.card = [files EXCEPT ![f.path] = View(files, f)]
         /\ c.f = [path |-> f.path, opened |-> c.f.opened, pos |-> EndOf(f), buffer |-> << >>]
         /\ c.f.opened \in BOOLEAN
<1>1. /\ f.path \in Redirected /\ f.pos \in Nat /\ f.buffer \in Seq(Units) /\ Len(f.buffer) \in Nat
      /\ f.pos + Len(f.buffer) <= MaxLen /\ f.opened \in BOOLEAN
      /\ f = [path |-> f.path, opened |-> f.opened, pos |-> f.pos, buffer |-> f.buffer]
  BY PlacedIs
<1>2. CASE f.buffer = << >>
  <2>1. c = Card(files, f, 0)
    BY <1>2 DEF Flushed
  <2>2. c.card = files /\ c.f = f
    BY <2>1 DEF Card
  <2>3. View(files, f) = files[f.path] /\ EndOf(f) = f.pos
    BY <1>2, ViewIs
  <2>4. files = [files EXCEPT ![f.path] = files[f.path]]
    BY <1>1 DEF Cards
  <2> QED
    BY <1>1, <1>2, <2>2, <2>3, <2>4
<1>3. CASE f.buffer # << >>
  <2>1. PICK k \in CardWrite(files, f, f.buffer) : c = Card(k.card, [k.f EXCEPT !.buffer = << >>], 0)
    BY <1>3 DEF Flushed
  <2>2. f.path \notin MayFail
    BY <1>3, Params DEF Placed
  <2>w. PICK n \in 0..Len(f.buffer) : Wrote(files, f, f.buffer, k, n)
    BY <1>1, CardWriteIs, Zenon
  <2>3. /\ k.card = [files EXCEPT ![f.path] = Overwrite(files[f.path], f.pos, SubSeq(f.buffer, 1, n))]
        /\ k.f = [path |-> f.path, opened |-> k.f.opened, pos |-> f.pos + n, buffer |-> f.buffer]
        /\ k.f.opened \in BOOLEAN
        /\ k.ret = Len(f.buffer) => n = Len(f.buffer)
        /\ f.path \notin MayFail => k.ret = Len(f.buffer)
    BY <2>w DEF Wrote
  <2>4. n = Len(f.buffer)
    BY <2>2, <2>3
  <2>5. SubSeq(f.buffer, 1, n) = f.buffer
    <3>1. 1 \in 1..(Len(f.buffer) + 1) /\ n \in (1 - 1)..Len(f.buffer)
      BY <1>1, <2>4
    <3>2. /\ SubSeq(f.buffer, 1, n) \in Seq(Units) /\ Len(SubSeq(f.buffer, 1, n)) = n - 1 + 1
          /\ \A j \in 1..(n - 1 + 1) : SubSeq(f.buffer, 1, n)[j] = f.buffer[1 + j - 1]
      BY <1>1, <3>1, Part, Zenon
    <3>3. n - 1 + 1 = n /\ \A j \in 1..n : 1 + j - 1 = j
      BY <1>1, <2>4
    <3>4. Len(SubSeq(f.buffer, 1, n)) = Len(f.buffer)
      BY <2>4, <3>2, <3>3
    <3>5. \A j \in 1..Len(SubSeq(f.buffer, 1, n)) : SubSeq(f.buffer, 1, n)[j] = f.buffer[j]
      BY <3>2, <3>3
    <3> QED
      BY <1>1, <3>2, <3>4, <3>5, SameSeq, Zenon
  <2>6. c.card = k.card /\ c.f = [k.f EXCEPT !.buffer = << >>]
    BY <2>1 DEF Card
  <2>7. c.card = [files EXCEPT ![f.path] = View(files, f)]
    BY <2>3, <2>5, <2>6 DEF View
  <2>8. c.f = [path |-> f.path, opened |-> k.f.opened, pos |-> EndOf(f), buffer |-> << >>]
    BY <2>3, <2>4, <2>6 DEF EndOf
  <2>9. c.f.opened = k.f.opened
    BY <2>8
  <2> QED
    BY <2>3, <2>7, <2>8, <2>9
<1> QED
  BY <1>2, <1>3

\* A handle on the card after one file has changed.
LEMMA PlacedAgain ==
  ASSUME NEW files \in Cards, NEW path \in Redirected, NEW x \in Contents,
         NEW o \in BOOLEAN, NEW p \in 0..Len(x), NEW b \in Seq(Units), p + Len(b) <= MaxLen,
         b # << >> => path \in Vff
  PROVE  LET after == [files EXCEPT ![path] = x]
             f == [path |-> path, opened |-> o, pos |-> p, buffer |-> b]
         IN Placed(after, f) /\ View(after, f) = Overwrite(x, p, b) /\ EndOf(f) = p + Len(b)
<1> DEFINE after == [files EXCEPT ![path] = x]
           f == [path |-> path, opened |-> o, pos |-> p, buffer |-> b]
<1>1. after[path] = x
  BY DEF Cards
<1>2. p \in Nat /\ p <= Len(x)
  BY ContentsAre
<1> HIDE DEF after
<1>3. f \in RiivFiles
  BY <1>2 DEF RiivFiles
<1>4. Placed(after, f)
  BY <1>1, <1>2, <1>3 DEF Placed
<1>5. View(after, f) = Overwrite(x, p, b) /\ EndOf(f) = p + Len(b)
  BY <1>1 DEF View, EndOf
<1> QED
  BY <1>4, <1>5 DEF after

\* Write of either class: the card's file and its buffer show what they did with
\* the first n units of d written at the end of the buffer, n being the answer or
\* nothing at all.
WroteSome(files, f, d, c, n) ==
  /\ c.ret = n \/ (c.ret = -1 /\ n = 0)
  /\ EndOf(c.f) = EndOf(f) + n /\ View(c.card, c.f) = Overwrite(View(files, f), EndOf(f), SubSeq(d, 1, n))

AfterWrite(files, f, d, c) ==
  /\ Grown(files, c.card, f.path) /\ Fits(c.card, c.f) /\ c.f.path = f.path
  /\ \A m \in Nat : Len(files[f.path]) <= m /\ EndOf(f) + Len(d) <= m => Len(c.card[f.path]) <= m
  /\ c.ret = Len(d) =>
       EndOf(c.f) = EndOf(f) + Len(d) /\ View(c.card, c.f) = Overwrite(View(files, f), EndOf(f), d)
  /\ \E n \in 0..Len(d) : WroteSome(files, f, d, c, n)

LEMMA FileWriteIs ==
  ASSUME NEW files \in Cards, NEW f, Fits(files, f),
         NEW d \in Seq(Units), Len(d) <= buf_size, EndOf(f) + Len(d) <= MaxLen,
         NEW c \in FileWrite(files, f, d)
  PROVE  AfterWrite(files, f, d, c)
<1> USE DEF AfterWrite
<1> DEFINE x == files[f.path]
           p == f.pos
<1>0. Placed(files, f) /\ Len(f.buffer) < buf_size
  BY DEF Fits
<1>1. /\ f.path \in Redirected /\ p \in Nat /\ f.buffer \in Seq(Units) /\ Len(f.buffer) \in Nat
      /\ x \in Contents /\ p \in 0..Len(x) /\ p + Len(f.buffer) <= MaxLen /\ f.opened \in BOOLEAN
      /\ f = [path |-> f.path, opened |-> f.opened, pos |-> p, buffer |-> f.buffer]
  BY <1>0, PlacedIs
<1>2. Len(d) \in Nat /\ Len(x) \in Nat /\ MaxLen \in Nat /\ buf_size \in Nat \ {0}
  BY <1>1, ContentsAre, LenProperties, Params
<1>3. EndOf(f) = p + Len(f.buffer)
  BY DEF EndOf
<1> HIDE DEF x, p
<1>4. CASE f.path \notin Vff
  <2>1. f.buffer = << >> /\ Len(f.buffer) = 0
    BY <1>0, <1>4 DEF Placed
  <2>2. c \in CardWrite(files, f, d) /\ f.pos + Len(d) <= MaxLen
    BY <1>1, <1>2, <1>3, <1>4, <2>1 DEF FileWrite, p
  <2>w. PICK n \in 0..Len(d) : Wrote(files, f, d, c, n)
    BY <1>0, <2>2, CardWriteIs, Zenon
  <2>3. /\ c.card = [files EXCEPT ![f.path] = Overwrite(files[f.path], f.pos, SubSeq(d, 1, n))]
        /\ c.f = [path |-> f.path, opened |-> c.f.opened, pos |-> f.pos + n, buffer |-> f.buffer]
        /\ c.f.opened \in BOOLEAN
        /\ c.ret = n \/ (c.ret = -1 /\ n = 0)
        /\ f.path \notin MayFail => c.ret = Len(d)
    BY <2>w DEF Wrote
  <2> DEFINE e == SubSeq(d, 1, n)
             y == Overwrite(x, p, e)
  <2>4. e \in Seq(Units) /\ Len(e) = n /\ (n = Len(d) => e = d)
    <3>1. 1 \in 1..(Len(d) + 1) /\ n \in (1 - 1)..Len(d)
      BY <1>2
    <3>2. /\ e \in Seq(Units) /\ Len(e) = n - 1 + 1
          /\ \A j \in 1..(n - 1 + 1) : e[j] = d[1 + j - 1]
      BY <3>1, Part, Zenon
    <3> HIDE DEF e
    <3>3. n - 1 + 1 = n /\ \A j \in 1..n : 1 + j - 1 = j
      BY <1>2
    <3>4. Len(e) = n /\ \A j \in 1..Len(e) : e[j] = d[j]
      BY <3>2, <3>3
    <3>5. n = Len(d) => e = d
      BY <3>2, <3>4, SameSeq, Zenon
    <3> QED
      BY <3>2, <3>4, <3>5
  <2> HIDE DEF e
  <2>5. p + Len(e) <= MaxLen /\ n \in Nat /\ p + n \in 0..MaxLen
    BY <1>1, <1>2, <1>3, <2>1, <2>4
  <2>6. y \in Contents /\ Len(y) = IF p + Len(e) > Len(x) THEN p + Len(e) ELSE Len(x)
    BY <1>1, <2>4, <2>5, OverwriteIs, Zenon
  <2> HIDE DEF y
  <2>7. c.card = [files EXCEPT ![f.path] = y] /\ c.card[f.path] = y
    BY <1>1, <2>3 DEF Cards, x, p, y, e
  <2>8. p + n \in 0..Len(y) /\ Len(x) <= Len(y) /\ Len(y) \in Nat
    BY <1>1, <1>2, <2>4, <2>5, <2>6
  <2>9. Grown(files, c.card, f.path)
    BY <2>6, <2>7, <2>8 DEF Grown, x
  <2>10. /\ Placed(c.card, c.f) /\ View(c.card, c.f) = Overwrite(y, p + n, << >>) /\ EndOf(c.f) = (p + n) + Len(<< >>)
         /\ c.f.buffer = << >> /\ c.f.path = f.path
    <3> DEFINE o == c.f.opened
               b == << >>
    <3>1. b \in Seq(Units) /\ (p + n) + Len(b) <= MaxLen /\ (b # << >> => f.path \in Vff)
      BY <1>1, <2>1, <2>5
    <3>2. c.f = [path |-> f.path, opened |-> o, pos |-> p + n, buffer |-> b] /\ o \in BOOLEAN
      BY <2>1, <2>3 DEF p
    <3> HIDE DEF o, b
    <3>y. /\ f.path \in Redirected /\ y \in Contents /\ o \in BOOLEAN /\ p + n \in 0..Len(y)
          /\ b \in Seq(Units) /\ (p + n) + Len(b) <= MaxLen /\ (b # << >> => f.path \in Vff)
      BY <1>1, <2>6, <2>8, <3>1, <3>2
    <3>3. /\ Placed([files EXCEPT ![f.path] = y], [path |-> f.path, opened |-> o, pos |-> p + n, buffer |-> b])
          /\ View([files EXCEPT ![f.path] = y], [path |-> f.path, opened |-> o, pos |-> p + n, buffer |-> b])
               = Overwrite(y, p + n, b)
          /\ EndOf([path |-> f.path, opened |-> o, pos |-> p + n, buffer |-> b]) = (p + n) + Len(b)
      BY <3>y, PlacedAgain, Zenon
    <3>4. c.f.buffer = b /\ c.f.path = f.path
      BY <3>2
    <3> QED
      BY <2>7, <3>2, <3>3, <3>4 DEF b
  <2>11. Fits(c.card, c.f)
    BY <1>2, <2>10 DEF Fits
  <2>12. View(c.card, c.f) = y /\ EndOf(c.f) = p + n
    BY <2>5, <2>6, <2>8, <2>10, OverwriteNone
  <2>13. View(files, f) = x /\ EndOf(f) = p
    BY <1>0, <2>1, ViewIs DEF x, p
  <2>14. c.ret = Len(d) => y = Overwrite(x, p, d) /\ n = Len(d)
    <3>1. c.ret = Len(d) => n = Len(d)
      BY <1>2, <2>3
    <3> QED
      BY <2>4, <3>1 DEF y
  <2>15. ASSUME NEW m \in Nat, Len(x) <= m, EndOf(f) + Len(d) <= m PROVE Len(y) <= m
    BY <1>1, <1>2, <2>4, <2>6, <2>13, <2>15
  <2>16. WroteSome(files, f, d, c, n)
    BY <2>3, <2>12, <2>13 DEF WroteSome, y, e
  <2> QED
    BY <2>3, <2>7, <2>9, <2>10, <2>11, <2>12, <2>13, <2>14, <2>15, <2>16 DEF x
<1>5. CASE f.path \in Vff
  <2> DEFINE all == f.buffer \o d
             k == Lesser(buf_size, Len(all))
             now == SubSeq(all, 1, k)
             rest == SubSeq(all, Len(now) + 1, Len(all))
  <2>1. c \in BufferedWrite(files, f, d, buf_size)
    BY <1>5 DEF FileWrite
  <2>2. all \in Seq(Units) /\ Len(all) = Len(f.buffer) + Len(d)
    BY <1>1, ConcatProperties, Zenon
  <2> HIDE DEF all
  <2>3. Overwrite(View(files, f), EndOf(f), d) = Overwrite(x, p, all)
    <3>1. p + Len(f.buffer) + Len(d) <= MaxLen
      BY <1>3
    <3> QED
      <4>1. Overwrite(Overwrite(x, p, f.buffer), p + Len(f.buffer), d) = Overwrite(x, p, all)
        BY <1>1, <3>1, OverwriteTwice, Zenon DEF all
      <4>2. View(files, f) = Overwrite(x, p, f.buffer)
        BY DEF View, x, p
      <4> QED
        BY <1>3, <4>1, <4>2
  <2>4. p + Len(all) = EndOf(f) + Len(d) /\ p + Len(all) <= MaxLen /\ Len(all) \in Nat
    BY <1>1, <1>2, <1>3, <2>2
  <2>a. Len(d) \in 0..Len(d) /\ SubSeq(d, 1, Len(d)) = d
    BY <1>2, AllOfIt
  <2>5. CASE Len(all) < buf_size
    <3> DEFINE g == [path |-> f.path, opened |-> f.opened, pos |-> p, buffer |-> all]
    <3>1. c = Card(files, [f EXCEPT !.buffer = all], Len(d))
      BY <2>1, <2>5 DEF BufferedWrite, all
    <3>2. [f EXCEPT !.buffer = all] = g
      BY <1>1
    <3>3. c.card = files /\ c.f = g /\ c.ret = Len(d)
      BY <3>1, <3>2 DEF Card
    <3>4. files = [files EXCEPT ![f.path] = x]
      BY <1>1 DEF Cards, x
    <3>5. /\ Placed([files EXCEPT ![f.path] = x], g)
          /\ View([files EXCEPT ![f.path] = x], g) = Overwrite(x, p, all) /\ EndOf(g) = p + Len(all)
      BY <1>1, <1>5, <2>2, <2>4, PlacedAgain, Zenon
    <3>6. g.path = f.path /\ g.buffer = all
      OBVIOUS
    <3> HIDE DEF g
    <3>7. Fits(c.card, c.f)
      BY <2>5, <3>3, <3>4, <3>5, <3>6 DEF Fits
    <3>8. Grown(files, c.card, f.path)
      BY <1>1, <1>2, <3>3, <3>4 DEF Grown, x
    <3>9. WroteSome(files, f, d, c, Len(d))
      BY <2>3, <2>4, <2>a, <3>3, <3>4, <3>5 DEF WroteSome
    <3> QED
      BY <2>3, <2>4, <2>a, <3>3, <3>4, <3>5, <3>6, <3>7, <3>8, <3>9 DEF x
  <2>6. CASE ~ (Len(all) < buf_size)
    <3>1. k = buf_size /\ k \in Nat /\ k <= Len(all) /\ k # 0
      BY <1>2, <2>4, <2>6 DEF Lesser
    <3> HIDE DEF k
    <3>2. /\ now \in Seq(Units) /\ Len(now) = k /\ \A j \in 1..k : now[j] = all[j]
      <4>1. 1 \in 1..(Len(all) + 1) /\ k \in (1 - 1)..Len(all)
        BY <2>4, <3>1
      <4>2. /\ now \in Seq(Units) /\ Len(now) = k - 1 + 1
            /\ \A j \in 1..(k - 1 + 1) : now[j] = all[1 + j - 1]
        BY <2>2, <4>1, Part, Zenon
      <4> HIDE DEF now
      <4>3. k - 1 + 1 = k /\ \A j \in 1..k : 1 + j - 1 = j
        BY <3>1
      <4> QED
        BY <4>2, <4>3
    <3> HIDE DEF now
    <3>3. /\ rest \in Seq(Units) /\ Len(rest) = Len(all) - k
          /\ \A j \in 1..Len(rest) : rest[j] = all[k + j]
      <4>1. Len(now) + 1 \in 1..(Len(all) + 1) /\ Len(all) \in ((Len(now) + 1) - 1)..Len(all)
        BY <2>4, <3>1, <3>2
      <4>2. /\ rest \in Seq(Units) /\ Len(rest) = Len(all) - (Len(now) + 1) + 1
            /\ \A j \in 1..(Len(all) - (Len(now) + 1) + 1) : rest[j] = all[(Len(now) + 1) + j - 1]
        BY <2>2, <4>1, Part, Zenon
      <4> HIDE DEF rest
      <4>3. Len(all) - (Len(now) + 1) + 1 = Len(all) - k /\ \A j \in Int : (Len(now) + 1) + j - 1 = k + j
        BY <2>4, <3>1, <3>2
      <4>4. Len(rest) = Len(all) - k
        BY <4>2, <4>3
      <4>5. \A j \in 1..Len(rest) : j \in Int /\ j \in 1..(Len(all) - (Len(now) + 1) + 1)
        BY <4>2
      <4>6. \A j \in 1..Len(rest) : rest[j] = all[k + j]
        BY <4>2, <4>3, <4>5
      <4> QED
        BY <4>2, <4>4, <4>6
    <3> HIDE DEF rest
    <3>4. now \o rest = all
      <4> DEFINE both == now \o rest
      <4>1. /\ both \in Seq(Units) /\ Len(both) = Len(now) + Len(rest)
            /\ \A i \in 1..Len(now) + Len(rest) : both[i] = IF i <= Len(now) THEN now[i] ELSE rest[i - Len(now)]
        BY <3>2, <3>3, ConcatProperties, Zenon
      <4> HIDE DEF both
      <4>2. Len(both) = Len(all)
        BY <2>4, <3>1, <3>2, <3>3, <4>1
      <4>n. /\ Len(now) = k /\ Len(rest) = Len(all) - k /\ k \in Nat /\ k <= Len(all) /\ Len(all) \in Nat
            /\ Len(now) + Len(rest) = Len(all)
        BY <2>4, <3>1, <3>2, <3>3
      <4>3. ASSUME NEW i \in 1..Len(both) PROVE both[i] = all[i]
        <5>1. CASE i <= k
          <6>1. i \in 1..Len(now) + Len(rest) /\ i <= Len(now) /\ i \in 1..k
            BY <4>2, <4>n, <5>1
          <6> QED
            BY <3>2, <4>1, <6>1
        <5>2. CASE ~ (i <= k)
          <6>1. /\ i \in 1..Len(now) + Len(rest) /\ ~ (i <= Len(now))
                /\ i - Len(now) \in 1..Len(rest) /\ k + (i - Len(now)) = i
            BY <4>2, <4>n, <5>2
          <6> QED
            BY <3>3, <4>1, <6>1
        <5> QED
          BY <5>1, <5>2
      <4>4. both = all
        BY <2>2, <4>1, <4>2, <4>3, SameSeq, Zenon
      <4> QED
        BY <4>4 DEF both
    <3> DEFINE h == [path |-> f.path, opened |-> f.opened, pos |-> p, buffer |-> now]
               y == Overwrite(x, p, now)
    <3>5. PICK e \in Flushed(files, [f EXCEPT !.buffer = now]) :
            c = Card(e.card, [e.f EXCEPT !.buffer = rest], Len(d))
      BY <2>1, <2>6 DEF BufferedWrite, all, now, rest, k
    <3>6. [f EXCEPT !.buffer = now] = h
      BY <1>1
    <3>7. p + Len(now) <= MaxLen /\ p + Len(now) \in Nat
      BY <1>1, <1>2, <2>4, <3>1, <3>2
    <3>8. /\ Placed([files EXCEPT ![f.path] = x], h)
          /\ View([files EXCEPT ![f.path] = x], h) = Overwrite(x, p, now) /\ EndOf(h) = p + Len(now)
      BY <1>1, <1>5, <3>2, <3>7, PlacedAgain, Zenon
    <3>9. files = [files EXCEPT ![f.path] = x]
      BY <1>1 DEF Cards, x
    <3>10. h.path = f.path
      OBVIOUS
    <3> HIDE DEF h
    <3>11. /\ e.card = [files EXCEPT ![f.path] = y]
           /\ e.f = [path |-> f.path, opened |-> e.f.opened, pos |-> p + Len(now), buffer |-> << >>]
           /\ e.f.opened \in BOOLEAN
      <4>1. e \in Flushed(files, h) /\ Placed(files, h)
        BY <3>5, <3>6, <3>8, <3>9
      <4>2. /\ e.card = [files EXCEPT ![h.path] = View(files, h)]
            /\ e.f = [path |-> h.path, opened |-> e.f.opened, pos |-> EndOf(h), buffer |-> << >>]
            /\ e.f.opened \in BOOLEAN
        BY <4>1, FlushedIs, Zenon
      <4> QED
        BY <3>8, <3>9, <3>10, <4>2
    <3>12. y \in Contents /\ Len(y) = IF p + Len(now) > Len(x) THEN p + Len(now) ELSE Len(x)
      BY <1>1, <3>2, <3>7, OverwriteIs, Zenon
    <3>13. Overwrite(y, p + Len(now), rest) = Overwrite(x, p, all)
      <4>1. p + Len(now) + Len(rest) <= MaxLen
        BY <1>1, <1>2, <2>4, <3>1, <3>2, <3>3
      <4> QED
        BY <1>1, <3>2, <3>3, <3>4, <4>1, OverwriteTwice, Zenon
    <3> HIDE DEF y
    <3>14. p + Len(now) \in 0..Len(y) /\ Len(x) <= Len(y) /\ Len(y) \in Nat
      BY <1>1, <1>2, <3>7, <3>12
    <3> DEFINE o == e.f.opened
    <3>o. o \in BOOLEAN
      BY <3>11
    <3> HIDE DEF o
    <3> DEFINE g == [path |-> f.path, opened |-> o, pos |-> p + Len(now), buffer |-> rest]
    <3>15. c.card = [files EXCEPT ![f.path] = y] /\ c.f = g /\ c.ret = Len(d)
      <4>1. c.card = e.card /\ c.f = [e.f EXCEPT !.buffer = rest] /\ c.ret = Len(d)
        BY <3>5 DEF Card
      <4>2. [e.f EXCEPT !.buffer = rest] = g
        BY <3>11 DEF o
      <4> HIDE DEF g
      <4> QED
        BY <3>11, <4>1, <4>2
    <3>16. p + Len(now) + Len(rest) = p + Len(all) /\ (p + Len(now)) + Len(rest) <= MaxLen
      BY <1>1, <1>2, <2>4, <3>1, <3>2, <3>3
    <3>y. /\ f.path \in Redirected /\ y \in Contents /\ o \in BOOLEAN /\ p + Len(now) \in 0..Len(y)
          /\ rest \in Seq(Units) /\ (p + Len(now)) + Len(rest) <= MaxLen /\ (rest # << >> => f.path \in Vff)
      BY <1>1, <1>5, <3>3, <3>o, <3>12, <3>14, <3>16
    <3>17. /\ Placed([files EXCEPT ![f.path] = y], g)
           /\ View([files EXCEPT ![f.path] = y], g) = Overwrite(y, p + Len(now), rest)
           /\ EndOf(g) = (p + Len(now)) + Len(rest)
      BY <3>y, PlacedAgain, Zenon
    <3>18. g.path = f.path /\ g.buffer = rest
      OBVIOUS
    <3> HIDE DEF g
    <3>19. Len(rest) < buf_size
      BY <1>0, <1>1, <1>2, <2>2, <3>1, <3>3
    <3>20. Fits(c.card, c.f)
      BY <3>15, <3>17, <3>18, <3>19 DEF Fits
    <3>21. c.card[f.path] = y
      BY <1>1, <3>15 DEF Cards
    <3>22. Grown(files, c.card, f.path)
      BY <3>12, <3>14, <3>15, <3>21 DEF Grown, x
    <3>23. ASSUME NEW m \in Nat, Len(x) <= m, EndOf(f) + Len(d) <= m PROVE Len(y) <= m
      BY <1>1, <1>2, <2>4, <3>1, <3>2, <3>12, <3>23
    <3>24. EndOf(c.f) = EndOf(f) + Len(d)
      BY <2>4, <3>15, <3>16, <3>17
    <3>25. View(c.card, c.f) = Overwrite(View(files, f), EndOf(f), d)
      BY <2>3, <3>13, <3>15, <3>17
    <3>26. WroteSome(files, f, d, c, Len(d))
      BY <2>a, <3>15, <3>24, <3>25 DEF WroteSome
    <3> QED
      BY <2>a, <3>15, <3>18, <3>20, <3>21, <3>22, <3>23, <3>24, <3>25, <3>26 DEF x
  <2> QED
    BY <2>5, <2>6
<1> QED
  BY <1>4, <1>5

Codes == {"OK"} \cup {r.code : r \in Refusals}

LEMMA CodesAre ==
  /\ Codes = {"OK", "FileNotFound", "IOError", "InvalidArgument"}
  /\ OK.code \in Codes /\ \A r \in Refusals : r.code \in Codes
  /\ \A code \in Codes : \A value, data : Reply(code, value, data) # NotOurs /\ Reply(code, value, data).code = code
<1>1. Refusals = {FileNotFound, IOError, InvalidArgument}
  BY DEF Refusals
<1>2. FileNotFound.code = "FileNotFound" /\ IOError.code = "IOError" /\ InvalidArgument.code = "InvalidArgument" /\ OK.code = "OK"
  BY DEF FileNotFound, IOError, InvalidArgument, OK, Code, Reply
<1>3. Codes = {"OK", "FileNotFound", "IOError", "InvalidArgument"}
  BY <1>1, <1>2 DEF Codes
<1>4. NotOurs.code = "not ours"
  BY DEF NotOurs, Code, Reply
<1>5. ASSUME NEW code \in Codes, NEW value, NEW data
      PROVE  Reply(code, value, data) # NotOurs /\ Reply(code, value, data).code = code
  <2>1. Reply(code, value, data).code = code
    BY DEF Reply
  <2>2. code # "not ours"
    BY <1>3
  <2> QED
    BY <1>4, <2>1, <2>2
<1> QED
  BY <1>1, <1>2, <1>3, <1>5

\* A read or seek of a file flushes its buffer first.
LEMMA FileUseIs ==
  ASSUME card \in Cards, NEW f, Fits(card, f),
         NEW r, r.op \in {"read", "rewind", "stats"}, r.op = "read" => r.arg = << 1 >>,
         NEW c \in FileUse(r, f)
  PROVE  /\ Grown(card, c.card, f.path) /\ Fits(c.card, c.f) /\ c.f.path = f.path
         /\ c.ret.code \in Codes
<1> DEFINE x == View(card, f)
           b == << >>
<1>1. PICK k \in Flushed(card, f) : \E g \in Opened(k.card, k.f) : c = Used(r, k.card, g)
  BY DEF FileUse
<1>2. PICK g \in Opened(k.card, k.f) : c = Used(r, k.card, g)
  BY <1>1
<1>3. Placed(card, f) /\ f.path \in Redirected
  BY PlacedIs DEF Fits
<1>4. /\ k.card = [card EXCEPT ![f.path] = x]
      /\ k.f = [path |-> f.path, opened |-> k.f.opened, pos |-> EndOf(f), buffer |-> b]
      /\ k.f.opened \in BOOLEAN
  BY <1>3, FlushedIs, Zenon
<1>5. /\ x \in Contents /\ EndOf(f) \in 0..Len(x) /\ EndOf(f) <= MaxLen
      /\ Len(x) = IF EndOf(f) > Len(card[f.path]) THEN EndOf(f) ELSE Len(card[f.path])
  BY <1>3, ViewIs, Zenon
<1>6. card[f.path] \in Contents /\ Len(card[f.path]) \in Nat /\ Len(x) \in Nat /\ Len(x) <= MaxLen /\ EndOf(f) \in Nat
  BY <1>3, <1>5, PlacedIs, ContentsAre
<1> HIDE DEF x
<1>7. b \in Seq(Units) /\ Len(b) = 0 /\ b = << >>
  OBVIOUS
<1> HIDE DEF b
<1>8. k.card[f.path] = x /\ Grown(card, k.card, f.path)
  <2>1. k.card[f.path] = x
    BY <1>3, <1>4 DEF Cards
  <2>2. Len(card[f.path]) <= Len(x)
    BY <1>5, <1>6
  <2> QED
    BY <1>4, <1>5, <2>1, <2>2 DEF Grown
<1>9. Placed(k.card, k.f)
  <2> DEFINE o == k.f.opened
  <2>1. o \in BOOLEAN /\ k.f = [path |-> f.path, opened |-> o, pos |-> EndOf(f), buffer |-> b]
    BY <1>4
  <2> HIDE DEF o
  <2>2. EndOf(f) + Len(b) <= MaxLen /\ (b # << >> => f.path \in Vff)
    BY <1>5, <1>6, <1>7
  <2>3. Placed([card EXCEPT ![f.path] = x], [path |-> f.path, opened |-> o, pos |-> EndOf(f), buffer |-> b])
    BY <1>3, <1>5, <1>7, <2>1, <2>2, PlacedAgain, Zenon
  <2> QED
    BY <1>4, <2>1, <2>3
<1>10. /\ g = [path |-> k.f.path, opened |-> g.opened, pos |-> k.f.pos, buffer |-> k.f.buffer]
       /\ g.opened \in BOOLEAN /\ Placed(k.card, g)
  BY <1>9, OpenedIs, Zenon
<1>11. g = [path |-> f.path, opened |-> g.opened, pos |-> EndOf(f), buffer |-> b]
  BY <1>4, <1>10
<1>12. g.path = f.path /\ g.pos = EndOf(f) /\ g.buffer = b
  BY <1>11
<1>13. Fits(k.card, g)
  BY <1>7, <1>10, <1>12, Params DEF Fits
<1>14. \A p \in 0..Len(x) : Fits(k.card, [g EXCEPT !.pos = p]) /\ [g EXCEPT !.pos = p].path = f.path
  <2> TAKE p \in 0..Len(x)
  <2> DEFINE h == [g EXCEPT !.pos = p]
             o == g.opened
  <2>1. h = [path |-> f.path, opened |-> o, pos |-> p, buffer |-> b] /\ o \in BOOLEAN
    BY <1>10, <1>11
  <2> HIDE DEF h, o
  <2>2. h.path = f.path /\ h.pos = p /\ h.buffer = b /\ h \in RiivFiles
    <3>1. p \in Nat
      BY <1>6
    <3> QED
      BY <1>3, <1>7, <2>1, <3>1 DEF RiivFiles
  <2>3. Fits(k.card, h)
    BY <1>3, <1>5, <1>6, <1>7, <1>8, <2>2, Params DEF Fits, Placed
  <2> QED
    BY <2>2, <2>3 DEF h
<1>15. CASE ~ g.opened
  <2>1. \/ c = Card(k.card, g, Reply("OK", NoFd, << NoFd >>))
        \/ c = Card(k.card, g, IOError)
    BY <1>2, <1>15 DEF Used
  <2>2. c.card = k.card /\ c.f = g /\ c.ret.code \in Codes
    BY <2>1, CodesAre DEF Card, Reply, Refusals
  <2> QED
    BY <1>8, <1>12, <1>13, <2>2
<1>16. CASE g.opened /\ r.op = "read"
  <2> DEFINE got == Slice(x, EndOf(f), 1)
  <2>1. c = Card(k.card, [g EXCEPT !.pos = EndOf(f) + Len(got)], Reply("OK", Len(got), got))
    <3>1. r.arg[1] = 1
      BY <1>16
    <3>2. c = Card(k.card, [g EXCEPT !.pos = @ + Len(Slice(k.card[g.path], g.pos, r.arg[1]))],
                   Reply("OK", Len(Slice(k.card[g.path], g.pos, r.arg[1])), Slice(k.card[g.path], g.pos, r.arg[1])))
      BY <1>2, <1>16 DEF Used
    <3>3. Slice(k.card[g.path], g.pos, r.arg[1]) = got
      BY <1>8, <1>12, <3>1
    <3> HIDE DEF got
    <3>4. c = Card(k.card, [g EXCEPT !.pos = @ + Len(got)], Reply("OK", Len(got), got))
      BY <3>2, <3>3
    <3>5. [g EXCEPT !.pos = @ + Len(got)] = [g EXCEPT !.pos = EndOf(f) + Len(got)]
      BY <1>12
    <3> QED
      BY <3>4, <3>5
  <2>2. Len(got) = IF EndOf(f) + 1 < Len(x) THEN 1 ELSE Len(x) - EndOf(f)
    BY <1>5, SliceIs, Zenon
  <2> HIDE DEF got
  <2>3. EndOf(f) + Len(got) \in 0..Len(x)
    BY <1>5, <1>6, <2>2
  <2>4. c.card = k.card /\ c.f = [g EXCEPT !.pos = EndOf(f) + Len(got)] /\ c.ret.code \in Codes
    BY <2>1, CodesAre DEF Card, Reply
  <2> QED
    BY <1>8, <1>14, <2>3, <2>4
<1>17. CASE g.opened /\ r.op = "rewind"
  <2>1. c = Card(k.card, [g EXCEPT !.pos = 0], OK)
    BY <1>2, <1>17 DEF Used
  <2>2. c.card = k.card /\ c.f = [g EXCEPT !.pos = 0] /\ c.ret.code \in Codes
    BY <2>1, CodesAre DEF Card
  <2> QED
    BY <1>6, <1>8, <1>14, <2>2
<1>18. CASE g.opened /\ r.op = "stats"
  <2>1. c = Card(k.card, g, Reply("OK", g.pos, <<Len(k.card[g.path])>>))
    BY <1>2, <1>18 DEF Used
  <2>2. c.card = k.card /\ c.f = g /\ c.ret.code \in Codes
    BY <2>1, CodesAre DEF Card, Reply
  <2> QED
    BY <1>8, <1>12, <1>13, <2>2
<1> QED
  BY <1>10, <1>15, <1>16, <1>17, <1>18

\* What other files have open stays where it was.
Keeps(files, after) == after \in Cards /\ \A f : Fits(files, f) => Fits(after, f)

LEMMA GrownFits ==
  ASSUME NEW files \in Cards, NEW path \in Redirected, NEW after, Grown(files, after, path)
  PROVE  Keeps(files, after)
<1>1. /\ after = [files EXCEPT ![path] = after[path]] /\ after[path] \in Contents
      /\ Len(files[path]) <= Len(after[path])
  BY DEF Grown
<1>2. after \in Cards
  BY <1>1 DEF Cards
<1>3. ASSUME NEW f, Fits(files, f) PROVE Fits(after, f)
  <2>1. CASE f.path = path
    <3>1. f.pos \in Nat /\ f.pos <= Len(files[path]) /\ Len(files[path]) \in Nat /\ Len(after[path]) \in Nat
      BY <1>1, <1>3, <2>1, PlacedIs, ContentsAre DEF Fits
    <3>2. f.pos <= Len(after[path])
      BY <1>1, <3>1
    <3> QED
      BY <1>1, <1>3, <2>1, <3>2 DEF Fits, Placed
  <2>2. CASE f.path # path
    <3>1. f.path \in Redirected
      BY <1>3 DEF Fits, Placed
    <3>2. after[f.path] = files[f.path]
      BY <1>1, <2>2, <3>1 DEF Cards
    <3> QED
      BY <1>3, <3>2 DEF Fits, Placed
  <2> QED
    BY <2>1, <2>2
<1> QED
  BY <1>2, <1>3 DEF Keeps

\* So it does when a buffer is flushed.
LEMMA FlushedGrows ==
  ASSUME NEW files \in Cards, NEW f, Fits(files, f), NEW c \in Flushed(files, f)
  PROVE  /\ f.path \in Redirected /\ Grown(files, c.card, f.path) /\ c.card[f.path] = View(files, f)
         /\ c.card = [files EXCEPT ![f.path] = View(files, f)]
<1> DEFINE x == View(files, f)
<1>1. Placed(files, f) /\ f.path \in Redirected
  BY PlacedIs DEF Fits
<1>2. c.card = [files EXCEPT ![f.path] = x]
  BY <1>1, FlushedIs, Zenon
<1>3. /\ x \in Contents /\ EndOf(f) \in 0..Len(x)
      /\ Len(x) = IF EndOf(f) > Len(files[f.path]) THEN EndOf(f) ELSE Len(files[f.path])
  BY <1>1, ViewIs, Zenon
<1>4. Len(files[f.path]) \in Nat /\ Len(x) \in Nat
  BY <1>1, <1>3, PlacedIs, ContentsAre
<1> HIDE DEF x
<1>5. c.card[f.path] = x
  BY <1>1, <1>2 DEF Cards
<1>6. Len(files[f.path]) <= Len(x)
  BY <1>3, <1>4
<1>7. Grown(files, c.card, f.path)
  BY <1>2, <1>3, <1>5, <1>6 DEF Grown
<1> QED
  BY <1>1, <1>2, <1>5, <1>7 DEF x

\* A file that the emulation opens is at the beginning.
LEMMA OpenedFits ==
  ASSUME NEW files \in Cards, NEW path \in Redirected, files[path] # Absent
  PROVE  /\ Fits(files, RiivFile(path)) /\ RiivFile(path).path = path
         /\ EndOf(RiivFile(path)) = 0 /\ View(files, RiivFile(path)) = files[path]
<1> DEFINE f == RiivFile(path)
           b == << >>
<1>1. f.path = path /\ f.pos = 0 /\ f.buffer = b /\ f.opened = FALSE /\ b = << >> /\ b \in Seq(Units) /\ Len(b) = 0
  BY DEF RiivFile
<1>2. f \in RiivFiles
  BY DEF RiivFile, RiivFiles
<1>3. files[path] \in Contents
  BY DEF Cards
<1>4. Len(files[path]) \in Nat
  BY <1>3, ContentsAre
<1> HIDE DEF f, b
<1>5. Placed(files, f)
  BY <1>1, <1>2, <1>3, <1>4, Params DEF Placed
<1>6. Fits(files, f)
  BY <1>1, <1>5, Params DEF Fits
<1>7. View(files, f) = files[path] /\ EndOf(f) = 0
  BY <1>1, <1>5, ViewIs
<1> QED
  BY <1>1, <1>6, <1>7 DEF f
-----------------------------------------------------------------------------
(* The inductive invariant *)

ISFSFile(h) == h = [path |-> h.path, pos |-> h.pos, emu |-> h.emu] /\ h.path \in Paths \cup {DevFs, Nowhere}

NandTypes(files, table) ==
  /\ files \in [Paths -> Contents \cup {Absent}]
  /\ table = [fd \in NandFds |-> table[fd]] /\ \A fd \in NandFds : ISFSFile(table[fd])

CardTypes(files, open) ==
  /\ files \in Cards
  /\ open \in [EmuFds -> RiivFiles] /\ \A i \in EmuFds : open[i] = NULL \/ Fits(files, open[i])

Types == NandTypes(nand, FS_Files) /\ CardTypes(card, open_files) /\ reply.code \in Codes

\* What the game has made sure of when it asks.
Ops == {"open", "create", "delete", "move", "close", "rewind", "stats", "read", "write"}

Pending ==
  /\ message.op \in Ops /\ message.path \in Paths \cup {Nowhere}
  /\ message.op = "write" =>
       /\ message.fd \in EmuFds /\ EndOf(open_files[message.fd]) + Len(message.arg) <= MaxLen
       /\ message.arg \in Seq(Units) /\ Len(message.arg) <= buf_size
  /\ message.op = "read" => message.arg = <<1>>
  /\ message.op \in {"delete", "move"} =>
       message.path \in Paths /\ \A i \in EmuFds : open_files[i].path # message.path
  /\ message.op = "move" =>
       /\ message.path2 \in Paths /\ cargo = On(message.path)
       /\ On(message.path2) = Absent \/ (cargo # Absent /\ Len(On(message.path2)) <= Len(cargo))

\* What is left to /dev/fs.
Left ==
  /\ message.op \in Ops \ {"write"} /\ message.path \in Paths \cup {Nowhere}
  /\ message.op = "move" => message.path \in Paths \ Redirected /\ cargo = nand[message.path]

\* The NAND has done what MoveTo asked of it.
Done == ipc.phase = "close" \/ (ipc.phase = "ioctl" /\ ipc.acked)

\* A descriptor of the file that is moved.
Source(fd) == fd \in NandFds /\ FS_Files[fd].path = job.from

\* At each step of MoveTo: the old file is whole until the new one is; the new one
\* has, with its buffer, all that the loop has read, and is no longer.
Whole == nand[job.from] = cargo /\ cargo # Absent
AtOpen ==
  /\ nand[job.from] = cargo /\ job.ret = InvalidArgument
  /\ card[job.to] = Absent \/ (cargo # Absent /\ Len(card[job.to]) <= Len(cargo))
  /\ Done /\ ipc.ret.code = "OK" =>
       cargo # Absent /\ Source(ipc.ret.value) /\ FS_Files[ipc.ret.value].pos = 0
Ready ==
  /\ Whole /\ Source(job.src) /\ job.dest = RiivFile(job.to)
  /\ card[job.to] # Absent /\ Len(card[job.to]) <= Len(cargo)
AtSize == Ready /\ (Done => ipc.ret.value = Len(cargo))
AtRewind == Ready /\ job.size = Len(cargo) /\ (Done => ipc.ret = OK /\ FS_Files[job.src].pos = 0)
AtRead ==
  /\ Whole /\ Source(job.src) /\ Fits(card, job.dest) /\ job.dest.path = job.to
  /\ Len(card[job.to]) <= Len(cargo) /\ job.ret = OK
  /\ job.size \in Nat \ {0} /\ EndOf(job.dest) + job.size = Len(cargo)
  /\ \A i \in 1..EndOf(job.dest) : View(card, job.dest)[i] = cargo[i]
  /\ ~ Done => FS_Files[job.src].pos = EndOf(job.dest)
  /\ Done =>
       \/ ipc.ret.data = << >>
       \/ /\ ipc.ret.data = Slice(cargo, EndOf(job.dest), Lesser(move_size, job.size))
          /\ FS_Files[job.src].pos = EndOf(job.dest) + Len(ipc.ret.data)
AtClose == Whole /\ job.ret.code \in Codes /\ (job.ret = OK => card[job.to] = cargo)
AtEnd == card[job.to] = cargo /\ cargo # Absent /\ job.ret = OK

Stages == {"open", "size", "rewind", "read", "close", "open fs", "delete", "close fs"}

Stage ==
  /\ job.at \in Stages
  /\ job.at = "open" => AtOpen
  /\ job.at = "size" => AtSize
  /\ job.at = "rewind" => AtRewind
  /\ job.at = "read" => AtRead
  /\ job.at = "close" => AtClose
  /\ job.at \in {"open fs", "delete", "close fs"} => AtEnd

\* A call of FS_IPC has a message on its way to the hook, or acknowledged.
Calling ==
  /\ ipc = [phase |-> ipc.phase, acked |-> ipc.acked, request |-> Wanted, ret |-> ipc.ret]
  /\ ipc.phase \in {"open", "ioctl", "close"} /\ ipc.acked \in BOOLEAN
  /\ fs_internal_queue = IF ipc.acked THEN << >> ELSE <<[msg |-> ipc.phase, ret |-> OK]>>

Moving ==
  /\ message.op = "move" /\ job.from = message.path /\ job.to = message.path2
  /\ job.from \in Paths \ Redirected /\ job.to \in Redirected
  /\ job = [at |-> job.at, from |-> job.from, to |-> job.to, src |-> job.src, size |-> job.size,
            dest |-> job.dest, ret |-> job.ret]
  /\ (ipc = NoIpc /\ fs_internal_queue = << >>) \/ Calling
  /\ Stage

\* Who has the request: nobody; the emulation's queue; the emulation, in MoveTo; the
\* hook's queue; /dev/fs.
Free == job = NoJob /\ ipc = NoIpc
Resting == fs = "ready" /\ message = Nothing /\ queue = << >> /\ fs_internal_queue = << >> /\ Free
Asked == fs = "waits" /\ queue = <<"FSMessage">> /\ fs_internal_queue = << >> /\ Free /\ Pending
InMove == fs = "waits" /\ queue = << >> /\ Moving
Finished ==
  /\ fs = "waits" /\ queue = << >> /\ Free
  /\ \E ret : /\ fs_internal_queue = <<[msg |-> "done", ret |-> ret]>>
              /\ IF ret = NotOurs THEN Left ELSE cargo = Absent
Serving == fs = "serves" /\ queue = << >> /\ fs_internal_queue = << >> /\ Free /\ Left

Conversation ==
  /\ fs = "waits" => ProxyMessage = message
  /\ Resting \/ Asked \/ InMove \/ Finished \/ Serving

IndInv == Types /\ Conversation
-----------------------------------------------------------------------------
(* /dev/fs *)

\* A set of numbers has a least one.
LEMMA LeastIsOne ==
  ASSUME NEW T, T \subseteq Nat, T # {}
  PROVE  Least(T) \in T
<1> DEFINE R == {ss \in Nat \X Nat : ss[1] < ss[2]}
<1>2. IsWellFoundedOn(R, Nat)
  BY NatLessThanWellFounded, Zenon DEF OpToRel
<1> HIDE DEF R
<1>3. PICK m \in T : \A k \in T : <<k, m>> \notin R
  BY <1>2, WFMin, Zenon
<1>4. \A k \in T : ~ (k < m)
  BY <1>3 DEF R
<1>5. \A k \in T : m <= k
  BY <1>4
<1> QED
  BY <1>5 DEF Least

\* Another position, or another file, in the table.
LEMMA TableKept ==
  ASSUME NandTypes(nand, FS_Files), NEW fd
  PROVE  /\ \A pos : NandTypes(nand, [FS_Files EXCEPT ![fd].pos = pos])
         /\ \A h : ISFSFile(h) => NandTypes(nand, [FS_Files EXCEPT ![fd] = h])
<1>1. /\ nand \in [Paths -> Contents \cup {Absent}]
      /\ FS_Files = [e \in NandFds |-> FS_Files[e]] /\ \A e \in NandFds : ISFSFile(FS_Files[e])
  BY DEF NandTypes
<1>2. ASSUME NEW pos PROVE NandTypes(nand, [FS_Files EXCEPT ![fd].pos = pos])
  <2> DEFINE table == [FS_Files EXCEPT ![fd].pos = pos]
  <2>1. table = [e \in NandFds |-> table[e]]
    BY <1>1
  <2>2. ASSUME NEW e \in NandFds PROVE ISFSFile(table[e])
    <3>1. FS_Files[e] = [path |-> FS_Files[e].path, pos |-> FS_Files[e].pos, emu |-> FS_Files[e].emu]
      BY <1>1 DEF ISFSFile
    <3>2. table[e] = FS_Files[e] \/ table[e] = [FS_Files[e] EXCEPT !.pos = pos]
      BY <1>1
    <3>3. [FS_Files[e] EXCEPT !.pos = pos] = [path |-> FS_Files[e].path, pos |-> pos, emu |-> FS_Files[e].emu]
      BY <3>1
    <3>4. FS_Files[e].path \in Paths \cup {DevFs, Nowhere}
      BY <1>1 DEF ISFSFile
    <3> HIDE DEF table
    <3>5. CASE table[e] = FS_Files[e]
      BY <1>1, <3>5
    <3>6. CASE table[e] = [FS_Files[e] EXCEPT !.pos = pos]
      BY <3>3, <3>4, <3>6 DEF ISFSFile
    <3> QED
      BY <3>2, <3>5, <3>6
  <2> QED
    BY <1>1, <2>1, <2>2 DEF NandTypes
<1>3. ASSUME NEW h, ISFSFile(h) PROVE NandTypes(nand, [FS_Files EXCEPT ![fd] = h])
  <2> DEFINE table == [FS_Files EXCEPT ![fd] = h]
  <2>1. table = [e \in NandFds |-> table[e]]
    BY <1>1
  <2>2. \A e \in NandFds : table[e] = FS_Files[e] \/ table[e] = h
    BY <1>1
  <2> HIDE DEF table
  <2>3. \A e \in NandFds : ISFSFile(table[e])
    BY <1>1, <1>3, <2>2
  <2>4. NandTypes(nand, table)
    BY <1>1, <2>1, <2>3 DEF NandTypes
  <2> QED
    BY <2>4 DEF table
<1> QED
  BY <1>2, <1>3

\* /dev/fs refuses to open a file, or gives a descriptor at its beginning.
LEMMA NandOpenIs ==
  ASSUME NEW r, NEW emu, NEW o \in NandOpen(r, emu)
  PROVE  \/ o = Failed(FileNotFound) \/ o = Failed(IOError)
         \/ /\ r.path # DevFs => nand[r.path] # Absent
            /\ \E fd \in NandFds :
                 /\ FS_Files[fd] = Unused
                 /\ o = Nand(nand, [FS_Files EXCEPT ![fd] = [path |-> r.path, pos |-> 0, emu |-> emu]], Reply("OK", fd, << >>))
<1> DEFINE free == {fd \in NandFds : FS_Files[fd] = Unused}
<1>1. \/ o = Failed(FileNotFound) \/ o = Failed(IOError)
      \/ /\ ~ (r.path # DevFs /\ nand[r.path] = Absent) /\ free # {}
         /\ o = Nand(nand, [FS_Files EXCEPT ![Least(free)] = [path |-> r.path, pos |-> 0, emu |-> emu]],
                     Reply("OK", Least(free), << >>))
  BY DEF NandOpen
<1>2. free # {} => Least(free) \in NandFds /\ FS_Files[Least(free)] = Unused
  <2>1. free \subseteq NandFds /\ NandFds \subseteq Nat /\ \A fd \in free : FS_Files[fd] = Unused
    BY Params DEF NandFds
  <2> HIDE DEF free
  <2> QED
    BY <2>1, LeastIsOne
<1> HIDE DEF free
<1> QED
  BY <1>1, <1>2

\* A request that /dev/fs may get.
Asks(r) ==
  /\ r.op \in {"open", "close", "read", "rewind", "seek end", "stats", "create", "delete", "move"}
  /\ r.path \in Paths \cup {DevFs, Nowhere} /\ (r.op = "move" => r.path \in Paths)

\* Whatever /dev/fs does, its files and its table have their types.
LEMMA NandOutcomesTyped ==
  ASSUME NandTypes(nand, FS_Files), NEW r, Asks(r), NEW emu, NEW o \in NandOutcomes(r, emu)
  PROVE  NandTypes(o.nand, o.FS_Files) /\ o.ret.code \in Codes
<1>r. /\ r.op \in {"open", "close", "read", "rewind", "seek end", "stats", "create", "delete", "move"}
      /\ r.path \in Paths \cup {DevFs, Nowhere} /\ (r.op = "move" => r.path \in Paths)
  BY DEF Asks
<1> DEFINE Good(files, table, ret) == NandTypes(files, table) /\ ret.code \in Codes
<1>0. ASSUME NEW files, NEW table, NEW ret, o = Nand(files, table, ret), Good(files, table, ret)
      PROVE  NandTypes(o.nand, o.FS_Files) /\ o.ret.code \in Codes
  <2>1. o.nand = files /\ o.FS_Files = table /\ o.ret = ret
    BY <1>0 DEF Nand
  <2> QED
    BY <1>0, <2>1
<1>1. SUFFICES \E files, table, ret : o = Nand(files, table, ret) /\ Good(files, table, ret)
  BY <1>0
<1>2. \A ret \in Refusals : Good(nand, FS_Files, ret)
  BY CodesAre
<1>3. FileNotFound \in Refusals /\ IOError \in Refusals
  BY DEF Refusals
<1>4. \A value, data : Reply("OK", value, data).code \in Codes
  BY CodesAre DEF Reply
<1>5. OK.code \in Codes
  BY CodesAre
<1>6. \A pos : NandTypes(nand, [FS_Files EXCEPT ![r.fd].pos = pos])
  BY TableKept
<1>7. CASE r.op = "open"
  <2>1. o \in NandOpen(r, emu)
    BY <1>7 DEF NandOutcomes
  <2>2. CASE o = Failed(FileNotFound) \/ o = Failed(IOError)
    BY <1>2, <1>3, <2>2 DEF Failed
  <2>3. CASE \E fd \in NandFds :
               o = Nand(nand, [FS_Files EXCEPT ![fd] = [path |-> r.path, pos |-> 0, emu |-> emu]], Reply("OK", fd, << >>))
    <3>1. PICK fd \in NandFds :
               o = Nand(nand, [FS_Files EXCEPT ![fd] = [path |-> r.path, pos |-> 0, emu |-> emu]], Reply("OK", fd, << >>))
      BY <2>3
    <3>2. ISFSFile([path |-> r.path, pos |-> 0, emu |-> emu])
      BY <1>r DEF ISFSFile
    <3>3. NandTypes(nand, [FS_Files EXCEPT ![fd] = [path |-> r.path, pos |-> 0, emu |-> emu]])
      BY <3>2, TableKept
    <3> QED
      BY <1>4, <3>1, <3>3
  <2> QED
    BY <2>1, <2>2, <2>3, NandOpenIs
<1>8. CASE r.op = "close"
  <2>1. o = Nand(nand, [FS_Files EXCEPT ![r.fd] = Unused], OK)
    BY <1>8 DEF NandOutcomes
  <2>2. ISFSFile(Unused)
    BY DEF ISFSFile, Unused
  <2>3. NandTypes(nand, [FS_Files EXCEPT ![r.fd] = Unused])
    BY <2>2, TableKept
  <2> QED
    BY <1>5, <2>1, <2>3
<1>9. CASE r.op = "read"
  <2>1. o = Failed(IOError) \/ \E pos, value, data :
               o = Nand(nand, [FS_Files EXCEPT ![r.fd].pos = pos], Reply("OK", value, data))
    BY <1>9 DEF NandOutcomes
  <2> QED
    BY <1>2, <1>3, <1>4, <1>6, <2>1 DEF Failed
<1>10. CASE r.op \in {"rewind", "seek end"}
  <2>1. \E pos, ret : o = Nand(nand, [FS_Files EXCEPT ![r.fd].pos = pos], ret) /\ ret.code \in Codes
    BY <1>4, <1>5, <1>10 DEF NandOutcomes
  <2> QED
    BY <1>6, <2>1
<1>11. CASE r.op = "stats"
  <2>1. \E value, data : o = Nand(nand, FS_Files, Reply("OK", value, data))
    BY <1>11 DEF NandOutcomes
  <2> QED
    BY <1>4, <2>1
<1>12. CASE r.op = "create"
  <2>1. o = Nand([nand EXCEPT ![r.path] = IF @ = Absent THEN << >> ELSE @], FS_Files, OK)
    BY <1>12 DEF NandOutcomes
  <2>2. NandTypes([nand EXCEPT ![r.path] = IF @ = Absent THEN << >> ELSE @], FS_Files)
    BY NoContents DEF NandTypes
  <2> QED
    BY <1>5, <2>1, <2>2
<1>13. CASE r.op = "delete"
  <2>1. o = Nand([nand EXCEPT ![r.path] = Absent], FS_Files, OK) \/ o = Failed(IOError)
    BY <1>13 DEF NandOutcomes
  <2>2. NandTypes([nand EXCEPT ![r.path] = Absent], FS_Files)
    BY DEF NandTypes
  <2> QED
    BY <1>2, <1>3, <1>5, <2>1, <2>2 DEF Failed
<1>14. CASE r.op = "move"
  <2>1. \/ o = Failed(FileNotFound)
        \/ o = Nand([nand EXCEPT ![r.path2] = nand[r.path], ![r.path] = Absent], FS_Files, OK)
    BY <1>14 DEF NandOutcomes
  <2>2. NandTypes([nand EXCEPT ![r.path2] = nand[r.path], ![r.path] = Absent], FS_Files)
    BY <1>14, <1>r DEF NandTypes
  <2> QED
    BY <1>2, <1>3, <1>5, <2>1, <2>2 DEF Failed
<1> QED
  BY <1>r, <1>7, <1>8, <1>9, <1>10, <1>11, <1>12, <1>13, <1>14
-----------------------------------------------------------------------------
(* The game, and the hook without MoveTo *)

LEMMA Constants ==
  /\ Nothing.op = "nothing" /\ Nothing.path = Nowhere
  /\ NoIpc = [phase |-> "none", acked |-> FALSE, request |-> Nothing, ret |-> OK]
  /\ NoJob = [at |-> "none", from |-> Nowhere, to |-> Nowhere, src |-> NoFd, size |-> 0, dest |-> NULL, ret |-> OK]
  /\ NoJob.at = "none" /\ NoIpc.phase = "none"
  /\ NULL.path = Nowhere /\ NULL.buffer = << >> /\ NULL.pos = 0 /\ NULL \in RiivFiles
BY DEF Nothing, Request, NoIpc, NoJob, NULL, RiivFile, RiivFiles

LEMMA InitKeeps == ASSUME Init PROVE IndInv
<1>1. NandTypes(nand, FS_Files)
  <2>1. nand \in [Paths -> Contents \cup {Absent}]
    BY NandEmulationAssumption DEF NandEmulationAssumption, Init
  <2>2. FS_Files = [fd \in NandFds |-> Unused]
    BY DEF Init, Idle
  <2>3. ISFSFile(Unused)
    BY DEF ISFSFile, Unused
  <2>4. FS_Files = [fd \in NandFds |-> FS_Files[fd]] /\ \A fd \in NandFds : FS_Files[fd] = Unused
    BY <2>2
  <2> QED
    BY <2>1, <2>3, <2>4 DEF NandTypes
<1>2. CardTypes(card, open_files)
  <2>1. card \in Cards
    BY NandEmulationAssumption DEF NandEmulationAssumption, Init, Cards
  <2>2. open_files = [i \in EmuFds |-> NULL]
    BY DEF Init, Idle
  <2> QED
    BY <2>1, <2>2, Constants DEF CardTypes
<1>3. Types
  BY <1>1, <1>2, CodesAre DEF Types, Init, Idle
<1>4. Resting /\ fs # "waits"
  BY DEF Init, Idle, Resting, Free
<1> QED
  BY <1>3, <1>4 DEF IndInv, Conversation

\* Each part of the conversation says what the others do not.
LEMMA WhoHasIt ==
  ASSUME IndInv
  PROVE  /\ fs = "ready" => Resting
         /\ fs = "serves" => Serving
         /\ fs = "waits" => (Asked \/ InMove \/ Finished) /\ ProxyMessage = message
         /\ queue # << >> => Asked
         /\ job # NoJob => InMove
         /\ ipc # NoIpc => InMove
         /\ fs \in {"ready", "waits", "serves"}
BY DEF IndInv, Conversation, Resting, Asked, InMove, Finished, Serving, Free

LEMMA TypesUnmoved ==
  ASSUME Types, UNCHANGED <<nand, FS_Files, card, open_files>>, reply'.code \in Codes
  PROVE  Types'
BY DEF Types, NandTypes, CardTypes

\* What Pending says of a request before it is one.
Allowed(r) ==
  /\ r.op \in Ops /\ r.path \in Paths \cup {Nowhere}
  /\ r.op = "write" =>
       /\ r.fd \in EmuFds /\ EndOf(open_files[r.fd]) + Len(r.arg) <= MaxLen
       /\ r.arg \in Seq(Units) /\ Len(r.arg) <= buf_size
  /\ r.op = "read" => r.arg = <<1>>
  /\ r.op \in {"delete", "move"} =>
       r.path \in Paths /\ \A i \in EmuFds : open_files[i].path # r.path
  /\ r.op = "move" =>
       /\ r.path2 \in Paths
       /\ On(r.path2) = Absent \/ (On(r.path) # Absent /\ Len(On(r.path2)) <= Len(On(r.path)))

LEMMA HookKeeps == ASSUME IndInv, NEW r, Allowed(r), Hook(r) PROVE IndInv'
<1>1. Resting
  BY WhoHasIt DEF Hook
<1>2. Types'
  BY TypesUnmoved, CodesAre DEF IndInv, Hook
<1>3. Pending'
  <2>1. message' = r /\ UNCHANGED <<nand, card, open_files>>
    BY DEF Hook
  <2>2. r.op = "move" => cargo' = On(r.path)
    BY DEF Hook, On
  <2>3. \A path : On(path)' = On(path)
    BY <2>1 DEF On
  <2> QED
    BY <2>1, <2>2, <2>3 DEF Pending, Allowed, EndOf
<1>4. Asked' /\ ProxyMessage' = message'
  <2>1. /\ fs' = "waits" /\ queue' = Append(queue, "FSMessage") /\ queue = << >>
        /\ fs_internal_queue' = << >> /\ job' = NoJob /\ ipc' = NoIpc /\ message' = ProxyMessage'
    BY <1>1 DEF Hook, Resting, Free
  <2>2. queue' = <<"FSMessage">>
    BY <2>1
  <2> QED
    BY <1>3, <2>1, <2>2 DEF Asked, Free
<1> QED
  BY <1>2, <1>4 DEF IndInv, Conversation

\* A path that is quiet is no open file's.
LEMMA QuietMeans ==
  ASSUME NEW path \in Paths, Quiet(path)
  PROVE  \A i \in EmuFds : open_files[i].path # path
<1> TAKE i \in EmuFds
<1>1. CASE open_files[i] = NULL
  BY <1>1, Constants, Params
<1>2. CASE open_files[i] # NULL
  <2>1. i \in Held
    BY <1>2 DEF Held
  <2>2. PathOf(i) # path
    BY <2>1 DEF Quiet
  <2> QED
    BY <2>2 DEF PathOf
<1> QED
  BY <1>1, <1>2

LEMMA GameAsksKeeps == ASSUME IndInv, GameAsks PROVE IndInv'
<1>1. ASSUME NEW op, NEW path, NEW path2, NEW fd, NEW arg
      PROVE  LET r == Request(op, path, path2, fd, arg)
             IN r.op = op /\ r.path = path /\ r.path2 = path2 /\ r.fd = fd /\ r.arg = arg
  BY DEF Request
<1>2. ASSUME NEW path \in Paths, Hook(Request("open", path, Nowhere, NoFd, << >>)) PROVE IndInv'
  <2> DEFINE r == Request("open", path, Nowhere, NoFd, << >>)
  <2>1. r.op = "open" /\ r.path = path
    BY <1>1
  <2> HIDE DEF r
  <2>2. Allowed(r)
    BY <2>1 DEF Allowed, Ops
  <2> QED
    BY <1>2, <2>2, HookKeeps DEF r
<1>3. ASSUME NEW path \in Paths, NEW op \in {"create", "delete"}, Quiet(path),
             Hook(Request(op, path, Nowhere, NoFd, << >>))
      PROVE  IndInv'
  <2> DEFINE r == Request(op, path, Nowhere, NoFd, << >>)
  <2>1. r.op \in {"create", "delete"} /\ r.path = path
    BY <1>1
  <2> HIDE DEF r
  <2>2. Allowed(r)
    BY <1>3, <2>1, QuietMeans DEF Allowed, Ops
  <2> QED
    BY <1>3, <2>2, HookKeeps DEF r
<1>4. ASSUME NEW path \in Paths, NEW path2 \in Paths, Moves(path, path2),
             Hook(Request("move", path, path2, NoFd, << >>))
      PROVE  IndInv'
  <2> DEFINE r == Request("move", path, path2, NoFd, << >>)
  <2>1. r.op = "move" /\ r.path = path /\ r.path2 = path2
    BY <1>1
  <2> HIDE DEF r
  <2>2. Allowed(r)
    BY <1>4, <2>1, QuietMeans DEF Allowed, Ops, Moves
  <2> QED
    BY <1>4, <2>2, HookKeeps DEF r
<1>5. ASSUME NEW fd \in Held, NEW op \in {"close", "rewind", "stats"}, Hook(Request(op, Nowhere, Nowhere, fd, << >>))
      PROVE  IndInv'
  <2> DEFINE r == Request(op, Nowhere, Nowhere, fd, << >>)
  <2>1. r.op \in {"close", "rewind", "stats"} /\ r.path = Nowhere
    BY <1>1
  <2> HIDE DEF r
  <2>2. Allowed(r)
    BY <2>1 DEF Allowed, Ops
  <2> QED
    BY <1>5, <2>2, HookKeeps DEF r
<1>6. ASSUME NEW fd \in Held, Hook(Request("read", Nowhere, Nowhere, fd, << 1 >>)) PROVE IndInv'
  <2> DEFINE r == Request("read", Nowhere, Nowhere, fd, <<1>>)
  <2>1. r.op = "read" /\ r.path = Nowhere /\ r.arg = <<1>>
    BY <1>1
  <2> HIDE DEF r
  <2>2. Allowed(r)
    BY <2>1 DEF Allowed, Ops
  <2> QED
    BY <1>6, <2>2, HookKeeps DEF r
<1>7. ASSUME NEW fd \in Held, NEW d \in Written, fd \in EmuFds, PosOf(fd) + Len(d) <= MaxLen,
             Hook(Request("write", Nowhere, Nowhere, fd, d))
      PROVE  IndInv'
  <2> DEFINE r == Request("write", Nowhere, Nowhere, fd, d)
  <2>1. r.op = "write" /\ r.path = Nowhere /\ r.fd = fd /\ r.arg = d
    BY <1>1
  <2> HIDE DEF r
  <2>2. d \in Seq(Units) /\ Len(d) <= buf_size
    <3>1. d \in Contents /\ Len(d) \in 1..buf_size
      BY NandEmulationAssumption DEF NandEmulationAssumption
    <3> QED
      BY <3>1, ContentsAre, Params
  <2>3. EndOf(open_files[fd]) + Len(d) <= MaxLen
    BY <1>7 DEF PosOf, EndOf
  <2>4. Allowed(r)
    BY <1>7, <2>1, <2>2, <2>3 DEF Allowed, Ops
  <2> QED
    BY <1>7, <2>4, HookKeeps DEF r
<1> QED
  BY <1>2, <1>3, <1>4, <1>5, <1>6, <1>7 DEF GameAsks

LEMMA PowerCutKeeps == ASSUME IndInv, PowerCut PROVE IndInv'
<1>1. NandTypes(nand, FS_Files)'
  <2>1. nand' \in [Paths -> Contents \cup {Absent}]
    BY DEF IndInv, Types, NandTypes, PowerCut
  <2>2. FS_Files' = [fd \in NandFds |-> Unused]
    BY DEF PowerCut
  <2>3. ISFSFile(Unused)
    BY DEF ISFSFile, Unused
  <2>4. FS_Files' = [fd \in NandFds |-> FS_Files'[fd]] /\ \A fd \in NandFds : FS_Files'[fd] = Unused
    BY <2>2
  <2> QED
    BY <2>1, <2>3, <2>4 DEF NandTypes
<1>2. CardTypes(card, open_files)'
  <2>1. card' \in Cards
    BY DEF IndInv, Types, CardTypes, PowerCut
  <2>2. open_files' = [i \in EmuFds |-> NULL]
    BY DEF PowerCut
  <2> QED
    BY <2>1, <2>2, Constants DEF CardTypes
<1>3. Types'
  BY <1>1, <1>2, CodesAre DEF Types, PowerCut
<1>4. Resting' /\ fs' # "waits"
  BY DEF PowerCut, Resting, Free
<1> QED
  BY <1>3, <1>4 DEF IndInv, Conversation

\* A step of MoveTo stays as it is while nothing is done for it.
LEMMA StageKept ==
  ASSUME Stage, UNCHANGED <<nand, FS_Files, card, job, cargo>>, Done' <=> Done, ipc'.ret = ipc.ret
  PROVE  Stage'
<1>1. (Whole => Whole') /\ (AtOpen => AtOpen') /\ (Ready => Ready') /\ (AtClose => AtClose') /\ (AtEnd => AtEnd')
  BY DEF Whole, AtOpen, Ready, AtClose, AtEnd, Source
<1>2. (AtSize => AtSize') /\ (AtRewind => AtRewind')
  BY <1>1 DEF AtSize, AtRewind
<1>3. AtRead => AtRead'
  BY <1>1 DEF AtRead, Source
<1> QED
  BY <1>1, <1>2, <1>3 DEF Stage

LEMMA StutterKeeps == ASSUME IndInv, UNCHANGED vars PROVE IndInv'
<1>1. Types'
  BY TypesUnmoved DEF IndInv, Types, vars
<1>2. Conversation'
  <2> USE DEF vars, threads
  <2>1. Pending => Pending'
    BY DEF Pending, On
  <2>2. Left => Left'
    BY DEF Left
  <2>3. Moving => Moving'
    <3>1. Calling => Calling'
      BY DEF Calling, Wanted
    <3>2. Stage => Stage'
      BY StageKept DEF Done
    <3> QED
      BY <3>1, <3>2 DEF Moving
  <2> QED
    BY <2>1, <2>2, <2>3 DEF IndInv, Conversation, Resting, Asked, InMove, Finished, Serving, Free
<1> QED
  BY <1>1, <1>2 DEF IndInv

LEMMA HookReturnsKeeps == ASSUME IndInv, HookReturns PROVE IndInv'
<1>1. fs = "waits" /\ fs_internal_queue # << >> /\ Head(fs_internal_queue).msg = "done"
      /\ fs_internal_queue' = Tail(fs_internal_queue)
  BY DEF HookReturns, Received
<1>2. Finished
  <2>1. Asked \/ InMove \/ Finished
    BY <1>1, WhoHasIt
  <2>2. ~ Asked
    BY <1>1 DEF Asked
  <2>3. ~ InMove
    <3> SUFFICES ASSUME InMove PROVE FALSE
      OBVIOUS
    <3>1. Calling /\ ~ ipc.acked
      BY <1>1 DEF InMove, Moving, Calling
    <3>2. Head(fs_internal_queue).msg = ipc.phase /\ ipc.phase # "done"
      BY <3>1 DEF Calling
    <3> QED
      BY <1>1, <3>2
  <2> QED
    BY <2>1, <2>2, <2>3
<1>3. PICK ret : /\ fs_internal_queue = <<[msg |-> "done", ret |-> ret]>>
                 /\ IF ret = NotOurs THEN Left ELSE cargo = Absent
  BY <1>2 DEF Finished
<1>4. fs_internal_queue' = << >> /\ Head(fs_internal_queue).ret = ret
  BY <1>1, <1>3
<1>5. Types'
  BY TypesUnmoved DEF IndInv, Types, HookReturns
<1>6. queue' = << >> /\ job' = NoJob /\ ipc' = NoIpc
  BY <1>2 DEF HookReturns, Finished, Free
<1>7. CASE ret = NotOurs
  <2>1. fs' = "serves" /\ message' = message /\ cargo' = cargo /\ nand' = nand
    BY <1>4, <1>7 DEF HookReturns
  <2>2. Left'
    BY <1>3, <1>7, <2>1 DEF Left
  <2>3. Serving' /\ fs' # "waits"
    BY <1>4, <1>6, <2>1, <2>2 DEF Serving, Free
  <2> QED
    BY <1>5, <2>3 DEF IndInv, Conversation
<1>8. CASE ret # NotOurs
  <2>1. fs' = "ready" /\ message' = Nothing
    BY <1>4, <1>8 DEF HookReturns
  <2>2. Resting' /\ fs' # "waits"
    BY <1>4, <1>6, <2>1 DEF Resting, Free
  <2> QED
    BY <1>5, <2>2 DEF IndInv, Conversation
<1> QED
  BY <1>7, <1>8

LEMMA FsServesKeeps == ASSUME IndInv, FsServes PROVE IndInv'
<1>1. Serving
  BY WhoHasIt DEF FsServes
<1> DEFINE emu == FALSE
<1>2. PICK o \in NandOutcomes(message, emu) : NandDoes(o) /\ reply' = o.ret
  BY DEF FsServes
<1> HIDE DEF emu
<1>3. NandTypes(o.nand, o.FS_Files) /\ o.ret.code \in Codes
  <2>1. NandTypes(nand, FS_Files)
    BY DEF IndInv, Types
  <2>2. Asks(message)
    BY <1>1 DEF Serving, Left, Ops, Asks
  <2> QED
    BY <2>1, <2>2, NandOutcomesTyped, Zenon
<1>4. Types'
  BY <1>2, <1>3 DEF IndInv, Types, FsServes, NandDoes, CardTypes, NandTypes
<1>5. Resting' /\ fs' # "waits"
  BY <1>1 DEF FsServes, Serving, Resting, Free
<1> QED
  BY <1>4, <1>5 DEF IndInv, Conversation
-----------------------------------------------------------------------------
(* FS_IPC *)

\* What the hook receives from MoveTo.
LEMMA CallReceived ==
  ASSUME IndInv, NEW msg \in {"open", "ioctl", "close"}, Received(msg)
  PROVE  InMove /\ Calling /\ ipc.phase = msg /\ ~ ipc.acked /\ fs_internal_queue' = << >>
<1>1. fs = "waits" /\ fs_internal_queue # << >> /\ Head(fs_internal_queue).msg = msg
      /\ fs_internal_queue' = Tail(fs_internal_queue)
  BY DEF Received
<1>2. InMove
  <2>1. ~ Asked
    BY <1>1 DEF Asked
  <2>2. ~ Finished
    BY <1>1 DEF Finished
  <2> QED
    BY <1>1, <2>1, <2>2, WhoHasIt
<1>3. Calling /\ ~ ipc.acked
  BY <1>1, <1>2 DEF InMove, Moving, Calling
<1>4. fs_internal_queue = <<[msg |-> ipc.phase, ret |-> OK]>>
  BY <1>3 DEF Calling
<1> QED
  BY <1>1, <1>2, <1>3, <1>4

\* An acknowledgement, with or without an answer.
LEMMA Acknowledged ==
  ASSUME Calling, ~ ipc.acked, job' = job, fs_internal_queue' = << >>,
         NEW ret, ipc' = [phase |-> ipc.phase, acked |-> TRUE, request |-> ipc.request, ret |-> ret]
  PROVE  Calling'
<1>1. Wanted' = Wanted
  BY DEF Wanted
<1>2. /\ ipc.request = Wanted /\ ipc.phase \in {"open", "ioctl", "close"}
  BY DEF Calling
<1>3. ipc'.phase = ipc.phase /\ ipc'.acked = TRUE /\ ipc'.request = Wanted /\ ipc'.ret = ret
  BY <1>2
<1> QED
  BY <1>1, <1>2, <1>3 DEF Calling

LEMMA HookOpensClosesKeeps == ASSUME IndInv, HookOpensCloses PROVE IndInv'
<1>1. PICK msg \in {"open", "close"} : Received(msg)
  BY DEF HookOpensCloses
<1>2. InMove /\ Calling /\ ipc.phase = msg /\ ~ ipc.acked /\ fs_internal_queue' = << >>
  BY <1>1, CallReceived
<1>3. Types'
  BY TypesUnmoved DEF IndInv, Types, HookOpensCloses
<1>4. ipc' = [phase |-> ipc.phase, acked |-> TRUE, request |-> ipc.request, ret |-> ipc.ret]
  BY <1>2 DEF HookOpensCloses, Calling
<1>5. Calling'
  BY <1>2, <1>4, Acknowledged DEF HookOpensCloses
<1>6. Stage'
  <2>1. Done' <=> Done
    BY <1>2, <1>4 DEF Done
  <2>2. ipc'.ret = ipc.ret
    BY <1>4
  <2> QED
    BY <1>2, <2>1, <2>2, StageKept DEF InMove, Moving, HookOpensCloses
<1>7. InMove'
  BY <1>2, <1>5, <1>6 DEF InMove, Moving, HookOpensCloses
<1>8. ProxyMessage' = message'
  BY <1>2, WhoHasIt DEF HookOpensCloses, InMove
<1> QED
  BY <1>3, <1>7, <1>8 DEF IndInv, Conversation

LEMMA EmuCallsKeep == ASSUME IndInv, EmuCalls PROVE IndInv'
<1>1. PICK phase \in {"open", "ioctl", "close"} :
        /\ Ipc(phase)
        /\ phase = "open" => job # NoJob /\ ipc = NoIpc
        /\ phase = "ioctl" => ipc.phase = "open" /\ ipc.acked
        /\ phase = "close" => ipc.phase = "ioctl" /\ ipc.acked
  BY DEF EmuCalls
<1>2. InMove
  BY <1>1, Constants, WhoHasIt
<1>3. Types'
  BY <1>1, TypesUnmoved DEF IndInv, Types, Ipc
<1>4. phase # "open" => Calling
  BY <1>1, <1>2, Constants DEF InMove, Moving
<1>5. fs_internal_queue = << >>
  <2>1. CASE ipc = NoIpc /\ fs_internal_queue = << >>
    BY <2>1
  <2>2. CASE Calling
    BY <1>1, <2>2, Constants DEF Calling
  <2> QED
    BY <1>2, <2>1, <2>2 DEF InMove, Moving
<1>6. ipc' = [phase |-> phase, acked |-> FALSE, request |-> Wanted, ret |-> ipc.ret]
  <2>1. ipc' = [phase |-> phase, acked |-> FALSE,
                request |-> IF phase = "open" THEN Wanted ELSE ipc.request, ret |-> ipc.ret]
    BY <1>1 DEF Ipc
  <2>2. phase # "open" => ipc.request = Wanted
    BY <1>4 DEF Calling
  <2> QED
    BY <2>1, <2>2
<1>7. fs_internal_queue' = <<[msg |-> phase, ret |-> OK]>>
  BY <1>1, <1>5 DEF Ipc, Post
<1>8. Calling'
  <2>1. Wanted' = Wanted
    BY <1>1 DEF Wanted, Ipc
  <2>2. ipc'.phase = phase /\ ipc'.acked = FALSE /\ ipc'.request = Wanted /\ ipc'.ret = ipc.ret
    BY <1>6
  <2> QED
    BY <1>6, <1>7, <2>1, <2>2 DEF Calling
<1>9. Stage'
  <2>1. Done' <=> Done
    BY <1>1, <1>6, Constants DEF Done
  <2>2. ipc'.ret = ipc.ret
    BY <1>6
  <2> QED
    BY <1>1, <1>2, <2>1, <2>2, StageKept DEF InMove, Moving, Ipc
<1>10. InMove'
  BY <1>1, <1>2, <1>8, <1>9 DEF InMove, Moving, Ipc
<1>11. ProxyMessage' = message'
  BY <1>1, <1>2, WhoHasIt DEF Ipc, InMove
<1> QED
  BY <1>3, <1>10, <1>11 DEF IndInv, Conversation


\* What MoveTo asks of the NAND at each step.
LEMMA WantedIs ==
  /\ job.at = "open" => Wanted.op = "open" /\ Wanted.path = job.from
  /\ job.at = "size" => Wanted.op = "seek end" /\ Wanted.path = Nowhere /\ Wanted.fd = job.src
  /\ job.at = "rewind" => Wanted.op = "rewind" /\ Wanted.path = Nowhere /\ Wanted.fd = job.src
  /\ job.at = "read" => /\ Wanted.op = "read" /\ Wanted.path = Nowhere /\ Wanted.fd = job.src
                        /\ Wanted.arg[1] = Lesser(move_size, job.size)
  /\ job.at \in {"close", "close fs"} => Wanted.op = "close" /\ Wanted.path = Nowhere
  /\ job.at = "open fs" => Wanted.op = "open" /\ Wanted.path = DevFs
  /\ job.at = "delete" => Wanted.op = "delete" /\ Wanted.path = job.from
BY DEF Wanted, Request

LEMMA AsksWanted == ASSUME Moving PROVE Asks(Wanted)
<1>1. job.at \in Stages /\ job.from \in Paths
  BY DEF Moving, Stage
<1> QED
  BY <1>1, WantedIs DEF Stages, Asks

\* One file of the table is somewhere else.
LEMMA Repositioned ==
  ASSUME NandTypes(nand, FS_Files), NEW fd \in NandFds, NEW pos
  PROVE  LET table == [FS_Files EXCEPT ![fd].pos = pos]
         IN table[fd].path = FS_Files[fd].path /\ table[fd].pos = pos
<1> DEFINE table == [FS_Files EXCEPT ![fd].pos = pos]
<1>1. FS_Files = [e \in NandFds |-> FS_Files[e]]
      /\ FS_Files[fd] = [path |-> FS_Files[fd].path, pos |-> FS_Files[fd].pos, emu |-> FS_Files[fd].emu]
  BY DEF NandTypes, ISFSFile
<1>2. table[fd] = [FS_Files[fd] EXCEPT !.pos = pos]
  BY <1>1
<1>3. [FS_Files[fd] EXCEPT !.pos = pos] = [path |-> FS_Files[fd].path, pos |-> pos, emu |-> FS_Files[fd].emu]
  BY <1>1
<1> HIDE DEF table
<1>4. table[fd].path = FS_Files[fd].path /\ table[fd].pos = pos
  BY <1>2, <1>3
<1> QED
  BY <1>4 DEF table

LEMMA Ret ==
  /\ \A code, value, data : /\ Reply(code, value, data).code = code /\ Reply(code, value, data).value = value
                            /\ Reply(code, value, data).data = data
  /\ OK.code = "OK" /\ IOError.code = "IOError" /\ FileNotFound.code = "FileNotFound"
  /\ InvalidArgument.code = "InvalidArgument" /\ IOError.data = << >>
BY DEF Reply, OK, IOError, FileNotFound, InvalidArgument, Code

LEMMA HookServesNandKeeps == ASSUME IndInv, HookServesNand PROVE IndInv'
<1>1. InMove /\ Calling /\ ipc.phase = "ioctl" /\ ~ ipc.acked /\ fs_internal_queue' = << >>
  <2>1. Received("ioctl")
    BY DEF HookServesNand
  <2> DEFINE msg == "ioctl"
  <2>2. msg \in {"open", "ioctl", "close"} /\ Received(msg)
    BY <2>1
  <2> HIDE DEF msg
  <2>3. InMove /\ Calling /\ ipc.phase = msg /\ ~ ipc.acked /\ fs_internal_queue' = << >>
    BY <2>2, CallReceived
  <2> QED
    BY <2>3 DEF msg
<1> DEFINE emu == TRUE
<1>2. PICK o \in NandOutcomes(Wanted, emu) : NandDoes(o) /\ ipc' = [ipc EXCEPT !.acked = TRUE, !.ret = o.ret]
  <2>1. ipc.request = Wanted
    BY <1>1 DEF Calling
  <2> QED
    BY <2>1 DEF HookServesNand
<1> HIDE DEF emu
<1>3. nand' = o.nand /\ FS_Files' = o.FS_Files
  BY <1>2 DEF NandDoes
<1>4. ipc' = [phase |-> ipc.phase, acked |-> TRUE, request |-> ipc.request, ret |-> o.ret]
  BY <1>1, <1>2 DEF Calling
<1>5. UNCHANGED <<card, open_files, fs, message, ProxyMessage, queue, job, cargo, reply>>
  BY DEF HookServesNand
<1>6. Calling'
  BY <1>1, <1>4, <1>5, Acknowledged
<1>7. ~ Done /\ Done' /\ ipc'.ret = o.ret
  BY <1>1, <1>4 DEF Done
<1>8. Moving /\ Stage
  BY <1>1 DEF InMove, Moving
<1>9. NandTypes(nand, FS_Files)
  BY DEF IndInv, Types
<1>10. Types'
  <2>1. NandTypes(o.nand, o.FS_Files)
    BY <1>8, <1>9, AsksWanted, NandOutcomesTyped, Zenon
  <2> QED
    BY <1>3, <1>5, <2>1 DEF IndInv, Types, CardTypes, NandTypes
<1>11. job.from \in Paths /\ job.from # DevFs /\ job.from # Nowhere
  BY <1>8, Params DEF Moving
<1>12. \A files, table, ret : o = Nand(files, table, ret) => nand' = files /\ FS_Files' = table /\ ipc'.ret = ret
  BY <1>3, <1>7 DEF Nand
<1>13. \A ret : o = Failed(ret) => nand' = nand /\ FS_Files' = FS_Files /\ ipc'.ret = ret
  BY <1>12 DEF Failed
<1>14. Stage'
  <2>1. CASE job.at = "open"
    <3>1. o \in NandOpen(Wanted, emu)
      BY <1>2, <2>1, WantedIs DEF NandOutcomes
    <3>2. AtOpen
      BY <1>8, <2>1 DEF Stage
    <3>3. CASE o = Failed(FileNotFound) \/ o = Failed(IOError)
      <4>1. nand' = nand /\ ipc'.ret.code # "OK"
        BY <1>13, <3>3, Ret
      <4> QED
        BY <1>5, <2>1, <3>2, <4>1 DEF Stage, Stages, AtOpen
    <3>4. CASE /\ Wanted.path # DevFs => nand[Wanted.path] # Absent
               /\ \E fd \in NandFds :
                    o = Nand(nand, [FS_Files EXCEPT ![fd] = [path |-> Wanted.path, pos |-> 0, emu |-> emu]], Reply("OK", fd, << >>))
      <4>1. PICK fd \in NandFds :
                 o = Nand(nand, [FS_Files EXCEPT ![fd] = [path |-> Wanted.path, pos |-> 0, emu |-> emu]], Reply("OK", fd, << >>))
        BY <3>4
      <4>2. /\ nand' = nand /\ FS_Files' = [FS_Files EXCEPT ![fd] = [path |-> job.from, pos |-> 0, emu |-> emu]]
            /\ ipc'.ret = Reply("OK", fd, << >>)
        BY <1>12, <2>1, <4>1, WantedIs
      <4>3. FS_Files'[fd] = [path |-> job.from, pos |-> 0, emu |-> emu]
        BY <1>9, <4>2 DEF NandTypes
      <4>4. FS_Files'[fd].path = job.from /\ FS_Files'[fd].pos = 0 /\ ipc'.ret.value = fd
        BY <4>2, <4>3, Ret
      <4>5. cargo # Absent
        <5>1. nand[job.from] # Absent
          BY <1>11, <2>1, <3>4, WantedIs
        <5> QED
          BY <3>2, <5>1 DEF AtOpen
      <4>6. AtOpen'
        BY <1>5, <3>2, <4>2, <4>4, <4>5 DEF AtOpen, Source
      <4> QED
        BY <1>5, <2>1, <4>6 DEF Stage, Stages
    <3> QED
      BY <3>1, <3>3, <3>4, NandOpenIs
  <2>2. CASE job.at = "size"
    <3>1. AtSize
      BY <1>8, <2>2 DEF Stage
    <3>2. job.src \in NandFds /\ FS_Files[job.src].path = job.from /\ nand[job.from] = cargo
      BY <3>1 DEF AtSize, Ready, Source, Whole
    <3>3. o = Nand(nand, [FS_Files EXCEPT ![job.src].pos = Len(cargo)], Reply("OK", Len(cargo), << >>))
      BY <1>2, <2>2, <3>2, WantedIs DEF NandOutcomes
    <3>4. nand' = nand /\ FS_Files' = [FS_Files EXCEPT ![job.src].pos = Len(cargo)] /\ ipc'.ret.value = Len(cargo)
      BY <1>12, <3>3, Ret
    <3>5. FS_Files'[job.src].path = job.from
      BY <1>9, <3>2, <3>4, Repositioned
    <3>6. AtSize'
      BY <1>5, <3>1, <3>4, <3>5 DEF AtSize, Ready, Source, Whole
    <3> QED
      BY <1>5, <2>2, <3>6 DEF Stage, Stages
  <2>3. CASE job.at = "rewind"
    <3>1. AtRewind
      BY <1>8, <2>3 DEF Stage
    <3>2. job.src \in NandFds /\ FS_Files[job.src].path = job.from
      BY <3>1 DEF AtRewind, Ready, Source
    <3>3. o = Nand(nand, [FS_Files EXCEPT ![job.src].pos = 0], OK)
      BY <1>2, <2>3, WantedIs DEF NandOutcomes
    <3>4. nand' = nand /\ FS_Files' = [FS_Files EXCEPT ![job.src].pos = 0] /\ ipc'.ret = OK
      BY <1>12, <3>3
    <3>5. FS_Files'[job.src].path = job.from /\ FS_Files'[job.src].pos = 0
      BY <1>9, <3>2, <3>4, Repositioned
    <3>6. AtRewind'
      BY <1>5, <3>1, <3>4, <3>5 DEF AtRewind, Ready, Source, Whole
    <3> QED
      BY <1>5, <2>3, <3>6 DEF Stage, Stages
  <2>4. CASE job.at = "read"
    <3>1. AtRead
      BY <1>8, <2>4 DEF Stage
    <3>2. /\ job.src \in NandFds /\ FS_Files[job.src].path = job.from /\ nand[job.from] = cargo
          /\ FS_Files[job.src].pos = EndOf(job.dest)
      BY <1>7, <3>1 DEF AtRead, Source, Whole
    <3> DEFINE got == Slice(cargo, EndOf(job.dest), Lesser(move_size, job.size))
               pos == EndOf(job.dest) + Len(got)
    <3>3. o = Nand(nand, [FS_Files EXCEPT ![job.src].pos = pos], Reply("OK", Len(got), got)) \/ o = Failed(IOError)
      <4>1. Slice(nand[FS_Files[Wanted.fd].path], FS_Files[Wanted.fd].pos, Wanted.arg[1]) = got
        BY <2>4, <3>2, WantedIs
      <4>2. FS_Files[Wanted.fd].pos + Len(got) = pos /\ Wanted.fd = job.src /\ Wanted.op = "read"
        BY <2>4, <3>2, WantedIs
      <4> HIDE DEF got, pos
      <4> QED
        BY <1>2, <4>1, <4>2 DEF NandOutcomes
    <3>4. nand' = nand
      BY <1>12, <1>13, <3>3
    <3>5. Source(job.src)' /\ (ipc'.ret.data = << >> \/ (ipc'.ret.data = got /\ FS_Files'[job.src].pos = pos))
      <4>1. CASE o = Failed(IOError)
        <5>1. FS_Files' = FS_Files /\ ipc'.ret.data = << >>
          BY <1>13, <4>1, Ret
        <5>2. Source(job.src)'
          BY <1>5, <3>2, <5>1 DEF Source
        <5> HIDE DEF got, pos
        <5> QED
          BY <5>1, <5>2
      <4>2. CASE o = Nand(nand, [FS_Files EXCEPT ![job.src].pos = pos], Reply("OK", Len(got), got))
        <5> HIDE DEF got, pos
        <5>1. FS_Files' = [FS_Files EXCEPT ![job.src].pos = pos] /\ ipc'.ret.data = got
          BY <1>12, <4>2, Ret
        <5>2. FS_Files'[job.src].path = job.from /\ FS_Files'[job.src].pos = pos
          BY <1>9, <3>2, <5>1, Repositioned
        <5> QED
          BY <1>5, <3>2, <5>1, <5>2 DEF Source
      <4> QED
        BY <3>3, <4>1, <4>2
    <3>6. AtRead'
      <4>1. Whole' /\ Source(job.src)'
        BY <1>5, <3>1, <3>4, <3>5 DEF Whole, AtRead
      <4>2. Done' => \/ ipc'.ret.data = << >>
                     \/ ipc'.ret.data = got /\ FS_Files'[job.src].pos = EndOf(job.dest) + Len(ipc'.ret.data)
        BY <3>5
      <4> HIDE DEF got
      <4>3. \/ ipc'.ret.data = << >>
            \/ ipc'.ret.data = got /\ FS_Files'[job.src].pos = EndOf(job.dest) + Len(ipc'.ret.data)
        BY <1>7, <4>2
      <4> QED
        BY <1>5, <1>7, <3>1, <4>1, <4>3 DEF AtRead, got
    <3> QED
      BY <1>5, <2>4, <3>6 DEF Stage, Stages
  <2>5. CASE job.at = "close"
    <3>1. AtClose
      BY <1>8, <2>5 DEF Stage
    <3>2. nand' = nand
      BY <1>2, <1>12, <2>5, WantedIs DEF NandOutcomes
    <3>3. AtClose'
      BY <1>5, <3>1, <3>2 DEF AtClose, Whole
    <3> QED
      BY <1>5, <2>5, <3>3 DEF Stage, Stages
  <2>6. CASE job.at \in {"open fs", "delete", "close fs"}
    BY <1>5, <1>8, <2>6 DEF Stage, Stages, AtEnd
  <2> QED
    BY <1>8, <2>1, <2>2, <2>3, <2>4, <2>5, <2>6 DEF Stage, Stages
<1>15. InMove'
  BY <1>1, <1>5, <1>6, <1>14 DEF InMove, Moving
<1>16. ProxyMessage' = message'
  BY <1>1, <1>5, WhoHasIt DEF InMove
<1> QED
  BY <1>10, <1>15, <1>16 DEF IndInv, Conversation
-----------------------------------------------------------------------------
(* The emulation answers *)

\* An open file is set.
LEMMA OneOpenSet ==
  ASSUME CardTypes(card, open_files), NEW after, Keeps(card, after),
         NEW i \in EmuFds, NEW h, h = NULL \/ Fits(after, h)
  PROVE  CardTypes(after, [open_files EXCEPT ![i] = h])
<1> DEFINE open == [open_files EXCEPT ![i] = h]
<1>1. h \in RiivFiles
  BY Constants DEF Fits, Placed
<1>2. open \in [EmuFds -> RiivFiles]
  BY <1>1 DEF CardTypes
<1>3. \A j \in EmuFds : open[j] = h \/ open[j] = open_files[j]
  BY DEF CardTypes
<1>4. \A j \in EmuFds : open_files[j] = NULL \/ Fits(card, open_files[j])
  BY DEF CardTypes
<1> HIDE DEF open
<1>5. \A j \in EmuFds : open[j] = NULL \/ Fits(after, open[j])
  BY <1>3, <1>4 DEF Keeps
<1>6. CardTypes(after, open)
  BY <1>2, <1>5 DEF CardTypes, Keeps
<1> QED
  BY <1>6 DEF open

\* A file of the card that is not open is set.
LEMMA OnePathSet ==
  ASSUME NEW files, CardTypes(files, open_files), NEW path \in Redirected, NEW x \in Contents \cup {Absent},
         \A i \in EmuFds : open_files[i].path # path
  PROVE  CardTypes([files EXCEPT ![path] = x], open_files)
<1> DEFINE after == [files EXCEPT ![path] = x]
<1>1. after \in Cards /\ \A p \in Redirected : p # path => after[p] = files[p]
  BY DEF CardTypes, Cards
<1> HIDE DEF after
<1>2. ASSUME NEW i \in EmuFds PROVE open_files[i] = NULL \/ Fits(after, open_files[i])
  <2> DEFINE f == open_files[i]
  <2>1. (f = NULL \/ Fits(files, f)) /\ f.path # path
    BY DEF CardTypes
  <2> HIDE DEF f
  <2>2. ASSUME Fits(files, f) PROVE Fits(after, f)
    <3>1. f.path \in Redirected
      BY <2>2 DEF Fits, Placed
    <3>2. after[f.path] = files[f.path]
      BY <1>1, <2>1, <3>1
    <3> QED
      BY <2>2, <3>2 DEF Fits, Placed
  <2>3. f = NULL \/ Fits(after, f)
    BY <2>1, <2>2
  <2> QED
    BY <2>3 DEF f
<1>3. CardTypes(after, open_files)
  BY <1>1, <1>2 DEF CardTypes
<1> QED
  BY <1>3 DEF after

\* What is absent is not open.
LEMMA AbsentNotOpen ==
  ASSUME CardTypes(card, open_files), NEW path \in Redirected, card[path] = Absent
  PROVE  \A i \in EmuFds : open_files[i].path # path
<1> TAKE i \in EmuFds
<1> DEFINE f == open_files[i]
<1>1. f = NULL \/ Fits(card, f)
  BY DEF CardTypes
<1> HIDE DEF f
<1>2. CASE f = NULL
  <2>1. f.path # path
    BY <1>2, Constants, Params
  <2> QED
    BY <2>1 DEF f
<1>3. CASE Fits(card, f)
  <2>1. Placed(card, f)
    BY <1>3 DEF Fits
  <2>2. card[f.path] # Absent
    BY <2>1, PlacedIs
  <2>3. f.path # path
    BY <2>2
  <2> QED
    BY <2>3 DEF f
<1> QED
  BY <1>1, <1>2, <1>3

\* The emulation has taken a request and has answered it.
Taken == Asked /\ queue' = << >> /\ UNCHANGED <<nand, FS_Files, fs, message, ProxyMessage, ipc>>

\* Any answer of the emulation leaves the request to /dev/fs or to the game.
LEMMA AnswerFinishes ==
  ASSUME IndInv, Taken, job' = job, CardTypes(card', open_files'),
         NEW ret, Answer(ret), ret = NotOurs => Left, ret # NotOurs => ret.code \in Codes
  PROVE  IndInv'
<1>1. fs_internal_queue' = <<[msg |-> "done", ret |-> ret]>>
  BY DEF Answer, Post, Taken, Asked
<1>2. NandTypes(nand', FS_Files')
  BY DEF IndInv, Types, Taken
<1>3. reply'.code \in Codes
  BY DEF Answer, IndInv, Types
<1>4. Types'
  BY <1>2, <1>3 DEF Types
<1>5. IF ret = NotOurs THEN Left' ELSE cargo' = Absent
  BY DEF Answer, Left, Taken
<1>6. fs' = "waits" /\ queue' = << >> /\ job' = NoJob /\ ipc' = NoIpc /\ ProxyMessage' = message'
  BY WhoHasIt DEF Taken, Asked, Free
<1>7. Finished'
  BY <1>1, <1>5, <1>6 DEF Finished, Free
<1> QED
  BY <1>4, <1>6, <1>7 DEF IndInv, Conversation

LEMMA FineCodes == \A ret \in {OK, FileNotFound, IOError, InvalidArgument} : ret.code \in Codes /\ ret # NotOurs
<1>1. NotOurs.code = "not ours"
  BY DEF NotOurs, Code, Reply
<1> QED
  BY <1>1, CodesAre, Ret

LEMMA HandleOpenKeeps == ASSUME IndInv, Taken, HandleOpen(message) PROVE IndInv'
<1> DEFINE free == {i \in EmuFds : open_files[i] = NULL}
<1>0. CardTypes(card, open_files) /\ card' = card /\ job' = job
  BY DEF IndInv, Types, HandleOpen
<1>1. \/ Answer(NotOurs) /\ open_files' = open_files
      \/ Answer(FileNotFound) /\ open_files' = open_files
      \/ /\ free # {} /\ message.path \in Redirected /\ card[message.path] # Absent
         /\ open_files' = [open_files EXCEPT ![Least(free)] = RiivFile(message.path)]
         /\ Answer(Reply("OK", Least(free), << >>))
  BY DEF HandleOpen
<1>2. CASE Answer(NotOurs) /\ open_files' = open_files
  <2>1. Left
    BY DEF Left, HandleOpen, Taken, Asked, Pending, Ops
  <2> QED
    BY <1>0, <1>2, <2>1, AnswerFinishes
<1>3. CASE Answer(FileNotFound) /\ open_files' = open_files
  BY <1>0, <1>3, FineCodes, AnswerFinishes
<1>4. CASE /\ free # {} /\ message.path \in Redirected /\ card[message.path] # Absent
           /\ open_files' = [open_files EXCEPT ![Least(free)] = RiivFile(message.path)]
           /\ Answer(Reply("OK", Least(free), << >>))
  <2>1. free \subseteq EmuFds /\ EmuFds \subseteq Nat
    BY Params DEF EmuFds
  <2> HIDE DEF free
  <2>2. Least(free) \in EmuFds
    BY <1>4, <2>1, LeastIsOne
  <2>3. card \in Cards /\ Fits(card, RiivFile(message.path))
    BY <1>0, <1>4, OpenedFits DEF CardTypes
  <2>4. Keeps(card, card)
    BY <2>3 DEF Keeps
  <2>5. CardTypes(card', open_files')
    BY <1>0, <1>4, <2>2, <2>3, <2>4, OneOpenSet
  <2> DEFINE ret == Reply("OK", Least(free), << >>)
  <2>6. ret.code \in Codes /\ ret # NotOurs /\ Answer(ret)
    BY <1>4, CodesAre
  <2> HIDE DEF ret
  <2> QED
    BY <1>0, <2>5, <2>6, AnswerFinishes
<1> QED
  BY <1>1, <1>2, <1>3, <1>4

LEMMA HandleCloseKeeps == ASSUME IndInv, Taken, HandleClose(message) PROVE IndInv'
<1> DEFINE i == message.fd
           f == open_files[i]
<1>0. CardTypes(card, open_files) /\ job' = job
  BY DEF IndInv, Types, HandleClose
<1>1. i \in EmuFds /\ Fits(card, f) /\ card \in Cards
  BY <1>0 DEF HandleClose, Ours, CardTypes
<1>2. PICK c \in Flushed(card, f) : card' = c.card
  BY DEF HandleClose, Destroyed
<1>3. open_files' = [open_files EXCEPT ![i] = NULL] /\ Answer(OK)
  BY DEF HandleClose
<1> HIDE DEF i, f
<1>4. f.path \in Redirected /\ Grown(card, c.card, f.path)
  BY <1>1, FlushedGrows, Zenon
<1>5. Keeps(card, card')
  BY <1>1, <1>2, <1>4, GrownFits
<1>6. CardTypes(card', open_files')
  BY <1>0, <1>1, <1>3, <1>5, OneOpenSet
<1> QED
  BY <1>0, <1>3, <1>6, FineCodes, AnswerFinishes

LEMMA HandleWriteKeeps == ASSUME IndInv, Taken, HandleWrite(message) PROVE IndInv'
<1> DEFINE i == message.fd
           f == open_files[i]
           d == message.arg
<1>0. CardTypes(card, open_files) /\ job' = job
  BY DEF IndInv, Types, HandleWrite
<1>1. i \in EmuFds /\ Fits(card, f) /\ card \in Cards
  BY <1>0 DEF HandleWrite, Ours, CardTypes
<1>2. PICK c \in FileWrite(card, f, d) :
        /\ card' = c.card /\ open_files' = [open_files EXCEPT ![i] = c.f]
        /\ Answer(IF c.ret = -1 THEN IOError ELSE Reply("OK", c.ret, << >>))
  BY DEF HandleWrite
<1>3. EndOf(f) + Len(d) <= MaxLen /\ d \in Seq(Units) /\ Len(d) <= buf_size
  BY DEF HandleWrite, Taken, Asked, Pending
<1> HIDE DEF i, f, d
<1>6. Grown(card, c.card, f.path) /\ Fits(c.card, c.f)
  <2>1. AfterWrite(card, f, d, c)
    BY <1>1, <1>3, FileWriteIs, Zenon
  <2> QED
    BY <2>1 DEF AfterWrite
<1>7. f.path \in Redirected
  BY <1>1 DEF Fits, Placed
<1>8. Keeps(card, card')
  BY <1>1, <1>2, <1>6, <1>7, GrownFits
<1>9. CardTypes(card', open_files')
  BY <1>0, <1>1, <1>2, <1>6, <1>8, OneOpenSet
<1> DEFINE ret == IF c.ret = -1 THEN IOError ELSE Reply("OK", c.ret, << >>)
<1>10. Answer(ret) /\ ret.code \in Codes /\ ret # NotOurs
  BY <1>2, FineCodes, CodesAre, Ret
<1> HIDE DEF ret
<1> QED
  BY <1>0, <1>9, <1>10, AnswerFinishes

LEMMA HandleUseKeeps == ASSUME IndInv, Taken, HandleUse(message) PROVE IndInv'
<1> DEFINE i == message.fd
           f == open_files[i]
<1>0. CardTypes(card, open_files) /\ job' = job
  BY DEF IndInv, Types, HandleUse
<1>1. i \in EmuFds /\ Fits(card, f) /\ card \in Cards
  BY <1>0 DEF HandleUse, Ours, CardTypes
<1>2. PICK c \in FileUse(message, f) :
        card' = c.card /\ open_files' = [open_files EXCEPT ![i] = c.f] /\ Answer(c.ret)
  BY DEF HandleUse
<1>3. message.op \in {"read", "rewind", "stats"} /\ (message.op = "read" => message.arg = <<1>>)
  BY DEF HandleUse, Taken, Asked, Pending
<1> HIDE DEF i, f
<1>4. Grown(card, c.card, f.path) /\ Fits(c.card, c.f) /\ c.ret.code \in Codes
  BY <1>1, <1>3, FileUseIs
<1>5. f.path \in Redirected
  BY <1>1 DEF Fits, Placed
<1>6. Keeps(card, card')
  BY <1>1, <1>2, <1>4, <1>5, GrownFits
<1>7. CardTypes(card', open_files')
  BY <1>0, <1>1, <1>2, <1>4, <1>6, OneOpenSet
<1>8. c.ret # NotOurs
  <2>1. NotOurs.code = "not ours"
    BY DEF NotOurs, Code, Reply
  <2> QED
    BY <1>4, <2>1, CodesAre
<1> QED
  BY <1>0, <1>2, <1>4, <1>7, <1>8, AnswerFinishes

LEMMA HandlePathKeeps == ASSUME IndInv, Taken, HandlePath(message) PROVE IndInv'
<1> DEFINE path == message.path
           x == IF message.op = "delete" THEN Absent ELSE IF card[path] = Absent THEN << >> ELSE card[path]
<1>0. CardTypes(card, open_files) /\ card \in Cards /\ job' = job /\ open_files' = open_files /\ path \in Redirected
  BY DEF IndInv, Types, HandlePath, CardTypes
<1>1. \/ card' = [card EXCEPT ![path] = x] /\ Answer(OK)
      \/ card' = card /\ Answer(IOError)
  BY DEF HandlePath
<1>2. CASE card' = [card EXCEPT ![path] = x] /\ Answer(OK)
  <2>1. CASE message.op = "delete" \/ card[path] = Absent
    <3>1. \A i \in EmuFds : open_files[i].path # path
      BY <1>0, <2>1, AbsentNotOpen DEF Taken, Asked, Pending
    <3>2. x \in Contents \cup {Absent}
      BY <2>1, NoContents
    <3> HIDE DEF path, x
    <3>3. CardTypes(card', open_files')
      BY <1>0, <1>2, <3>1, <3>2, OnePathSet
    <3> QED
      BY <1>0, <1>2, <3>3, FineCodes, AnswerFinishes
  <2>2. CASE ~ (message.op = "delete" \/ card[path] = Absent)
    <3>1. x = card[path]
      BY <2>2
    <3> HIDE DEF path, x
    <3>2. card' = card
      BY <1>0, <1>2, <3>1 DEF Cards
    <3> QED
      BY <1>0, <1>2, <3>2, FineCodes, AnswerFinishes
  <2> QED
    BY <2>1, <2>2
<1>3. CASE card' = card /\ Answer(IOError)
  BY <1>0, <1>3, FineCodes, AnswerFinishes
<1> QED
  BY <1>1, <1>2, <1>3

LEMMA HandleRenameKeeps == ASSUME IndInv, Taken, HandleRename(message) PROVE IndInv'
<1> DEFINE from == message.path
           to == message.path2
           x == card[from]
<1>0. CardTypes(card, open_files) /\ card \in Cards /\ job' = job /\ open_files' = open_files
  BY DEF IndInv, Types, HandleRename, CardTypes
<1>1. from \in Redirected /\ to \in Redirected /\ x \in Contents \cup {Absent}
  BY <1>0 DEF HandleRename, Cards
<1>2. \A i \in EmuFds : open_files[i].path # from
  BY DEF HandleRename, Taken, Asked, Pending
<1>3. \/ card' = card /\ Answer(FileNotFound)
      \/ /\ card[to] = Absent /\ card' = [card EXCEPT ![to] = x, ![from] = Absent]
         /\ Answer(OK)
  BY DEF HandleRename
<1> HIDE DEF from, to, x
<1>4. CASE card' = card /\ Answer(FileNotFound)
  BY <1>0, <1>4, FineCodes, AnswerFinishes
<1>5. CASE /\ card[to] = Absent /\ card' = [card EXCEPT ![to] = x, ![from] = Absent]
           /\ Answer(OK)
  <2> DEFINE files == [card EXCEPT ![to] = x]
  <2>1. \A i \in EmuFds : open_files[i].path # to
    BY <1>0, <1>1, <1>5, AbsentNotOpen
  <2>2. CardTypes(files, open_files)
    BY <1>0, <1>1, <2>1, OnePathSet
  <2>3. card' = [files EXCEPT ![from] = Absent]
    BY <1>5
  <2> HIDE DEF files
  <2>4. CardTypes(card', open_files')
    BY <1>0, <1>1, <1>2, <2>2, <2>3, OnePathSet
  <2> QED
    BY <1>0, <1>5, <2>4, FineCodes, AnswerFinishes
<1> QED
  BY <1>3, <1>4, <1>5

LEMMA HandleMoveFromKeeps == ASSUME IndInv, Taken, HandleMoveFrom(message) PROVE IndInv'
<1>1. CardTypes(card', open_files') /\ job' = job /\ Answer(InvalidArgument)
  BY DEF IndInv, Types, HandleMoveFrom
<1> QED
  BY <1>1, FineCodes, AnswerFinishes

LEMMA HandleNotOursKeeps == ASSUME IndInv, Taken, HandleNotOurs(message) PROVE IndInv'
<1>1. CardTypes(card', open_files') /\ job' = job /\ Answer(NotOurs)
  BY DEF IndInv, Types, HandleNotOurs
<1>2. Left
  BY DEF Left, HandleNotOurs, Taken, Asked, Pending, Ops, On
<1> QED
  BY <1>1, <1>2, AnswerFinishes

LEMMA HandleMoveToKeeps == ASSUME IndInv, Taken, HandleMoveTo(message) PROVE IndInv'
<1>1. Types'
  BY TypesUnmoved DEF IndInv, Types, Taken, HandleMoveTo
<1>2. /\ job' = [at |-> "open", from |-> message.path, to |-> message.path2, src |-> NoFd, size |-> 0,
                 dest |-> NULL, ret |-> InvalidArgument]
  BY DEF HandleMoveTo, NoJob
<1>3. job'.at = "open" /\ job'.from = message.path /\ job'.to = message.path2 /\ job'.ret = InvalidArgument
      /\ job' = [at |-> job'.at, from |-> job'.from, to |-> job'.to, src |-> job'.src, size |-> job'.size,
                 dest |-> job'.dest, ret |-> job'.ret]
  BY <1>2
<1>4. /\ message.op = "move" /\ message.path \in Paths \ Redirected /\ message.path2 \in Redirected
      /\ cargo = nand[message.path]
      /\ card[message.path2] = Absent \/ (cargo # Absent /\ Len(card[message.path2]) <= Len(cargo))
  BY DEF HandleMoveTo, Taken, Asked, Pending, On
<1>5. ipc' = NoIpc /\ fs_internal_queue' = << >> /\ UNCHANGED <<nand, FS_Files, card, cargo, message>>
  BY DEF HandleMoveTo, Taken, Asked, Free
<1>6. AtOpen'
  <2>1. ~ Done'
    BY <1>5, Constants DEF Done
  <2> QED
    BY <1>3, <1>4, <1>5, <2>1 DEF AtOpen
<1>7. Moving'
  BY <1>3, <1>4, <1>5, <1>6 DEF Moving, Stage, Stages
<1>8. fs' = "waits" /\ queue' = << >> /\ ProxyMessage' = message'
  BY WhoHasIt DEF Taken, Asked
<1> QED
  BY <1>1, <1>7, <1>8 DEF IndInv, Conversation, InMove

LEMMA HandleFSMessageKeeps == ASSUME IndInv, HandleFSMessage PROVE IndInv'
<1>1. queue # << >> /\ queue' = Tail(queue) /\ UNCHANGED <<nand, FS_Files, fs, message, ProxyMessage, ipc>>
  BY DEF HandleFSMessage, Takes
<1>2. Asked /\ ProxyMessage = message
  BY <1>1, WhoHasIt DEF Asked
<1>3. queue' = << >>
  BY <1>1, <1>2 DEF Asked
<1>4. Taken
  BY <1>1, <1>2, <1>3 DEF Taken
<1>5. \/ HandleOpen(message) \/ HandleClose(message) \/ HandleWrite(message) \/ HandleUse(message)
      \/ HandlePath(message) \/ HandleRename(message) \/ HandleMoveFrom(message) \/ HandleMoveTo(message)
      \/ HandleNotOurs(message)
  BY <1>2 DEF HandleFSMessage
<1> QED
  BY <1>4, <1>5, HandleOpenKeeps, HandleCloseKeeps, HandleWriteKeeps, HandleUseKeeps, HandlePathKeeps,
     HandleRenameKeeps, HandleMoveFromKeeps, HandleMoveToKeeps, HandleNotOursKeeps
-----------------------------------------------------------------------------
(* MoveTo *)

\* The call of FS_IPC that a step of MoveTo has made is over.
Turns ==
  /\ InMove /\ ipc.phase = "close" /\ ipc.acked /\ ipc' = NoIpc
  /\ UNCHANGED <<nand, FS_Files, open_files, fs, message, ProxyMessage, queue>>

\* Where MoveTo is when a call has returned.
LEMMA TurnIs ==
  ASSUME IndInv, Turns
  PROVE  /\ Done /\ ~ Done' /\ fs_internal_queue = << >> /\ Moving /\ Stage
         /\ CardTypes(card, open_files) /\ card \in Cards
         /\ job = [at |-> job.at, from |-> job.from, to |-> job.to, src |-> job.src, size |-> job.size,
                   dest |-> job.dest, ret |-> job.ret]
         /\ job.from \in Paths /\ job.to \in Redirected
<1>1. Moving /\ Stage /\ Done /\ ~ Done'
  BY Constants DEF Turns, InMove, Moving, Done
<1>2. fs_internal_queue = << >>
  BY <1>1, Constants DEF Moving, Calling, Turns
<1>3. CardTypes(card, open_files) /\ card \in Cards
  BY DEF IndInv, Types, CardTypes
<1> QED
  BY <1>1, <1>2, <1>3 DEF Moving

\* It goes on.
LEMMA TurnGoes ==
  ASSUME IndInv, Turns, UNCHANGED <<fs_internal_queue, cargo, reply>>, CardTypes(card', open_files),
         NEW at, NEW src, NEW size, NEW dest, NEW ret,
         job' = [at |-> at, from |-> job.from, to |-> job.to, src |-> src, size |-> size, dest |-> dest, ret |-> ret],
         Stage'
  PROVE  IndInv'
<1>1. Types'
  BY DEF IndInv, Types, Turns
<1>2. job'.from = job.from /\ job'.to = job.to
      /\ job' = [at |-> job'.at, from |-> job'.from, to |-> job'.to, src |-> job'.src, size |-> job'.size,
                 dest |-> job'.dest, ret |-> job'.ret]
  OBVIOUS
<1>3. ipc' = NoIpc /\ fs_internal_queue' = << >>
  BY TurnIs DEF Turns
<1>4. Moving'
  BY <1>2, <1>3, TurnIs DEF Moving, Turns
<1>5. fs' = "waits" /\ queue' = << >> /\ ProxyMessage' = message'
  BY WhoHasIt DEF Turns, InMove
<1> QED
  BY <1>1, <1>4, <1>5 DEF IndInv, Conversation, InMove

\* It ends with an answer.
LEMMA TurnEnds ==
  ASSUME IndInv, Turns, card' = card, NEW ret, Ends(ret), ret.code \in Codes
  PROVE  IndInv'
<1>1. ret # NotOurs
  <2>1. NotOurs.code = "not ours"
    BY DEF NotOurs, Code, Reply
  <2> QED
    BY <2>1, CodesAre
<1>2. fs_internal_queue' = <<[msg |-> "done", ret |-> ret]>>
  BY TurnIs DEF Ends, Answer, Post
<1>3. cargo' = Absent /\ reply' = ret /\ job' = NoJob
  BY <1>1 DEF Ends, Answer
<1>4. Types'
  BY <1>3 DEF IndInv, Types, Turns
<1>5. fs' = "waits" /\ queue' = << >> /\ ProxyMessage' = message'
  BY WhoHasIt DEF Turns, InMove
<1>6. Finished'
  BY <1>1, <1>2, <1>3, <1>5 DEF Finished, Free, Turns
<1> QED
  BY <1>4, <1>5, <1>6 DEF IndInv, Conversation

\* The loop is left with the file that is written to flushed.
LEMMA LeaveKeeps ==
  ASSUME IndInv, Turns, UNCHANGED <<fs_internal_queue, cargo, reply>>,
         NEW files, NEW f, NEW ret, Leave(ret, files, f),
         Keeps(card, files), Fits(files, f), f.path = job.to,
         Whole, ret.code \in Codes, ret = OK => View(files, f) = cargo
  PROVE  IndInv'
<1>1. PICK c \in Flushed(files, f) :
        card' = c.card /\ job' = [job EXCEPT !.at = "close", !.dest = NULL, !.ret = ret]
  BY DEF Leave, Destroyed
<1>2. files \in Cards
  BY DEF Keeps
<1>3. f.path \in Redirected /\ Grown(files, c.card, f.path) /\ c.card[f.path] = View(files, f)
  BY <1>1, <1>2, FlushedGrows, Zenon
<1>4. Keeps(files, card')
  BY <1>1, <1>2, <1>3, GrownFits
<1>5. Keeps(card, card')
  BY <1>4 DEF Keeps
<1>6. CardTypes(card', open_files)
  BY <1>5, TurnIs DEF CardTypes, Keeps
<1>7. job' = [at |-> "close", from |-> job.from, to |-> job.to, src |-> job.src, size |-> job.size,
              dest |-> NULL, ret |-> ret]
  BY <1>1, TurnIs
<1>8. job'.at = "close" /\ job'.from = job.from /\ job'.to = job.to /\ job'.ret = ret
  BY <1>7
<1>9. AtClose'
  BY <1>1, <1>3, <1>8 DEF AtClose, Whole, Turns
<1>10. Stage'
  BY <1>8, <1>9 DEF Stage, Stages
<1> QED
  BY <1>6, <1>7, <1>10, TurnGoes, Zenon

LEMMA MoveOpenedKeeps == ASSUME IndInv, Turns, MoveOpened PROVE IndInv'
<1>1. AtOpen
  BY TurnIs DEF Stage, MoveOpened, Returned
<1>2. CASE ipc.ret.code # "OK"
  BY <1>2, FineCodes, TurnEnds DEF MoveOpened
<1>3. CASE ipc.ret.code = "OK"
  <2>1. /\ cargo # Absent /\ ipc.ret.value \in NandFds /\ FS_Files[ipc.ret.value].path = job.from
        /\ nand[job.from] = cargo
    BY <1>1, <1>3, TurnIs DEF AtOpen, Source
  <2>2. cargo \in Contents /\ Len(cargo) \in Nat
    <3>1. nand[job.from] \in Contents \cup {Absent}
      BY TurnIs DEF IndInv, Types, NandTypes
    <3> QED
      BY <2>1, <3>1, ContentsAre
  <2>3. UNCHANGED <<fs_internal_queue, cargo, reply>>
    BY <1>3 DEF MoveOpened
  <2>4. CASE /\ card' = [card EXCEPT ![job.to] = IF @ = Absent THEN << >> ELSE @]
             /\ job' = [job EXCEPT !.at = "size", !.src = ipc.ret.value, !.dest = RiivFile(job.to)]
    <3>1. job' = [at |-> "size", from |-> job.from, to |-> job.to, src |-> ipc.ret.value, size |-> job.size,
                  dest |-> RiivFile(job.to), ret |-> job.ret]
      BY <2>4, TurnIs
    <3>2. job'.at = "size" /\ job'.from = job.from /\ job'.to = job.to /\ job'.src = ipc.ret.value
          /\ job'.dest = RiivFile(job.to)
      BY <3>1
    <3>3. CardTypes(card', open_files) /\ card'[job.to] # Absent /\ Len(card'[job.to]) <= Len(cargo)
      <4>1. CASE card[job.to] = Absent
        <5> DEFINE x == << >>
                   to == job.to
        <5>1. card' = [card EXCEPT ![to] = x] /\ x \in Contents /\ Len(x) = 0 /\ to \in Redirected /\ card[to] = Absent
          BY <2>4, <4>1, TurnIs, NoContents
        <5> HIDE DEF x, to
        <5>2. CardTypes(card', open_files)
          BY <5>1, TurnIs, AbsentNotOpen, OnePathSet
        <5>3. card'[to] = x
          BY <5>1, TurnIs DEF Cards
        <5>4. x # Absent
          BY <5>1, ContentsAre
        <5>5. Len(x) <= Len(cargo)
          BY <2>2, <5>1
        <5> QED
          BY <5>2, <5>3, <5>4, <5>5 DEF to
      <4>2. CASE card[job.to] # Absent
        <5>1. card' = card
          BY <2>4, <4>2, TurnIs DEF Cards
        <5> QED
          BY <1>1, <4>2, <5>1, TurnIs DEF AtOpen
      <4> QED
        BY <4>1, <4>2
    <3>4. AtSize'
      BY <2>1, <2>3, <3>2, <3>3, TurnIs DEF AtSize, Ready, Whole, Source, Turns
    <3>5. Stage'
      BY <3>2, <3>4 DEF Stage, Stages
    <3> QED
      BY <2>3, <3>1, <3>3, <3>5, TurnGoes
  <2>5. CASE /\ job.to \in MayFail /\ job' = [job EXCEPT !.at = "close", !.src = ipc.ret.value]
             /\ card' = card
    <3>1. job' = [at |-> "close", from |-> job.from, to |-> job.to, src |-> ipc.ret.value, size |-> job.size,
                  dest |-> job.dest, ret |-> job.ret]
      BY <2>5, TurnIs
    <3>2. job'.at = "close" /\ job'.from = job.from /\ job'.to = job.to /\ job'.ret = InvalidArgument
      BY <1>1, <3>1 DEF AtOpen
    <3>3. InvalidArgument # OK /\ InvalidArgument.code \in Codes
      BY FineCodes, Ret
    <3>4. AtClose'
      BY <2>1, <2>3, <3>2, <3>3 DEF AtClose, Whole, Turns
    <3>5. Stage'
      BY <3>2, <3>4 DEF Stage, Stages
    <3>6. CardTypes(card', open_files)
      BY <2>5, TurnIs
    <3> QED
      BY <2>3, <3>1, <3>5, <3>6, TurnGoes
  <2> QED
    BY <1>3, <2>4, <2>5 DEF MoveOpened
<1> QED
  BY <1>2, <1>3

LEMMA MoveSizedKeeps == ASSUME IndInv, Turns, MoveSized PROVE IndInv'
<1>1. AtSize /\ ipc.ret.value = Len(cargo)
  BY TurnIs DEF Stage, MoveSized, Returned, AtSize
<1>2. job' = [at |-> "rewind", from |-> job.from, to |-> job.to, src |-> job.src, size |-> Len(cargo),
              dest |-> job.dest, ret |-> job.ret]
  BY <1>1, TurnIs DEF MoveSized
<1>3. job'.at = "rewind" /\ job'.from = job.from /\ job'.to = job.to /\ job'.src = job.src
      /\ job'.dest = job.dest /\ job'.size = Len(cargo)
  BY <1>2
<1>4. UNCHANGED <<card, fs_internal_queue, cargo, reply>>
  BY DEF MoveSized
<1>5. AtRewind'
  BY <1>1, <1>3, <1>4, TurnIs DEF AtSize, AtRewind, Ready, Whole, Source, Turns
<1>6. Stage'
  BY <1>3, <1>5 DEF Stage, Stages
<1>7. CardTypes(card', open_files)
  BY <1>4, TurnIs
<1> QED
  BY <1>2, <1>4, <1>6, <1>7, TurnGoes


\* What is moved is a file.
LEMMA CargoIs == ASSUME IndInv, Turns, Whole PROVE cargo \in Contents /\ Len(cargo) \in Nat /\ Len(cargo) <= MaxLen
<1>1. nand[job.from] \in Contents \cup {Absent}
  BY TurnIs DEF IndInv, Types, NandTypes
<1>2. cargo \in Contents
  BY <1>1 DEF Whole
<1> QED
  BY <1>2, ContentsAre

LEMMA MoveRewoundKeeps == ASSUME IndInv, Turns, MoveRewound PROVE IndInv'
<1> DEFINE f == job.dest
<1>1. AtRewind /\ ipc.ret = OK /\ FS_Files[job.src].pos = 0
  BY TurnIs DEF Stage, MoveRewound, Returned, AtRewind
<1>2. /\ Whole /\ Source(job.src) /\ f = RiivFile(job.to) /\ job.size = Len(cargo)
      /\ card[job.to] # Absent /\ Len(card[job.to]) <= Len(cargo)
  BY <1>1 DEF AtRewind, Ready
<1>3. cargo \in Contents /\ Len(cargo) \in Nat /\ cargo # Absent
  BY <1>2, CargoIs DEF Whole
<1>4. Fits(card, f) /\ f.path = job.to /\ EndOf(f) = 0 /\ View(card, f) = card[job.to]
  <2> DEFINE to == job.to
  <2>1. to \in Redirected /\ card \in Cards /\ card[to] # Absent
    BY <1>2, TurnIs
  <2> HIDE DEF to
  <2>2. Fits(card, RiivFile(to)) /\ RiivFile(to).path = to /\ EndOf(RiivFile(to)) = 0 /\ View(card, RiivFile(to)) = card[to]
    BY <2>1, OpenedFits, Zenon
  <2> QED
    BY <1>2, <2>2 DEF to
<1>5. UNCHANGED <<fs_internal_queue, cargo, reply>>
  BY DEF MoveRewound
<1> HIDE DEF f
<1>6. CASE job.size > 0 /\ job' = [job EXCEPT !.at = "read", !.ret = ipc.ret] /\ card' = card
  <2>1. job' = [at |-> "read", from |-> job.from, to |-> job.to, src |-> job.src, size |-> job.size,
                dest |-> job.dest, ret |-> OK]
    BY <1>1, <1>6, TurnIs
  <2>2. job'.at = "read" /\ job'.from = job.from /\ job'.to = job.to /\ job'.src = job.src
        /\ job'.dest = f /\ job'.size = job.size /\ job'.ret = OK
    BY <2>1 DEF f
  <2>3. job.size \in Nat \ {0} /\ EndOf(f) + job.size = Len(cargo)
    BY <1>2, <1>3, <1>4, <1>6
  <2>4. AtRead'
    <3>1. Whole' /\ Source(job.src)'
      BY <1>2, <1>5, <2>2 DEF Whole, Source, Turns
    <3>2. \A i \in 1..EndOf(f) : View(card, f)[i] = cargo[i]
      BY <1>4
    <3>3. FS_Files'[job'.src].pos = EndOf(f)
      BY <1>1, <1>4, <2>2 DEF Turns
    <3> QED
      BY <1>2, <1>4, <1>5, <1>6, <2>2, <2>3, <3>1, <3>2, <3>3, TurnIs DEF AtRead
  <2>5. Stage'
    BY <2>2, <2>4 DEF Stage, Stages
  <2>6. CardTypes(card', open_files)
    BY <1>6, TurnIs
  <2> QED
    BY <1>5, <2>1, <2>5, <2>6, TurnGoes
<1>7. CASE job.size = 0 /\ Leave(ipc.ret, card, job.dest)
  <2>1. card[job.to] = cargo
    <3> DEFINE x == card[job.to]
    <3>1. x \in Contents
      BY <1>2, TurnIs DEF Cards
    <3> HIDE DEF x
    <3>2. x \in Seq(Units) /\ cargo \in Seq(Units) /\ Len(x) \in Nat
      BY <1>3, <3>1, ContentsAre
    <3>3. Len(x) = 0 /\ Len(cargo) = 0
      BY <1>2, <1>3, <1>7, <3>2 DEF x
    <3>4. x = cargo
      BY <3>2, <3>3, SameSeq
    <3> QED
      BY <3>4 DEF x
  <2>2. View(card, f) = cargo /\ Leave(OK, card, f)
    BY <1>1, <1>4, <1>7, <2>1 DEF f
  <2>3. Keeps(card, card)
    BY TurnIs DEF Keeps
  <2> QED
    BY <1>2, <1>4, <1>5, <2>2, <2>3, FineCodes, LeaveKeeps
<1> QED
  BY <1>6, <1>7 DEF MoveRewound

LEMMA MoveReadKeeps == ASSUME IndInv, Turns, MoveRead PROVE IndInv'
<1> DEFINE f == job.dest
           d == ipc.ret.data
           size == job.size
<1>1. AtRead /\ job.at = "read" /\ UNCHANGED <<fs_internal_queue, cargo, reply>>
  BY TurnIs DEF Stage, MoveRead, Returned
<1>2. /\ Whole /\ Source(job.src) /\ Fits(card, f) /\ f.path = job.to
      /\ Len(card[job.to]) <= Len(cargo) /\ job.ret = OK
      /\ size \in Nat \ {0} /\ EndOf(f) + size = Len(cargo)
      /\ \A i \in 1..EndOf(f) : View(card, f)[i] = cargo[i]
      /\ \/ d = << >>
         \/ /\ d = Slice(cargo, EndOf(f), Lesser(move_size, size))
            /\ FS_Files[job.src].pos = EndOf(f) + Len(d)
  BY <1>1, TurnIs DEF AtRead
<1>3. cargo \in Contents /\ Len(cargo) \in Nat /\ Len(cargo) <= MaxLen
  BY <1>2, CargoIs
<1>4. PICK c \in IF d = << >> THEN {Card(card, f, 0)} ELSE FileWrite(card, f, d) :
        IF Copied(d, c) /\ size > Len(d)
        THEN card' = c.card /\ job' = [job EXCEPT !.dest = c.f, !.size = size - Len(d)]
        ELSE Leave(IF Copied(d, c) THEN job.ret ELSE IOError, c.card, c.f)
  BY DEF MoveRead
<1>5. card \in Cards /\ Keeps(card, card) /\ job.to \in Redirected
  BY TurnIs DEF Keeps
<1>6. /\ View(card, f) \in Contents /\ EndOf(f) \in 0..Len(View(card, f))
      /\ Len(View(card, f)) = IF EndOf(f) > Len(card[f.path]) THEN EndOf(f) ELSE Len(card[f.path])
      /\ EndOf(f) \in Nat
  <2>1. Placed(card, f)
    BY <1>2 DEF Fits
  <2> QED
    BY <2>1, ViewIs, PlacedIs DEF EndOf
<1> HIDE DEF f, d, size
<1>7. CASE d = << >>
  <2>1. c.card = card /\ c.f = f
    BY <1>4, <1>7 DEF Card
  <2>2. ~ Copied(d, c)
    BY <1>7 DEF Copied
  <2>3. Leave(IOError, card, f)
    BY <1>4, <2>1, <2>2
  <2>4. IOError # OK
    BY Ret
  <2> QED
    BY <1>1, <1>2, <1>5, <2>3, <2>4, FineCodes, LeaveKeeps
<1>8. CASE d # << >>
  <2> DEFINE n == Lesser(move_size, size)
             e == EndOf(f)
             v == View(card, f)
             w == View(c.card, c.f)
  <2>1. n \in Nat \ {0} /\ n <= size /\ n <= buf_size
    BY <1>2, Params DEF Lesser
  <2> HIDE DEF n
  <2>2. /\ d \in Seq(Units) /\ Len(d) = n /\ \A i \in 1..Len(d) : d[i] = cargo[e + i]
        /\ FS_Files[job.src].pos = e + Len(d)
    <3>1. d = Slice(cargo, e, n) /\ FS_Files[job.src].pos = e + Len(d) /\ e + size = Len(cargo) /\ e \in Nat
      BY <1>2, <1>6, <1>8 DEF n
    <3>2. e \in 0..Len(cargo) /\ n \in Nat
      BY <1>2, <2>1, <3>1
    <3> HIDE DEF e
    <3>3. /\ d \in Seq(Units) /\ Len(d) = IF e + n < Len(cargo) THEN n ELSE Len(cargo) - e
          /\ \A i \in 1..Len(d) : d[i] = cargo[e + i]
      BY <1>3, <3>1, <3>2, SliceIs
    <3>4. Len(d) = n
      BY <1>2, <1>3, <2>1, <3>1, <3>3
    <3> QED
      BY <3>1, <3>3, <3>4
  <2>3. Len(d) \in Nat /\ Len(d) <= buf_size /\ e + Len(d) <= Len(cargo) /\ e + Len(d) <= MaxLen /\ e + Len(d) \in Nat
        /\ Len(d) <= size
    BY <1>2, <1>3, <1>6, <2>1, <2>2, Params
  <2>4. c \in FileWrite(card, f, d)
    BY <1>4, <1>8
  <2>5. /\ Grown(card, c.card, f.path) /\ Fits(c.card, c.f) /\ c.f.path = f.path
        /\ \A m \in Nat : Len(card[f.path]) <= m /\ EndOf(f) + Len(d) <= m => Len(c.card[f.path]) <= m
        /\ c.ret = Len(d) => EndOf(c.f) = EndOf(f) + Len(d) /\ View(c.card, c.f) = Overwrite(View(card, f), EndOf(f), d)
    <3>1. /\ card \in Cards /\ Fits(card, f) /\ d \in Seq(Units) /\ Len(d) <= buf_size
          /\ EndOf(f) + Len(d) <= MaxLen
      BY <1>2, <1>5, <2>2, <2>3
    <3>2. AfterWrite(card, f, d, c)
      BY <2>4, <3>1, FileWriteIs, Zenon
    <3> QED
      BY <3>2 DEF AfterWrite
  <2>6. Keeps(card, c.card)
    BY <1>2, <1>5, <2>5, GrownFits
  <2>7. Len(c.card[job.to]) <= Len(cargo)
    BY <1>2, <1>3, <2>3, <2>5
  <2>8. ASSUME c.ret = Len(d)
        PROVE  /\ EndOf(c.f) = e + Len(d) /\ w \in Contents
               /\ \A i \in 1..(e + Len(d)) : w[i] = cargo[i]
    <3>1. EndOf(c.f) = e + Len(d) /\ w = Overwrite(v, e, d)
      BY <2>5, <2>8
    <3>2. v \in Contents /\ e \in 0..Len(v) /\ e \in Nat /\ \A i \in 1..e : v[i] = cargo[i]
      BY <1>2, <1>6
    <3>3. Len(v) \in Nat
      BY <3>2, ContentsAre
    <3> DEFINE o == Overwrite(v, e, d)
    <3> HIDE DEF e, v, w
    <3>4. /\ o \in Contents /\ Len(o) = IF e + Len(d) > Len(v) THEN e + Len(d) ELSE Len(v)
          /\ \A i \in 1..Len(o) : o[i] = IF i <= e THEN v[i] ELSE IF i <= e + Len(d) THEN d[i - e] ELSE v[i]
      <4>1. v \in Contents /\ e \in 0..Len(v) /\ d \in Seq(Units) /\ e + Len(d) <= MaxLen
        BY <2>2, <2>3, <3>2 DEF e
      <4> QED
        BY <4>1, OverwriteIs, Zenon
    <3> HIDE DEF o
    <3>5. ASSUME NEW i \in 1..(e + Len(d)) PROVE o[i] = cargo[i]
      <4>1. i \in 1..Len(o) /\ i <= e + Len(d)
        BY <2>3, <3>2, <3>3, <3>4
      <4>2. CASE i <= e
        <5>1. i \in 1..e
          BY <3>2, <4>2
        <5> QED
          BY <3>2, <3>4, <4>1, <4>2, <5>1
      <4>3. CASE ~ (i <= e)
        <5>1. i - e \in 1..Len(d) /\ e + (i - e) = i
          BY <2>3, <3>2, <4>3
        <5> QED
          BY <2>2, <3>4, <4>1, <4>3, <5>1
      <4> QED
        BY <4>2, <4>3
    <3> QED
      BY <3>1, <3>4, <3>5 DEF o
  <2>9. CASE Copied(d, c) /\ size > Len(d)
    <3>1. c.ret = Len(d) /\ card' = c.card
      BY <1>4, <2>9 DEF Copied
    <3>2. job' = [at |-> "read", from |-> job.from, to |-> job.to, src |-> job.src, size |-> size - Len(d),
                  dest |-> c.f, ret |-> OK]
      <4>1. job' = [job EXCEPT !.dest = c.f, !.size = size - Len(d)]
        BY <1>4, <2>9
      <4> QED
        BY <1>1, <1>2, <4>1, TurnIs
    <3>3. job'.at = "read" /\ job'.from = job.from /\ job'.to = job.to /\ job'.src = job.src
          /\ job'.dest = c.f /\ job'.size = size - Len(d) /\ job'.ret = OK
      BY <3>2
    <3>4. /\ EndOf(c.f) = e + Len(d)
          /\ \A i \in 1..EndOf(c.f) : w[i] = cargo[i]
      BY <2>8, <3>1
    <3>5. size - Len(d) \in Nat \ {0} /\ EndOf(c.f) + (size - Len(d)) = Len(cargo)
      BY <1>2, <1>6, <2>3, <2>9, <3>4
    <3>6. Whole' /\ Source(job.src)'
      BY <1>1, <1>2, <3>3 DEF Whole, Source, Turns
    <3>7. FS_Files'[job'.src].pos = EndOf(c.f)
      BY <2>2, <3>3, <3>4 DEF Turns
    <3>8. Fits(card', job'.dest) /\ job'.dest.path = job'.to /\ Len(card'[job'.to]) <= Len(cargo')
      BY <1>1, <1>2, <2>5, <2>7, <3>1, <3>3
    <3>9. AtRead'
      BY <1>1, <3>1, <3>3, <3>4, <3>5, <3>6, <3>7, <3>8, TurnIs DEF AtRead
    <3>10. Stage'
      BY <3>3, <3>9 DEF Stage, Stages
    <3>11. CardTypes(card', open_files)
      BY <2>6, <3>1, TurnIs DEF CardTypes, Keeps
    <3> QED
      BY <1>1, <3>2, <3>10, <3>11, TurnGoes, Zenon
  <2>10. CASE Copied(d, c) /\ ~ (size > Len(d))
    <3>1. c.ret = Len(d) /\ Leave(OK, c.card, c.f)
      BY <1>2, <1>4, <2>10 DEF Copied
    <3>2. w = cargo
      <4>1. EndOf(c.f) = e + Len(d) /\ w \in Contents /\ \A i \in 1..(e + Len(d)) : w[i] = cargo[i]
        BY <2>8, <3>1
      <4>2. e + Len(d) = Len(cargo)
        BY <1>2, <1>6, <2>3, <2>10
      <4>3. Len(w) = IF EndOf(c.f) > Len(c.card[c.f.path]) THEN EndOf(c.f) ELSE Len(c.card[c.f.path])
        <5>1. Placed(c.card, c.f)
          BY <2>5 DEF Fits
        <5> QED
          BY <5>1, ViewIs
      <4>4. Len(c.card[c.f.path]) <= Len(cargo)
        BY <1>2, <2>5, <2>7
      <4>5. Len(c.card[c.f.path]) \in Nat
        BY <2>5, ContentsAre DEF Grown
      <4> HIDE DEF e, w
      <4>6. Len(w) = Len(cargo)
        BY <1>3, <4>1, <4>2, <4>3, <4>4, <4>5
      <4>7. w \in Seq(Units) /\ cargo \in Seq(Units)
        BY <1>3, <4>1, ContentsAre
      <4>8. \A i \in 1..Len(w) : w[i] = cargo[i]
        BY <4>1, <4>2, <4>6
      <4> QED
        BY <4>6, <4>7, <4>8, SameSeq, Zenon
    <3>3. c.f.path = job.to
      BY <1>2, <2>5
    <3> QED
      BY <1>1, <1>2, <2>5, <2>6, <3>1, <3>2, <3>3, FineCodes, LeaveKeeps
  <2>11. CASE ~ Copied(d, c)
    <3>1. Leave(IOError, c.card, c.f)
      BY <1>4, <2>11
    <3>2. IOError # OK
      BY Ret
    <3>3. c.f.path = job.to
      BY <1>2, <2>5
    <3> QED
      BY <1>1, <1>2, <2>5, <2>6, <3>1, <3>2, <3>3, FineCodes, LeaveKeeps
  <2> QED
    BY <2>9, <2>10, <2>11
<1> QED
  BY <1>7, <1>8

LEMMA MoveClosedKeeps == ASSUME IndInv, Turns, MoveClosed PROVE IndInv'
<1>1. AtClose
  BY TurnIs DEF Stage, MoveClosed, Returned
<1>2. card' = card
  BY DEF MoveClosed
<1>3. CASE job.ret = OK
  <2>1. job' = [job EXCEPT !.at = "open fs"] /\ UNCHANGED <<fs_internal_queue, cargo, reply>>
    BY <1>3 DEF MoveClosed, Goes
  <2>2. job' = [at |-> "open fs", from |-> job.from, to |-> job.to, src |-> job.src, size |-> job.size,
                dest |-> job.dest, ret |-> job.ret]
    BY <2>1, TurnIs
  <2>3. job'.at = "open fs" /\ job'.to = job.to /\ job'.ret = OK
    BY <1>3, <2>2
  <2>4. AtEnd'
    BY <1>1, <1>2, <1>3, <2>1, <2>3 DEF AtClose, Whole, AtEnd
  <2>5. Stage'
    BY <2>3, <2>4 DEF Stage, Stages
  <2>6. CardTypes(card', open_files)
    BY <1>2, TurnIs
  <2> QED
    BY <2>1, <2>2, <2>5, <2>6, TurnGoes
<1>4. CASE job.ret # OK
  <2>1. Ends(job.ret) /\ job.ret.code \in Codes
    BY <1>1, <1>4 DEF MoveClosed, AtClose
  <2> QED
    BY <1>2, <2>1, TurnEnds
<1> QED
  BY <1>3, <1>4

LEMMA MoveOpenedFsKeeps == ASSUME IndInv, Turns, MoveOpenedFs PROVE IndInv'
<1>1. AtEnd
  BY TurnIs DEF Stage, MoveOpenedFs, Returned
<1>2. card' = card
  BY DEF MoveOpenedFs
<1>3. CASE ipc.ret.code = "OK"
  <2>1. job' = [job EXCEPT !.at = "delete", !.src = ipc.ret.value] /\ UNCHANGED <<fs_internal_queue, cargo, reply>>
    BY <1>3 DEF MoveOpenedFs
  <2>2. job' = [at |-> "delete", from |-> job.from, to |-> job.to, src |-> ipc.ret.value, size |-> job.size,
                dest |-> job.dest, ret |-> job.ret]
    BY <2>1, TurnIs
  <2>3. job'.at = "delete" /\ job'.to = job.to /\ job'.ret = job.ret
    BY <2>2
  <2>4. AtEnd'
    BY <1>1, <1>2, <2>1, <2>3 DEF AtEnd
  <2>5. Stage'
    BY <2>3, <2>4 DEF Stage, Stages
  <2>6. CardTypes(card', open_files)
    BY <1>2, TurnIs
  <2> QED
    BY <2>1, <2>2, <2>5, <2>6, TurnGoes
<1>4. CASE ipc.ret.code # "OK"
  <2>1. Ends(job.ret) /\ job.ret.code \in Codes
    BY <1>1, <1>4, FineCodes DEF MoveOpenedFs, AtEnd
  <2> QED
    BY <1>2, <2>1, TurnEnds
<1> QED
  BY <1>3, <1>4

LEMMA MoveDeletedKeeps == ASSUME IndInv, Turns, MoveDeleted PROVE IndInv'
<1>1. AtEnd
  BY TurnIs DEF Stage, MoveDeleted, Returned
<1>2. job' = [job EXCEPT !.at = "close fs"] /\ UNCHANGED <<card, fs_internal_queue, cargo, reply>>
  BY DEF MoveDeleted, Goes
<1>3. job' = [at |-> "close fs", from |-> job.from, to |-> job.to, src |-> job.src, size |-> job.size,
              dest |-> job.dest, ret |-> job.ret]
  BY <1>2, TurnIs
<1>4. job'.at = "close fs" /\ job'.to = job.to /\ job'.ret = job.ret
  BY <1>3
<1>5. AtEnd'
  BY <1>1, <1>2, <1>4 DEF AtEnd
<1>6. Stage'
  BY <1>4, <1>5 DEF Stage, Stages
<1>7. CardTypes(card', open_files)
  BY <1>2, TurnIs
<1> QED
  BY <1>2, <1>3, <1>6, <1>7, TurnGoes

LEMMA MoveEndsKeeps == ASSUME IndInv, Turns, MoveEnds PROVE IndInv'
<1>1. AtEnd /\ card' = card /\ Ends(job.ret)
  BY TurnIs DEF Stage, MoveEnds, Returned
<1>2. job.ret.code \in Codes
  BY <1>1, FineCodes DEF AtEnd
<1> QED
  BY <1>1, <1>2, TurnEnds

LEMMA MoveToKeeps == ASSUME IndInv, MoveTo PROVE IndInv'
<1>1. \/ MoveOpened \/ MoveSized \/ MoveRewound \/ MoveRead \/ MoveClosed
      \/ MoveOpenedFs \/ MoveDeleted \/ MoveEnds
  BY DEF MoveTo
<1>2. ipc.phase = "close" /\ ipc.acked /\ ipc' = NoIpc
  BY <1>1 DEF MoveOpened, MoveSized, MoveRewound, MoveRead, MoveClosed, MoveOpenedFs, MoveDeleted, MoveEnds, Returned
<1>3. Turns
  BY <1>2, WhoHasIt, Constants DEF Turns, MoveTo
<1> QED
  BY <1>1, <1>3, MoveOpenedKeeps, MoveSizedKeeps, MoveRewoundKeeps, MoveReadKeeps, MoveClosedKeeps,
     MoveOpenedFsKeeps, MoveDeletedKeeps, MoveEndsKeeps
-----------------------------------------------------------------------------
(* The theorems *)

LEMMA NextKeeps == ASSUME IndInv, [Next]_vars PROVE IndInv'
<1>1. CASE GameAsks
  BY <1>1, GameAsksKeeps
<1>2. CASE FsThread
  BY <1>2, HookOpensClosesKeeps, HookServesNandKeeps, HookReturnsKeeps, FsServesKeeps DEF FsThread
<1>3. CASE EmuThread
  BY <1>3, HandleFSMessageKeeps, EmuCallsKeep, MoveToKeeps DEF EmuThread
<1>4. CASE PowerCut
  BY <1>4, PowerCutKeeps
<1>5. CASE UNCHANGED vars
  BY <1>5, StutterKeeps
<1> QED
  BY <1>1, <1>2, <1>3, <1>4, <1>5 DEF Next

\* The invariant of the conversation and of each step of MoveTo is inductive: the
\* hook, the emulation's thread and /dev/fs always agree on who has the request.
THEOREM Inductive == Spec => []IndInv
<1>1. Init => IndInv
  BY InitKeeps
<1>2. IndInv /\ [Next]_vars => IndInv'
  BY NextKeeps
<1> QED
  BY <1>1, <1>2, PTL DEF Spec

LEMMA IndInvTypeOK == ASSUME IndInv PROVE TypeOK
<1>1. nand \in [Paths -> Contents \cup {Absent}] /\ card \in [Redirected -> Contents \cup {Absent}]
  BY DEF IndInv, Types, NandTypes, CardTypes, Cards
<1>2. \A fd \in NandFds : FS_Files[fd].path \in Paths \cup {DevFs, Nowhere}
  BY DEF IndInv, Types, NandTypes, ISFSFile
<1>3. ASSUME NEW i \in EmuFds
      PROVE  Len(open_files[i].buffer) < buf_size /\ open_files[i].path \in Redirected \cup {Nowhere}
  <2> DEFINE f == open_files[i]
  <2>1. f = NULL \/ Fits(card, f)
    BY DEF IndInv, Types, CardTypes
  <2> HIDE DEF f
  <2>2. CASE f = NULL
    <3> DEFINE b == << >>
    <3>1. f.buffer = b /\ f.path = Nowhere /\ Len(b) = 0
      BY <2>2, Constants
    <3> HIDE DEF b
    <3>2. Len(f.buffer) < buf_size /\ f.path \in Redirected \cup {Nowhere}
      BY <3>1, Params
    <3> QED
      BY <3>2 DEF f
  <2>3. CASE Fits(card, f)
    <3>1. Len(f.buffer) < buf_size /\ f.path \in Redirected \cup {Nowhere}
      BY <2>3 DEF Fits, Placed
    <3> QED
      BY <3>1 DEF f
  <2> QED
    BY <2>1, <2>2, <2>3
<1>4. fs \in {"ready", "waits", "serves"}
  BY WhoHasIt
<1>5. reply.code \in {"OK"} \cup {r.code : r \in Refusals}
  BY DEF IndInv, Types, Codes
<1> QED
  BY <1>1, <1>2, <1>3, <1>4, <1>5 DEF TypeOK

\* While the emulation works on a request of the game the hook waits for it
\* (FilesystemHook), with that request in the message they share, and no message is
\* ever left over for a later one.
THEOREM TalksOfOneRequest == Spec => []OneConversation
<1>1. IndInv => OneConversation
  <2> SUFFICES ASSUME IndInv PROVE OneConversation
    OBVIOUS
  <2>1. TypeOK
    BY IndInvTypeOK
  <2>2. job # NoJob \/ "FSMessage" \in {queue[i] : i \in DOMAIN queue} => fs = "waits" /\ ProxyMessage = message
    <3>1. ASSUME "FSMessage" \in {queue[i] : i \in DOMAIN queue} PROVE queue # << >>
      BY <3>1
    <3> QED
      BY <3>1, WhoHasIt DEF Asked, InMove
  <2>3. /\ fs # "waits" => fs_internal_queue = << >>
        /\ fs_internal_queue = << >> \/ \E x : fs_internal_queue = << x >>
        /\ queue = << >> \/ \E x : queue = << x >>
    BY WhoHasIt DEF Resting, Asked, InMove, Finished, Serving, Moving, Calling
  <2>4. Len(fs_internal_queue) <= 1 /\ Len(queue) <= 1
    <3>1. \A q : q = << >> \/ (\E x : q = << x >>) => Len(q) <= 1
      <4>1. ASSUME NEW q, q = << >> PROVE Len(q) <= 1
        BY <4>1
      <4>2. ASSUME NEW q, NEW x, q = << x >> PROVE Len(q) <= 1
        BY <4>2
      <4> QED
        BY <4>1, <4>2
    <3> QED
      BY <2>3, <3>1
  <2> QED
    BY <2>1, <2>2, <2>3, <2>4 DEF OneConversation
<1> QED
  BY <1>1, Inductive, PTL

\* A file that the game moves to the card (RiivDir::MoveTo) is whole at its old place
\* or at its new one at any time, whatever /dev/fs fails to do, however short a write
\* of the card comes where MayFail allows it, and whenever the power goes.
THEOREM MovedFilesAreKept == Spec => []MoveKeepsACopy
<1>1. IndInv => MoveKeepsACopy
  <2> SUFFICES ASSUME IndInv, message.op = "move", cargo # Absent
               PROVE  On(message.path) = cargo \/ On(message.path2) = cargo
    BY DEF MoveKeepsACopy
  <2>1. ~ Resting
    BY Constants DEF Resting
  <2>2. CASE Pending
    BY <2>2 DEF Pending
  <2>3. CASE Left
    BY <2>3 DEF Left, On
  <2>4. CASE InMove
    <3>1. Moving /\ Stage
      BY <2>4 DEF InMove, Moving
    <3>2. nand[job.from] = cargo \/ card[job.to] = cargo
      BY <3>1 DEF Stage, Stages, AtOpen, AtSize, AtRewind, AtRead, AtClose, AtEnd, Ready, Whole
    <3>3. job.from = message.path /\ job.to = message.path2 /\ job.from \in Paths \ Redirected /\ job.to \in Redirected
      BY <3>1 DEF Moving
    <3> QED
      BY <3>2, <3>3 DEF On
  <2>5. Pending \/ Left \/ InMove \/ cargo = Absent
    BY <2>1 DEF IndInv, Conversation, Asked, Finished, Serving
  <2> QED
    BY <2>2, <2>3, <2>4, <2>5
<1> QED
  BY <1>1, Inductive, PTL

-----------------------------------------------------------------------------
(* What the game sees *)

Fds == EmuFds \cup NandFds
Handle(path, pos) == [path |-> path, pos |-> pos]
Closed == Handle(Nowhere, 0)
HandleAt(fd) == [path |-> IF fd \in Held THEN PathOf(fd) ELSE Nowhere, pos |-> IF fd \in Held THEN PosOf(fd) ELSE 0]

SeenFiles == [path \in Paths |-> Shown(path)]
SeenHandles == [fd \in Fds |-> HandleAt(fd)]
SeenAsked == IF Answered THEN Nothing ELSE message

\* NandFiles has the same requests and answers.
LEMMA SameRequests ==
  /\ Seen!OK = OK /\ Seen!Nothing = Nothing /\ Seen!Absent = Absent /\ Seen!Refusals = Refusals /\ Seen!Closed = Closed
  /\ \A code, value, data : Seen!Reply(code, value, data) = Reply(code, value, data)
  /\ \A path, pos : Seen!Handle(path, pos) = Handle(path, pos)
  /\ \A f, pos, n : Seen!Slice(f, pos, n) = Slice(f, pos, n)
  /\ \A f, pos, d : Seen!Overwrite(f, pos, d) = Overwrite(f, pos, d)
<1>1. Seen!OK = OK /\ Seen!Nothing = Nothing /\ Seen!Absent = Absent
  BY DEF Seen!OK, Seen!Code, Seen!Reply, OK, Code, Reply, Seen!Nothing, Seen!Request, Seen!Nowhere, Seen!NoFd,
         Nothing, Request, Nowhere, NoFd, Seen!Absent, Absent
<1>2. Seen!Refusals = Refusals
  BY DEF Seen!Refusals, Seen!FileNotFound, Seen!IOError, Seen!InvalidArgument, Seen!Code, Seen!Reply,
         Refusals, FileNotFound, IOError, InvalidArgument, Code, Reply
<1>3. Seen!Closed = Closed
  BY DEF Seen!Closed, Seen!Handle, Seen!Nowhere, Closed, Handle, Nowhere
<1>4. /\ \A code, value, data : Seen!Reply(code, value, data) = Reply(code, value, data)
      /\ \A path, pos : Seen!Handle(path, pos) = Handle(path, pos)
  BY DEF Seen!Reply, Reply, Seen!Handle, Handle
<1>5. /\ \A f, pos, n : Seen!Slice(f, pos, n) = Slice(f, pos, n)
      /\ \A f, pos, d : Seen!Overwrite(f, pos, d) = Overwrite(f, pos, d)
  BY DEF Seen!Slice, Slice, Seen!Overwrite, Overwrite
<1> QED
  BY <1>1, <1>2, <1>3, <1>4, <1>5

SeenAnswer(ret) == SeenAsked' = Nothing /\ cargo' = Absent /\ reply' = ret

\* The steps of NandFiles, of what is seen.
LEMMA SeenStutters ==
  ASSUME SeenFiles' = SeenFiles, SeenHandles' = SeenHandles, SeenAsked' = SeenAsked, cargo' = cargo, reply' = reply
  PROVE  [Seen!Next]_(Seen!vars)
BY DEF Seen!vars, SeenFiles, SeenHandles, SeenAsked, Fds, HandleAt

LEMMA SeenAsks ==
  ASSUME SeenAsked = Nothing, SeenAsked' # Nothing, reply' = OK, SeenFiles' = SeenFiles, SeenHandles' = SeenHandles,
         cargo' = IF SeenAsked'.op = "move" THEN SeenFiles[SeenAsked'.path] ELSE Absent
  PROVE  Seen!Next
<1>1. SeenAsked' # Seen!Nothing /\ Seen!Ask(SeenAsked')
  BY SameRequests DEF Seen!Ask, SeenFiles, SeenHandles, SeenAsked, Fds, HandleAt
<1> QED
  BY <1>1 DEF Seen!Next, SeenAsked

LEMMA SeenRefuses ==
  ASSUME SeenAsked # Nothing, SeenAsked.op # "move", NEW ret \in Refusals, SeenAnswer(ret),
         SeenFiles' = SeenFiles, SeenHandles' = SeenHandles
  PROVE  Seen!Next
<1>1. Seen!Refuse
  BY SameRequests DEF Seen!Refuse, Seen!Answer, SeenAnswer, SeenFiles, SeenHandles, SeenAsked, Fds, HandleAt
<1> QED
  BY <1>1 DEF Seen!Next

\* An open file of the game, somewhere else.
SeenAt(fd, pos) == SeenHandles' = [SeenHandles EXCEPT ![fd] = Handle(SeenHandles[fd].path, pos)]

LEMMA SeenPos ==
  ASSUME NEW fd \in Fds, NEW pos
  PROVE  [SeenHandles EXCEPT ![fd].pos = pos] = [SeenHandles EXCEPT ![fd] = Handle(SeenHandles[fd].path, pos)]
<1>1. SeenHandles[fd] = HandleAt(fd)
  BY DEF SeenHandles
<1>2. HandleAt(fd) = [path |-> HandleAt(fd).path, pos |-> HandleAt(fd).pos]
  BY DEF HandleAt
<1>3. [HandleAt(fd) EXCEPT !.pos = pos] = Handle(HandleAt(fd).path, pos)
  BY <1>2 DEF Handle
<1> QED
  BY <1>1, <1>3

LEMMA SeenOpens ==
  ASSUME SeenAsked.op = "open", SeenFiles[SeenAsked.path] # Absent,
         NEW fd \in Fds, SeenHandles[fd] = Closed, SeenHandles' = [SeenHandles EXCEPT ![fd] = Handle(SeenAsked.path, 0)],
         SeenAnswer(Reply("OK", fd, << >>)), SeenFiles' = SeenFiles
  PROVE  Seen!Next
<1>1. Seen!Open
  BY SameRequests DEF Seen!Open, Seen!Answer, SeenAnswer, SeenFiles, SeenHandles, SeenAsked, Fds, HandleAt
<1> QED
  BY <1>1 DEF Seen!Next

LEMMA SeenReads ==
  ASSUME SeenAsked.op = "read", NEW fd \in Fds, SeenAsked.fd = fd,
         NEW got, got = Slice(SeenFiles[SeenHandles[fd].path], SeenHandles[fd].pos, SeenAsked.arg[1]),
         SeenAt(fd, SeenHandles[fd].pos + Len(got)), SeenAnswer(Reply("OK", Len(got), got)), SeenFiles' = SeenFiles
  PROVE  Seen!Next
<1>1. SeenHandles' = [SeenHandles EXCEPT ![fd].pos = SeenHandles[fd].pos + Len(got)]
  BY SeenPos DEF SeenAt
<1>2. SeenHandles' = [SeenHandles EXCEPT ![fd].pos = @ + Len(got)]
  BY <1>1
<1>3. Seen!Here = SeenHandles[fd]
  BY DEF Seen!Here, SeenHandles, SeenAsked, Fds, HandleAt
<1>4. Seen!Slice(SeenFiles[Seen!Here.path], Seen!Here.pos, SeenAsked.arg[1]) = got
  BY <1>3, SameRequests
<1>5. Seen!Answer(Seen!Reply("OK", Len(got), got))
  BY SameRequests DEF Seen!Answer, SeenAnswer, SeenAsked
<1>6. Seen!Read
  BY <1>2, <1>4, <1>5 DEF Seen!Read, SeenFiles, SeenHandles, SeenAsked, Fds, HandleAt
<1> QED
  BY <1>6 DEF Seen!Next

LEMMA SeenWrites ==
  ASSUME SeenAsked.op = "write", NEW fd \in Fds, SeenAsked.fd = fd, NEW path, path = SeenHandles[fd].path,
         NEW n \in 0..Len(SeenAsked.arg),
         SeenFiles' = [SeenFiles EXCEPT ![path] = Overwrite(SeenFiles[path], SeenHandles[fd].pos, SubSeq(SeenAsked.arg, 1, n))],
         SeenAt(fd, SeenHandles[fd].pos + n), SeenAnswer(Reply("OK", n, << >>))
  PROVE  Seen!Next
<1>1. SeenHandles' = [SeenHandles EXCEPT ![fd].pos = SeenHandles[fd].pos + n]
  BY SeenPos DEF SeenAt
<1>2. SeenHandles' = [SeenHandles EXCEPT ![fd].pos = @ + n]
  BY <1>1
<1>3. Seen!Here = SeenHandles[fd]
  BY DEF Seen!Here, SeenHandles, SeenAsked, Fds, HandleAt
<1>4. SeenFiles' = [SeenFiles EXCEPT ![Seen!Here.path] = Seen!Overwrite(@, Seen!Here.pos, SubSeq(SeenAsked.arg, 1, n))]
  BY <1>3, SameRequests
<1>5. Seen!Answer(Seen!Reply("OK", n, << >>))
  BY SameRequests DEF Seen!Answer, SeenAnswer, SeenAsked
<1>6. Seen!Write
  BY <1>2, <1>4, <1>5 DEF Seen!Write, SeenFiles, SeenHandles, SeenAsked, Fds, HandleAt
<1> QED
  BY <1>6 DEF Seen!Next

LEMMA SeenRewinds ==
  ASSUME SeenAsked.op = "rewind", NEW fd \in Fds, SeenAsked.fd = fd, SeenAt(fd, 0), SeenAnswer(OK), SeenFiles' = SeenFiles
  PROVE  Seen!Next
<1>1. SeenHandles' = [SeenHandles EXCEPT ![fd].pos = 0]
  BY SeenPos DEF SeenAt
<1>2. Seen!Rewind
  BY <1>1, SameRequests DEF Seen!Rewind, Seen!Answer, SeenAnswer, SeenFiles, SeenHandles, SeenAsked, Fds, HandleAt
<1> QED
  BY <1>2 DEF Seen!Next

LEMMA SeenStats ==
  ASSUME SeenAsked.op = "stats", NEW fd \in Fds, SeenAsked.fd = fd,
         SeenAnswer(Reply("OK", SeenHandles[fd].pos, <<Len(SeenFiles[SeenHandles[fd].path])>>)),
         SeenFiles' = SeenFiles, SeenHandles' = SeenHandles
  PROVE  Seen!Next
<1>1. Seen!Here = SeenHandles[fd]
  BY DEF Seen!Here, SeenHandles, SeenAsked, Fds, HandleAt
<1>2. Seen!Stats
  BY <1>1, SameRequests DEF Seen!Stats, Seen!Answer, SeenAnswer, SeenFiles, SeenHandles, SeenAsked, Fds, HandleAt
<1> QED
  BY <1>2 DEF Seen!Next

LEMMA SeenCloses ==
  ASSUME SeenAsked.op = "close", SeenHandles' = [SeenHandles EXCEPT ![SeenAsked.fd] = Closed],
         SeenAnswer(OK), SeenFiles' = SeenFiles
  PROVE  Seen!Next
<1>1. Seen!Close
  BY SameRequests DEF Seen!Close, Seen!Answer, SeenAnswer, SeenFiles, SeenHandles, SeenAsked, Fds, HandleAt
<1> QED
  BY <1>1 DEF Seen!Next

LEMMA SeenCreates ==
  ASSUME SeenAsked.op = "create", SeenAnswer(OK), SeenHandles' = SeenHandles,
         NEW path, path = SeenAsked.path,
         SeenFiles' = [SeenFiles EXCEPT ![path] = IF SeenFiles[path] = Absent THEN << >> ELSE SeenFiles[path]]
  PROVE  Seen!Next
<1>1. Seen!Create
  BY SameRequests DEF Seen!Create, Seen!Answer, SeenAnswer, SeenFiles, SeenHandles, SeenAsked, Fds, HandleAt
<1> QED
  BY <1>1 DEF Seen!Next

LEMMA SeenDeletes ==
  ASSUME SeenAsked.op = "delete", SeenAnswer(OK), SeenHandles' = SeenHandles,
         SeenFiles' = [SeenFiles EXCEPT ![SeenAsked.path] = Absent]
  PROVE  Seen!Next
<1>1. Seen!Delete
  BY SameRequests DEF Seen!Delete, Seen!Answer, SeenAnswer, SeenFiles, SeenHandles, SeenAsked, Fds, HandleAt
<1> QED
  BY <1>1 DEF Seen!Next

LEMMA SeenCopies ==
  ASSUME SeenAsked.op = "move", SeenFiles[SeenAsked.path] = cargo, NEW x \in Contents,
         SeenFiles' = [SeenFiles EXCEPT ![SeenAsked.path2] = x],
         SeenHandles' = SeenHandles, SeenAsked' = SeenAsked, cargo' = cargo, reply' = reply
  PROVE  Seen!Next
<1>1. Seen!Copying
  BY SameRequests DEF Seen!Copying, SeenFiles, SeenHandles, SeenAsked, Fds, HandleAt
<1> QED
  BY <1>1 DEF Seen!Next

LEMMA SeenUncopies ==
  ASSUME SeenAsked.op = "move", SeenFiles[SeenAsked.path2] = cargo,
         SeenFiles' = [SeenFiles EXCEPT ![SeenAsked.path] = Absent],
         SeenHandles' = SeenHandles, SeenAsked' = SeenAsked, cargo' = cargo, reply' = reply
  PROVE  Seen!Next
<1>1. Seen!Uncopy
  BY SameRequests DEF Seen!Uncopy, SeenFiles, SeenHandles, SeenAsked, Fds, HandleAt
<1> QED
  BY <1>1 DEF Seen!Next

LEMMA SeenMoves ==
  ASSUME SeenAsked.op = "move", cargo # Absent, SeenAnswer(OK), SeenHandles' = SeenHandles,
         \/ SeenFiles[SeenAsked.path2] = cargo /\ SeenFiles' = SeenFiles
         \/ SeenFiles' = [SeenFiles EXCEPT ![SeenAsked.path] = Absent, ![SeenAsked.path2] = cargo]
  PROVE  Seen!Next
<1>1. Seen!Moved
  BY SameRequests DEF Seen!Moved, Seen!Answer, SeenAnswer, SeenFiles, SeenHandles, SeenAsked, Fds, HandleAt
<1> QED
  BY <1>1 DEF Seen!Next

LEMMA SeenStays ==
  ASSUME SeenAsked.op = "move", SeenFiles[SeenAsked.path] = cargo, NEW ret \in Refusals, SeenAnswer(ret),
         SeenFiles' = SeenFiles, SeenHandles' = SeenHandles
  PROVE  Seen!Next
<1>1. Seen!NotMoved
  BY SameRequests DEF Seen!NotMoved, Seen!Answer, SeenAnswer, SeenFiles, SeenHandles, SeenAsked, Fds, HandleAt
<1> QED
  BY <1>1 DEF Seen!Next

LEMMA SeenLosesPower ==
  ASSUME SeenHandles' = [fd \in Fds |-> Closed], SeenAnswer(OK),
         \A path \in Paths : (\A fd \in Fds : SeenHandles[fd].path # path) => SeenFiles'[path] = SeenFiles[path]
  PROVE  Seen!Next
<1>1. Seen!PowerCut
  BY SameRequests DEF Seen!PowerCut, Seen!InFlux, SeenAnswer, SeenFiles, SeenHandles, SeenAsked, Fds, HandleAt
<1> QED
  BY <1>1 DEF Seen!Next

LEMMA SeenStarts ==
  ASSUME SeenFiles \in [Paths -> Contents \cup {Absent}], SeenHandles = [fd \in Fds |-> Closed],
         SeenAsked = Nothing, cargo = Absent, reply = OK
  PROVE  Seen!Init
BY SameRequests DEF Seen!Init, SeenFiles, SeenHandles, SeenAsked, Fds, HandleAt
-----------------------------------------------------------------------------
(* What else is always so *)

\* A file of the game is open once, and one of the NAND is not redirected.
Handles ==
  /\ \A fd \in Fds : \A e \in Fds : SeenHandles[fd].path = SeenHandles[e].path => fd = e \/ SeenHandles[fd].path = Nowhere
  /\ \A fd \in NandFds : fd \in Held => FS_Files[fd].path \in Paths \ Redirected

\* The files of /dev/fs that MoveTo uses are the emulation's.
Own(fd) == fd \in NandFds /\ FS_Files[fd].emu
OwnFile ==
  /\ job.at \in {"size", "rewind", "read", "delete"} => Own(job.src)
  /\ job.at \in {"close", "close fs"} /\ ~ Done => Own(job.src)
  /\ job.at \in {"open", "open fs"} /\ Done /\ ipc.ret.code = "OK" => Own(ipc.ret.value)
  /\ job.ret \in {OK} \cup Refusals

\* What the game has made sure of is still so while its request is not answered.
Due(r) ==
  /\ r.op \in {"open", "create", "delete", "move"} => r.path \in Paths /\ Quiet(r.path)
  /\ r.op = "open" /\ r.path \in Redirected => \E i \in EmuFds : open_files[i] = NULL
  /\ r.op = "move" => r.path2 \in Paths /\ r.path # r.path2 /\ Quiet(r.path2)
  /\ r.op \in {"close", "rewind", "read", "stats", "write"} => r.fd \in Held
  /\ r.op = "stats" => Measures(r.fd)

\* What the emulation leaves to /dev/fs is not about a file of its own.
LeftOver ==
  \/ fs = "serves"
  \/ fs_internal_queue # << >> /\ Head(fs_internal_queue).msg = "done" /\ Head(fs_internal_queue).ret = NotOurs
Rest(r) ==
  /\ r.op \in {"open", "create", "delete", "move"} => r.path \notin Redirected
  /\ r.op = "move" => r.path2 \notin Redirected
  /\ r.op \in {"close", "rewind", "read", "stats"} => r.fd \in NandFds

DueAndRest == (message # Nothing /\ ~ Answered => Due(message)) /\ (LeftOver => Rest(message))

SeenInv == Handles /\ OwnFile /\ DueAndRest

\* A descriptor is the emulation's or that of /dev/fs.
LEMMA Apart == EmuFds \cap NandFds = {} /\ EmuFds \subseteq Nat /\ NandFds \subseteq Nat
BY Params DEF EmuFds, NandFds

HeldFact ==
  /\ \A fd \in EmuFds : fd \in Held <=> open_files[fd] # NULL
  /\ \A fd \in NandFds : fd \in Held <=> FS_Files[fd] # Unused /\ ~ FS_Files[fd].emu
  /\ \A fd \in EmuFds : HandleAt(fd) = IF open_files[fd] # NULL THEN Handle(open_files[fd].path, EndOf(open_files[fd])) ELSE Closed
  /\ \A fd \in NandFds :
       HandleAt(fd) = IF FS_Files[fd] # Unused /\ ~ FS_Files[fd].emu THEN Handle(FS_Files[fd].path, FS_Files[fd].pos) ELSE Closed
  /\ Held \subseteq Fds /\ SeenHandles = [fd \in Fds |-> HandleAt(fd)]
  /\ \A fd \in Held : PathOf(fd) = SeenHandles[fd].path
  /\ \A fd \in Fds : fd \in Held \/ SeenHandles[fd] = Closed

LEMMA HeldIs == HeldFact
<1>1. /\ \A fd \in EmuFds : fd \in Held <=> open_files[fd] # NULL
      /\ \A fd \in NandFds : fd \in Held <=> FS_Files[fd] # Unused /\ ~ FS_Files[fd].emu
      /\ Held \subseteq Fds
  BY Apart DEF Held, Fds
<1>2. \A fd \in EmuFds : PathOf(fd) = open_files[fd].path /\ PosOf(fd) = EndOf(open_files[fd])
  BY DEF PathOf, PosOf, EndOf
<1>3. \A fd \in NandFds : PathOf(fd) = FS_Files[fd].path /\ PosOf(fd) = FS_Files[fd].pos
  BY Apart DEF PathOf, PosOf
<1>4. \A fd \in EmuFds : HandleAt(fd) = IF open_files[fd] # NULL THEN Handle(open_files[fd].path, EndOf(open_files[fd])) ELSE Closed
  BY <1>1, <1>2 DEF HandleAt, Handle, Closed
<1>5. \A fd \in NandFds :
       HandleAt(fd) = IF FS_Files[fd] # Unused /\ ~ FS_Files[fd].emu THEN Handle(FS_Files[fd].path, FS_Files[fd].pos) ELSE Closed
  BY <1>1, <1>3 DEF HandleAt, Handle, Closed
<1>6. SeenHandles = [fd \in Fds |-> HandleAt(fd)]
  BY DEF SeenHandles
<1>7. \A fd \in Held : PathOf(fd) = SeenHandles[fd].path
  BY <1>1, <1>6 DEF HandleAt
<1>8. \A fd \in Fds : fd \in Held \/ SeenHandles[fd] = Closed
  BY <1>6 DEF HandleAt, Handle, Closed
<1> QED
  BY <1>1, <1>4, <1>5, <1>6, <1>7, <1>8 DEF HeldFact

LEMMA HeldThen == HeldFact'
BY HeldIs, PTL

\* No file is open on a path that is quiet.
LEMMA QuietIs ==
  ASSUME NEW path \in Paths
  PROVE  Quiet(path) <=> \A fd \in Fds : SeenHandles[fd].path # path
<1>1. /\ Held \subseteq Fds /\ \A fd \in Held : PathOf(fd) = SeenHandles[fd].path
      /\ \A fd \in Fds : fd \in Held \/ SeenHandles[fd] = Closed
  BY HeldIs DEF HeldFact
<1>2. Closed.path # path
  BY Params DEF Closed, Handle
<1> QED
  BY <1>1, <1>2 DEF Quiet

\* The tables of open files stay as they are.
LEMMA HandlesSame ==
  ASSUME open_files' = open_files, FS_Files' = FS_Files
  PROVE  /\ SeenHandles' = SeenHandles /\ Held' = Held
         /\ \A path : Quiet(path)' <=> Quiet(path)
         /\ \A fd : Measures(fd)' <=> Measures(fd)
         /\ Handles => Handles'
<1>1. Held' = Held /\ (\A fd : PathOf(fd)' = PathOf(fd)) /\ \A fd : PosOf(fd)' = PosOf(fd)
  BY DEF Held, PathOf, PosOf
<1>2. SeenHandles' = SeenHandles
  BY <1>1 DEF SeenHandles, HandleAt
<1>3. \A path : Quiet(path)' <=> Quiet(path)
  BY <1>1 DEF Quiet
<1>4. \A fd : Measures(fd)' <=> Measures(fd)
  BY <1>1 DEF Measures
<1>5. Handles => Handles'
  BY <1>1, <1>2 DEF Handles
<1> QED
  BY <1>1, <1>2, <1>3, <1>4, <1>5

\* A file of the NAND is opened, used or closed.
LEMMA NandSet ==
  ASSUME open_files' = open_files, NEW fd \in NandFds, NEW h, FS_Files = [e \in NandFds |-> FS_Files[e]],
         FS_Files' = [FS_Files EXCEPT ![fd] = h],
         NEW x, x = IF h # Unused /\ ~ h.emu THEN Handle(h.path, h.pos) ELSE Closed
  PROVE  /\ SeenHandles' = [SeenHandles EXCEPT ![fd] = x]
         /\ \A e \in Fds \ {fd} : e \in Held' <=> e \in Held
         /\ fd \in Held' <=> h # Unused /\ ~ h.emu
<1>1. HeldFact /\ HeldFact'
  BY HeldIs, HeldThen
<1>2. FS_Files'[fd] = h /\ \A e \in NandFds \ {fd} : FS_Files'[e] = FS_Files[e]
  OBVIOUS
<1>3. HandleAt(fd)' = x /\ (fd \in Held' <=> h # Unused /\ ~ h.emu)
  BY <1>1, <1>2 DEF HeldFact
<1>4. \A e \in NandFds \ {fd} : HandleAt(e)' = HandleAt(e) /\ (e \in Held' <=> e \in Held)
  BY <1>1, <1>2 DEF HeldFact
<1>5. \A e \in EmuFds : HandleAt(e)' = HandleAt(e) /\ (e \in Held' <=> e \in Held)
  BY <1>1 DEF HeldFact, EndOf
<1>6. \A e \in Fds \ {fd} : HandleAt(e)' = HandleAt(e) /\ (e \in Held' <=> e \in Held)
  BY <1>4, <1>5 DEF Fds
<1>7. SeenHandles = [e \in Fds |-> HandleAt(e)] /\ SeenHandles' = [e \in Fds |-> HandleAt(e)'] /\ fd \in Fds
  BY Apart DEF SeenHandles, Fds
<1>8. SeenHandles' = [SeenHandles EXCEPT ![fd] = x]
  BY <1>3, <1>6, <1>7
<1> QED
  BY <1>3, <1>6, <1>8

\* A file of the emulation is.
LEMMA EmuSet ==
  ASSUME FS_Files' = FS_Files, NEW fd \in EmuFds, NEW h, open_files \in [EmuFds -> RiivFiles],
         open_files' = [open_files EXCEPT ![fd] = h],
         NEW x, x = IF h # NULL THEN Handle(h.path, EndOf(h)) ELSE Closed
  PROVE  /\ SeenHandles' = [SeenHandles EXCEPT ![fd] = x]
         /\ \A e \in Fds \ {fd} : e \in Held' <=> e \in Held
         /\ fd \in Held' <=> h # NULL
<1>1. HeldFact /\ HeldFact'
  BY HeldIs, HeldThen
<1>2. open_files'[fd] = h /\ \A e \in EmuFds \ {fd} : open_files'[e] = open_files[e]
  OBVIOUS
<1>3. HandleAt(fd)' = x /\ (fd \in Held' <=> h # NULL)
  BY <1>1, <1>2 DEF HeldFact, EndOf
<1>4. \A e \in EmuFds \ {fd} : HandleAt(e)' = HandleAt(e) /\ (e \in Held' <=> e \in Held)
  BY <1>1, <1>2 DEF HeldFact, EndOf
<1>5. \A e \in NandFds : HandleAt(e)' = HandleAt(e) /\ (e \in Held' <=> e \in Held)
  BY <1>1 DEF HeldFact
<1>6. \A e \in Fds \ {fd} : HandleAt(e)' = HandleAt(e) /\ (e \in Held' <=> e \in Held)
  BY <1>4, <1>5 DEF Fds
<1>7. SeenHandles = [e \in Fds |-> HandleAt(e)] /\ SeenHandles' = [e \in Fds |-> HandleAt(e)'] /\ fd \in Fds
  BY DEF SeenHandles, Fds
<1>8. SeenHandles' = [SeenHandles EXCEPT ![fd] = x]
  BY <1>3, <1>6, <1>7
<1> QED
  BY <1>3, <1>6, <1>8

\* One file is opened where none was, or stays at its path, or is closed.
LEMMA HandleSet ==
  ASSUME Handles, NEW fd \in Fds, NEW x, SeenHandles' = [SeenHandles EXCEPT ![fd] = x],
         \A e \in Fds \ {fd} : e \in Held' <=> e \in Held,
         \A e \in NandFds \ {fd} : FS_Files'[e] = FS_Files[e],
         fd \in NandFds /\ fd \in Held' => FS_Files'[fd].path \in Paths \ Redirected,
         \/ x.path = Nowhere \/ x.path = SeenHandles[fd].path
         \/ \A e \in Fds : SeenHandles[e].path # x.path
  PROVE  Handles'
<1>1. SeenHandles'[fd] = x /\ \A e \in Fds \ {fd} : SeenHandles'[e] = SeenHandles[e]
  BY DEF SeenHandles
<1>2. \A d \in Fds : \A e \in Fds : SeenHandles[d].path = SeenHandles[e].path => d = e \/ SeenHandles[d].path = Nowhere
  BY DEF Handles
<1>3. ASSUME NEW d \in Fds, NEW e \in Fds, SeenHandles'[d].path = SeenHandles'[e].path
      PROVE  d = e \/ SeenHandles'[d].path = Nowhere
  <2>1. CASE d # fd /\ e # fd
    BY <1>1, <1>2, <1>3, <2>1
  <2>2. CASE d = fd /\ e # fd
    BY <1>1, <1>2, <1>3, <2>2
  <2>3. CASE d # fd /\ e = fd
    BY <1>1, <1>2, <1>3, <2>3
  <2> QED
    BY <2>1, <2>2, <2>3
<1>4. \A e \in NandFds : e \in Held' => FS_Files'[e].path \in Paths \ Redirected
  BY DEF Handles, Fds
<1> QED
  BY <1>3, <1>4 DEF Handles

Unanswered == ~ Answered /\ ~ LeftOver
Who ==
  /\ fs = "ready" => Resting
  /\ fs = "serves" => Serving
  /\ fs = "waits" => Asked \/ InMove \/ Finished
  /\ queue # << >> => Asked
  /\ job # NoJob => InMove
  /\ (Asked \/ InMove \/ Resting) => Unanswered

LEMMA WhoIs == IndInv => Who
<1>1. Asked \/ Resting => Unanswered
  BY DEF Asked, Resting, Unanswered, Answered, LeftOver
<1>2. ASSUME InMove PROVE Unanswered
  <2>1. fs = "waits" /\ Moving
    BY <1>2 DEF InMove
  <2>2. CASE fs_internal_queue = << >>
    BY <2>1, <2>2 DEF Unanswered, Answered, LeftOver
  <2>3. CASE fs_internal_queue # << >>
    <3>1. Calling /\ ~ ipc.acked
      BY <2>1, <2>3 DEF Moving, Calling
    <3>2. Head(fs_internal_queue).msg = ipc.phase /\ ipc.phase # "done"
      BY <3>1 DEF Calling
    <3> QED
      BY <2>1, <3>2 DEF Unanswered, Answered, LeftOver
  <2> QED
    BY <2>2, <2>3
<1> QED
  BY <1>1, <1>2, WhoHasIt DEF Who

LEMMA WhoThen == IndInv' => Who'
BY WhoIs, PTL

\* The emulation's own files, while its thread stays where it is.
LEMMA OwnSame ==
  ASSUME OwnFile, job' = job, FS_Files' = FS_Files, Done' <=> Done, ipc'.ret = ipc.ret
  PROVE  OwnFile'
BY DEF OwnFile, Own

LEMMA HookSees == ASSUME IndInv, SeenInv, IndInv', NEW r, Hook(r), Due(r) PROVE SeenInv'
<1>1. UNCHANGED <<open_files, FS_Files, job, ipc>> /\ message' = r /\ fs' = "waits" /\ queue' # << >>
  BY DEF Hook
<1>2. Handles' /\ (\A path : Quiet(path)' <=> Quiet(path)) /\ (\A fd : Measures(fd)' <=> Measures(fd)) /\ Held' = Held
  BY <1>1, HandlesSame DEF SeenInv
<1>3. Due(r)'
  BY <1>1, <1>2 DEF Due
<1>4. Unanswered'
  BY <1>1, WhoThen DEF Who
<1>5. OwnFile'
  BY <1>1, OwnSame DEF SeenInv, Done
<1> QED
  BY <1>1, <1>2, <1>3, <1>4, <1>5 DEF SeenInv, DueAndRest, Unanswered

\* What the game asks for it may.
LEMMA GameAsksIs == ASSUME GameAsks PROVE \E r : Hook(r) /\ Due(r) /\ r # Nothing
<1>1. ASSUME NEW op, NEW path, NEW path2, NEW fd, NEW arg
      PROVE  LET r == Request(op, path, path2, fd, arg)
             IN r.op = op /\ r.path = path /\ r.path2 = path2 /\ r.fd = fd /\ r.arg = arg
  BY DEF Request
<1>2. ASSUME NEW path \in Paths, NEW op \in {"open", "create", "delete"}, Quiet(path), op = "open" => Opens(path),
             Hook(Request(op, path, Nowhere, NoFd, << >>))
      PROVE  \E r : Hook(r) /\ Due(r) /\ r # Nothing
  <2> DEFINE r == Request(op, path, Nowhere, NoFd, << >>)
  <2>1. r.op = op /\ r.path = path
    BY <1>1
  <2> HIDE DEF r
  <2>2. Due(r) /\ r # Nothing
    BY <1>2, <2>1, Constants DEF Due, Opens
  <2> QED
    BY <1>2, <2>2 DEF r
<1>3. ASSUME NEW path \in Paths, NEW path2 \in Paths, Moves(path, path2),
             Hook(Request("move", path, path2, NoFd, << >>))
      PROVE  \E r : Hook(r) /\ Due(r) /\ r # Nothing
  <2> DEFINE r == Request("move", path, path2, NoFd, << >>)
  <2>1. r.op = "move" /\ r.path = path /\ r.path2 = path2
    BY <1>1
  <2> HIDE DEF r
  <2>2. Due(r) /\ r # Nothing
    BY <1>3, <2>1, Constants DEF Due, Moves
  <2> QED
    BY <1>3, <2>2 DEF r
<1>4. ASSUME NEW fd \in Held, NEW op \in {"close", "rewind", "stats", "read", "write"}, NEW arg,
             op = "stats" => Measures(fd), Hook(Request(op, Nowhere, Nowhere, fd, arg))
      PROVE  \E r : Hook(r) /\ Due(r) /\ r # Nothing
  <2> DEFINE r == Request(op, Nowhere, Nowhere, fd, arg)
  <2>1. r.op = op /\ r.fd = fd
    BY <1>1
  <2> HIDE DEF r
  <2>2. Due(r) /\ r # Nothing
    BY <1>4, <2>1, Constants DEF Due
  <2> QED
    BY <1>4, <2>2 DEF r
<1> QED
  BY <1>2, <1>3, <1>4 DEF GameAsks, Opens

LEMMA PowerCutSees == ASSUME IndInv, SeenInv, IndInv', PowerCut PROVE SeenInv'
<1>1. HeldFact'
  BY HeldThen
<1>2. /\ \A fd \in EmuFds : open_files'[fd] = NULL
      /\ \A fd \in NandFds : FS_Files'[fd] = Unused
      /\ message' = Nothing /\ fs' = "ready" /\ job' = NoJob
  BY DEF PowerCut
<1>3. \A fd \in Fds : fd \notin Held'
  BY <1>1, <1>2 DEF HeldFact, Fds
<1>4. \A fd \in Fds : SeenHandles'[fd] = Closed
  BY <1>1, <1>3 DEF HeldFact
<1>5. Handles'
  BY <1>3, <1>4 DEF Handles, Closed, Handle, Fds
<1>6. OwnFile'
  BY <1>2 DEF OwnFile, NoJob
<1>7. Unanswered'
  BY <1>2, WhoThen DEF Who
<1> QED
  BY <1>2, <1>5, <1>6, <1>7 DEF SeenInv, DueAndRest, Unanswered

\* Nothing that the game has open changes, nor the request that has not been answered.
LEMMA RequestSame ==
  ASSUME SeenInv, UNCHANGED <<open_files, FS_Files, message>>, OwnFile',
         ~ Answered' => ~ Answered, LeftOver' => LeftOver \/ Rest(message)
  PROVE  SeenInv'
<1>1. Handles' /\ (\A path : Quiet(path)' <=> Quiet(path)) /\ (\A fd : Measures(fd)' <=> Measures(fd)) /\ Held' = Held
  BY HandlesSame DEF SeenInv
<1>2. Due(message) => Due(message)'
  BY <1>1 DEF Due
<1>3. Rest(message) => Rest(message)'
  BY DEF Rest
<1> QED
  BY <1>1, <1>2, <1>3 DEF SeenInv, DueAndRest

LEMMA StutterSees == ASSUME SeenInv, UNCHANGED vars PROVE SeenInv'
<1>1. OwnFile'
  BY OwnSame DEF SeenInv, vars, Done
<1>2. (Answered' <=> Answered) /\ (LeftOver' <=> LeftOver)
  BY DEF Answered, LeftOver, vars, threads
<1> QED
  BY <1>1, <1>2, RequestSame DEF vars, threads

LEMMA HookReturnsSees == ASSUME IndInv, SeenInv, IndInv', HookReturns PROVE SeenInv'
<1>1. /\ fs_internal_queue # << >> /\ Head(fs_internal_queue).msg = "done"
      /\ UNCHANGED <<open_files, FS_Files, job, ipc>>
  BY DEF HookReturns, Received
<1>2. OwnFile'
  BY <1>1, OwnSame DEF SeenInv, Done
<1>3. CASE Head(fs_internal_queue).ret = NotOurs
  <2>1. LeftOver /\ ~ Answered /\ message' = message
    BY <1>1, <1>3 DEF LeftOver, Answered, HookReturns
  <2> QED
    BY <1>1, <1>2, <2>1, RequestSame
<1>4. CASE Head(fs_internal_queue).ret # NotOurs
  <2>1. message' = Nothing /\ fs' = "ready"
    BY <1>4 DEF HookReturns
  <2>2. Unanswered'
    BY <2>1, WhoThen DEF Who
  <2>3. Handles'
    BY <1>1, HandlesSame DEF SeenInv
  <2> QED
    BY <1>2, <2>1, <2>2, <2>3 DEF SeenInv, DueAndRest, Unanswered
<1> QED
  BY <1>3, <1>4

LEMMA HookOpensClosesSees == ASSUME IndInv, SeenInv, IndInv', HookOpensCloses PROVE SeenInv'
<1>1. PICK msg \in {"open", "close"} : Received(msg)
  BY DEF HookOpensCloses
<1>2. InMove /\ Calling /\ ipc.phase = msg /\ ~ ipc.acked
  BY <1>1, CallReceived
<1>3. ipc' = [phase |-> ipc.phase, acked |-> TRUE, request |-> ipc.request, ret |-> ipc.ret]
  BY <1>2 DEF HookOpensCloses, Calling
<1>4. Done' <=> Done
  BY <1>2, <1>3 DEF Done
<1>5. UNCHANGED <<open_files, FS_Files, job, message>>
  BY DEF HookOpensCloses
<1>6. OwnFile'
  BY <1>3, <1>4, <1>5, OwnSame DEF SeenInv
<1>7. Unanswered /\ Unanswered'
  <2>1. job # NoJob
    BY <1>2, Constants DEF InMove, Moving, Stage, Stages
  <2> QED
    BY <1>2, <1>5, <2>1, WhoIs, WhoThen DEF Who
<1> QED
  BY <1>5, <1>6, <1>7, RequestSame DEF Unanswered

LEMMA EmuCallsSees == ASSUME IndInv, SeenInv, IndInv', EmuCalls PROVE SeenInv'
<1>1. PICK phase \in {"open", "ioctl", "close"} :
        /\ Ipc(phase)
        /\ phase = "open" => job # NoJob /\ ipc = NoIpc
        /\ phase = "ioctl" => ipc.phase = "open" /\ ipc.acked
        /\ phase = "close" => ipc.phase = "ioctl" /\ ipc.acked
  BY DEF EmuCalls
<1>2. InMove
  BY <1>1, Constants, WhoHasIt
<1>3. ipc'.phase = phase /\ ipc'.acked = FALSE /\ ipc'.ret = ipc.ret
  BY <1>1 DEF Ipc
<1>4. Done' <=> Done
  BY <1>1, <1>3, Constants DEF Done
<1>5. UNCHANGED <<open_files, FS_Files, job, message>>
  BY <1>1 DEF Ipc
<1>6. OwnFile'
  BY <1>3, <1>4, <1>5, OwnSame DEF SeenInv
<1>7. Unanswered /\ Unanswered'
  <2>1. job # NoJob
    BY <1>2, Constants DEF InMove, Moving, Stage, Stages
  <2> QED
    BY <1>2, <1>5, <2>1, WhoIs, WhoThen DEF Who
<1> QED
  BY <1>5, <1>6, <1>7, RequestSame DEF Unanswered
-----------------------------------------------------------------------------
(* The contents of files that the game sees *)

ShownFact ==
  /\ \A i \in EmuFds : open_files[i] # NULL => Shown(open_files[i].path) = View(card, open_files[i])
  /\ \A path \in Redirected : (\A i \in EmuFds : open_files[i].path # path) => Shown(path) = card[path]
  /\ \A path \in Paths \ Redirected : Shown(path) = nand[path]
  /\ SeenFiles = [path \in Paths |-> Shown(path)]

LEMMA ShownIs == IndInv /\ Handles => ShownFact
<1> SUFFICES ASSUME IndInv, Handles PROVE ShownFact
  OBVIOUS
<1>1. open_files \in [EmuFds -> RiivFiles] /\ \A i \in EmuFds : open_files[i] = NULL \/ Fits(card, open_files[i])
  BY DEF IndInv, Types, CardTypes
<1>2. ASSUME NEW path, path # Nowhere, \A i \in EmuFds : open_files[i].path # path
      PROVE  Shown(path) = On(path)
  <2>1. Buffered(path) = {}
    BY <1>2 DEF Buffered
  <2> QED
    BY <2>1 DEF Shown
<1>3. ASSUME NEW path \in Paths \ Redirected PROVE Shown(path) = nand[path]
  <2>1. ASSUME NEW i \in EmuFds PROVE open_files[i].path # path
    <3> DEFINE f == open_files[i]
    <3>1. f = NULL \/ Fits(card, f)
      BY <1>1
    <3> HIDE DEF f
    <3>2. f.path = Nowhere \/ f.path \in Redirected
      BY <3>1, Constants DEF Fits, Placed
    <3>3. f.path # path
      BY <1>3, <3>2, Params
    <3> QED
      BY <3>3 DEF f
  <2>2. path # Nowhere
    BY Params
  <2> QED
    BY <1>2, <1>3, <2>1, <2>2 DEF On
<1>4. ASSUME NEW path \in Redirected, \A i \in EmuFds : open_files[i].path # path PROVE Shown(path) = card[path]
  BY <1>2, <1>4, Params DEF On
<1>5. ASSUME NEW i \in EmuFds, open_files[i] # NULL
      PROVE  Shown(open_files[i].path) = View(card, open_files[i])
  <2> DEFINE f == open_files[i]
  <2>1. Placed(card, f) /\ f.path \in Redirected
    BY <1>1, <1>5, PlacedIs DEF Fits
  <2>2. ASSUME NEW j \in EmuFds, open_files[j].path = f.path PROVE j = i
    <3>1. open_files[j] # NULL
      BY <2>1, <2>2, Constants, Params
    <3>2. HandleAt(i) = Handle(f.path, EndOf(f)) /\ HandleAt(j) = Handle(open_files[j].path, EndOf(open_files[j]))
      BY <1>5, <3>1, HeldIs DEF HeldFact
    <3>3. SeenHandles[i].path = f.path /\ SeenHandles[j].path = f.path
      BY <2>2, <3>2 DEF SeenHandles, Handle, Fds
    <3>4. f.path # Nowhere /\ i \in Fds /\ j \in Fds
      BY <2>1, Params DEF Fds
    <3> QED
      BY <3>3, <3>4 DEF Handles
  <2>3. CASE f.buffer = << >>
    <3>1. View(card, f) = card[f.path]
      BY <2>1, <2>3, ViewIs
    <3>2. Buffered(f.path) = {}
      BY <2>2, <2>3 DEF Buffered
    <3>3. Shown(f.path) = card[f.path]
      BY <2>1, <3>2 DEF Shown, On
    <3> QED
      BY <3>1, <3>3
  <2>4. CASE f.buffer # << >>
    <3>1. Buffered(f.path) = {i}
      BY <2>2, <2>4 DEF Buffered
    <3>2. Least({i}) = i
      <4>1. i \in Nat
        BY Apart
      <4>2. Least({i}) \in {i}
        BY <4>1, LeastIsOne
      <4> QED
        BY <4>2
    <3>3. Shown(f.path) = Overwrite(card[f.path], f.pos, f.buffer)
      <4>2. {i} # {}
        OBVIOUS
      <4>3. Shown(f.path) = LET g == open_files[Least({i})] IN Overwrite(card[f.path], g.pos, g.buffer)
        BY <3>1, <4>2 DEF Shown
      <4> QED
        BY <3>2, <4>3
    <3> QED
      BY <3>3 DEF View
  <2> QED
    BY <2>3, <2>4
<1>6. SeenFiles = [path \in Paths |-> Shown(path)]
  BY DEF SeenFiles
<1> QED
  BY <1>3, <1>4, <1>5, <1>6 DEF ShownFact

LEMMA ShownThen == (IndInv /\ Handles)' => ShownFact'
BY ShownIs, PTL

\* One file is changed, or none.
LEMMA FilesSet ==
  ASSUME NEW path, NEW x, path \in Paths => Shown(path)' = x,
         \A p \in Paths : p # path => Shown(p)' = Shown(p)
  PROVE  SeenFiles' = [SeenFiles EXCEPT ![path] = x]
BY DEF SeenFiles

\* A file of the card is as it was while its contents and what is open are.
LEMMA ShownSame ==
  ASSUME open_files' = open_files
  PROVE  /\ \A p \in Redirected : card'[p] = card[p] => Shown(p)' = Shown(p)
         /\ UNCHANGED <<nand, card>> => SeenFiles' = SeenFiles
<1>1. \A p : Buffered(p)' = Buffered(p)
  BY DEF Buffered
<1>2. \A p \in Redirected : card'[p] = card[p] => Shown(p)' = Shown(p)
  BY <1>1 DEF Shown, On
<1>3. ASSUME UNCHANGED <<nand, card>> PROVE SeenFiles' = SeenFiles
  BY <1>1, <1>3 DEF SeenFiles, Shown, On
<1> QED
  BY <1>2, <1>3

\* So it is while only the files open on another path change.
OpenSet(i, h) == open_files \in [EmuFds -> RiivFiles] /\ open_files' = [open_files EXCEPT ![i] = h]
SameElsewhere(path) == \A p \in Redirected : p # path /\ card'[p] = card[p] => Shown(p)' = Shown(p)

LEMMA ShownElsewhere ==
  ASSUME NEW i \in EmuFds, NEW h, OpenSet(i, h), NEW path, open_files[i].path \in {path, Nowhere}, h.path \in {path, Nowhere}
  PROVE  SameElsewhere(path)
<1> USE DEF OpenSet, SameElsewhere
<1> TAKE p \in Redirected
<1> HAVE p # path /\ card'[p] = card[p]
<1>1. p # Nowhere
  BY Params
<1>2. open_files'[i] = h /\ \A j \in EmuFds \ {i} : open_files'[j] = open_files[j]
  OBVIOUS
<1>3. Buffered(p)' = Buffered(p) /\ i \notin Buffered(p) /\ Buffered(p) \subseteq EmuFds
  BY <1>1, <1>2 DEF Buffered
<1>4. CASE Buffered(p) = {}
  BY <1>3, <1>4 DEF Shown, On
<1>5. CASE Buffered(p) # {}
  <2> DEFINE j == Least(Buffered(p))
  <2>1. j \in Buffered(p)
    BY <1>3, <1>5, LeastIsOne, Apart
  <2>2. open_files'[j] = open_files[j]
    BY <1>2, <1>3, <2>1
  <2>3. Least(Buffered(p))' = Least(Buffered(p))
    BY <1>3 DEF Least
  <2>4. Shown(p) = Overwrite(card[p], open_files[j].pos, open_files[j].buffer)
    BY <1>5 DEF Shown
  <2>5. Shown(p)' = Overwrite(card'[p], open_files'[j].pos, open_files'[j].buffer)
    BY <1>3, <1>5, <2>3 DEF Shown
  <2> QED
    BY <2>2, <2>4, <2>5
<1> QED
  BY <1>4, <1>5
-----------------------------------------------------------------------------
(* What /dev/fs does for the game *)

\* It answers.
LEMMA FsAnswers ==
  ASSUME IndInv, SeenInv, IndInv', FsServes, Handles'
  PROVE  SeenInv'
<1>1. message' = Nothing /\ fs' = "ready" /\ job' = job
  BY DEF FsServes
<1>2. job = NoJob
  BY WhoHasIt DEF FsServes, Serving, Free
<1>3. OwnFile'
  BY <1>1, <1>2 DEF OwnFile, NoJob
<1>4. Unanswered'
  BY <1>1, WhoThen DEF Who
<1> QED
  BY <1>1, <1>3, <1>4 DEF SeenInv, DueAndRest, Unanswered

\* A file of the NAND that is the game's is used.
LEMMA NandUsed ==
  ASSUME NandTypes(nand, FS_Files), Handles, NEW fd \in NandFds, fd \in Held, open_files' = open_files,
         NEW pos, FS_Files' = [FS_Files EXCEPT ![fd].pos = pos]
  PROVE  Handles' /\ SeenAt(fd, pos)
<1>1. /\ FS_Files = [e \in NandFds |-> FS_Files[e]]
      /\ FS_Files[fd] = [path |-> FS_Files[fd].path, pos |-> FS_Files[fd].pos, emu |-> FS_Files[fd].emu]
  BY DEF NandTypes, ISFSFile
<1>2. FS_Files[fd] # Unused /\ ~ FS_Files[fd].emu /\ FS_Files[fd].path \in Paths \ Redirected
      /\ SeenHandles[fd] = Handle(FS_Files[fd].path, FS_Files[fd].pos)
  BY HeldIs DEF HeldFact, Handles, SeenHandles, Fds
<1> DEFINE h == [path |-> FS_Files[fd].path, pos |-> pos, emu |-> FS_Files[fd].emu]
           x == Handle(FS_Files[fd].path, pos)
<1>3. FS_Files' = [FS_Files EXCEPT ![fd] = h]
  <2>1. [FS_Files[fd] EXCEPT !.pos = pos] = h
    BY <1>1
  <2> QED
    BY <1>1, <2>1
<1>4. h.path = FS_Files[fd].path /\ h.pos = pos /\ ~ h.emu /\ h # Unused
  <2>1. h.path # Unused.path
    BY <1>2, Params DEF Unused
  <2> QED
    BY <1>2, <2>1
<1>5. x = (IF h # Unused /\ ~ h.emu THEN Handle(h.path, h.pos) ELSE Closed)
  BY <1>4
<1> HIDE DEF h, x
<1>6. /\ SeenHandles' = [SeenHandles EXCEPT ![fd] = x]
      /\ \A e \in Fds \ {fd} : e \in Held' <=> e \in Held
  BY <1>1, <1>3, <1>5, NandSet, Zenon
<1>7. FS_Files'[fd] = h /\ \A e \in NandFds \ {fd} : FS_Files'[e] = FS_Files[e]
  BY <1>1, <1>3
<1>8. x.path = SeenHandles[fd].path /\ fd \in Fds
  BY <1>2 DEF x, Handle, Fds
<1>9. Handles'
  BY <1>2, <1>4, <1>6, <1>7, <1>8, HandleSet
<1>10. SeenAt(fd, pos)
  BY <1>2, <1>6 DEF SeenAt, x, Handle
<1> QED
  BY <1>9, <1>10

\* A file of the NAND is changed.
LEMMA NandFilesSet ==
  ASSUME ShownFact, ShownFact', UNCHANGED <<card, open_files>>, NEW path \in Paths \ Redirected, NEW x,
         nand \in [Paths -> Contents \cup {Absent}], nand' = [nand EXCEPT ![path] = x]
  PROVE  SeenFiles' = [SeenFiles EXCEPT ![path] = x]
<1>1. Shown(path)' = x
  BY DEF ShownFact
<1>2. ASSUME NEW p \in Paths, p # path PROVE Shown(p)' = Shown(p)
  <2>1. CASE p \in Redirected
    BY <2>1, ShownSame
  <2>2. CASE p \notin Redirected
    BY <1>2, <2>2 DEF ShownFact
  <2> QED
    BY <2>1, <2>2
<1> QED
  BY <1>1, <1>2, FilesSet

LEMMA FilesSetTwo ==
  ASSUME NEW from, NEW to, NEW x, NEW y, from # to, Shown(from)' = x, Shown(to)' = y,
         \A p \in Paths : p # from /\ p # to => Shown(p)' = Shown(p)
  PROVE  SeenFiles' = [SeenFiles EXCEPT ![from] = x, ![to] = y]
<1>1. /\ SeenFiles = [p \in Paths |-> SeenFiles[p]] /\ SeenFiles' = [p \in Paths |-> Shown(p)']
      /\ \A p \in Paths : SeenFiles[p] = Shown(p)
  BY DEF SeenFiles
<1> DEFINE f == [SeenFiles EXCEPT ![from] = x, ![to] = y]
<1>2. f = [p \in Paths |-> f[p]]
  BY <1>1
<1>3. \A p \in Paths : f[p] = IF p = to THEN y ELSE IF p = from THEN x ELSE SeenFiles[p]
  BY <1>1
<1> HIDE DEF f
<1>4. \A p \in Paths : f[p] = Shown(p)'
  BY <1>1, <1>3
<1>5. f = SeenFiles'
  BY <1>1, <1>2, <1>4
<1> QED
  BY <1>5 DEF f

LEMMA FsServesSees == ASSUME IndInv, SeenInv, IndInv', FsServes PROVE SeenInv' /\ Seen!Next
<1> DEFINE r == message
<1>1. Serving
  BY WhoHasIt DEF FsServes
<1> DEFINE emu == FALSE
<1>2. PICK o \in NandOutcomes(r, emu) : NandDoes(o) /\ reply' = o.ret
  BY DEF FsServes
<1>3. ~ emu
  OBVIOUS
<1> HIDE DEF emu
<1>4. nand' = o.nand /\ FS_Files' = o.FS_Files /\ UNCHANGED <<card, open_files>>
  BY <1>2 DEF NandDoes, FsServes
<1>5. r.op \in Ops \ {"write"} /\ (r.op = "move" => r.path \in Paths \ Redirected /\ cargo = nand[r.path])
  BY <1>1 DEF Serving, Left
<1>6. SeenAsked = r /\ r # Nothing /\ ~ Answered /\ LeftOver
  BY <1>1, <1>5, Constants DEF Serving, Answered, SeenAsked, LeftOver, Ops
<1>7. Due(r) /\ Rest(r)
  BY <1>6 DEF SeenInv, DueAndRest
<1>8. SeenAnswer(o.ret)
  BY <1>2 DEF SeenAnswer, SeenAsked, FsServes
<1>9. NandTypes(nand, FS_Files) /\ nand \in [Paths -> Contents \cup {Absent}] /\ FS_Files = [e \in NandFds |-> FS_Files[e]]
  BY DEF IndInv, Types, NandTypes
<1>10. Handles /\ ShownFact
  BY ShownIs DEF SeenInv
<1>11. Handles' => SeenInv' /\ ShownFact'
  BY FsAnswers, ShownThen
<1>12. FS_Files' = FS_Files => Handles' /\ SeenHandles' = SeenHandles
  BY <1>4, <1>10, HandlesSame
<1>13. nand' = nand => SeenFiles' = SeenFiles
  BY <1>4, ShownSame
<1>14. \A files, table, ret : o = Nand(files, table, ret) => nand' = files /\ FS_Files' = table /\ SeenAnswer(ret)
  BY <1>4, <1>8 DEF Nand
<1>15. \A path \in Paths \ Redirected : SeenFiles[path] = nand[path]
  BY <1>10 DEF ShownFact
<1>16. \A ret \in Refusals : o = Failed(ret) => SeenInv' /\ Seen!Next
  <2> TAKE ret \in Refusals
  <2> HAVE o = Failed(ret)
  <2>1. nand' = nand /\ FS_Files' = FS_Files /\ SeenAnswer(ret)
    BY <1>14 DEF Failed
  <2>2. SeenInv' /\ SeenHandles' = SeenHandles /\ SeenFiles' = SeenFiles
    BY <1>11, <1>12, <1>13, <2>1
  <2>3. CASE r.op # "move"
    BY <1>6, <2>1, <2>2, <2>3, SeenRefuses
  <2>4. CASE r.op = "move"
    BY <1>5, <1>6, <1>15, <2>1, <2>2, <2>4, SeenStays
  <2> QED
    BY <2>3, <2>4, <2>2
<1>17. FileNotFound \in Refusals /\ IOError \in Refusals
  BY DEF Refusals
<1>18. ASSUME r.op \in {"close", "rewind", "read", "stats"}
       PROVE  /\ r.fd \in Held /\ r.fd \in NandFds /\ r.fd \in Fds /\ r.fd \notin EmuFds
              /\ SeenHandles[r.fd] = Handle(FS_Files[r.fd].path, FS_Files[r.fd].pos)
              /\ FS_Files[r.fd].path \in Paths \ Redirected
              /\ SeenHandles[r.fd].path = FS_Files[r.fd].path /\ SeenHandles[r.fd].pos = FS_Files[r.fd].pos
              /\ SeenFiles[FS_Files[r.fd].path] = nand[FS_Files[r.fd].path]
  <2>1. r.fd \in Held /\ r.fd \in NandFds
    BY <1>7, <1>18 DEF Due, Rest
  <2>2. SeenHandles[r.fd] = Handle(FS_Files[r.fd].path, FS_Files[r.fd].pos) /\ r.fd \in Fds
    BY <2>1, HeldIs DEF HeldFact, SeenHandles, Fds
  <2>3. FS_Files[r.fd].path \in Paths \ Redirected
    BY <1>10, <2>1 DEF Handles
  <2>4. SeenHandles[r.fd].path = FS_Files[r.fd].path /\ SeenHandles[r.fd].pos = FS_Files[r.fd].pos
    BY <2>2 DEF Handle
  <2>5. SeenFiles[FS_Files[r.fd].path] = nand[FS_Files[r.fd].path]
    BY <1>15, <2>3
  <2>6. r.fd \notin EmuFds
    BY <2>1, Apart
  <2> QED
    BY <2>1, <2>2, <2>3, <2>4, <2>5, <2>6
<1> HIDE DEF r
<1>19. CASE r.op = "open"
  <2>1. o \in NandOpen(r, emu) /\ r.path \in Paths \ Redirected /\ Quiet(r.path)
    BY <1>2, <1>7, <1>19 DEF NandOutcomes, Due, Rest
  <2>2. CASE o = Failed(FileNotFound) \/ o = Failed(IOError)
    BY <1>16, <1>17, <2>2
  <2>3. CASE /\ r.path # DevFs => nand[r.path] # Absent
             /\ \E fd \in NandFds :
                  /\ FS_Files[fd] = Unused
                  /\ o = Nand(nand, [FS_Files EXCEPT ![fd] = [path |-> r.path, pos |-> 0, emu |-> emu]], Reply("OK", fd, << >>))
    <3>1. PICK fd \in NandFds :
                  /\ FS_Files[fd] = Unused
                  /\ o = Nand(nand, [FS_Files EXCEPT ![fd] = [path |-> r.path, pos |-> 0, emu |-> emu]], Reply("OK", fd, << >>))
      BY <2>3
    <3> DEFINE h == [path |-> r.path, pos |-> 0, emu |-> emu]
               x == Handle(r.path, 0)
    <3>2. nand' = nand /\ FS_Files' = [FS_Files EXCEPT ![fd] = h] /\ SeenAnswer(Reply("OK", fd, << >>))
      BY <1>14, <3>1
    <3>3. h.path = r.path /\ h.pos = 0 /\ ~ h.emu /\ h # Unused
      <4>1. h.path # Unused.path
        BY <2>1, Params DEF Unused
      <4> QED
        BY <1>3, <4>1
    <3>4. x = (IF h # Unused /\ ~ h.emu THEN Handle(h.path, h.pos) ELSE Closed) /\ x.path = r.path
      BY <3>3 DEF Handle
    <3> HIDE DEF h, x
    <3>5. /\ SeenHandles' = [SeenHandles EXCEPT ![fd] = x]
          /\ \A e \in Fds \ {fd} : e \in Held' <=> e \in Held
      BY <1>4, <1>9, <3>2, <3>4, NandSet, Zenon
    <3>6. FS_Files'[fd] = h /\ \A e \in NandFds \ {fd} : FS_Files'[e] = FS_Files[e]
      BY <1>9, <3>2
    <3>7. \A e \in Fds : SeenHandles[e].path # x.path
      BY <2>1, <3>4, QuietIs
    <3>8. fd \in Fds /\ SeenHandles[fd] = Closed
      BY <3>1, HeldIs DEF HeldFact, SeenHandles, Fds
    <3>9. Handles'
      BY <1>10, <2>1, <3>3, <3>5, <3>6, <3>7, <3>8, HandleSet
    <3>10. SeenFiles' = SeenFiles /\ SeenFiles[r.path] # Absent
      BY <1>13, <1>15, <2>1, <2>3, <3>2, Params
    <3>11. Seen!Next
      BY <1>6, <1>19, <3>2, <3>5, <3>8, <3>10, SeenOpens DEF x
    <3> QED
      BY <1>11, <3>9, <3>11
  <2> QED
    BY <2>1, <2>2, <2>3, NandOpenIs
<1>20. CASE r.op = "close"
  <2> DEFINE fd == r.fd
             h == Unused
             x == Closed
  <2>1. o = Nand(nand, [FS_Files EXCEPT ![fd] = h], OK)
    BY <1>2, <1>20 DEF NandOutcomes
  <2>2. nand' = nand /\ FS_Files' = [FS_Files EXCEPT ![fd] = h] /\ SeenAnswer(OK)
    BY <1>14, <2>1
  <2>3. fd \in NandFds /\ fd \in Fds
    BY <1>18, <1>20 DEF Fds, r
  <2>4. x = (IF h # Unused /\ ~ h.emu THEN Handle(h.path, h.pos) ELSE Closed) /\ x.path = Nowhere /\ h = Unused
    BY DEF Closed, Handle
  <2> HIDE DEF fd, h, x
  <2>5. /\ SeenHandles' = [SeenHandles EXCEPT ![fd] = x]
        /\ \A e \in Fds \ {fd} : e \in Held' <=> e \in Held
        /\ fd \in Held' <=> h # Unused /\ ~ h.emu
    BY <1>4, <1>9, <2>2, <2>3, <2>4, NandSet, Zenon
  <2>6. \A e \in NandFds \ {fd} : FS_Files'[e] = FS_Files[e]
    BY <1>9, <2>2
  <2>7. Handles'
    BY <1>10, <2>3, <2>4, <2>5, <2>6, HandleSet
  <2>8. SeenFiles' = SeenFiles
    BY <1>13, <2>2
  <2>9. SeenHandles' = [SeenHandles EXCEPT ![SeenAsked.fd] = Closed]
    BY <1>6, <2>5 DEF fd, x, r
  <2>10. Seen!Next
    BY <1>6, <1>20, <2>2, <2>8, <2>9, SeenCloses DEF r
  <2> QED
    BY <1>11, <2>7, <2>10
<1>21. CASE r.op = "read"
  <2> DEFINE fd == r.fd
             here == FS_Files[fd]
             got == Slice(nand[here.path], here.pos, r.arg[1])
             pos == here.pos + Len(got)
  <2>1. fd \in Held /\ fd \in NandFds /\ fd \in Fds
        /\ SeenHandles[fd].path = here.path /\ SeenHandles[fd].pos = here.pos /\ SeenFiles[here.path] = nand[here.path]
    BY <1>18, <1>21 DEF r
  <2>2. o = Nand(nand, [FS_Files EXCEPT ![fd].pos = pos], Reply("OK", Len(got), got)) \/ o = Failed(IOError)
    BY <1>2, <1>21 DEF NandOutcomes
  <2>3. got = Slice(SeenFiles[SeenHandles[fd].path], SeenHandles[fd].pos, SeenAsked.arg[1])
    BY <1>6, <2>1 DEF r
  <2>4. pos = SeenHandles[fd].pos + Len(got) /\ SeenAsked.op = "read" /\ SeenAsked.fd = fd
    BY <1>6, <1>21, <2>1 DEF r
  <2> HIDE DEF fd, got, pos
  <2>5. CASE o = Failed(IOError)
    BY <1>16, <1>17, <2>5
  <2>6. CASE o = Nand(nand, [FS_Files EXCEPT ![fd].pos = pos], Reply("OK", Len(got), got))
    <3>1. nand' = nand /\ FS_Files' = [FS_Files EXCEPT ![fd].pos = pos] /\ SeenAnswer(Reply("OK", Len(got), got))
      BY <1>14, <2>6
    <3>2. Handles' /\ SeenAt(fd, pos)
      BY <1>4, <1>9, <1>10, <2>1, <3>1, NandUsed
    <3>3. SeenFiles' = SeenFiles
      BY <1>13, <3>1
    <3>4. SeenAt(fd, SeenHandles[fd].pos + Len(got))
      BY <2>4, <3>2
    <3>5. Seen!Next
      BY <2>1, <2>3, <2>4, <3>1, <3>3, <3>4, SeenReads
    <3> QED
      BY <1>11, <3>2, <3>5
  <2> QED
    BY <2>2, <2>5, <2>6
<1>22. CASE r.op = "rewind"
  <2> DEFINE fd == r.fd
  <2>1. fd \in Held /\ fd \in NandFds /\ fd \in Fds
    BY <1>18, <1>22 DEF r
  <2>2. o = Nand(nand, [FS_Files EXCEPT ![fd].pos = 0], OK)
    BY <1>2, <1>22 DEF NandOutcomes
  <2>3. SeenAsked.op = "rewind" /\ SeenAsked.fd = fd
    BY <1>6, <1>22 DEF r
  <2> HIDE DEF fd
  <2>4. nand' = nand /\ FS_Files' = [FS_Files EXCEPT ![fd].pos = 0] /\ SeenAnswer(OK)
    BY <1>14, <2>2
  <2>5. Handles' /\ SeenAt(fd, 0)
    BY <1>4, <1>9, <1>10, <2>1, <2>4, NandUsed
  <2>6. Seen!Next
    BY <1>13, <2>1, <2>3, <2>4, <2>5, SeenRewinds
  <2> QED
    BY <1>11, <2>5, <2>6
<1>23. CASE r.op = "stats"
  <2> DEFINE fd == r.fd
             here == FS_Files[fd]
  <2>1. fd \in Fds
        /\ SeenHandles[fd].path = here.path /\ SeenHandles[fd].pos = here.pos /\ SeenFiles[here.path] = nand[here.path]
    BY <1>18, <1>23 DEF r
  <2>2. o = Nand(nand, FS_Files, Reply("OK", here.pos, <<Len(nand[here.path])>>))
    BY <1>2, <1>23 DEF NandOutcomes
  <2>3. SeenAsked.op = "stats" /\ SeenAsked.fd = fd
    BY <1>6, <1>23 DEF r
  <2>4. nand' = nand /\ FS_Files' = FS_Files /\ SeenAnswer(Reply("OK", here.pos, <<Len(nand[here.path])>>))
    BY <1>14, <2>2
  <2> HIDE DEF fd
  <2>5. SeenAnswer(Reply("OK", SeenHandles[fd].pos, <<Len(SeenFiles[SeenHandles[fd].path])>>))
    BY <2>1, <2>4
  <2>6. Seen!Next
    BY <1>12, <1>13, <2>1, <2>3, <2>4, <2>5, SeenStats
  <2> QED
    BY <1>11, <1>12, <2>4, <2>6
<1>24. CASE r.op = "create"
  <2> DEFINE path == r.path
             x == IF nand[path] = Absent THEN << >> ELSE nand[path]
  <2>1. o = Nand([nand EXCEPT ![path] = x], FS_Files, OK)
    BY <1>2, <1>24 DEF NandOutcomes
  <2>2. path \in Paths \ Redirected
    BY <1>7, <1>24 DEF Due, Rest
  <2>3. x = (IF SeenFiles[path] = Absent THEN << >> ELSE SeenFiles[path]) /\ SeenAsked.op = "create" /\ SeenAsked.path = path
    BY <1>6, <1>15, <1>24, <2>2 DEF r
  <2> HIDE DEF path, x
  <2>4. nand' = [nand EXCEPT ![path] = x] /\ FS_Files' = FS_Files /\ SeenAnswer(OK)
    BY <1>14, <2>1
  <2>5. SeenInv' /\ ShownFact' /\ SeenHandles' = SeenHandles
    BY <1>11, <1>12, <2>4
  <2>6. SeenFiles' = [SeenFiles EXCEPT ![path] = x]
    BY <1>4, <1>9, <1>10, <2>2, <2>4, <2>5, NandFilesSet
  <2>7. Seen!Next
    BY <2>3, <2>4, <2>5, <2>6, SeenCreates
  <2> QED
    BY <2>5, <2>7
<1>25. CASE r.op = "delete"
  <2> DEFINE path == r.path
  <2>1. o = Nand([nand EXCEPT ![path] = Absent], FS_Files, OK) \/ o = Failed(IOError)
    BY <1>2, <1>25 DEF NandOutcomes
  <2>2. path \in Paths \ Redirected
    BY <1>7, <1>25 DEF Due, Rest
  <2>3. SeenAsked.op = "delete" /\ SeenAsked.path = path
    BY <1>6, <1>25 DEF r
  <2> HIDE DEF path
  <2>4. CASE o = Failed(IOError)
    BY <1>16, <1>17, <2>4
  <2>5. CASE o = Nand([nand EXCEPT ![path] = Absent], FS_Files, OK)
    <3>1. nand' = [nand EXCEPT ![path] = Absent] /\ FS_Files' = FS_Files /\ SeenAnswer(OK)
      BY <1>14, <2>5
    <3>2. SeenInv' /\ ShownFact' /\ SeenHandles' = SeenHandles
      BY <1>11, <1>12, <3>1
    <3>3. SeenFiles' = [SeenFiles EXCEPT ![path] = Absent]
      BY <1>4, <1>9, <1>10, <2>2, <3>1, <3>2, NandFilesSet
    <3>4. Seen!Next
      BY <2>3, <3>1, <3>2, <3>3, SeenDeletes
    <3> QED
      BY <3>2, <3>4
  <2> QED
    BY <2>1, <2>4, <2>5
<1>26. CASE r.op = "move"
  <2>0. PICK from, to : from = r.path /\ to = r.path2
    OBVIOUS
  <2>1. \/ nand[from] = Absent /\ o = Failed(FileNotFound)
        \/ nand[from] # Absent /\ o = Nand([nand EXCEPT ![to] = nand[from], ![from] = Absent], FS_Files, OK)
    BY <1>2, <1>26, <2>0 DEF NandOutcomes
  <2>2. from \in Paths \ Redirected /\ to \in Paths \ Redirected /\ from # to /\ cargo = nand[from]
    BY <1>5, <1>7, <1>26, <2>0 DEF Due, Rest
  <2>3. SeenAsked.op = "move" /\ SeenAsked.path = from /\ SeenAsked.path2 = to
    BY <1>6, <1>26, <2>0 DEF r
  <2>4. CASE o = Failed(FileNotFound)
    BY <1>16, <1>17, <2>4
  <2>5. CASE nand[from] # Absent /\ o = Nand([nand EXCEPT ![to] = nand[from], ![from] = Absent], FS_Files, OK)
    <3>1. nand' = [nand EXCEPT ![to] = cargo, ![from] = Absent] /\ FS_Files' = FS_Files /\ SeenAnswer(OK)
      BY <1>14, <2>2, <2>5
    <3>2. SeenInv' /\ ShownFact' /\ SeenHandles' = SeenHandles
      BY <1>11, <1>12, <3>1
    <3>3. SeenFiles' = [SeenFiles EXCEPT ![from] = Absent, ![to] = cargo]
      <4>0. nand'[from] = Absent /\ nand'[to] = cargo /\ \A p \in Paths : p # from /\ p # to => nand'[p] = nand[p]
        BY <1>9, <2>2, <3>1
      <4>1. Shown(from)' = Absent /\ Shown(to)' = cargo
        BY <2>2, <3>2, <4>0 DEF ShownFact
      <4>2. ASSUME NEW p \in Paths, p # from, p # to PROVE Shown(p)' = Shown(p)
        <5>1. CASE p \in Redirected
          BY <1>4, <5>1, ShownSame
        <5>2. CASE p \notin Redirected
          BY <1>10, <3>2, <4>0, <4>2, <5>2 DEF ShownFact
        <5> QED
          BY <5>1, <5>2
      <4> QED
        BY <2>2, <4>1, <4>2, FilesSetTwo
    <3>4. Seen!Next
      BY <2>2, <2>3, <2>5, <3>1, <3>2, <3>3, SeenMoves
    <3> QED
      BY <3>2, <3>4
  <2> QED
    BY <2>1, <2>4, <2>5
<1> QED
  BY <1>5, <1>19, <1>20, <1>21, <1>22, <1>23, <1>24, <1>25, <1>26 DEF Ops
-----------------------------------------------------------------------------
(* What the hook does for MoveTo *)

\* A file of the NAND that is not the game's is set.
LEMMA OwnSet ==
  ASSUME NandTypes(nand, FS_Files), Handles, NEW fd \in NandFds, FS_Files[fd] = Unused \/ FS_Files[fd].emu,
         NEW h, h = Unused \/ h.emu, FS_Files' = [FS_Files EXCEPT ![fd] = h], open_files' = open_files
  PROVE  /\ Handles' /\ SeenHandles' = SeenHandles /\ \A e \in Fds : e \in Held' <=> e \in Held
         /\ \A path \in Paths : Quiet(path)' <=> Quiet(path)
         /\ \A e : Measures(e)' <=> Measures(e)
<1> DEFINE x == Closed
<1>1. FS_Files = [e \in NandFds |-> FS_Files[e]]
  BY DEF NandTypes
<1>2. x = (IF h # Unused /\ ~ h.emu THEN Handle(h.path, h.pos) ELSE Closed)
  OBVIOUS
<1>3. fd \notin Held /\ SeenHandles[fd] = x /\ fd \in Fds
  BY HeldIs DEF HeldFact, SeenHandles, Fds
<1>4. x.path = Nowhere
  BY DEF Closed, Handle
<1> HIDE DEF x
<1>5. /\ SeenHandles' = [SeenHandles EXCEPT ![fd] = x]
      /\ \A e \in Fds \ {fd} : e \in Held' <=> e \in Held
      /\ fd \in Held' <=> h # Unused /\ ~ h.emu
  BY <1>1, <1>2, NandSet, Zenon
<1>6. SeenHandles' = SeenHandles
  BY <1>3, <1>5 DEF SeenHandles
<1>7. fd \notin Held'
  BY <1>5
<1>8. \A e \in Fds : e \in Held' <=> e \in Held
  BY <1>3, <1>5, <1>7
<1>9. \A e \in NandFds \ {fd} : FS_Files'[e] = FS_Files[e]
  BY <1>1
<1>10. Handles'
  BY <1>3, <1>4, <1>5, <1>7, <1>9, HandleSet
<1>11. \A e : Measures(e)' <=> Measures(e)
  BY DEF Measures, PathOf
<1>12. ASSUME NEW path \in Paths PROVE Quiet(path)' <=> Quiet(path)
  <2>1. HeldFact /\ HeldFact'
    BY HeldIs, HeldThen
  <2>2. \A e \in Held : e \in Fds /\ PathOf(e) = SeenHandles[e].path
    BY <2>1 DEF HeldFact
  <2>3. \A e \in Held' : e \in Fds /\ PathOf(e)' = SeenHandles'[e].path
    BY <2>1 DEF HeldFact
  <2> QED
    BY <1>6, <1>8, <2>2, <2>3 DEF Quiet
<1> QED
  BY <1>6, <1>8, <1>10, <1>11, <1>12

OwnSetTo(fd, h) ==
  /\ FS_Files[fd] = Unused \/ FS_Files[fd].emu
  /\ h = Unused \/ h.emu
  /\ FS_Files' = [FS_Files EXCEPT ![fd] = h]
OwnSets == FS_Files' = FS_Files \/ \E fd \in NandFds : \E h : OwnSetTo(fd, h)

\* What MoveTo has asked is done.
LEMMA OwnDone ==
  ASSUME IndInv, SeenInv, IndInv', InMove, UNCHANGED <<open_files, job, message>>, OwnFile',
         OwnSets
  PROVE  SeenInv' /\ SeenHandles' = SeenHandles /\ SeenAsked' = SeenAsked
<1>1. Unanswered /\ Unanswered'
  <2>1. job # NoJob
    BY Constants DEF InMove, Moving, Stage, Stages
  <2> QED
    BY <2>1, WhoIs, WhoThen DEF Who
<1>2. /\ Handles' /\ SeenHandles' = SeenHandles /\ \A e \in Fds : e \in Held' <=> e \in Held
      /\ \A path \in Paths : Quiet(path)' <=> Quiet(path)
      /\ \A e : Measures(e)' <=> Measures(e)
  <2>1. CASE FS_Files' = FS_Files
    BY <2>1, HandlesSame DEF SeenInv
  <2>2. CASE \E fd \in NandFds : \E h : OwnSetTo(fd, h)
    <3>1. PICK fd \in NandFds : \E h : OwnSetTo(fd, h)
      BY <2>2
    <3>2. PICK h : OwnSetTo(fd, h)
      BY <3>1
    <3>3. NandTypes(nand, FS_Files) /\ Handles
      BY DEF IndInv, Types, SeenInv
    <3> QED
      BY <3>2, <3>3, OwnSet DEF OwnSetTo
  <2> QED
    BY <2>1, <2>2 DEF OwnSets
<1>3. Held \subseteq Fds /\ message.op = "move" /\ message # Nothing
  BY HeldIs, Constants DEF HeldFact, InMove, Moving
<1>4. Due(message)'
  <2>1. Due(message)
    BY <1>1, <1>3 DEF SeenInv, DueAndRest, Unanswered
  <2> QED
    BY <1>2, <1>3, <2>1 DEF Due
<1>5. SeenAsked' = SeenAsked
  BY <1>1 DEF SeenAsked, Unanswered
<1> QED
  BY <1>1, <1>2, <1>4, <1>5 DEF SeenInv, DueAndRest, Unanswered

LEMMA HookServesNandSees == ASSUME IndInv, SeenInv, IndInv', HookServesNand PROVE SeenInv' /\ [Seen!Next]_(Seen!vars)
<1>1. InMove /\ Calling /\ ipc.phase = "ioctl" /\ ~ ipc.acked
  <2>1. Received("ioctl")
    BY DEF HookServesNand
  <2> DEFINE msg == "ioctl"
  <2>2. msg \in {"open", "ioctl", "close"} /\ Received(msg)
    BY <2>1
  <2> HIDE DEF msg
  <2>3. InMove /\ Calling /\ ipc.phase = msg /\ ~ ipc.acked
    BY <2>2, CallReceived
  <2> QED
    BY <2>3 DEF msg
<1> DEFINE emu == TRUE
<1>2. PICK o \in NandOutcomes(Wanted, emu) : NandDoes(o) /\ ipc' = [ipc EXCEPT !.acked = TRUE, !.ret = o.ret]
  <2>1. ipc.request = Wanted
    BY <1>1 DEF Calling
  <2> QED
    BY <2>1 DEF HookServesNand
<1>3. emu
  OBVIOUS
<1> HIDE DEF emu
<1>4. UNCHANGED <<card, open_files, fs, message, ProxyMessage, queue, job, cargo, reply>>
  BY DEF HookServesNand
<1>5. ~ Done /\ Done' /\ ipc'.ret = o.ret
  <2>1. ipc' = [phase |-> ipc.phase, acked |-> TRUE, request |-> ipc.request, ret |-> o.ret]
    BY <1>1, <1>2 DEF Calling
  <2> QED
    BY <1>1, <2>1 DEF Done
<1>6. Moving /\ Stage /\ job.at \in Stages /\ job.from \in Paths \ Redirected /\ job.to \in Redirected
      /\ job.from = message.path /\ job.to = message.path2 /\ message.op = "move"
  BY <1>1 DEF InMove, Moving, Stage
<1>7. NandTypes(nand, FS_Files) /\ nand \in [Paths -> Contents \cup {Absent}] /\ FS_Files = [e \in NandFds |-> FS_Files[e]]
  BY DEF IndInv, Types, NandTypes
<1>8. OwnFile /\ Handles
  BY DEF SeenInv
<1>9. \A files, table, ret : o = Nand(files, table, ret) => nand' = files /\ FS_Files' = table /\ ipc'.ret = ret
  BY <1>2, <1>5 DEF Nand, NandDoes
<1>10. \A ret : o = Failed(ret) => nand' = nand /\ FS_Files' = FS_Files /\ ipc'.ret = ret
  BY <1>9 DEF Failed
<1>s. (FS_Files' = FS_Files => OwnSets) /\ \A fd \in NandFds : \A h : OwnSetTo(fd, h) => OwnSets
  BY DEF OwnSets
<1>11. OwnSets /\ OwnFile' => SeenInv' /\ SeenHandles' = SeenHandles /\ SeenAsked' = SeenAsked
  BY <1>1, <1>4, OwnDone
<1>12. nand' = nand /\ OwnSets /\ OwnFile' => SeenInv' /\ [Seen!Next]_(Seen!vars)
  <2>1. nand' = nand => SeenFiles' = SeenFiles
    BY <1>4, ShownSame
  <2> QED
    BY <1>4, <1>11, <2>1, SeenStutters
<1>13. job.ret \in {OK} \cup Refusals
  BY <1>8 DEF OwnFile
<1>14. CASE job.at \in {"open", "open fs"}
  <2>1. o \in NandOpen(Wanted, emu)
    BY <1>2, <1>14, WantedIs DEF NandOutcomes
  <2>2. CASE o = Failed(FileNotFound) \/ o = Failed(IOError)
    <3>1. nand' = nand /\ FS_Files' = FS_Files /\ ipc'.ret.code # "OK"
      BY <1>10, <2>2, Ret
    <3>2. OwnFile'
      BY <1>4, <1>13, <1>14, <3>1 DEF OwnFile
    <3> QED
      BY <1>12, <1>s, <3>1, <3>2
  <2>3. CASE \E fd \in NandFds :
               /\ FS_Files[fd] = Unused
               /\ o = Nand(nand, [FS_Files EXCEPT ![fd] = [path |-> Wanted.path, pos |-> 0, emu |-> emu]], Reply("OK", fd, << >>))
    <3>1. PICK fd \in NandFds :
               /\ FS_Files[fd] = Unused
               /\ o = Nand(nand, [FS_Files EXCEPT ![fd] = [path |-> Wanted.path, pos |-> 0, emu |-> emu]], Reply("OK", fd, << >>))
      BY <2>3
    <3> DEFINE h == [path |-> Wanted.path, pos |-> 0, emu |-> emu]
    <3>2. nand' = nand /\ FS_Files' = [FS_Files EXCEPT ![fd] = h] /\ ipc'.ret.value = fd
      BY <1>9, <3>1, Ret
    <3>3. h.emu
      BY <1>3
    <3> HIDE DEF h
    <3>4. FS_Files'[fd] = h
      BY <1>7, <3>2
    <3>5. OwnFile'
      BY <1>4, <1>13, <1>14, <3>2, <3>3, <3>4 DEF OwnFile, Own
    <3>6. OwnSets
      BY <1>s, <3>1, <3>2, <3>3 DEF OwnSetTo
    <3> QED
      BY <1>12, <3>2, <3>5, <3>6
  <2> QED
    BY <2>1, <2>2, <2>3, NandOpenIs
<1>15. ASSUME NEW fd, fd = job.src, job.at \in {"size", "rewind", "read"}, NEW pos,
              nand' = nand, FS_Files' = [FS_Files EXCEPT ![fd].pos = pos]
       PROVE  OwnSets /\ OwnFile'
  <2>1. fd \in NandFds /\ FS_Files[fd].emu
    BY <1>8, <1>15 DEF OwnFile, Own
  <2>2. FS_Files[fd] = [path |-> FS_Files[fd].path, pos |-> FS_Files[fd].pos, emu |-> FS_Files[fd].emu]
    BY <1>7, <2>1 DEF NandTypes, ISFSFile
  <2> DEFINE h == [path |-> FS_Files[fd].path, pos |-> pos, emu |-> FS_Files[fd].emu]
  <2>3. FS_Files' = [FS_Files EXCEPT ![fd] = h]
    <3>1. [FS_Files[fd] EXCEPT !.pos = pos] = h
      BY <2>2
    <3> QED
      BY <1>7, <1>15, <2>1, <3>1
  <2>4. h.emu
    BY <2>1
  <2> HIDE DEF h
  <2>5. FS_Files'[fd] = h
    BY <1>7, <2>1, <2>3
  <2>6. OwnFile'
    BY <1>4, <1>13, <1>15, <2>1, <2>4, <2>5 DEF OwnFile, Own
  <2> QED
    BY <1>s, <2>1, <2>3, <2>4, <2>6 DEF OwnSetTo
<1>16. CASE job.at \in {"size", "rewind", "read"}
  <2>1. PICK fd : fd = job.src
    OBVIOUS
  <2>2. \/ \E pos, ret : o = Nand(nand, [FS_Files EXCEPT ![fd].pos = pos], ret)
        \/ o = Failed(IOError)
    <3>1. CASE job.at = "size"
      BY <1>2, <2>1, <3>1, WantedIs DEF NandOutcomes
    <3>2. CASE job.at = "rewind"
      BY <1>2, <2>1, <3>2, WantedIs DEF NandOutcomes
    <3>3. CASE job.at = "read"
      <4> DEFINE got == Slice(nand[FS_Files[Wanted.fd].path], FS_Files[Wanted.fd].pos, Wanted.arg[1])
                 pos == FS_Files[Wanted.fd].pos + Len(got)
      <4>1. Wanted.op = "read" /\ Wanted.fd = fd
        BY <2>1, <3>3, WantedIs
      <4>2. o = Nand(nand, [FS_Files EXCEPT ![fd].pos = pos], Reply("OK", Len(got), got)) \/ o = Failed(IOError)
        BY <1>2, <4>1 DEF NandOutcomes
      <4> HIDE DEF got, pos
      <4> QED
        BY <4>2
    <3> QED
      BY <1>16, <3>1, <3>2, <3>3
  <2>3. CASE \E pos, ret : o = Nand(nand, [FS_Files EXCEPT ![fd].pos = pos], ret)
    <3>1. PICK pos, ret : o = Nand(nand, [FS_Files EXCEPT ![fd].pos = pos], ret)
      BY <2>3
    <3>2. nand' = nand /\ FS_Files' = [FS_Files EXCEPT ![fd].pos = pos]
      BY <1>9, <3>1
    <3>3. OwnSets /\ OwnFile'
      BY <1>15, <1>16, <2>1, <3>2
    <3> QED
      BY <1>12, <3>2, <3>3
  <2>4. CASE o = Failed(IOError)
    <3>1. nand' = nand /\ FS_Files' = FS_Files
      BY <1>10, <2>4
    <3>2. OwnFile'
      BY <1>4, <1>8, <1>16, <3>1 DEF OwnFile, Own
    <3> QED
      BY <1>12, <1>s, <3>1, <3>2
  <2> QED
    BY <2>2, <2>3, <2>4
<1>17. CASE job.at \in {"close", "close fs"}
  <2>1. PICK fd : fd = job.src
    OBVIOUS
  <2>2. o = Nand(nand, [FS_Files EXCEPT ![fd] = Unused], OK)
    <3>1. Wanted.op = "close" /\ Wanted.fd = fd
      BY <1>17, <2>1 DEF Wanted, Request
    <3> QED
      BY <1>2, <3>1 DEF NandOutcomes
  <2>3. nand' = nand /\ FS_Files' = [FS_Files EXCEPT ![fd] = Unused]
    BY <1>9, <2>2
  <2>4. fd \in NandFds /\ FS_Files[fd].emu
    BY <1>5, <1>8, <1>17, <2>1 DEF OwnFile, Own
  <2>5. OwnFile'
    BY <1>4, <1>5, <1>13, <1>17 DEF OwnFile
  <2>6. OwnSets
    BY <1>s, <2>3, <2>4 DEF OwnSetTo
  <2> QED
    BY <1>12, <2>3, <2>5, <2>6
<1>18. CASE job.at = "delete"
  <2>1. PICK from, to : from = job.from /\ to = job.to
    OBVIOUS
  <2>2. o = Nand([nand EXCEPT ![from] = Absent], FS_Files, OK) \/ o = Failed(IOError)
    BY <1>2, <1>18, <2>1, WantedIs DEF NandOutcomes
  <2>3. FS_Files' = FS_Files
    BY <1>9, <1>10, <2>2
  <2>4. OwnFile'
    BY <1>4, <1>8, <1>18, <2>3 DEF OwnFile, Own
  <2>5. SeenInv' /\ SeenHandles' = SeenHandles /\ SeenAsked' = SeenAsked
    BY <1>11, <1>s, <2>3, <2>4
  <2>6. CASE o = Failed(IOError)
    BY <1>10, <1>12, <1>s, <2>3, <2>4, <2>6
  <2>7. CASE o = Nand([nand EXCEPT ![from] = Absent], FS_Files, OK)
    <3>1. nand' = [nand EXCEPT ![from] = Absent]
      BY <1>9, <2>7
    <3>2. ShownFact /\ ShownFact'
      BY <1>8, <2>5, ShownIs, ShownThen DEF SeenInv
    <3>3. SeenFiles' = [SeenFiles EXCEPT ![from] = Absent]
      BY <1>4, <1>6, <1>7, <2>1, <3>1, <3>2, NandFilesSet
    <3>4. SeenAsked = message /\ Due(message)
      <4>1. job # NoJob /\ message # Nothing
        BY <1>6, <1>18, Constants
      <4>2. Unanswered
        BY <1>1, WhoIs DEF Who
      <4> QED
        BY <4>1, <4>2 DEF Unanswered, SeenAsked, SeenInv, DueAndRest
    <3>5. Shown(to) = card[to] /\ to \in Paths
      <4>1. to \in Paths /\ Quiet(to)
        BY <1>6, <2>1, <3>4 DEF Due
      <4>2. \A i \in EmuFds : open_files[i].path # to
        BY <4>1, QuietMeans
      <4> QED
        BY <1>6, <2>1, <3>2, <4>1, <4>2 DEF ShownFact
    <3>6. card[to] = cargo
      BY <1>6, <1>18, <2>1 DEF Stage, AtEnd
    <3>7. SeenFiles[to] = cargo
      BY <3>5, <3>6 DEF SeenFiles
    <3>8. Seen!Next
      BY <1>4, <1>6, <2>1, <2>5, <3>3, <3>4, <3>7, SeenUncopies
    <3> QED
      BY <2>5, <3>8
  <2> QED
    BY <2>2, <2>6, <2>7
<1> QED
  BY <1>6, <1>14, <1>16, <1>17, <1>18 DEF Stages
-----------------------------------------------------------------------------
(* What the emulation does for the game *)

\* It answers the game.
LEMMA EmuAnswers ==
  ASSUME IndInv, SeenInv, IndInv', Taken, job' = job, NEW ret, Answer(ret), ret # NotOurs, Handles'
  PROVE  SeenInv' /\ SeenAnswer(ret)
<1>1. Asked /\ fs' = fs /\ message' = message /\ job' = NoJob
  BY DEF Taken, Asked, Free
<1>2. fs_internal_queue' = <<[msg |-> "done", ret |-> ret]>> /\ fs' = "waits"
  BY <1>1 DEF Answer, Post, Asked
<1>3. Answered' /\ ~ LeftOver'
  BY <1>2 DEF Answered, LeftOver
<1>4. OwnFile'
  BY <1>1 DEF OwnFile, NoJob
<1>5. SeenAnswer(ret)
  BY <1>3 DEF SeenAnswer, SeenAsked, Answer
<1> QED
  BY <1>3, <1>4, <1>5 DEF SeenInv, DueAndRest

\* The request that it has taken.
LEMMA TakenIs ==
  ASSUME IndInv, SeenInv, Taken
  PROVE  /\ SeenAsked = message /\ message # Nothing /\ Due(message) /\ Pending /\ Handles /\ Unanswered /\ ShownFact
         /\ UNCHANGED <<nand, FS_Files, message>>
<1>1. Asked /\ Pending
  BY DEF Taken, Asked
<1>2. Unanswered
  BY <1>1, WhoIs DEF Who
<1>3. message # Nothing
  BY <1>1, Constants DEF Pending, Ops
<1>4. Handles /\ ShownFact
  BY ShownIs DEF SeenInv
<1> QED
  BY <1>1, <1>2, <1>3, <1>4 DEF Unanswered, SeenAsked, SeenInv, DueAndRest, Taken

\* It leaves a request to /dev/fs.
LEMMA EmuLeaves ==
  ASSUME IndInv, SeenInv, IndInv', Taken, UNCHANGED <<card, open_files, job>>, Answer(NotOurs), Rest(message)
  PROVE  SeenInv' /\ [Seen!Next]_(Seen!vars)
<1>1. Asked /\ UNCHANGED <<nand, FS_Files, message, cargo, reply>> /\ job' = NoJob
  BY DEF Taken, Asked, Free, Answer
<1>2. fs_internal_queue' = <<[msg |-> "done", ret |-> NotOurs]>>
  BY <1>1 DEF Answer, Post, Asked
<1>3. ~ Answered'
  BY <1>2 DEF Answered
<1>4. OwnFile'
  BY <1>1 DEF OwnFile, NoJob
<1>5. Unanswered /\ SeenAsked = message
  BY TakenIs
<1>6. SeenInv'
  BY <1>1, <1>3, <1>4, <1>5, RequestSame DEF Unanswered
<1>7. SeenAsked' = SeenAsked
  BY <1>1, <1>3, <1>5 DEF SeenAsked
<1>8. SeenFiles' = SeenFiles /\ SeenHandles' = SeenHandles
  BY <1>1, ShownSame, HandlesSame
<1> QED
  BY <1>1, <1>6, <1>7, <1>8, SeenStutters

\* Who has a path of the card open.
OpenAt(i, path) ==
  \/ open_files[i] # NULL /\ open_files[i].path = path
  \/ open_files[i] = NULL /\ Quiet(path)

\* A file of the card is opened, used or closed, and may change with it.
EmuSets(i, path, h) ==
  /\ OpenAt(i, path) /\ (h = NULL \/ h.path = path) /\ open_files' = [open_files EXCEPT ![i] = h]
  /\ card' = [card EXCEPT ![path] = card'[path]] /\ UNCHANGED <<FS_Files, nand>>
EmuSeen(i, path, x, y) ==
  Handles' /\ SeenHandles' = [SeenHandles EXCEPT ![i] = x] /\ SeenFiles' = [SeenFiles EXCEPT ![path] = y]

LEMMA EmuFileSet ==
  ASSUME IndInv, Handles, IndInv', NEW i \in EmuFds, NEW path \in Redirected, NEW h, EmuSets(i, path, h),
         NEW x, x = IF h = NULL THEN Closed ELSE Handle(path, EndOf(h)),
         NEW y, y = IF h = NULL THEN card'[path] ELSE View(card', h)
  PROVE  EmuSeen(i, path, x, y)
<1> USE DEF EmuSets, EmuSeen
<1>1. /\ open_files \in [EmuFds -> RiivFiles] /\ card \in Cards /\ NULL.path = Nowhere
      /\ path \in Paths /\ path # Nowhere /\ i \in Fds /\ i \notin NandFds
  BY Params, Constants, Apart DEF IndInv, Types, CardTypes, Fds
<1>2. open_files'[i] = h /\ \A j \in EmuFds \ {i} : open_files'[j] = open_files[j]
  BY <1>1
<1>3. HeldFact /\ ShownFact
  BY HeldIs, ShownIs
<1>4. \A j \in EmuFds : open_files[j] # NULL => SeenHandles[j].path = open_files[j].path
  BY <1>3 DEF HeldFact, Handle, Fds
<1>5. ASSUME NEW j \in EmuFds \ {i} PROVE open_files[j].path # path
  <2>1. CASE open_files[i] # NULL /\ open_files[i].path = path
    <3>1. SUFFICES ASSUME open_files[j].path = path PROVE FALSE
      OBVIOUS
    <3>2. SeenHandles[j].path = path /\ SeenHandles[i].path = path
      BY <1>1, <1>4, <2>1, <3>1
    <3> QED
      BY <1>1, <3>2 DEF Handles, Fds
  <2>2. CASE Quiet(path)
    BY <1>1, <2>2, QuietMeans
  <2> QED
    BY <2>1, <2>2 DEF OpenAt
<1>6. h = NULL \/ (h # NULL /\ h.path = path)
  OBVIOUS
<1>7. x = IF h # NULL THEN Handle(h.path, EndOf(h)) ELSE Closed
  BY <1>6
<1>8. /\ SeenHandles' = [SeenHandles EXCEPT ![i] = x]
      /\ \A e \in Fds \ {i} : e \in Held' <=> e \in Held
  BY <1>1, <1>7, EmuSet, Zenon
<1>9. x.path \in {Nowhere, path}
  BY DEF Handle, Closed
<1>10. SeenHandles[i].path = path \/ \A e \in Fds : SeenHandles[e].path # path
  BY <1>1, <1>4, QuietIs DEF OpenAt
<1>11. Handles'
  BY <1>1, <1>8, <1>9, <1>10, HandleSet
<1>12. ShownFact'
  BY <1>11, ShownThen
<1>13. Shown(path)' = y
  <2>1. CASE h = NULL
    <3>1. \A j \in EmuFds : open_files'[j].path # path
      BY <1>1, <1>2, <1>5, <2>1
    <3> QED
      BY <1>12, <2>1, <3>1 DEF ShownFact
  <2>2. CASE h # NULL
    <3>1. NULL' = NULL
      BY DEF NULL, RiivFile
    <3>2. open_files'[i] # NULL /\ open_files'[i].path = path /\ y = View(card', h)
      BY <1>2, <2>2
    <3> QED
      BY <1>2, <1>12, <3>1, <3>2 DEF ShownFact, View
  <2> QED
    BY <2>1, <2>2
<1>16. OpenSet(i, h) /\ open_files[i].path \in {path, Nowhere} /\ h.path \in {path, Nowhere}
  BY <1>1 DEF OpenAt, OpenSet
<1>17. SameElsewhere(path)
  BY <1>16, ShownElsewhere
<1>14. ASSUME NEW p \in Paths, p # path PROVE Shown(p)' = Shown(p)
  <2>1. CASE p \in Redirected
    <3>1. card'[p] = card[p]
      BY <1>1, <1>14, <2>1 DEF Cards
    <3> QED
      BY <1>17, <1>14, <2>1, <3>1 DEF SameElsewhere
  <2>2. CASE p \notin Redirected
    BY <1>3, <1>12, <2>2 DEF ShownFact
  <2> QED
    BY <2>1, <2>2
<1>15. SeenFiles' = [SeenFiles EXCEPT ![path] = y]
  BY <1>13, <1>14, FilesSet
<1> QED
  BY <1>8, <1>11, <1>15

\* What the game sees of a file of the card that it has open.
LEMMA EmuFileIs ==
  ASSUME IndInv, Handles, NEW i \in EmuFds, NEW f, f = open_files[i], f # NULL
  PROVE  /\ i \in Fds /\ Fits(card, f) /\ f.path \in Redirected /\ OpenAt(i, f.path)
         /\ SeenHandles[i] = Handle(f.path, EndOf(f)) /\ SeenHandles[i].path = f.path /\ SeenHandles[i].pos = EndOf(f)
         /\ SeenFiles[f.path] = View(card, f) /\ SeenFiles = [SeenFiles EXCEPT ![f.path] = View(card, f)]
<1>1. HeldFact /\ ShownFact
  BY HeldIs, ShownIs
<1>2. Fits(card, f) /\ f.path \in Redirected /\ f.path \in Paths
  BY Params DEF IndInv, Types, CardTypes, Fits, Placed
<1>3. SeenHandles[i] = Handle(f.path, EndOf(f)) /\ i \in Fds
  BY <1>1 DEF HeldFact, Fds
<1>4. SeenFiles[f.path] = View(card, f)
  BY <1>1, <1>2 DEF ShownFact
<1>5. SeenFiles = [SeenFiles EXCEPT ![f.path] = View(card, f)]
  BY <1>4 DEF SeenFiles
<1>6. OpenAt(i, f.path)
  BY DEF OpenAt
<1> QED
  BY <1>2, <1>3, <1>4, <1>5, <1>6 DEF Handle

LEMMA HandleOpenSees == ASSUME IndInv, SeenInv, IndInv', Taken, HandleOpen(message) PROVE SeenInv' /\ [Seen!Next]_(Seen!vars)
<1> DEFINE r == message
           free == {i \in EmuFds : open_files[i] = NULL}
<1>1. r.op = "open" /\ UNCHANGED <<card, job>>
  BY DEF HandleOpen
<1>2. /\ SeenAsked = r /\ r # Nothing /\ Due(r) /\ Handles /\ ShownFact /\ UNCHANGED <<nand, FS_Files>>
      /\ r.path \in Paths /\ Quiet(r.path) /\ (r.path \in Redirected => free # {})
  BY <1>1, TakenIs DEF Due
<1>3. CASE (free = {} \/ r.path \notin Redirected) /\ Answer(NotOurs) /\ open_files' = open_files
  <2>1. Rest(r)
    BY <1>1, <1>2, <1>3 DEF Rest
  <2> QED
    BY <1>1, <1>3, <2>1, EmuLeaves
<1>4. CASE Answer(FileNotFound) /\ open_files' = open_files
  <2>1. Handles' /\ SeenHandles' = SeenHandles /\ SeenFiles' = SeenFiles
    BY <1>1, <1>2, <1>4, HandlesSame, ShownSame
  <2>2. SeenInv' /\ SeenAnswer(FileNotFound)
    BY <1>1, <1>4, <2>1, FineCodes, EmuAnswers
  <2>3. Seen!Next
    BY <1>1, <1>2, <2>1, <2>2, SeenRefuses DEF Refusals
  <2> QED
    BY <2>2, <2>3
<1>5. CASE /\ free # {} /\ r.path \in Redirected /\ card[r.path] # Absent
           /\ open_files' = [open_files EXCEPT ![Least(free)] = RiivFile(r.path)]
           /\ Answer(Reply("OK", Least(free), << >>))
  <2> DEFINE i == Least(free)
             path == r.path
             h == RiivFile(path)
             x == Handle(path, 0)
             y == card[path]
             ret == Reply("OK", i, << >>)
  <2>1. i \in EmuFds /\ open_files[i] = NULL /\ i \in Fds
    <3>1. free \subseteq Nat /\ free # {}
      BY <1>5, Apart
    <3>2. i \in free
      BY <3>1, LeastIsOne
    <3> QED
      BY <3>2 DEF Fds
  <2>2. card \in Cards /\ card = [card EXCEPT ![path] = card[path]]
    BY <1>5 DEF IndInv, Types, CardTypes, Cards
  <2>3. h.path = path /\ EndOf(h) = 0 /\ View(card, h) = card[path] /\ h # NULL
    <3>1. h.path = path /\ EndOf(h) = 0 /\ View(card, h) = card[path]
      BY <1>5, <2>2, OpenedFits
    <3>2. h # NULL
      BY <1>2, <3>1, Constants, Params
    <3> QED
      BY <3>1, <3>2
  <2>4. ret # NotOurs /\ Answer(ret)
    BY <1>5, CodesAre
  <2>5. \A j \in EmuFds : open_files[j].path # path
    BY <1>2, QuietMeans
  <2>6. SeenFiles[path] = y /\ y # Absent /\ SeenFiles = [SeenFiles EXCEPT ![path] = y]
    BY <1>2, <1>5, <2>5 DEF ShownFact
  <2>7. SeenHandles[i] = Closed
    BY <2>1, HeldIs DEF HeldFact, SeenHandles
  <2>8. path \in Redirected /\ SeenAsked.path = path /\ OpenAt(i, path)
    BY <1>2, <1>5, <2>1 DEF OpenAt
  <2>9. open_files' = [open_files EXCEPT ![i] = h]
    BY <1>5
  <2> HIDE DEF i, path, h, x, y, ret
  <2>10. EmuSets(i, path, h)
    BY <1>1, <1>2, <2>2, <2>3, <2>8, <2>9 DEF EmuSets
  <2>11. x = (IF h = NULL THEN Closed ELSE Handle(path, EndOf(h))) /\ y = (IF h = NULL THEN card'[path] ELSE View(card', h))
    BY <1>1, <2>3 DEF x, y
  <2>12. EmuSeen(i, path, x, y)
    BY <1>2, <2>1, <2>8, <2>10, <2>11, EmuFileSet
  <2>13. Handles' /\ SeenHandles' = [SeenHandles EXCEPT ![i] = x] /\ SeenFiles' = SeenFiles
    BY <2>6, <2>12 DEF EmuSeen
  <2>14. SeenInv' /\ SeenAnswer(ret)
    BY <1>1, <2>4, <2>13, EmuAnswers
  <2>15. Seen!Next
    BY <1>1, <1>2, <2>1, <2>6, <2>7, <2>8, <2>13, <2>14, SeenOpens DEF x, ret
  <2> QED
    BY <2>14, <2>15
<1> QED
  BY <1>3, <1>4, <1>5 DEF HandleOpen

LEMMA HandleCloseSees == ASSUME IndInv, SeenInv, IndInv', Taken, HandleClose(message) PROVE SeenInv' /\ [Seen!Next]_(Seen!vars)
<1> DEFINE i == message.fd
           f == open_files[i]
           path == f.path
           h == NULL
           x == Closed
           y == View(card, f)
<1>1. /\ message.op = "close" /\ i \in EmuFds /\ f # NULL
      /\ open_files' = [open_files EXCEPT ![i] = h] /\ Answer(OK) /\ job' = job
  BY DEF HandleClose, Ours
<1>2. PICK c \in Flushed(card, f) : card' = c.card
  BY DEF HandleClose, Destroyed
<1>3. SeenAsked = message /\ message # Nothing /\ Handles /\ UNCHANGED <<nand, FS_Files>>
  BY TakenIs
<1>4. /\ i \in Fds /\ Fits(card, f) /\ path \in Redirected /\ OpenAt(i, path)
      /\ SeenFiles = [SeenFiles EXCEPT ![path] = y] /\ card \in Cards
  BY <1>1, <1>3, EmuFileIs DEF IndInv, Types, CardTypes
<1>5. SeenAsked.op = "close" /\ SeenAsked.fd = i
  BY <1>1, <1>3
<1> HIDE DEF i, f
<1>6. card' = [card EXCEPT ![path] = y] /\ card'[path] = y
  <2>1. c.card[f.path] = View(card, f) /\ c.card = [card EXCEPT ![f.path] = View(card, f)]
    BY <1>2, <1>4, FlushedGrows
  <2> QED
    BY <1>2, <2>1
<1> HIDE DEF path, y
<1>7. /\ x = (IF h = NULL THEN Closed ELSE Handle(path, EndOf(h))) /\ y = (IF h = NULL THEN card'[path] ELSE View(card', h))
      /\ h = NULL
  BY <1>6
<1> HIDE DEF x, h
<1>8. EmuSets(i, path, h)
  BY <1>1, <1>3, <1>4, <1>6, <1>7 DEF EmuSets
<1>9. EmuSeen(i, path, x, y)
  BY <1>1, <1>3, <1>4, <1>7, <1>8, EmuFileSet
<1>10. Handles' /\ SeenHandles' = [SeenHandles EXCEPT ![SeenAsked.fd] = Closed] /\ SeenFiles' = SeenFiles
  BY <1>4, <1>5, <1>9 DEF EmuSeen, x
<1>11. SeenInv' /\ SeenAnswer(OK)
  BY <1>1, <1>10, FineCodes, EmuAnswers
<1>12. Seen!Next
  BY <1>5, <1>10, <1>11, SeenCloses
<1> QED
  BY <1>11, <1>12

LEMMA HandleWriteSees == ASSUME IndInv, SeenInv, IndInv', Taken, HandleWrite(message) PROVE SeenInv' /\ [Seen!Next]_(Seen!vars)
<1> DEFINE i == message.fd
           f == open_files[i]
           d == message.arg
           path == f.path
<1>1. message.op = "write" /\ i \in EmuFds /\ f # NULL /\ job' = job
  BY DEF HandleWrite, Ours
<1>2. PICK c \in FileWrite(card, f, d) :
        /\ card' = c.card /\ open_files' = [open_files EXCEPT ![i] = c.f]
        /\ Answer(IF c.ret = -1 THEN IOError ELSE Reply("OK", c.ret, << >>))
  BY DEF HandleWrite
<1>3. SeenAsked = message /\ message # Nothing /\ Handles /\ UNCHANGED <<nand, FS_Files>>
  BY TakenIs
<1>4. /\ i \in Fds /\ Fits(card, f) /\ path \in Redirected /\ OpenAt(i, path)
      /\ SeenHandles[i].path = path /\ SeenHandles[i].pos = EndOf(f) /\ SeenHandles[i] = Handle(path, EndOf(f))
      /\ SeenFiles[path] = View(card, f) /\ SeenFiles = [SeenFiles EXCEPT ![path] = View(card, f)] /\ card \in Cards
  BY <1>1, <1>3, EmuFileIs DEF IndInv, Types, CardTypes
<1>5. SeenAsked.op = "write" /\ SeenAsked.fd = i /\ SeenAsked.arg = d
  BY <1>1, <1>3
<1>6. EndOf(f) + Len(d) <= MaxLen /\ d \in Seq(Units) /\ Len(d) <= buf_size
  BY <1>1, TakenIs DEF Pending
<1> HIDE DEF i, f, d, path
<1>a. AfterWrite(card, f, d, c)
  BY <1>4, <1>6, FileWriteIs, Zenon
<1>7. Grown(card, c.card, path) /\ Fits(c.card, c.f) /\ c.f.path = path
  BY <1>a DEF AfterWrite, path
<1>n. PICK n \in 0..Len(d) : WroteSome(card, f, d, c, n)
  BY <1>a DEF AfterWrite
<1>8. c.f # NULL
  BY <1>4, <1>7, Constants, Params
<1>9. EmuSets(i, path, c.f)
  BY <1>2, <1>3, <1>4, <1>7 DEF EmuSets, Grown
<1> DEFINE x == Handle(path, EndOf(c.f))
           y == View(card', c.f)
<1>10. x = (IF c.f = NULL THEN Closed ELSE Handle(path, EndOf(c.f))) /\ y = (IF c.f = NULL THEN card'[path] ELSE View(card', c.f))
  BY <1>8
<1> HIDE DEF x, y
<1>11. EmuSeen(i, path, x, y)
  BY <1>1, <1>3, <1>4, <1>9, <1>10, EmuFileSet
<1>12. Handles' /\ SeenHandles' = [SeenHandles EXCEPT ![i] = x] /\ SeenFiles' = [SeenFiles EXCEPT ![path] = y]
  BY <1>11 DEF EmuSeen
<1>13. EndOf(c.f) = EndOf(f) + n /\ y = Overwrite(SeenFiles[path], SeenHandles[i].pos, SubSeq(d, 1, n))
  BY <1>2, <1>4, <1>n DEF y, WroteSome
<1>14. CASE c.ret # -1
  <2>1. c.ret = n
    BY <1>14, <1>n DEF WroteSome
  <2>2. Answer(Reply("OK", n, << >>)) /\ Reply("OK", n, << >>) # NotOurs
    BY <1>2, <1>14, <2>1, CodesAre, Ret
  <2>3. SeenInv' /\ SeenAnswer(Reply("OK", n, << >>))
    BY <1>1, <1>12, <2>2, EmuAnswers
  <2>4. SeenAt(i, SeenHandles[i].pos + n)
    BY <1>4, <1>12, <1>13 DEF SeenAt, x
  <2>5. SeenFiles' = [SeenFiles EXCEPT ![path] = Overwrite(SeenFiles[path], SeenHandles[i].pos, SubSeq(SeenAsked.arg, 1, n))]
    BY <1>5, <1>12, <1>13
  <2>6. Seen!Next
    BY <1>4, <1>5, <2>3, <2>4, <2>5, SeenWrites
  <2> QED
    BY <2>3, <2>6
<1>15. CASE c.ret = -1
  <2>1. SeenInv' /\ SeenAnswer(IOError)
    BY <1>1, <1>2, <1>12, <1>15, FineCodes, EmuAnswers
  <2>2. n = 0
    BY <1>15, <1>n DEF WroteSome
  <2>3. x = SeenHandles[i]
    BY <1>4, <1>13, <2>2, PlacedIs DEF x, EndOf, Fits
  <2>4. y = SeenFiles[path]
    <3>1. SubSeq(d, 1, n) = << >>
      BY <2>2, SubSeqEmpty
    <3>2. View(card, f) \in Contents /\ EndOf(f) \in 0..Len(View(card, f))
      BY <1>4, ViewIs DEF Fits
    <3> QED
      BY <1>4, <1>13, <3>1, <3>2, OverwriteNone
  <2>5. SeenHandles' = SeenHandles /\ SeenFiles' = SeenFiles
    BY <1>12, <2>3, <2>4 DEF SeenHandles, SeenFiles
  <2>6. Seen!Next
    BY <1>3, <1>5, <2>1, <2>5, SeenRefuses DEF Refusals
  <2> QED
    BY <2>1, <2>6
<1> QED
  BY <1>14, <1>15

\* A file that has been flushed is still somewhere in the card's.
LEMMA FlushedAgain ==
  ASSUME NEW files \in Cards, NEW f, Placed(files, f), NEW c \in Flushed(files, f)
  PROVE  Placed(c.card, c.f)
<1> DEFINE x == View(files, f)
           o == c.f.opened
           p == EndOf(f)
           b == << >>
<1>1. /\ c.card = [files EXCEPT ![f.path] = x] /\ o \in BOOLEAN
      /\ c.f = [path |-> f.path, opened |-> o, pos |-> p, buffer |-> b]
  BY FlushedIs, Zenon
<1>2. f.path \in Redirected /\ x \in Contents /\ p \in 0..Len(x) /\ p <= MaxLen
  BY PlacedIs, ViewIs
<1>3. b \in Seq(Units) /\ Len(b) = 0 /\ b = << >>
  OBVIOUS
<1> HIDE DEF x, o, p, b
<1>4. p + Len(b) <= MaxLen /\ (b # << >> => f.path \in Vff)
  <2>1. p + Len(b) = p
    <3>1. p \in Int
      BY <1>2
    <3> QED
      BY <1>3, <3>1
  <2> QED
    BY <1>2, <1>3, <2>1
<1>5. Placed([files EXCEPT ![f.path] = x], [path |-> f.path, opened |-> o, pos |-> p, buffer |-> b])
  BY <1>1, <1>2, <1>3, <1>4, PlacedAgain, Zenon
<1> QED
  BY <1>1, <1>5

\* A read or seek of a file of the card returns what is to be seen of it there, or fails.
AfterUse(r, f, c) ==
  /\ c.card = [card EXCEPT ![f.path] = View(card, f)] /\ View(c.card, c.f) = View(card, f) /\ c.f.path = f.path
  /\ \/ c.ret = IOError /\ EndOf(c.f) = EndOf(f)
     \/ LET got == Slice(View(card, f), EndOf(f), r.arg[1])
        IN r.op = "read" /\ c.ret = Reply("OK", Len(got), got) /\ EndOf(c.f) = EndOf(f) + Len(got)
     \/ r.op = "rewind" /\ c.ret = OK /\ EndOf(c.f) = 0
     \/ r.op = "stats" /\ c.ret = Reply("OK", EndOf(f), <<Len(View(card, f))>>) /\ EndOf(c.f) = EndOf(f)

LEMMA UseSees ==
  ASSUME card \in Cards, NEW f, Fits(card, f),
         NEW r, r.op \in {"read", "rewind", "stats"}, r.op = "read" => r.arg = << 1 >>,
         r.op = "stats" /\ f.path \in MayFail => f.opened,
         NEW c \in FileUse(r, f)
  PROVE  AfterUse(r, f, c)
<1> DEFINE v == View(card, f)
           b == << >>
           e == EndOf(f)
<1>1. PICK k \in Flushed(card, f) : \E h \in Opened(k.card, k.f) : c = Used(r, k.card, h)
  BY DEF FileUse
<1>2. PICK g \in Opened(k.card, k.f) : c = Used(r, k.card, g)
  BY <1>1
<1>3. Placed(card, f) /\ f.path \in Redirected
  BY PlacedIs DEF Fits
<1>4. /\ k.card = [card EXCEPT ![f.path] = v]
      /\ k.f = [path |-> f.path, opened |-> k.f.opened, pos |-> e, buffer |-> b]
  BY <1>3, FlushedIs, Zenon
<1>5. v \in Contents
  BY <1>3, ViewIs
<1>6. Fits(c.card, c.f) /\ c.f.path = f.path
  BY FileUseIs
<1>7. c.f.buffer = b => View(c.card, c.f) = c.card[f.path] /\ EndOf(c.f) = c.f.pos
  BY <1>6, ViewIs DEF Fits
<1> HIDE DEF v, b, e
<1>8. k.card[f.path] = v
  BY <1>3, <1>4 DEF Cards
<1>9. k.f.path = f.path /\ k.f.pos = e /\ k.f.buffer = b
  BY <1>4
<1>10. \/ g = [k.f EXCEPT !.opened = TRUE]
       \/ ~ k.f.opened /\ f.path \in MayFail /\ g = k.f
  BY <1>5, <1>8, <1>9, ContentsAre DEF Opened
<1>11. g.path = f.path /\ g.pos = e /\ g.buffer = b /\ g = [path |-> f.path, opened |-> g.opened, pos |-> e, buffer |-> b]
  <2>1. g = [path |-> k.f.path, opened |-> g.opened, pos |-> k.f.pos, buffer |-> k.f.buffer]
    BY <1>3, FlushedAgain, OpenedIs, Zenon
  <2> QED
    BY <1>9, <2>1
<1>12. ASSUME ~ g.opened PROVE r.op # "stats"
  <2>1. ~ k.f.opened /\ f.path \in MayFail
    <3>1. CASE g = [k.f EXCEPT !.opened = TRUE]
      <4>1. PICK o : k.f = [path |-> f.path, opened |-> o, pos |-> e, buffer |-> b]
        BY <1>4
      <4>2. g.opened
        BY <3>1, <4>1
      <4> QED
        BY <1>12, <4>2
    <3> QED
      BY <1>10, <3>1
  <2>2. f.buffer = << >>
    BY <1>3, <2>1, Params DEF Placed
  <2>3. k.f = f
    BY <2>2 DEF Flushed, Card
  <2> QED
    BY <2>1, <2>3
<1>13. ASSUME c.card = k.card, c.f.buffer = b, NEW p, c.f.pos = p
       PROVE  /\ c.card = [card EXCEPT ![f.path] = v] /\ View(c.card, c.f) = v /\ EndOf(c.f) = p
  BY <1>4, <1>7, <1>8, <1>13
<1>14. CASE ~ g.opened
  <2>1. c = Card(k.card, g, IOError)
    BY <1>2, <1>12, <1>14 DEF Used
  <2>2. c.card = k.card /\ c.f = g /\ c.ret = IOError
    BY <2>1 DEF Card
  <2>3. /\ c.card = [card EXCEPT ![f.path] = v] /\ View(c.card, c.f) = v /\ EndOf(c.f) = e
    BY <1>11, <1>13, <2>2
  <2> QED
    BY <1>6, <2>2, <2>3 DEF AfterUse, v, e
<1>15. CASE g.opened /\ r.op = "read"
  <2> DEFINE got == Slice(v, e, r.arg[1])
             p == e + Len(got)
  <2>1. c = Card(k.card, [g EXCEPT !.pos = @ + Len(got)], Reply("OK", Len(got), got))
    <3>1. c = Card(k.card, [g EXCEPT !.pos = @ + Len(Slice(k.card[g.path], g.pos, r.arg[1]))],
                   Reply("OK", Len(Slice(k.card[g.path], g.pos, r.arg[1])), Slice(k.card[g.path], g.pos, r.arg[1])))
      BY <1>2, <1>15 DEF Used
    <3>2. Slice(k.card[g.path], g.pos, r.arg[1]) = got
      BY <1>8, <1>11
    <3> HIDE DEF got
    <3> QED
      BY <3>1, <3>2
  <2> HIDE DEF got
  <2>2. c.card = k.card /\ c.f = [g EXCEPT !.pos = @ + Len(got)] /\ c.ret = Reply("OK", Len(got), got)
    BY <2>1 DEF Card
  <2>3. c.f = [path |-> f.path, opened |-> g.opened, pos |-> p, buffer |-> b]
    BY <1>11, <2>2
  <2> HIDE DEF p
  <2>4. c.f.pos = p /\ c.f.buffer = b
    BY <2>3
  <2>5. /\ c.card = [card EXCEPT ![f.path] = v] /\ View(c.card, c.f) = v /\ EndOf(c.f) = p
    BY <1>13, <2>2, <2>4
  <2> QED
    BY <1>6, <1>15, <2>2, <2>5 DEF AfterUse, v, e, got, p
<1>16. CASE g.opened /\ r.op = "rewind"
  <2>1. c = Card(k.card, [g EXCEPT !.pos = 0], OK)
    BY <1>2, <1>16 DEF Used
  <2>2. c.card = k.card /\ c.f = [g EXCEPT !.pos = 0] /\ c.ret = OK
    BY <2>1 DEF Card
  <2>3. c.f = [path |-> f.path, opened |-> g.opened, pos |-> 0, buffer |-> b]
    BY <1>11, <2>2
  <2>4. c.f.pos = 0 /\ c.f.buffer = b
    BY <2>3
  <2>5. /\ c.card = [card EXCEPT ![f.path] = v] /\ View(c.card, c.f) = v /\ EndOf(c.f) = 0
    BY <1>13, <2>2, <2>4
  <2> QED
    BY <1>6, <1>16, <2>2, <2>5 DEF AfterUse, v
<1>17. CASE g.opened /\ r.op = "stats"
  <2>1. c = Card(k.card, g, Reply("OK", g.pos, <<Len(k.card[g.path])>>))
    BY <1>2, <1>17 DEF Used
  <2>2. c.card = k.card /\ c.f = g /\ c.ret = Reply("OK", e, <<Len(v)>>)
    BY <1>8, <1>11, <2>1 DEF Card
  <2>3. /\ c.card = [card EXCEPT ![f.path] = v] /\ View(c.card, c.f) = v /\ EndOf(c.f) = e
    BY <1>11, <1>13, <2>2
  <2> QED
    BY <1>6, <1>17, <2>2, <2>3 DEF AfterUse, v, e
<1> QED
  BY <1>14, <1>15, <1>16, <1>17

LEMMA HandleUseSees == ASSUME IndInv, SeenInv, IndInv', Taken, HandleUse(message) PROVE SeenInv' /\ [Seen!Next]_(Seen!vars)
<1> DEFINE i == message.fd
           f == open_files[i]
           path == f.path
<1>1. message.op \in {"read", "rewind", "stats"} /\ i \in EmuFds /\ f # NULL /\ job' = job
  BY DEF HandleUse, Ours
<1>2. PICK c \in FileUse(message, f) :
        /\ card' = c.card /\ open_files' = [open_files EXCEPT ![i] = c.f]
        /\ Answer(c.ret)
  BY DEF HandleUse
<1>3. SeenAsked = message /\ message # Nothing /\ Handles /\ UNCHANGED <<nand, FS_Files>> /\ Due(message)
      /\ (message.op = "read" => message.arg = <<1>>)
  BY TakenIs DEF Pending
<1>4. /\ i \in Fds /\ Fits(card, f) /\ path \in Redirected /\ OpenAt(i, path)
      /\ SeenHandles[i].path = path /\ SeenHandles[i].pos = EndOf(f) /\ SeenHandles[i] = Handle(path, EndOf(f))
      /\ SeenFiles[path] = View(card, f) /\ SeenFiles = [SeenFiles EXCEPT ![path] = View(card, f)] /\ card \in Cards
  BY <1>1, <1>3, EmuFileIs DEF IndInv, Types, CardTypes
<1>5. SeenAsked.op = message.op /\ SeenAsked.fd = i /\ SeenAsked.arg = message.arg
  BY <1>3
<1>6. message.op = "stats" /\ path \in MayFail => f.opened
  BY <1>1, <1>3 DEF Due, Measures, PathOf
<1> HIDE DEF i, f
<1>7. AfterUse(message, f, c)
  BY <1>1, <1>2, <1>3, <1>4, <1>6, UseSees
<1>8. Fits(c.card, c.f) /\ c.ret.code \in Codes
  BY <1>1, <1>3, <1>4, FileUseIs
<1>9. card' = [card EXCEPT ![path] = View(card, f)] /\ View(card', c.f) = View(card, f) /\ c.f.path = path
  BY <1>2, <1>7 DEF AfterUse
<1> HIDE DEF path
<1>10. c.f # NULL
  BY <1>4, <1>9, Constants, Params
<1>11. EmuSets(i, path, c.f)
  BY <1>2, <1>3, <1>4, <1>9 DEF EmuSets, Cards
<1> DEFINE x == Handle(path, EndOf(c.f))
           y == View(card', c.f)
<1>12. x = (IF c.f = NULL THEN Closed ELSE Handle(path, EndOf(c.f))) /\ y = (IF c.f = NULL THEN card'[path] ELSE View(card', c.f))
       /\ y = View(card, f)
  BY <1>9, <1>10
<1> HIDE DEF x, y
<1>13. EmuSeen(i, path, x, y)
  BY <1>1, <1>3, <1>4, <1>11, <1>12, EmuFileSet
<1>14. Handles' /\ SeenHandles' = [SeenHandles EXCEPT ![i] = x] /\ SeenFiles' = SeenFiles
  BY <1>4, <1>12, <1>13 DEF EmuSeen
<1>15. SeenInv' /\ SeenAnswer(c.ret)
  <2>1. NotOurs.code = "not ours" /\ NotOurs.code \notin Codes
    BY CodesAre DEF NotOurs, Code, Reply
  <2>2. c.ret # NotOurs
    BY <1>8, <2>1
  <2> QED
    BY <1>1, <1>2, <1>14, <2>2, EmuAnswers
<1>16. \A p : EndOf(c.f) = p => SeenAt(i, p)
  BY <1>4, <1>14 DEF SeenAt, x
<1>17. CASE c.ret = IOError /\ EndOf(c.f) = EndOf(f)
  <2>1. x = SeenHandles[i]
    BY <1>4, <1>17 DEF x
  <2>2. SeenHandles' = SeenHandles
    BY <1>14, <2>1 DEF SeenHandles
  <2>3. Seen!Next
    BY <1>1, <1>3, <1>5, <1>14, <1>15, <1>17, <2>2, SeenRefuses DEF Refusals
  <2> QED
    BY <1>15, <2>3
<1>18. CASE LET got == Slice(View(card, f), EndOf(f), message.arg[1])
            IN message.op = "read" /\ c.ret = Reply("OK", Len(got), got) /\ EndOf(c.f) = EndOf(f) + Len(got)
  <2> DEFINE got == Slice(View(card, f), EndOf(f), message.arg[1])
  <2>1. message.op = "read" /\ c.ret = Reply("OK", Len(got), got) /\ EndOf(c.f) = SeenHandles[i].pos + Len(got)
    BY <1>4, <1>18
  <2>2. got = Slice(SeenFiles[SeenHandles[i].path], SeenHandles[i].pos, SeenAsked.arg[1])
    BY <1>4, <1>5
  <2> HIDE DEF got
  <2>3. SeenAt(i, SeenHandles[i].pos + Len(got)) /\ SeenAnswer(Reply("OK", Len(got), got)) /\ SeenAsked.op = "read"
    BY <1>5, <1>15, <1>16, <2>1
  <2>4. Seen!Next
    BY <1>4, <1>5, <1>14, <2>2, <2>3, SeenReads
  <2> QED
    BY <1>15, <2>4
<1>19. CASE message.op = "rewind" /\ c.ret = OK /\ EndOf(c.f) = 0
  <2>1. SeenAt(i, 0) /\ SeenAnswer(OK)
    BY <1>15, <1>16, <1>19
  <2>2. Seen!Next
    BY <1>4, <1>5, <1>14, <1>19, <2>1, SeenRewinds
  <2> QED
    BY <1>15, <2>2
<1>20. CASE message.op = "stats" /\ c.ret = Reply("OK", EndOf(f), <<Len(View(card, f))>>) /\ EndOf(c.f) = EndOf(f)
  <2>1. x = SeenHandles[i]
    BY <1>4, <1>20 DEF x
  <2>2. SeenHandles' = SeenHandles
    BY <1>14, <2>1 DEF SeenHandles
  <2>3. SeenAnswer(Reply("OK", SeenHandles[i].pos, <<Len(SeenFiles[SeenHandles[i].path])>>))
    BY <1>4, <1>15, <1>20
  <2>4. Seen!Next
    BY <1>4, <1>5, <1>14, <1>20, <2>2, <2>3, SeenStats
  <2> QED
    BY <1>15, <2>4
<1> QED
  BY <1>7, <1>17, <1>18, <1>19, <1>20 DEF AfterUse

\* The file of a path of the card that nobody has open is changed.
PathSet(path, x) == card' = [card EXCEPT ![path] = x] /\ UNCHANGED <<open_files, FS_Files, nand>>
PathSeen(path, x) == SeenFiles[path] = card[path] /\ SeenFiles' = [SeenFiles EXCEPT ![path] = x]

LEMMA PathQuiet ==
  ASSUME IndInv, Handles, NEW path \in Redirected, Quiet(path)
  PROVE  SeenFiles[path] = card[path] /\ \A i \in EmuFds : open_files[i].path # path
<1>1. path \in Paths /\ ShownFact
  BY Params, ShownIs
<1>2. \A i \in EmuFds : open_files[i].path # path
  BY <1>1, QuietMeans
<1> QED
  BY <1>1, <1>2 DEF ShownFact

LEMMA CardFileSet ==
  ASSUME IndInv, Handles, IndInv', NEW path \in Redirected, Quiet(path), NEW x, PathSet(path, x)
  PROVE  PathSeen(path, x) /\ Handles' /\ SeenHandles' = SeenHandles
<1> USE DEF PathSet
<1>1. Handles' /\ SeenHandles' = SeenHandles
  BY HandlesSame
<1>2. ShownFact /\ ShownFact' /\ card \in Cards
  BY <1>1, ShownIs, ShownThen DEF IndInv, Types, CardTypes
<1>3. SeenFiles[path] = card[path] /\ \A i \in EmuFds : open_files'[i].path # path
  BY PathQuiet
<1>4. card'[path] = x /\ \A p \in Redirected : p # path => card'[p] = card[p]
  BY <1>2 DEF Cards
<1>5. Shown(path)' = x
  BY <1>2, <1>3, <1>4 DEF ShownFact
<1>6. ASSUME NEW p \in Paths, p # path PROVE Shown(p)' = Shown(p)
  <2>1. CASE p \in Redirected
    BY <1>4, <1>6, <2>1, ShownSame
  <2>2. CASE p \notin Redirected
    BY <1>2, <2>2 DEF ShownFact
  <2> QED
    BY <2>1, <2>2
<1>7. SeenFiles' = [SeenFiles EXCEPT ![path] = x]
  BY <1>5, <1>6, FilesSet
<1> QED
  BY <1>1, <1>3, <1>7 DEF PathSeen

\* Nothing of the card changes.
CardSame == UNCHANGED <<card, open_files, FS_Files, nand>>

LEMMA NothingSeen ==
  ASSUME Handles, CardSame
  PROVE  Handles' /\ SeenHandles' = SeenHandles /\ SeenFiles' = SeenFiles
BY HandlesSame, ShownSame DEF CardSame

LEMMA HandlePathSees == ASSUME IndInv, SeenInv, IndInv', Taken, HandlePath(message) PROVE SeenInv' /\ [Seen!Next]_(Seen!vars)
<1> DEFINE path == message.path
           x == IF message.op = "delete" THEN Absent ELSE IF card[path] = Absent THEN << >> ELSE card[path]
<1>1. message.op \in {"create", "delete"} /\ path \in Redirected /\ UNCHANGED <<open_files, job>>
  BY DEF HandlePath
<1>2. \/ card' = [card EXCEPT ![path] = x] /\ Answer(OK)
      \/ card' = card /\ Answer(IOError)
  BY DEF HandlePath
<1>3. SeenAsked = message /\ message # Nothing /\ Handles /\ UNCHANGED <<nand, FS_Files>> /\ Due(message)
  BY TakenIs
<1>4. Quiet(path)
  BY <1>1, <1>3 DEF Due
<1>5. CASE card' = card /\ Answer(IOError)
  <2>1. Handles' /\ SeenHandles' = SeenHandles /\ SeenFiles' = SeenFiles
    BY <1>1, <1>3, <1>5, NothingSeen DEF CardSame
  <2>2. SeenInv' /\ SeenAnswer(IOError)
    BY <1>1, <1>5, <2>1, FineCodes, EmuAnswers
  <2>3. Seen!Next
    BY <1>1, <1>3, <2>1, <2>2, SeenRefuses DEF Refusals
  <2> QED
    BY <2>2, <2>3
<1>6. CASE card' = [card EXCEPT ![path] = x] /\ Answer(OK)
  <2>1. message.op = "create" => x = IF card[path] = Absent THEN << >> ELSE card[path]
    OBVIOUS
  <2>2. message.op = "delete" => x = Absent
    OBVIOUS
  <2>3. SeenAsked.op = message.op /\ SeenAsked.path = path
    BY <1>3
  <2> HIDE DEF path, x
  <2>4. PathSet(path, x)
    BY <1>1, <1>3, <1>6 DEF PathSet
  <2>5. PathSeen(path, x) /\ Handles' /\ SeenHandles' = SeenHandles
    BY <1>1, <1>3, <1>4, <2>4, CardFileSet
  <2>6. SeenInv' /\ SeenAnswer(OK)
    BY <1>1, <1>6, <2>5, FineCodes, EmuAnswers
  <2>7. SeenFiles[path] = card[path] /\ SeenFiles' = [SeenFiles EXCEPT ![path] = x]
    BY <2>5 DEF PathSeen
  <2>8. CASE message.op = "create"
    <3>1. x = IF SeenFiles[path] = Absent THEN << >> ELSE SeenFiles[path]
      BY <2>1, <2>7, <2>8
    <3>2. SeenFiles' = [SeenFiles EXCEPT ![path] = IF SeenFiles[path] = Absent THEN << >> ELSE SeenFiles[path]]
      BY <2>7, <3>1
    <3>3. Seen!Next
      BY <2>3, <2>5, <2>6, <2>8, <3>2, SeenCreates
    <3> QED
      BY <2>6, <3>3
  <2>9. CASE message.op = "delete"
    <3>1. SeenFiles' = [SeenFiles EXCEPT ![SeenAsked.path] = Absent]
      BY <2>2, <2>3, <2>7, <2>9
    <3>2. Seen!Next
      BY <2>3, <2>5, <2>6, <2>9, <3>1, SeenDeletes
    <3> QED
      BY <2>6, <3>2
  <2> QED
    BY <1>1, <2>8, <2>9
<1> QED
  BY <1>2, <1>5, <1>6

LEMMA HandleRenameSees == ASSUME IndInv, SeenInv, IndInv', Taken, HandleRename(message) PROVE SeenInv' /\ [Seen!Next]_(Seen!vars)
<1>0. PICK from, to : from = message.path /\ to = message.path2
  OBVIOUS
<1>1. /\ message.op = "move" /\ from \in Redirected /\ to \in Redirected /\ UNCHANGED <<open_files, job>>
      /\ \/ card' = card /\ Answer(FileNotFound)
         \/ card[from] # Absent /\ card' = [card EXCEPT ![to] = card[from], ![from] = Absent] /\ Answer(OK)
  BY <1>0 DEF HandleRename
<1>2. SeenAsked = message /\ message # Nothing /\ Handles /\ UNCHANGED <<nand, FS_Files>> /\ Due(message) /\ Pending
  BY TakenIs
<1>3. Quiet(from) /\ Quiet(to) /\ from # to /\ cargo = card[from]
      /\ SeenAsked.op = "move" /\ SeenAsked.path = from /\ SeenAsked.path2 = to
  BY <1>0, <1>1, <1>2 DEF Due, Pending, On
<1>4. SeenFiles[from] = card[from] /\ SeenFiles[to] = card[to]
  BY <1>1, <1>2, <1>3, PathQuiet
<1>5. CASE card' = card /\ Answer(FileNotFound)
  <2>1. Handles' /\ SeenHandles' = SeenHandles /\ SeenFiles' = SeenFiles
    BY <1>1, <1>2, <1>5, NothingSeen DEF CardSame
  <2>2. SeenInv' /\ SeenAnswer(FileNotFound)
    BY <1>1, <1>5, <2>1, FineCodes, EmuAnswers
  <2>3. Seen!Next
    BY <1>3, <1>4, <2>1, <2>2, SeenStays DEF Refusals
  <2> QED
    BY <2>2, <2>3
<1>6. CASE card[from] # Absent /\ card' = [card EXCEPT ![to] = card[from], ![from] = Absent] /\ Answer(OK)
  <2>1. Handles' /\ SeenHandles' = SeenHandles
    BY <1>1, <1>2, HandlesSame
  <2>2. SeenInv' /\ SeenAnswer(OK)
    BY <1>1, <1>6, <2>1, FineCodes, EmuAnswers
  <2>3. ShownFact /\ ShownFact' /\ card \in Cards
    BY <1>2, <2>1, ShownIs, ShownThen DEF IndInv, Types, CardTypes
  <2>4. card'[from] = Absent /\ card'[to] = cargo /\ \A p \in Redirected : p # from /\ p # to => card'[p] = card[p]
    BY <1>1, <1>3, <1>6, <2>3 DEF Cards
  <2>5. \A i \in EmuFds : open_files'[i].path # from /\ open_files'[i].path # to
    BY <1>1, <1>2, <1>3, PathQuiet
  <2>6. Shown(from)' = Absent /\ Shown(to)' = cargo
    BY <1>1, <2>3, <2>4, <2>5 DEF ShownFact
  <2>7. ASSUME NEW p \in Paths, p # from, p # to PROVE Shown(p)' = Shown(p)
    <3>1. CASE p \in Redirected
      BY <1>1, <2>4, <2>7, <3>1, ShownSame
    <3>2. CASE p \notin Redirected
      BY <1>2, <2>3, <3>2 DEF ShownFact
    <3> QED
      BY <3>1, <3>2
  <2>8. SeenFiles' = [SeenFiles EXCEPT ![from] = Absent, ![to] = cargo]
    BY <1>3, <2>6, <2>7, FilesSetTwo
  <2>9. Seen!Next
    BY <1>3, <1>6, <2>1, <2>2, <2>8, SeenMoves
  <2> QED
    BY <2>2, <2>9
<1> QED
  BY <1>1, <1>5, <1>6

LEMMA HandleMoveFromSees == ASSUME IndInv, SeenInv, IndInv', Taken, HandleMoveFrom(message) PROVE SeenInv' /\ [Seen!Next]_(Seen!vars)
<1>1. message.op = "move" /\ message.path \in Redirected /\ UNCHANGED <<card, open_files, job>> /\ Answer(InvalidArgument)
  BY DEF HandleMoveFrom
<1>2. SeenAsked = message /\ Handles /\ UNCHANGED <<nand, FS_Files>> /\ Due(message) /\ Pending
  BY TakenIs
<1>3. Handles' /\ SeenHandles' = SeenHandles /\ SeenFiles' = SeenFiles
  BY <1>1, <1>2, NothingSeen DEF CardSame
<1>4. SeenFiles[SeenAsked.path] = cargo
  <2>1. Quiet(message.path) /\ cargo = card[message.path]
    BY <1>1, <1>2 DEF Due, Pending, On
  <2> QED
    BY <1>1, <1>2, <2>1, PathQuiet
<1>5. SeenInv' /\ SeenAnswer(InvalidArgument)
  BY <1>1, <1>3, FineCodes, EmuAnswers
<1>6. Seen!Next
  BY <1>1, <1>2, <1>3, <1>4, <1>5, SeenStays DEF Refusals
<1> QED
  BY <1>5, <1>6

LEMMA HandleMoveToSees == ASSUME IndInv, SeenInv, IndInv', Taken, HandleMoveTo(message) PROVE SeenInv' /\ [Seen!Next]_(Seen!vars)
<1>1. UNCHANGED <<card, open_files, fs_internal_queue, cargo, reply>>
      /\ job' = [at |-> "open", from |-> message.path, to |-> message.path2, src |-> NoFd, size |-> 0,
                 dest |-> NULL, ret |-> InvalidArgument]
  BY DEF HandleMoveTo, NoJob
<1>2. SeenAsked = message /\ Handles /\ UNCHANGED <<nand, FS_Files, message>> /\ Unanswered
  BY TakenIs
<1>3. fs_internal_queue = << >> /\ ipc' = NoIpc
  BY DEF Taken, Asked, Free
<1>4. ~ Answered' /\ ~ LeftOver'
  <2>1. fs' = "waits"
    BY DEF Taken, Asked
  <2> QED
    BY <1>1, <1>3, <2>1 DEF Answered, LeftOver
<1>5. OwnFile'
  <2>1. ~ Done'
    BY <1>3, Constants DEF Done
  <2>2. job'.at = "open" /\ job'.ret = InvalidArgument
    BY <1>1
  <2> QED
    BY <2>1, <2>2 DEF OwnFile, Refusals
<1>6. SeenInv'
  BY <1>1, <1>2, <1>4, <1>5, RequestSame DEF Unanswered
<1>7. SeenHandles' = SeenHandles /\ SeenFiles' = SeenFiles
  BY <1>1, <1>2, NothingSeen DEF CardSame
<1>8. SeenAsked' = SeenAsked
  BY <1>2, <1>4 DEF SeenAsked
<1> QED
  BY <1>1, <1>6, <1>7, <1>8, SeenStutters

LEMMA HandleNotOursSees == ASSUME IndInv, SeenInv, IndInv', Taken, HandleNotOurs(message) PROVE SeenInv' /\ [Seen!Next]_(Seen!vars)
<1>1. /\ message.fd \notin EmuFds /\ message.path \notin Redirected /\ message.path2 \notin Redirected
      /\ UNCHANGED <<card, open_files, job>> /\ Answer(NotOurs)
  BY DEF HandleNotOurs
<1>2. Due(message) /\ Held \subseteq Fds
  BY TakenIs, HeldIs DEF HeldFact
<1>3. Rest(message)
  BY <1>1, <1>2 DEF Rest, Due, Fds
<1> QED
  BY <1>1, <1>3, EmuLeaves

LEMMA HandleFSMessageSees == ASSUME IndInv, SeenInv, IndInv', HandleFSMessage PROVE SeenInv' /\ [Seen!Next]_(Seen!vars)
<1>1. queue # << >> /\ queue' = Tail(queue) /\ UNCHANGED <<nand, FS_Files, fs, message, ProxyMessage, ipc>>
  BY DEF HandleFSMessage, Takes
<1>2. Asked /\ ProxyMessage = message
  BY <1>1, WhoHasIt DEF Asked
<1>3. queue' = << >>
  BY <1>1, <1>2 DEF Asked
<1>4. Taken
  BY <1>1, <1>2, <1>3 DEF Taken
<1>5. \/ HandleOpen(message) \/ HandleClose(message) \/ HandleWrite(message) \/ HandleUse(message)
      \/ HandlePath(message) \/ HandleRename(message) \/ HandleMoveFrom(message) \/ HandleMoveTo(message)
      \/ HandleNotOurs(message)
  BY <1>2 DEF HandleFSMessage
<1> QED
  BY <1>4, <1>5, HandleOpenSees, HandleCloseSees, HandleWriteSees, HandleUseSees, HandlePathSees,
     HandleRenameSees, HandleMoveFromSees, HandleMoveToSees, HandleNotOursSees
-----------------------------------------------------------------------------
(* What the game sees of MoveTo *)

\* A turn of MoveTo: the game waits for its request to be answered.
TurnSeen ==
  /\ SeenAsked = message /\ message.op = "move" /\ message.path = job.from /\ message.path2 = job.to
  /\ SeenFiles[job.from] = nand[job.from] /\ SeenFiles[job.to] = card[job.to]
  /\ ShownFact /\ Quiet(job.to) /\ job.to \in Redirected
  /\ Handles' /\ SeenHandles' = SeenHandles
  /\ OwnFile /\ Done /\ Unanswered

LEMMA TurnSees == ASSUME IndInv, SeenInv, Turns PROVE TurnSeen
<1>1. /\ Moving /\ Done /\ job.to \in Redirected
      /\ message.op = "move" /\ message.path = job.from /\ message.path2 = job.to /\ job.from \in Paths \ Redirected
  BY TurnIs DEF Moving
<1>2. Unanswered
  BY WhoIs DEF Turns, Who
<1>3. message # Nothing /\ SeenAsked = message /\ Due(message)
  <2>1. message # Nothing
    BY <1>1, Constants
  <2> QED
    BY <1>2, <2>1 DEF Unanswered, SeenAsked, SeenInv, DueAndRest
<1>4. Quiet(job.to)
  BY <1>1, <1>3 DEF Due
<1>5. Handles /\ OwnFile /\ ShownFact
  BY ShownIs DEF SeenInv
<1>6. SeenFiles[job.from] = nand[job.from]
  BY <1>1, <1>5 DEF ShownFact
<1>7. SeenFiles[job.to] = card[job.to]
  BY <1>1, <1>4, <1>5, PathQuiet
<1>8. Handles' /\ SeenHandles' = SeenHandles
  BY <1>5, HandlesSame DEF Turns
<1> QED
  BY <1>1, <1>2, <1>3, <1>4, <1>5, <1>6, <1>7, <1>8 DEF TurnSeen

\* Only the file of one path changes, if any.
Onto(files, after, path) ==
  after \in Cards /\ after[path] \in Contents /\ \A p \in Redirected : p # path => after[p] = files[p]

LEMMA GrownOnto ==
  ASSUME NEW files \in Cards, NEW path \in Redirected, NEW after, Grown(files, after, path)
  PROVE  Onto(files, after, path)
<1>1. after \in Cards
  BY GrownFits DEF Keeps
<1> QED
  BY <1>1 DEF Grown, Onto, Cards

LEMMA OntoOnto ==
  ASSUME NEW files, NEW then, NEW after, NEW path, Onto(files, then, path), Onto(then, after, path)
  PROVE  Onto(files, after, path)
BY DEF Onto

\* MoveTo goes on: what it writes is to be seen at the new path, while the old file is whole.
LEMMA TurnGoesSees ==
  ASSUME IndInv, SeenInv, IndInv', Turns, UNCHANGED <<fs_internal_queue, cargo, reply>>,
         job'.at \in {"size", "rewind", "read", "close", "delete", "close fs"} => Own(job'.src),
         job'.ret \in {OK} \cup Refusals,
         card' = card \/ (Onto(card, card', job.to) /\ nand[job.from] = cargo)
  PROVE  SeenInv' /\ [Seen!Next]_(Seen!vars)
<1>1. TurnSeen
  BY TurnSees
<1>2. ~ Done' /\ fs_internal_queue' = << >> /\ fs' = "waits" /\ UNCHANGED <<nand, FS_Files, open_files, message>>
  BY TurnIs DEF Turns, InMove
<1>3. ~ Answered' /\ ~ LeftOver'
  BY <1>2 DEF Answered, LeftOver
<1>4. OwnFile'
  BY <1>2 DEF OwnFile, Own
<1>5. SeenInv'
  BY <1>1, <1>2, <1>3, <1>4, RequestSame DEF TurnSeen, Unanswered
<1>6. SeenAsked' = SeenAsked
  <2>1. SeenAsked' = message'
    BY <1>1, <1>2, <1>3, Constants DEF SeenAsked
  <2> QED
    BY <1>1, <1>2, <2>1 DEF TurnSeen
<1>7. CASE card' = card
  <2>1. SeenFiles' = SeenFiles /\ SeenHandles' = SeenHandles
    BY <1>1, <1>2, <1>7, ShownSame DEF TurnSeen
  <2> QED
    BY <1>5, <1>6, <2>1, SeenStutters
<1>8. CASE Onto(card, card', job.to) /\ nand[job.from] = cargo
  <2>0. PICK to, x : to = job.to /\ x = card'[job.to]
    OBVIOUS
  <2>1. card \in Cards /\ card' \in Cards /\ x \in Contents /\ to \in Redirected /\ Quiet(to) /\ Handles
    BY <1>1, <1>8, <2>0, TurnIs DEF Onto, TurnSeen, SeenInv
  <2>2. card' = [card EXCEPT ![to] = x]
    BY <1>8, <2>0, <2>1 DEF Onto, Cards
  <2>3. PathSet(to, x)
    BY <1>2, <2>2 DEF PathSet
  <2>4. PathSeen(to, x)
    BY <2>1, <2>3, CardFileSet
  <2>5. SeenFiles' = [SeenFiles EXCEPT ![SeenAsked.path2] = x]
    BY <1>1, <2>0, <2>4 DEF PathSeen, TurnSeen
  <2>6. SeenAsked.op = "move" /\ SeenFiles[SeenAsked.path] = cargo /\ SeenHandles' = SeenHandles
    BY <1>1, <1>8 DEF TurnSeen
  <2>7. Seen!Next
    BY <1>6, <2>1, <2>5, <2>6, SeenCopies
  <2> QED
    BY <1>5, <2>7
<1> QED
  BY <1>7, <1>8

\* It ends: the file is at its new place, or still at the old one.
LEMMA TurnEndsSees ==
  ASSUME IndInv, SeenInv, IndInv', Turns, card' = card, NEW ret \in {OK} \cup Refusals, Ends(ret),
         IF ret = OK THEN cargo # Absent /\ card[job.to] = cargo ELSE nand[job.from] = cargo
  PROVE  SeenInv' /\ [Seen!Next]_(Seen!vars)
<1>1. TurnSeen
  BY TurnSees
<1>2. ret # NotOurs
  <2>1. NotOurs.code = "not ours" /\ ret.code \in Codes
    BY CodesAre DEF NotOurs, Code, Reply
  <2> QED
    BY <2>1, CodesAre
<1>3. /\ fs_internal_queue' = <<[msg |-> "done", ret |-> ret]>> /\ fs' = "waits" /\ job' = NoJob
      /\ cargo' = Absent /\ reply' = ret /\ UNCHANGED <<nand, FS_Files, open_files, message>>
  BY <1>2, TurnIs DEF Turns, InMove, Ends, Answer, Post
<1>4. Answered' /\ ~ LeftOver'
  BY <1>2, <1>3 DEF Answered, LeftOver
<1>5. OwnFile'
  BY <1>3 DEF OwnFile, NoJob
<1>6. SeenInv'
  BY <1>1, <1>4, <1>5 DEF SeenInv, DueAndRest, TurnSeen
<1>7. SeenAnswer(ret)
  BY <1>3, <1>4 DEF SeenAnswer, SeenAsked
<1>8. SeenHandles' = SeenHandles /\ SeenFiles' = SeenFiles
  BY <1>1, <1>3, ShownSame DEF TurnSeen
<1>9. CASE ret = OK
  <2>1. SeenFiles[SeenAsked.path2] = cargo /\ SeenAsked.op = "move" /\ cargo # Absent
    BY <1>1, <1>9 DEF TurnSeen
  <2>2. Seen!Next
    BY <1>7, <1>8, <1>9, <2>1, SeenMoves
  <2> QED
    BY <1>6, <2>2
<1>10. CASE ret # OK
  <2>1. SeenFiles[SeenAsked.path] = cargo /\ SeenAsked.op = "move" /\ ret \in Refusals
    BY <1>1, <1>10 DEF TurnSeen
  <2>2. Seen!Next
    BY <1>7, <1>8, <2>1, SeenStays
  <2> QED
    BY <1>6, <2>2
<1> QED
  BY <1>9, <1>10

\* It leaves the loop.
LEMMA LeaveSees ==
  ASSUME IndInv, SeenInv, IndInv', Turns, UNCHANGED <<fs_internal_queue, cargo, reply>>,
         NEW files \in Cards, files = card \/ Onto(card, files, job.to),
         NEW f, NEW ret \in {OK} \cup Refusals, Leave(ret, files, f), Fits(files, f), f.path = job.to,
         nand[job.from] = cargo, Own(job.src)
  PROVE  SeenInv' /\ [Seen!Next]_(Seen!vars)
<1>1. PICK c \in Flushed(files, f) :
        card' = c.card /\ job' = [job EXCEPT !.at = "close", !.dest = NULL, !.ret = ret]
  BY DEF Leave, Destroyed
<1>2. f.path \in Redirected /\ Grown(files, c.card, f.path)
  BY <1>1, FlushedGrows, Zenon
<1>3. Onto(files, card', job.to)
  BY <1>1, <1>2, GrownOnto
<1>4. Onto(card, card', job.to)
  BY <1>3, OntoOnto
<1>5. job' = [at |-> "close", from |-> job.from, to |-> job.to, src |-> job.src, size |-> job.size,
              dest |-> NULL, ret |-> ret]
  BY <1>1, TurnIs
<1>6. job'.src = job.src /\ job'.ret = ret
  BY <1>5
<1> QED
  BY <1>4, <1>6, TurnGoesSees

LEMMA MoveOpenedSees == ASSUME IndInv, SeenInv, IndInv', Turns, MoveOpened PROVE SeenInv' /\ [Seen!Next]_(Seen!vars)
<1>1. nand[job.from] = cargo /\ job.at = "open" /\ job.ret = InvalidArgument /\ OwnFile /\ Done
  BY TurnIs DEF Stage, MoveOpened, Returned, AtOpen, SeenInv
<1>2. CASE ipc.ret.code # "OK"
  <2>1. Ends(FileNotFound) /\ card' = card /\ FileNotFound \in Refusals /\ FileNotFound # OK
    BY <1>2, Ret DEF MoveOpened, Refusals
  <2> QED
    BY <1>1, <2>1, TurnEndsSees
<1>3. CASE ipc.ret.code = "OK"
  <2>1. Own(ipc.ret.value) /\ UNCHANGED <<fs_internal_queue, cargo, reply>> /\ InvalidArgument \in Refusals
    BY <1>1, <1>3 DEF MoveOpened, OwnFile, Refusals
  <2>2. CASE /\ card' = [card EXCEPT ![job.to] = IF @ = Absent THEN << >> ELSE @]
             /\ job' = [job EXCEPT !.at = "size", !.src = ipc.ret.value, !.dest = RiivFile(job.to)]
    <3>1. job' = [at |-> "size", from |-> job.from, to |-> job.to, src |-> ipc.ret.value, size |-> job.size,
                  dest |-> RiivFile(job.to), ret |-> job.ret]
      BY <2>2, TurnIs
    <3>2. job'.src = ipc.ret.value /\ job'.ret = InvalidArgument
      BY <1>1, <3>1
    <3>3. Onto(card, card', job.to)
      <4> DEFINE x == IF card[job.to] = Absent THEN << >> ELSE card[job.to]
      <4>1. card' = [card EXCEPT ![job.to] = x] /\ card \in Cards /\ job.to \in Redirected
        BY <2>2, TurnIs
      <4>2. x \in Contents
        BY <4>1, NoContents DEF Cards
      <4> HIDE DEF x
      <4> QED
        BY <4>1, <4>2 DEF Onto, Cards
    <3> QED
      BY <1>1, <2>1, <3>2, <3>3, TurnGoesSees
  <2>3. CASE job' = [job EXCEPT !.at = "close", !.src = ipc.ret.value] /\ card' = card
    <3>1. job' = [at |-> "close", from |-> job.from, to |-> job.to, src |-> ipc.ret.value, size |-> job.size,
                  dest |-> job.dest, ret |-> job.ret]
      BY <2>3, TurnIs
    <3>2. job'.src = ipc.ret.value /\ job'.ret = InvalidArgument
      BY <1>1, <3>1
    <3> QED
      BY <2>1, <2>3, <3>2, TurnGoesSees
  <2> QED
    BY <1>3, <2>2, <2>3 DEF MoveOpened
<1> QED
  BY <1>2, <1>3

LEMMA MoveSizedSees == ASSUME IndInv, SeenInv, IndInv', Turns, MoveSized PROVE SeenInv' /\ [Seen!Next]_(Seen!vars)
<1>1. job.at = "size" /\ OwnFile /\ UNCHANGED <<card, fs_internal_queue, cargo, reply>>
  BY DEF MoveSized, Returned, SeenInv
<1>2. job' = [at |-> "rewind", from |-> job.from, to |-> job.to, src |-> job.src, size |-> ipc.ret.value,
              dest |-> job.dest, ret |-> job.ret]
  BY TurnIs DEF MoveSized
<1>3. job'.src = job.src /\ job'.ret = job.ret
  BY <1>2
<1> QED
  BY <1>1, <1>3, TurnGoesSees DEF OwnFile

LEMMA MoveRewoundSees == ASSUME IndInv, SeenInv, IndInv', Turns, MoveRewound PROVE SeenInv' /\ [Seen!Next]_(Seen!vars)
<1>1. /\ job.at = "rewind" /\ Own(job.src) /\ ipc.ret = OK /\ nand[job.from] = cargo
      /\ job.dest = RiivFile(job.to) /\ card[job.to] # Absent /\ UNCHANGED <<fs_internal_queue, cargo, reply>>
  BY TurnIs DEF Stage, MoveRewound, Returned, AtRewind, Ready, Whole, SeenInv, OwnFile
<1>2. CASE job' = [job EXCEPT !.at = "read", !.ret = ipc.ret] /\ card' = card
  <2>1. job' = [at |-> "read", from |-> job.from, to |-> job.to, src |-> job.src, size |-> job.size,
                dest |-> job.dest, ret |-> OK]
    BY <1>1, <1>2, TurnIs
  <2>2. job'.src = job.src /\ job'.ret = OK
    BY <2>1
  <2> QED
    BY <1>1, <1>2, <2>2, TurnGoesSees
<1>3. CASE Leave(ipc.ret, card, job.dest)
  <2>0. PICK f, to : f = job.dest /\ to = job.to
    OBVIOUS
  <2>1. card \in Cards /\ to \in Redirected /\ card[to] # Absent /\ f = RiivFile(to)
    BY <1>1, <2>0, TurnIs
  <2>2. Fits(card, RiivFile(to)) /\ RiivFile(to).path = to
    BY <2>1, OpenedFits, Zenon
  <2>3. Leave(OK, card, f) /\ Fits(card, f) /\ f.path = job.to
    BY <1>1, <1>3, <2>0, <2>1, <2>2
  <2> QED
    BY <1>1, <2>1, <2>3, LeaveSees
<1> QED
  BY <1>2, <1>3 DEF MoveRewound

LEMMA MoveReadSees == ASSUME IndInv, SeenInv, IndInv', Turns, MoveRead PROVE SeenInv' /\ [Seen!Next]_(Seen!vars)
<1>0. PICK f, d, size : f = job.dest /\ d = ipc.ret.data /\ size = job.size
  OBVIOUS
<1>1. /\ job.at = "read" /\ Own(job.src) /\ nand[job.from] = cargo /\ UNCHANGED <<fs_internal_queue, cargo, reply>>
      /\ Whole /\ Fits(card, f) /\ f.path = job.to /\ job.ret = OK
      /\ size \in Nat \ {0} /\ EndOf(f) + size = Len(cargo)
      /\ d = << >> \/ d = Slice(cargo, EndOf(f), Lesser(move_size, size))
  BY <1>0, TurnIs DEF Stage, MoveRead, Returned, AtRead, Whole, SeenInv, OwnFile
<1>2. PICK c \in IF d = << >> THEN {Card(card, f, 0)} ELSE FileWrite(card, f, d) :
        IF Copied(d, c) /\ size > Len(d)
        THEN card' = c.card /\ job' = [job EXCEPT !.dest = c.f, !.size = size - Len(d)]
        ELSE Leave(IF Copied(d, c) THEN job.ret ELSE IOError, c.card, c.f)
  BY <1>0 DEF MoveRead
<1>3. card \in Cards /\ job.to \in Redirected /\ IOError \in Refusals
  BY TurnIs DEF Refusals
<1>4. c.card \in Cards /\ (c.card = card \/ Onto(card, c.card, job.to)) /\ Fits(c.card, c.f) /\ c.f.path = job.to
  <2>1. CASE d = << >>
    <3>1. c.card = card /\ c.f = f
      BY <1>2, <2>1 DEF Card
    <3> QED
      BY <1>1, <1>3, <3>1
  <2>2. CASE d # << >>
    <3> DEFINE n == Lesser(move_size, size)
               e == EndOf(f)
    <3>1. n \in Nat \ {0} /\ n <= size /\ n <= buf_size
      BY <1>1, Params DEF Lesser
    <3>2. cargo \in Contents /\ Len(cargo) \in Nat /\ Len(cargo) <= MaxLen
      BY <1>1, CargoIs
    <3>3. e \in Nat
      <4>1. Placed(card, f)
        BY <1>1 DEF Fits
      <4> QED
        BY <4>1, PlacedIs DEF EndOf
    <3>4. d = Slice(cargo, e, n) /\ e + size = Len(cargo)
      BY <1>1, <2>2
    <3> HIDE DEF n, e
    <3>5. e \in 0..Len(cargo) /\ n \in Nat
      BY <1>1, <3>1, <3>2, <3>3, <3>4
    <3>6. d \in Seq(Units) /\ Len(d) = IF e + n < Len(cargo) THEN n ELSE Len(cargo) - e
      BY <3>2, <3>4, <3>5, SliceIs
    <3>7. Len(d) <= buf_size /\ e + Len(d) <= MaxLen
      BY <1>1, <3>1, <3>2, <3>3, <3>4, <3>6, Params
    <3>8. c \in FileWrite(card, f, d)
      BY <1>2, <2>2
    <3>9. AfterWrite(card, f, d, c)
      BY <1>1, <1>3, <3>6, <3>7, <3>8, FileWriteIs DEF e
    <3>10. Grown(card, c.card, job.to) /\ Fits(c.card, c.f) /\ c.f.path = job.to
      BY <1>1, <3>9 DEF AfterWrite
    <3>11. Onto(card, c.card, job.to)
      BY <1>3, <3>10, GrownOnto
    <3> QED
      BY <3>10, <3>11 DEF Onto
  <2> QED
    BY <2>1, <2>2
<1>5. CASE Copied(d, c) /\ size > Len(d)
  <2>1. card' = c.card /\ job' = [job EXCEPT !.dest = c.f, !.size = size - Len(d)]
    BY <1>2, <1>5
  <2>2. job' = [at |-> "read", from |-> job.from, to |-> job.to, src |-> job.src, size |-> size - Len(d),
                dest |-> c.f, ret |-> OK]
    BY <1>1, <2>1, TurnIs
  <2>3. job'.src = job.src /\ job'.ret = OK
    BY <2>2
  <2> QED
    BY <1>1, <1>4, <2>1, <2>3, TurnGoesSees
<1>6. CASE ~ (Copied(d, c) /\ size > Len(d))
  <2>1. PICK ret \in {OK} \cup Refusals : Leave(ret, c.card, c.f)
    BY <1>1, <1>2, <1>3, <1>6
  <2> QED
    BY <1>1, <1>4, <2>1, LeaveSees
<1> QED
  BY <1>5, <1>6

LEMMA MoveClosedSees == ASSUME IndInv, SeenInv, IndInv', Turns, MoveClosed PROVE SeenInv' /\ [Seen!Next]_(Seen!vars)
<1>1. nand[job.from] = cargo /\ job.ret \in {OK} \cup Refusals /\ card' = card
  BY TurnIs DEF Stage, MoveClosed, Returned, AtClose, Whole, SeenInv, OwnFile
<1>2. CASE job.ret = OK
  <2>1. job' = [job EXCEPT !.at = "open fs"] /\ UNCHANGED <<fs_internal_queue, cargo, reply>>
    BY <1>2 DEF MoveClosed, Goes
  <2>2. job' = [at |-> "open fs", from |-> job.from, to |-> job.to, src |-> job.src, size |-> job.size,
                dest |-> job.dest, ret |-> job.ret]
    BY <2>1, TurnIs
  <2>3. job'.at = "open fs" /\ job'.ret = OK
    BY <1>2, <2>2
  <2> QED
    BY <1>1, <2>1, <2>3, TurnGoesSees
<1>3. CASE job.ret # OK
  <2>1. Ends(job.ret)
    BY <1>3 DEF MoveClosed
  <2> QED
    BY <1>1, <1>3, <2>1, TurnEndsSees
<1> QED
  BY <1>2, <1>3

LEMMA MoveOpenedFsSees == ASSUME IndInv, SeenInv, IndInv', Turns, MoveOpenedFs PROVE SeenInv' /\ [Seen!Next]_(Seen!vars)
<1>1. AtEnd /\ job.at = "open fs" /\ card' = card /\ OwnFile /\ Done
  BY TurnIs DEF Stage, MoveOpenedFs, Returned, SeenInv
<1>2. CASE ipc.ret.code = "OK"
  <2>1. job' = [job EXCEPT !.at = "delete", !.src = ipc.ret.value] /\ UNCHANGED <<fs_internal_queue, cargo, reply>>
    BY <1>2 DEF MoveOpenedFs
  <2>2. job' = [at |-> "delete", from |-> job.from, to |-> job.to, src |-> ipc.ret.value, size |-> job.size,
                dest |-> job.dest, ret |-> job.ret]
    BY <2>1, TurnIs
  <2>3. job'.src = ipc.ret.value /\ job'.ret = OK /\ Own(ipc.ret.value)
    BY <1>1, <1>2, <2>2 DEF AtEnd, OwnFile
  <2> QED
    BY <1>1, <2>1, <2>3, TurnGoesSees
<1>3. CASE ipc.ret.code # "OK"
  <2>1. Ends(OK)
    BY <1>1, <1>3 DEF MoveOpenedFs, AtEnd
  <2> QED
    BY <1>1, <2>1, TurnEndsSees DEF AtEnd
<1> QED
  BY <1>2, <1>3

LEMMA MoveDeletedSees == ASSUME IndInv, SeenInv, IndInv', Turns, MoveDeleted PROVE SeenInv' /\ [Seen!Next]_(Seen!vars)
<1>1. job' = [job EXCEPT !.at = "close fs"] /\ UNCHANGED <<card, fs_internal_queue, cargo, reply>>
      /\ job.at = "delete" /\ OwnFile
  BY DEF MoveDeleted, Goes, Returned, SeenInv
<1>2. job' = [at |-> "close fs", from |-> job.from, to |-> job.to, src |-> job.src, size |-> job.size,
              dest |-> job.dest, ret |-> job.ret]
  BY <1>1, TurnIs
<1>3. job'.src = job.src /\ job'.ret = job.ret
  BY <1>2
<1> QED
  BY <1>1, <1>3, TurnGoesSees DEF OwnFile

LEMMA MoveEndsSees == ASSUME IndInv, SeenInv, IndInv', Turns, MoveEnds PROVE SeenInv' /\ [Seen!Next]_(Seen!vars)
<1>1. AtEnd /\ card' = card /\ Ends(job.ret)
  BY TurnIs DEF Stage, MoveEnds, Returned
<1> QED
  BY <1>1, TurnEndsSees DEF AtEnd

LEMMA MoveToSees == ASSUME IndInv, SeenInv, IndInv', MoveTo PROVE SeenInv' /\ [Seen!Next]_(Seen!vars)
<1>1. \/ MoveOpened \/ MoveSized \/ MoveRewound \/ MoveRead \/ MoveClosed
      \/ MoveOpenedFs \/ MoveDeleted \/ MoveEnds
  BY DEF MoveTo
<1>2. ipc.phase = "close" /\ ipc.acked /\ ipc' = NoIpc
  BY <1>1 DEF MoveOpened, MoveSized, MoveRewound, MoveRead, MoveClosed, MoveOpenedFs, MoveDeleted, MoveEnds, Returned
<1>3. Turns
  BY <1>2, WhoHasIt, Constants DEF Turns, MoveTo
<1> QED
  BY <1>1, <1>3, MoveOpenedSees, MoveSizedSees, MoveRewoundSees, MoveReadSees, MoveClosedSees,
     MoveOpenedFsSees, MoveDeletedSees, MoveEndsSees
-----------------------------------------------------------------------------
(* Every step is one of NandFiles *)

LEMMA GameAsksIsSeen == ASSUME IndInv, SeenInv, IndInv', GameAsks PROVE SeenInv' /\ [Seen!Next]_(Seen!vars)
<1>1. PICK r : Hook(r) /\ Due(r) /\ r # Nothing
  BY GameAsksIs
<1>2. SeenInv'
  BY <1>1, HookSees
<1>3. /\ UNCHANGED <<open_files, FS_Files, nand, card>> /\ message' = r /\ queue' # << >> /\ reply' = OK
      /\ cargo' = IF r.op # "move" THEN Absent ELSE On(r.path)
  BY <1>1 DEF Hook, On
<1>4. SeenAsked = Nothing
  <2>1. Resting /\ Unanswered
    BY <1>1, WhoIs DEF Hook, Who
  <2> QED
    BY <2>1 DEF Resting, Unanswered, SeenAsked
<1>5. SeenAsked' = r
  <2>1. Unanswered'
    BY <1>3, WhoThen DEF Who
  <2> QED
    BY <1>3, <2>1 DEF Unanswered, SeenAsked
<1>6. SeenHandles' = SeenHandles /\ SeenFiles' = SeenFiles /\ Handles /\ ShownFact
  BY <1>3, HandlesSame, ShownSame, ShownIs DEF SeenInv
<1>7. ASSUME r.op = "move" PROVE On(r.path) = SeenFiles[r.path]
  <2>1. r.path \in Paths /\ Quiet(r.path)
    BY <1>1, <1>7 DEF Due
  <2>2. CASE r.path \in Redirected
    BY <1>6, <2>1, <2>2, PathQuiet DEF On
  <2>3. CASE r.path \notin Redirected
    BY <1>6, <2>1, <2>3 DEF On, ShownFact
  <2> QED
    BY <2>2, <2>3
<1>8. cargo' = IF SeenAsked'.op = "move" THEN SeenFiles[SeenAsked'.path] ELSE Absent
  BY <1>3, <1>5, <1>7
<1>9. Seen!Next
  BY <1>1, <1>3, <1>4, <1>5, <1>6, <1>8, SeenAsks
<1> QED
  BY <1>2, <1>9

LEMMA PowerCutIsSeen == ASSUME IndInv, SeenInv, IndInv', PowerCut PROVE SeenInv' /\ [Seen!Next]_(Seen!vars)
<1>1. SeenInv'
  BY PowerCutSees
<1>2. ShownFact /\ ShownFact' /\ HeldFact' /\ Handles
  BY <1>1, ShownIs, ShownThen, HeldThen DEF SeenInv
<1>3. /\ \A fd \in EmuFds : open_files'[fd] = NULL
      /\ \A fd \in NandFds : FS_Files'[fd] = Unused
      /\ message' = Nothing /\ cargo' = Absent /\ reply' = OK /\ UNCHANGED <<nand, card>>
  BY DEF PowerCut
<1>4. SeenHandles' = [fd \in Fds |-> Closed]
  <2>1. NULL' = NULL /\ Unused' = Unused /\ Closed' = Closed
    BY DEF NULL, RiivFile, Unused, Closed, Handle
  <2>2. \A fd \in Fds : fd \notin Held'
    BY <1>2, <1>3, <2>1 DEF HeldFact, Fds
  <2>3. \A fd \in Fds : SeenHandles'[fd] = Closed
    BY <1>2, <2>2 DEF HeldFact
  <2>4. SeenHandles' = [fd \in Fds |-> SeenHandles'[fd]]
    BY DEF SeenHandles
  <2> QED
    BY <2>3, <2>4
<1>5. SeenAnswer(OK)
  BY <1>3 DEF SeenAnswer, SeenAsked
<1>6. ASSUME NEW path \in Paths, \A fd \in Fds : SeenHandles[fd].path # path
      PROVE  SeenFiles'[path] = SeenFiles[path]
  <2>1. CASE path \in Redirected
    <3>1. SeenFiles[path] = card[path]
      BY <1>2, <1>6, <2>1, QuietIs, PathQuiet
    <3>2. NULL.path # path
      BY <1>6, Constants, Params
    <3>3. SeenFiles'[path] = card'[path]
      BY <1>2, <1>3, <1>6, <2>1, <3>2 DEF ShownFact
    <3> QED
      BY <1>3, <3>1, <3>3
  <2>2. CASE path \notin Redirected
    BY <1>2, <1>3, <1>6, <2>2 DEF ShownFact
  <2> QED
    BY <2>1, <2>2
<1>7. Seen!Next
  BY <1>4, <1>5, <1>6, SeenLosesPower
<1> QED
  BY <1>1, <1>7

\* The hook takes what the emulation has to say, and the emulation says it, unseen.
LEMMA HookReturnsIsSeen == ASSUME IndInv, SeenInv, IndInv', HookReturns PROVE SeenInv' /\ [Seen!Next]_(Seen!vars)
<1>1. SeenInv'
  BY HookReturnsSees
<1>2. /\ fs_internal_queue # << >> /\ Head(fs_internal_queue).msg = "done"
      /\ UNCHANGED <<open_files, FS_Files, nand, card, cargo, reply>>
  BY DEF HookReturns, Received
<1>3. SeenFiles' = SeenFiles /\ SeenHandles' = SeenHandles
  BY <1>2, HandlesSame, ShownSame
<1>4. SeenAsked' = SeenAsked
  <2>1. CASE Head(fs_internal_queue).ret = NotOurs
    <3>1. message' = message /\ fs' = "serves" /\ ~ Answered
      BY <2>1 DEF HookReturns, Answered
    <3>2. ~ Answered'
      BY <3>1, WhoThen DEF Who, Serving, Answered
    <3> QED
      BY <3>1, <3>2 DEF SeenAsked
  <2>2. CASE Head(fs_internal_queue).ret # NotOurs
    <3>1. message' = Nothing /\ Answered
      BY <1>2, <2>2 DEF HookReturns, Answered
    <3> QED
      BY <3>1 DEF SeenAsked
  <2> QED
    BY <2>1, <2>2
<1> QED
  BY <1>1, <1>2, <1>3, <1>4, SeenStutters

LEMMA CallsSeen ==
  ASSUME IndInv, IndInv', InMove, InMove', UNCHANGED <<open_files, FS_Files, nand, card, cargo, reply, message>>
  PROVE  [Seen!Next]_(Seen!vars)
<1>1. Unanswered /\ Unanswered'
  BY WhoIs, WhoThen DEF Who
<1>2. SeenAsked' = SeenAsked
  BY <1>1 DEF Unanswered, SeenAsked
<1>3. SeenFiles' = SeenFiles /\ SeenHandles' = SeenHandles
  BY HandlesSame, ShownSame
<1> QED
  BY <1>2, <1>3, SeenStutters

LEMMA HookOpensClosesIsSeen == ASSUME IndInv, SeenInv, IndInv', HookOpensCloses PROVE SeenInv' /\ [Seen!Next]_(Seen!vars)
<1>1. PICK msg \in {"open", "close"} : Received(msg)
  BY DEF HookOpensCloses
<1>2. InMove /\ job # NoJob
  BY <1>1, CallReceived, Constants DEF InMove, Moving, Stage, Stages
<1>3. UNCHANGED <<open_files, FS_Files, nand, card, cargo, reply, message, job>>
  BY DEF HookOpensCloses
<1>4. InMove'
  BY <1>2, <1>3, WhoThen DEF Who
<1> QED
  BY <1>2, <1>3, <1>4, HookOpensClosesSees, CallsSeen

LEMMA EmuCallsIsSeen == ASSUME IndInv, SeenInv, IndInv', EmuCalls PROVE SeenInv' /\ [Seen!Next]_(Seen!vars)
<1>1. job # NoJob /\ UNCHANGED <<open_files, FS_Files, nand, card, cargo, reply, message, job>>
  BY WhoHasIt, Constants DEF EmuCalls, Ipc, InMove, Moving, Stage, Stages
<1>2. InMove /\ InMove'
  BY <1>1, WhoIs, WhoThen DEF Who
<1> QED
  BY <1>1, <1>2, EmuCallsSees, CallsSeen

LEMMA StutterIsSeen == ASSUME IndInv, SeenInv, UNCHANGED vars PROVE SeenInv' /\ [Seen!Next]_(Seen!vars)
<1>1. SeenFiles' = SeenFiles /\ SeenHandles' = SeenHandles /\ UNCHANGED <<cargo, reply>>
  BY HandlesSame, ShownSame DEF vars
<1>2. SeenAsked' = SeenAsked
  BY DEF SeenAsked, Answered, vars, threads
<1> QED
  BY <1>1, <1>2, StutterSees, SeenStutters

LEMMA NextIsSeen == ASSUME IndInv, SeenInv, [Next]_vars PROVE SeenInv' /\ [Seen!Next]_(Seen!vars)
<1>0. IndInv'
  BY NextKeeps
<1>1. CASE GameAsks
  BY <1>0, <1>1, GameAsksIsSeen
<1>2. CASE FsThread
  BY <1>0, <1>2, HookOpensClosesIsSeen, HookServesNandSees, HookReturnsIsSeen, FsServesSees DEF FsThread
<1>3. CASE EmuThread
  BY <1>0, <1>3, HandleFSMessageSees, EmuCallsIsSeen, MoveToSees DEF EmuThread
<1>4. CASE PowerCut
  BY <1>0, <1>4, PowerCutIsSeen
<1>5. CASE UNCHANGED vars
  BY <1>5, StutterIsSeen
<1> QED
  BY <1>1, <1>2, <1>3, <1>4, <1>5 DEF Next

LEMMA InitIsSeen == ASSUME Init PROVE SeenInv /\ Seen!Init
<1>1. IndInv /\ Idle /\ nand \in [Paths -> FirstFiles \cup {Hidden}] /\ card \in [Redirected -> FirstFiles]
  BY InitKeeps DEF Init
<1>2. /\ \A fd \in EmuFds : open_files[fd] = NULL
      /\ \A fd \in NandFds : FS_Files[fd] = Unused
      /\ message = Nothing /\ fs = "ready" /\ job = NoJob /\ cargo = Absent /\ reply = OK
  BY <1>1 DEF Idle
<1>3. HeldFact
  BY HeldIs
<1>4. \A fd \in Fds : fd \notin Held
  BY <1>2, <1>3 DEF HeldFact, Fds
<1>5. SeenHandles = [fd \in Fds |-> Closed]
  BY <1>3, <1>4 DEF HeldFact
<1>6. Handles
  BY <1>4, <1>5 DEF Handles, Closed, Handle, Fds
<1>7. OwnFile
  BY <1>2 DEF OwnFile, NoJob
<1>8. Unanswered
  BY <1>1, <1>2, WhoIs DEF Who
<1>9. SeenInv
  BY <1>2, <1>6, <1>7, <1>8 DEF SeenInv, DueAndRest, Unanswered
<1>10. SeenFiles \in [Paths -> Contents \cup {Absent}]
  <2>1. ShownFact
    BY <1>1, <1>6, ShownIs
  <2>2. ASSUME NEW path \in Paths PROVE Shown(path) \in Contents \cup {Absent}
    <3>1. CASE path \in Redirected
      <4>1. \A i \in EmuFds : open_files[i].path # path
        BY <1>2, Constants, Params
      <4>2. card[path] \in Contents \cup {Absent}
        BY <1>1, <3>1, NandEmulationAssumption DEF NandEmulationAssumption
      <4> QED
        BY <2>1, <3>1, <4>1, <4>2 DEF ShownFact
    <3>2. CASE path \notin Redirected
      <4>1. nand[path] \in Contents \cup {Absent}
        BY <1>1, NandEmulationAssumption DEF NandEmulationAssumption
      <4> QED
        BY <2>1, <3>2, <4>1 DEF ShownFact
    <3> QED
      BY <3>1, <3>2
  <2> QED
    BY <2>2 DEF SeenFiles
<1>11. SeenAsked = Nothing
  BY <1>2, <1>8 DEF SeenAsked, Unanswered
<1> QED
  BY <1>2, <1>5, <1>9, <1>10, <1>11, SeenStarts

\* The emulation keeps what it promises the game (FilesystemHook, HandleFSMessage and
\* MoveTo together): every step of theirs is a step of NandFiles, or is not seen.
THEOREM NandBehavesAsFiles == Spec => ImplementsNandFiles
<1>1. Init => IndInv /\ SeenInv /\ Seen!Init
  BY InitKeeps, InitIsSeen
<1>2. IndInv /\ SeenInv /\ [Next]_vars => IndInv' /\ SeenInv' /\ [Seen!Next]_(Seen!vars)
  BY NextKeeps, NextIsSeen
<1> QED
  BY <1>1, <1>2, PTL DEF Spec, ImplementsNandFiles, Seen!Spec
=============================================================================
