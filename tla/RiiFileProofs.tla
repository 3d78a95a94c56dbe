--------------------------- MODULE RiiFileProofs ----------------------------
(***************************************************************************)
(* Proofs about RiiFile, for files of any size and any contents: if nobody *)
(* writes or syncs where a read came up short, or syncs between a seek and *)
(* what it is for, the client's and the server's positions agree and the   *)
(* file is treated no differently than one on an SD card.                  *)
(***************************************************************************)
EXTENDS RiiFile, SequenceTheorems, TLAPS

Careful == WriteAfterShortRead = FALSE /\ SyncAtAnyTime = FALSE

\* PositionsAgree, with the position that only a careless caller makes negative.
IndInv == PositionsAgree /\ Position >= 0

-----------------------------------------------------------------------------
(* What is in a file *)

LEMMA SizeIsNat == MaxSize \in Nat
BY RiiFileAssumption DEF RiiFileAssumption

LEMMA FileType ==
  ASSUME NEW T, NEW f \in UNION {[1..n -> T] : n \in 0..MaxSize}
  PROVE  Len(f) \in 0..MaxSize /\ f \in [1..Len(f) -> T] /\ f \in Seq(T)
<1>1. PICK n \in 0..MaxSize : f \in [1..n -> T]
  OBVIOUS
<1>2. n \in Nat
  BY SizeIsNat
<1>3. f \in Seq(T) /\ Len(f) = n
  BY <1>1, <1>2
<1> QED
  BY <1>1, <1>3

LEMMA MakeFile ==
  ASSUME NEW T, NEW n \in 0..MaxSize, NEW f \in [1..n -> T]
  PROVE  f \in UNION {[1..k -> T] : k \in 0..MaxSize} /\ Len(f) = n
<1>1. n \in Nat
  BY SizeIsNat
<1>2. f \in Seq(T) /\ Len(f) = n
  BY <1>1
<1> QED
  BY <1>2

Files == UNION {[1..n -> Bytes \cup {0}] : n \in 0..MaxSize}

LEMMA EmptyFile == << >> \in Files /\ Len(<< >>) = 0
<1>1. << >> \in [1..0 -> Bytes \cup {0}] /\ 0 \in 0..MaxSize
  BY SizeIsNat
<1> QED
  BY <1>1 DEF Files

\* A write changes a file into a file.
LEMMA OverwriteType ==
  ASSUME NEW f \in Files, NEW d \in Data, NEW p \in 0..MaxSize, p + Len(d) <= MaxSize
  PROVE  Card!Overwrite(f, p, d) \in Files
<1>1. Len(f) \in 0..MaxSize /\ f \in [1..Len(f) -> Bytes \cup {0}]
  BY FileType DEF Files
<1>2. Len(d) \in 0..MaxSize /\ d \in [1..Len(d) -> Bytes]
  BY FileType DEF Data, Card!Data
<1>3. CASE d = << >>
  BY <1>3 DEF Card!Overwrite
<1>4. CASE d # << >>
  <2> DEFINE size == Card!Greater(Len(f), p + Len(d))
             g == Card!Overwrite(f, p, d)
  <2>1. size \in 0..MaxSize
    BY <1>1, <1>2, SizeIsNat DEF Card!Greater
  <2>2. g \in [1..size -> Bytes \cup {0}]
    <3>1. g = [i \in 1..size |-> IF i \in p + 1 .. p + Len(d) THEN d[i - p]
                                 ELSE IF i <= Len(f) THEN f[i] ELSE 0]
      BY <1>4 DEF Card!Overwrite, Card!Zero
    <3>2. ASSUME NEW i \in 1..size PROVE
            (IF i \in p + 1 .. p + Len(d) THEN d[i - p]
             ELSE IF i <= Len(f) THEN f[i] ELSE 0) \in Bytes \cup {0}
      <4>1. CASE i \in p + 1 .. p + Len(d)
        <5>1. i - p \in 1..Len(d)
          BY <1>2, <2>1, <4>1, SizeIsNat
        <5> QED
          BY <1>2, <4>1, <5>1
      <4>2. CASE i \notin p + 1 .. p + Len(d)
        <5>1. i <= Len(f) => i \in 1..Len(f)
          BY <1>1, <2>1
        <5> QED
          BY <1>1, <4>2, <5>1
      <4> QED
        BY <4>1, <4>2
    <3> HIDE DEF size, g
    <3> QED
      BY <3>1, <3>2
  <2> QED
    BY <2>1, <2>2, MakeFile DEF Files
<1> QED
  BY <1>3, <1>4

\* A read gives what there is, as much as was asked for.
LEMMA SliceLength ==
  ASSUME NEW f \in Files, NEW p \in 0..MaxSize, NEW n \in 0..MaxSize
  PROVE  /\ Len(Card!Slice(f, p, n)) \in 0..n
         /\ p + Len(Card!Slice(f, p, n)) \in 0..MaxSize
         /\ Len(Card!Slice(f, p, n)) < n => p + Len(Card!Slice(f, p, n)) >= Len(f)
         /\ p >= Len(f) => Card!Slice(f, p, n) = << >>
<1> DEFINE last == Card!Lesser(p + n, Len(f))
           l == Len(Card!Slice(f, p, n))
<1>1. Len(f) \in 0..MaxSize /\ f \in [1..Len(f) -> Bytes \cup {0}]
  BY FileType DEF Files
<1>2. Len(f) \in Nat /\ p \in Nat /\ n \in Nat /\ Len(f) <= MaxSize /\ p <= MaxSize
  BY <1>1, SizeIsNat
<1>3. last = IF p + n < Len(f) THEN p + n ELSE Len(f)
  BY DEF Card!Lesser
<1>4. Card!Slice(f, p, n) = SubSeq(f, p + 1, last)
  BY DEF Card!Slice
<1> HIDE DEF last
<1>5. last \in Int /\ p + 1 \in Int /\ last <= p + n /\ last <= Len(f)
  BY <1>2, <1>3
<1>6. \A i \in p + 1 .. last : f[i] \in Bytes \cup {0}
  <2>1. \A i \in p + 1 .. last : i \in 1..Len(f)
    BY <1>2, <1>5
  <2> QED
    BY <1>1, <2>1
<1>7. l = IF p + 1 <= last THEN last - (p + 1) + 1 ELSE 0
  BY <1>4, <1>5, <1>6, SubSeqProperties
<1>8. p >= Len(f) => Card!Slice(f, p, n) = << >>
  <2>1. p >= Len(f) => last < p + 1
    BY <1>2, <1>5
  <2> QED
    BY <1>4, <1>5, <2>1, SubSeqEmpty
<1> HIDE DEF l
<1>9. l \in 0..n /\ p + l \in 0..MaxSize /\ (l < n => p + l >= Len(f))
  BY <1>2, <1>3, <1>7, SizeIsNat
<1> QED
  BY <1>8, <1>9 DEF l

-----------------------------------------------------------------------------
(* The invariant *)

LEMMA Facts ==
  ASSUME IndInv
  PROVE  /\ contents \in Files /\ opened \in Modes \cup {Closed}
         /\ Position \in 0..MaxSize /\ SeekDirty \in BOOLEAN
         /\ pos \in 0..MaxSize /\ fail \in BOOLEAN
         /\ Len(contents) \in 0..MaxSize
<1>1. contents \in Files /\ Position \in 0..MaxSize
  BY SizeIsNat DEF IndInv, PositionsAgree, TypeOK, Files
<1> QED
  BY <1>1, FileType DEF IndInv, PositionsAgree, TypeOK, Files

LEMMA MakeInv ==
  ASSUME (contents \in Files)', opened' \in Modes \cup {Closed},
         Position' \in 0..MaxSize, SeekDirty' \in BOOLEAN, pos' \in 0..MaxSize, fail' \in BOOLEAN,
         opened' # Closed /\ ~ SeekDirty' => Position' = pos',
         opened' # Closed /\ ~ SeekDirty' /\ fail' /\ In(opened') => pos' >= Len(contents')
  PROVE  IndInv'
<1>1. Position' \in -1..MaxSize /\ Position' >= 0
  BY SizeIsNat
<1> QED
  BY <1>1 DEF IndInv, PositionsAgree, TypeOK, Files

\* When a read or a write is about to happen, the server is where the client is.
LEMMA FlushedAgrees ==
  ASSUME IndInv, opened # Closed
  PROVE  /\ Flushed.pos = Position /\ Flushed.fail \in BOOLEAN
         /\ Flushed.fail /\ In(opened) => Position >= Len(contents)
<1>1. CASE SeekDirty
  <2>1. Position >= 0
    BY DEF IndInv
  <2> QED
    BY <1>1, <2>1 DEF Flushed, Sought
<1>2. CASE ~ SeekDirty
  BY <1>2, Facts DEF Flushed, IndInv, PositionsAgree
<1> QED
  BY <1>1, <1>2

LEMMA ReadGot ==
  ASSUME IndInv, NEW n \in 0..MaxSize, Read(n)
  PROVE  \E got :
           /\ got = IF In(opened) THEN Card!Slice(contents, Position, n) ELSE << >>
           /\ Len(got) \in 0..n /\ Position + Len(got) \in 0..MaxSize
           /\ pos' = Position + Len(got) /\ Position' = Position + Len(got)
           /\ fail' \in BOOLEAN
           /\ fail' /\ In(opened) => pos' >= Len(contents)
           /\ result' = Called("read", n, got)
<1>1. /\ Flushed.pos = Position /\ Flushed.fail \in BOOLEAN
      /\ Flushed.fail /\ In(opened) => Position >= Len(contents)
  BY FlushedAgrees DEF Read
<1> DEFINE whole == Card!Slice(contents, Position, n)
           got == IF In(opened) /\ ~ Flushed.fail THEN whole ELSE << >>
<1>2. /\ Len(whole) \in 0..n /\ Position + Len(whole) \in 0..MaxSize
      /\ Len(whole) < n => Position + Len(whole) >= Len(contents)
      /\ Position >= Len(contents) => whole = << >>
  BY Facts, SliceLength
<1>3. /\ pos' = Position + Len(got) /\ fail' = (Flushed.fail \/ Len(got) < n)
      /\ Position' = Position + Len(got) /\ result' = Called("read", n, got)
  BY <1>1 DEF Read, Advance
<1>4. got = IF In(opened) THEN whole ELSE << >>
  BY <1>1, <1>2
<1> HIDE DEF whole
<1>5. Len(got) \in 0..n /\ Position + Len(got) \in 0..MaxSize
  <2>1. CASE In(opened)
    BY <1>2, <1>4, <2>1
  <2>2. CASE ~ In(opened)
    BY <1>4, <2>2, EmptyFile, Facts, SizeIsNat
  <2> QED
    BY <2>1, <2>2
<1>6. fail' /\ In(opened) => pos' >= Len(contents)
  <2> SUFFICES ASSUME fail', In(opened) PROVE pos' >= Len(contents)
    OBVIOUS
  <2>1. CASE Flushed.fail
    <3>1. Position >= Len(contents) /\ got = << >>
      BY <1>1, <2>1
    <3>2. pos' = Position + 0
      BY <1>3, <3>1, EmptyFile
    <3> QED
      BY <3>1, <3>2, Facts
  <2>2. CASE ~ Flushed.fail
    BY <1>2, <1>3, <1>4, <2>2
  <2> QED
    BY <2>1, <2>2
<1> HIDE DEF got
<1>7. fail' \in BOOLEAN
  BY <1>1, <1>3
<1> QED
  BY <1>3, <1>4, <1>5, <1>6, <1>7 DEF whole

LEMMA DataLength ==
  ASSUME NEW d \in Data
  PROVE  Len(d) \in 0..MaxSize
BY FileType DEF Data, Card!Data

LEMMA WriteEffect ==
  ASSUME Careful, IndInv, NEW d \in Data, Write(d)
  PROVE  /\ Position + Len(d) \in 0..MaxSize /\ ~ fail'
         /\ pos' = Position'
         /\ \/ /\ Out(opened)
               /\ contents' = Card!Overwrite(contents, Position, d)
               /\ Position' = Position + Len(d)
               /\ result' = Called("write", d, Len(d))
            \/ /\ ~ Out(opened)
               /\ contents' = contents
               /\ Position' = Position
               /\ result' = Called("write", d, 0)
<1>1. Flushed.pos = Position /\ Flushed.fail = FALSE
  BY FlushedAgrees DEF Write, Careful
<1>2. Position + Len(d) \in 0..MaxSize
  BY DataLength, Facts, SizeIsNat DEF Write
<1>3. CASE Out(opened)
  BY <1>1, <1>2, <1>3, Facts DEF Write
<1>4. CASE ~ Out(opened)
  <2>1. /\ contents' = contents /\ pos' = Position /\ fail' = FALSE
        /\ Position' = Position + 0 /\ result' = Called("write", d, 0)
    BY <1>1, <1>4 DEF Write
  <2>2. Position' = Position
    BY <2>1, Facts
  <2> QED
    BY <1>2, <1>4, <2>1, <2>2
<1> QED
  BY <1>3, <1>4

LEMMA SeekEndEffect ==
  ASSUME IndInv, NEW off \in -MaxSize..MaxSize, SeekEnd(off)
  PROVE  /\ Len(contents) + off \in Int /\ Len(contents) + off <= MaxSize
         /\ ~ fail'
         /\ \/ Len(contents) + off >= 0 /\ Position' = Len(contents) + off /\ pos' = Position'
            \/ ~ (Len(contents) + off >= 0) /\ Position' = Position /\ pos' = pos
<1>1. Len(contents) + off \in Int /\ Len(contents) + off <= MaxSize
  <2>1. Len(contents) \in Int /\ off \in Int
    BY Facts, SizeIsNat
  <2>2. Len(contents) + off <= MaxSize
    BY Zenon DEF SeekEnd
  <2> QED
    BY <2>1, <2>2
<1> DEFINE target == Len(contents) + off
           s == Sought(pos, fail, target)
<1>2. pos' = s.pos /\ fail' = s.fail /\ Position' = IF s.ret = 0 THEN s.pos ELSE Position
  BY DEF SeekEnd
<1> HIDE DEF target
<1>3. s.fail = FALSE /\ (target >= 0 => s.ret = 0 /\ s.pos = target)
      /\ (~ (target >= 0) => s.ret = -1 /\ s.pos = pos)
  BY DEF Sought
<1> HIDE DEF s
<1> QED
  BY <1>1, <1>2, <1>3 DEF target

LEMMA Kept ==
  ASSUME Careful, IndInv, Next
  PROVE  IndInv'
<1> USE Facts
<1>1. CASE Tell
  BY <1>1, MakeInv DEF Tell, info, stream, IndInv, PositionsAgree
<1>2. CASE Sync
  <2>1. Position' = pos /\ ~ fail /\ ~ SeekDirty /\ UNCHANGED <<contents, opened, SeekDirty, pos, fail>>
    BY <1>2 DEF Sync, Careful, stream
  <2> QED
    BY <2>1, MakeInv
<1>3. CASE Close
  <2>1. 0 \in 0..MaxSize
    BY SizeIsNat
  <2> QED
    BY <1>3, <2>1, MakeInv DEF Close
<1>4. ASSUME NEW mode \in Modes, Open(mode) PROVE IndInv'
  <2>1. 0 \in 0..MaxSize
    BY SizeIsNat
  <2>2. (contents \in Files)'
    BY <1>4, EmptyFile DEF Open, Files
  <2> QED
    BY <1>4, <2>1, <2>2, MakeInv DEF Open
<1>5. ASSUME NEW n \in 0..MaxSize, Read(n) PROVE IndInv'
  <2>1. SeekDirty' = FALSE /\ UNCHANGED <<contents, opened>> /\ (contents \in Files)'
    BY <1>5 DEF Read, Files
  <2>2. /\ pos' = Position' /\ Position' \in 0..MaxSize /\ fail' \in BOOLEAN
        /\ fail' /\ In(opened) => pos' >= Len(contents)
    BY <1>5, ReadGot
  <2> QED
    BY <2>1, <2>2, MakeInv
<1>6. ASSUME NEW d \in Data, Write(d) PROVE IndInv'
  <2>1. SeekDirty' = FALSE /\ opened' = opened
    BY <1>6 DEF Write
  <2>2. /\ pos' = Position' /\ fail' \in BOOLEAN /\ ~ fail'
        /\ Position' = Position \/ Position' = Position + Len(d)
        /\ Position + Len(d) \in 0..MaxSize
    <3>1. fail' \in BOOLEAN
      BY <1>6, FlushedAgrees DEF Write
    <3> QED
      BY <1>6, <3>1, WriteEffect, Zenon
  <2>3. (contents \in Files)'
    <3>1. contents' = contents \/ contents' = Card!Overwrite(contents, Position, d)
      BY <1>6, WriteEffect
    <3>2. Position + Len(d) <= MaxSize
      BY <1>6 DEF Write
    <3> QED
      BY <3>1, <3>2, OverwriteType DEF Files
  <2> QED
    BY <2>1, <2>2, <2>3, MakeInv
<1>7. ASSUME NEW target, NEW call, NEW arg, SeekLocally(target, call, arg) PROVE IndInv'
  <2>1. /\ Position' = target /\ target \in 0..MaxSize /\ SeekDirty' \in BOOLEAN
        /\ SeekDirty' = FALSE => SeekDirty = FALSE /\ target = Position
        /\ opened # Closed /\ UNCHANGED <<contents, opened, pos, fail>>
    BY <1>7 DEF SeekLocally, stream
  <2> QED
    BY <2>1, MakeInv DEF IndInv, PositionsAgree
<1>8. ASSUME NEW off \in -MaxSize..MaxSize, SeekEnd(off) PROVE IndInv'
  <2>1. UNCHANGED <<contents, opened, SeekDirty>> /\ opened # Closed
    BY <1>8 DEF SeekEnd
  <2>2. /\ Position' \in 0..MaxSize /\ pos' \in 0..MaxSize /\ fail' = FALSE
        /\ ~ SeekDirty => Position' = pos'
    <3>1. fail' = FALSE
      BY <1>8 DEF SeekEnd, Sought
    <3>2. CASE Len(contents) + off >= 0
      BY <1>8, <3>1, <3>2, SeekEndEffect, SizeIsNat
    <3>3. CASE ~ (Len(contents) + off >= 0)
      BY <1>8, <2>1, <3>1, <3>3, SeekEndEffect DEF IndInv, PositionsAgree
    <3> QED
      BY <3>2, <3>3
  <2> QED
    BY <2>1, <2>2, MakeInv
<1> QED
  BY <1>1, <1>2, <1>3, <1>4, <1>5, <1>6, <1>7, <1>8 DEF Next

-----------------------------------------------------------------------------
(* Theorems *)

LEMMA InitInv == Init => IndInv
<1> SUFFICES ASSUME Init PROVE IndInv
  OBVIOUS
<1>1. contents \in Files /\ 0 \in 0..MaxSize /\ 0 \in -1..MaxSize
  BY EmptyFile, SizeIsNat DEF Init
<1>2. TypeOK
  BY <1>1 DEF Init, TypeOK, Files
<1>3. Position = 0 /\ pos = 0 /\ fail = FALSE /\ 0 >= 0
  BY DEF Init
<1> QED
  BY <1>2, <1>3 DEF IndInv, PositionsAgree

\* The client's position is the server's, or the server will be told before the
\* next read or write, and a stream that has failed refuses nothing that is there
\* to read (DIRTY_SEEK, RiiHandler::Read, Write, Seek, Connection::WaitForAction).
THEOREM PositionsStayInStep ==
  ASSUME Careful
  PROVE  Spec => []PositionsAgree
<1>1. Init => IndInv
  BY InitInv
<1>2. IndInv /\ [Next]_vars => IndInv'
  <2> SUFFICES ASSUME IndInv, [Next]_vars PROVE IndInv'
    OBVIOUS
  <2>1. CASE Next
    BY <2>1, Kept, Zenon
  <2>2. CASE UNCHANGED vars
    BY <2>2 DEF vars, info, stream, IndInv, PositionsAgree, TypeOK
  <2> QED
    BY <2>1, <2>2
<1>3. IndInv => PositionsAgree
  BY DEF IndInv
<1> QED
  BY <1>1, <1>2, <1>3, PTL DEF Spec

\* Every call does what it does to a file on a card, or the step is a stutter.
LEMMA StepImplements ==
  ASSUME Careful, IndInv, Next
  PROVE  Card!Next
<1>1. CASE Tell
  BY <1>1, Zenon DEF Tell, info, Card!Next, Card!Tell, Called, Closed
<1>2. CASE Sync
  <2>1. Position' = Position
    BY <1>2 DEF Sync, Careful, IndInv, PositionsAgree
  <2>2. Card!Sync
    BY <1>2, <2>1 DEF Sync, Card!Sync, Called, Closed
  <2> QED
    BY <2>2 DEF Card!Next
<1>3. CASE Close
  BY <1>3, Zenon DEF Close, Card!Next, Card!Close, Called, Closed
<1>4. ASSUME NEW mode \in Modes, Open(mode) PROVE Card!Next
  <2>1. Card!Open(mode)
    BY <1>4 DEF Open, Card!Open, Called, Closed
  <2> QED
    BY <2>1 DEF Card!Next
<1>5. ASSUME NEW n \in 0..MaxSize, Read(n) PROVE Card!Next
  <2>1. PICK got :
          /\ got = IF In(opened) THEN Card!Slice(contents, Position, n) ELSE << >>
          /\ Position' = Position + Len(got)
          /\ result' = Called("read", n, got)
    BY <1>5, ReadGot
  <2>2. opened # Closed /\ UNCHANGED <<contents, opened>>
    BY <1>5 DEF Read
  <2>3. CASE In(opened)
    <3>1. Card!Read(n)
      BY <2>1, <2>2, <2>3 DEF Card!Read, Called, Closed
    <3> QED
      BY <3>1 DEF Card!Next
  <2>4. CASE ~ In(opened)
    <3>1. "O_WRONLY" \in opened
      <4>1. opened \in Modes
        BY <2>2, Facts
      <4> QED
        BY <2>4, <4>1, RiiFileAssumption DEF In, RiiFileAssumption
    <3>2. Position' = Position
      BY <2>1, <2>4, EmptyFile, Facts
    <3>3. Card!ReadRefused(n)
      BY <2>1, <2>2, <2>4, <3>1, <3>2 DEF Card!ReadRefused, Called
    <3> QED
      BY <3>3 DEF Card!Next
  <2> QED
    BY <2>3, <2>4
<1>6. ASSUME NEW d \in Data, Write(d) PROVE Card!Next
  <2>1. opened # Closed /\ opened' = opened
    BY <1>6 DEF Write
  <2>2. CASE /\ Out(opened)
             /\ contents' = Card!Overwrite(contents, Position, d)
             /\ Position' = Position + Len(d)
             /\ result' = Called("write", d, Len(d))
    <3>1. Card!Write(d)
      <4>1. opened \cap {"O_WRONLY", "O_RDWR"} # {}
        BY <2>2 DEF Out
      <4> QED
        BY <2>1, <2>2, <4>1, Zenon DEF Card!Write, Called
    <3> QED
      BY <3>1 DEF Card!Next, Data
  <2>3. CASE ~ Out(opened) /\ contents' = contents /\ Position' = Position
             /\ result' = Called("write", d, 0)
    <3>1. Card!WriteRefused(d)
      <4>1. opened \cap {"O_WRONLY", "O_RDWR"} = {}
        BY <2>3 DEF Out
      <4> QED
        BY <2>1, <2>3, <4>1, Zenon DEF Card!WriteRefused, Called, Closed
    <3> QED
      BY <3>1 DEF Card!Next, Data
  <2> QED
    BY <1>6, <2>2, <2>3, WriteEffect
<1>7. ASSUME NEW target, NEW call, NEW arg, SeekLocally(target, call, arg)
      PROVE  Card!Seek(target, call, arg)
  <2>1. target >= 0
    BY <1>7, SizeIsNat DEF SeekLocally
  <2> QED
    BY <1>7, <2>1 DEF SeekLocally, Card!Seek, Called, Closed
<1>8. ASSUME NEW off \in -MaxSize..MaxSize, SeekEnd(off)
      PROVE  Card!Seek(Len(contents) + off, "seek end", off)
  <2>1. /\ opened # Closed /\ UNCHANGED <<contents, opened>>
        /\ result' = Called("seek end", off, Position')
    BY <1>8 DEF SeekEnd
  <2>2. Position' = IF Len(contents) + off >= 0 THEN Len(contents) + off ELSE Position
    BY <1>8, SeekEndEffect
  <2> QED
    BY <2>1, <2>2, Zenon DEF Card!Seek, Called, Closed
<1> QED
  BY <1>1, <1>2, <1>3, <1>4, <1>5, <1>6, <1>7, <1>8 DEF Next, Card!Next

\* A file over RiiFS is treated no differently than one on an SD card: every
\* behaviour of the handler and the server is one of a plain file, call by call
\* and answer by answer (RiiHandler, Connection::WaitForAction).
THEOREM TreatedLikeACardFile ==
  ASSUME Careful
  PROVE  Spec => ImplementsPlainFile
<1>1. Init => IndInv
  BY InitInv
<1>2. Init => Card!Init
  BY DEF Init, Card!Init, Closed, Called
<1>3. IndInv /\ [Next]_vars => IndInv' /\ [Card!Next]_(Card!vars)
  <2> SUFFICES ASSUME IndInv, [Next]_vars PROVE IndInv' /\ [Card!Next]_(Card!vars)
    OBVIOUS
  <2>1. CASE Next
    BY <2>1, Kept, StepImplements, Zenon
  <2>2. CASE UNCHANGED vars
    BY <2>2 DEF vars, info, stream, IndInv, PositionsAgree, TypeOK, Card!vars
  <2> QED
    BY <2>1, <2>2
<1> QED
  BY <1>1, <1>2, <1>3, PTL DEF Spec, ImplementsPlainFile, Card!Spec

\* Where nobody writes after a short read, a write that reports its length has
\* put the data where the position was; that it need not do so otherwise is what
\* a run shows (Connection::WaitForAction, FileWrite).
THEOREM CarefulWritesLand ==
  ASSUME Careful
  PROVE  Spec => WritesLand
<1> DEFINE Landed == result'.call = "write" /\ opened' = opened /\ result'.ret = Len(result'.arg)
                       => contents' = Card!Overwrite(contents, Position, result'.arg)
<1>1. Init => IndInv
  BY InitInv
<1>2. IndInv /\ [Next]_vars => IndInv' /\ [Landed]_vars
  <2> SUFFICES ASSUME IndInv, [Next]_vars PROVE IndInv' /\ [Landed]_vars
    OBVIOUS
  <2>1. CASE Next
    <3>1. IndInv'
      BY <2>1, Kept, Zenon
    <3>2. ASSUME NEW d \in Data, Write(d) PROVE Landed
      <4>1. d = << >> => Card!Overwrite(contents, Position, d) = contents
        BY DEF Card!Overwrite
      <4>2. Len(d) = 0 => d = << >>
        BY EmptySeq, FileType DEF Data, Card!Data
      <4> QED
        BY <3>2, <4>1, <4>2, WriteEffect DEF Called, Card!Called
    <3>3. ASSUME \A d \in Data : ~ Write(d) PROVE Landed
      <4>1. result'.call # "write"
        <5>1. CASE Tell \/ Sync \/ Close
          BY <5>1 DEF Tell, Sync, Close, Called, Card!Called
        <5>2. CASE \E mode \in Modes : Open(mode)
          BY <5>2 DEF Open, Called, Card!Called
        <5>3. CASE \E n \in 0..MaxSize : Read(n)
          BY <5>3 DEF Read, Called, Card!Called
        <5>4. ASSUME NEW target, NEW call, NEW arg, SeekLocally(target, call, arg)
              PROVE  result'.call = call
          BY <5>4 DEF SeekLocally, Called, Card!Called
        <5>5. ASSUME NEW off, SeekEnd(off) PROVE result'.call = "seek end"
          BY <5>5, Zenon DEF SeekEnd, Called, Card!Called
        <5>6. CASE \E off \in -MaxSize..MaxSize :
                     \/ SeekLocally(off, "seek set", off)
                     \/ SeekLocally(Position + off, "seek cur", off)
                     \/ SeekEnd(off)
          BY <5>4, <5>5, <5>6
        <5> QED
          BY <2>1, <3>3, <5>1, <5>2, <5>3, <5>6, Zenon DEF Next
      <4> QED
        BY <4>1, Zenon
    <3> QED
      BY <3>1, <3>2, <3>3
  <2>2. CASE UNCHANGED vars
    BY <2>2 DEF vars, info, stream, IndInv, PositionsAgree, TypeOK
  <2> QED
    BY <2>1, <2>2
<1> QED
  BY <1>1, <1>2, PTL DEF Spec, WritesLand
=============================================================================
