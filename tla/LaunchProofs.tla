---------------------------- MODULE LaunchProofs ----------------------------
(***************************************************************************)
(* Proofs about Launch and the Filesystem under it, for any number of      *)
(* slots and any FAT devices: as long as fewer than ten RiiFS mounts are   *)
(* made, a path leads to the filesystem it names, the default and the log  *)
(* stay where they were put, and the registered patches reach their files; *)
(* and with one client that opens files it gets what it asks for and keeps *)
(* the handlers of its files.                                              *)
(***************************************************************************)
EXTENDS Launch, SequenceTheorems, FiniteSetTheorems, WellFoundedInduction, TLAPS

\* RiiFS mount points have one digit (with ten, the first is a prefix of the tenth).
FewMounts == MaxConnections < 10

\* One thread opens files (with two, one may take the other's long path).
OneClient == \A c, d \in Clients : c = d

-----------------------------------------------------------------------------
(* The inductive invariant *)

\* No two slots have the same filesystem, and no mount point is used again.
Mounts ==
  /\ Mounted \in [Slots -> Names \cup {Empty}] /\ Mounted[0] = Isfs
  /\ \A i, j \in Used : Mounted[i] = Mounted[j] => i = j
  /\ connection \in 0..MaxConnections
  /\ \A i \in Used, k \in 1..MaxConnections : Mounted[i] = Net(k) => k <= connection

ChosenStay ==
  /\ Default \in Used /\ LogFS \in Used \cup {-1}
  /\ Mounted[Default] = chosen.default
  /\ LogFS # -1 => Mounted[LogFS] = chosen.log
  /\ chosen \in [default : Names, log : Names \cup {Empty}]

Messages ==
  /\ Long_Path \in Paths \cup {NoPath}
  /\ opening \in [Clients -> Paths \cup {NoPath}] /\ file \in [Clients -> Names \cup {Empty}]
  /\ lookup.asked \in Paths \cup {NoPath} /\ lookup.used \in Paths \cup {NoPath, ShortName}
  /\ RightFilesystem

\* A registered path has its filesystem's mount point, or none if that is the
\* default; what patches need is not unmounted.
Launching ==
  /\ phase \in {"menu", "loader", "game"}
  /\ MountedByUs \subseteq Used \ {0} /\ UsedFilesystems \subseteq MountedByUs
  /\ phase = "menu" => patches = {} /\ UsedFilesystems = {} /\ Resting
  /\ \A patch \in patches :
       /\ patch.path \in Paths
       /\ \E i \in UsedFilesystems :
            /\ patch.from = Mounted[i]
            /\ patch.path.on = Mounted[i] \/ (patch.path.on = << >> /\ Default = i)

\* With one client: the long path is the one it has sent ahead, and what it opens
\* are the files of patches.
Opening ==
  /\ OpensWhatWasAsked
  /\ \A c \in Clients :
       /\ Long_Path = opening[c]
       /\ opening[c] # NoPath => \E patch \in patches : opening[c] = patch.path
       /\ file[c] # Empty => \E i \in UsedFilesystems : file[c] = Mounted[i]

IndInv == Mounts /\ ChosenStay /\ Messages /\ Launching
-----------------------------------------------------------------------------
(* Names *)

LEMMA Params == MaxMounted \in Nat \ {0} /\ MaxConnections \in 0..99
BY FilesystemAssumption DEF FilesystemAssumption

Slash == <<"/">>

\* The pieces that names and paths are made of.
Chars == STRING \cup {"isfs", "net", "empty", "......", "/"} \cup {Digit[i] : i \in 1..10}

LEMMA ShortNames ==
  /\ Isfs \in Seq(Chars) /\ Len(Isfs) = 1 /\ Isfs[1] = "isfs"
  /\ Empty \in Seq(Chars) /\ Len(Empty) = 1 /\ Empty[1] = "empty"
  /\ ShortName.on \in Seq(Chars) /\ Len(ShortName.on) = 1 /\ ShortName.on[1] = "......"
  /\ Slash \in Seq(Chars) /\ Len(Slash) = 1 /\ Slash[1] = "/"
<1>1. {"isfs", "empty", "......", "/"} \subseteq Chars
  BY DEF Chars
<1> QED
  BY <1>1 DEF Isfs, Empty, ShortName, Slash

LEMMA NetName ==
  ASSUME FewMounts, NEW k \in 1..MaxConnections
  PROVE  /\ Net(k) \in Seq(Chars) /\ Len(Net(k)) = 2
         /\ Net(k)[1] = "net" /\ Net(k)[2] = Digit[k + 1]
<1>1. k \in 1..9
  BY Params DEF FewMounts
<1>2. Digit[k + 1] \in Chars /\ "net" \in Chars
  BY <1>1 DEF Chars
<1>3. Digits(k) = <<Digit[k + 1]>>
  BY <1>1 DEF Digits
<1> DEFINE d == Digit[k + 1]
<1>4. Net(k) = <<"net">> \o <<d>>
  BY <1>3 DEF Net
<1>5. d \in Chars
  BY <1>2
<1> HIDE DEF d
<1>6. <<"net">> \in Seq(Chars) /\ Len(<<"net">>) = 1 /\ <<d>> \in Seq(Chars) /\ Len(<<d>>) = 1
  BY <1>2, <1>5
<1>7. /\ <<"net">> \o <<d>> \in Seq(Chars)
      /\ Len(<<"net">> \o <<d>>) = Len(<<"net">>) + Len(<<d>>)
      /\ \A i \in 1..Len(<<"net">>) + Len(<<d>>) :
           (<<"net">> \o <<d>>)[i] = IF i <= Len(<<"net">>) THEN <<"net">>[i] ELSE <<d>>[i - Len(<<"net">>)]
  BY <1>6, ConcatProperties, Zenon
<1>8. /\ Net(k) \in Seq(Chars) /\ Len(Net(k)) = 2
      /\ \A i \in 1..2 : Net(k)[i] = IF i <= 1 THEN <<"net">>[i] ELSE <<d>>[i - 1]
  BY <1>4, <1>6, <1>7
<1> QED
  BY <1>8 DEF d

LEMMA DigitsDiffer ==
  ASSUME NEW j \in 1..9, NEW k \in 1..9, Digit[j + 1] = Digit[k + 1]
  PROVE  j = k
BY DEF Digit

\* What can stand in a path for a mount point, and how it starts.
Places == Names \cup {<< >>, Empty, ShortName.on}

LEMMA NameKinds ==
  ASSUME FewMounts, NEW n \in Names
  PROVE  /\ n \in Seq(Chars) /\ n # << >> /\ Len(n) \in Nat \ {0} /\ n[1] \notin {"empty", "......", "/"}
         /\ \/ n = Isfs
            \/ n \in FatNames /\ n[1] \notin {"isfs", "net"}
            \/ \E k \in 1..MaxConnections : n = Net(k)
<1>1. CASE n = Isfs
  BY <1>1, ShortNames, EmptySeq
<1>2. CASE n \in FatNames
  <2>1. n \in Seq(Chars) /\ n # << >>
    <3>1. n \in Seq(STRING) /\ n # << >>
      BY <1>2, FatNamesAssumption DEF FatNamesAssumption
    <3>2. STRING \subseteq Chars
      BY DEF Chars
    <3> QED
      BY <3>1, <3>2, SeqMonotonic
  <2>2. n[1] \notin {"isfs", "net", "empty", "......", "/"}
    BY <1>2, FatNamesAssumption DEF FatNamesAssumption
  <2> QED
    BY <1>2, <2>1, <2>2, EmptySeq
<1>3. ASSUME NEW k \in 1..MaxConnections, n = Net(k)
      PROVE  n \in Seq(Chars) /\ n # << >> /\ Len(n) = 2 /\ n[1] = "net"
  BY <1>3, NetName, EmptySeq
<1> QED
  BY <1>1, <1>2, <1>3 DEF Names

LEMMA EmptyNoName == ASSUME FewMounts PROVE Empty \notin Names /\ << >> \notin Names /\ ShortName.on \notin Names
BY NameKinds, ShortNames

\* What begins a text starts as the text does.
LEMMA PrefixStarts ==
  ASSUME NEW s \in Seq(Chars), NEW t \in Seq(Chars), IsPrefix(s, t)
  PROVE  Len(s) <= Len(t) /\ \A i \in 1..Len(s) : s[i] = t[i]
<1>1. Len(s) \in Nat /\ Len(t) \in Nat /\ Len(s) <= Len(t) /\ SubSeq(s, 1, Len(s)) = SubSeq(t, 1, Len(s))
  BY LenProperties DEF IsPrefix
<1>2. SubSeq(s, 1, Len(s)) = s
  BY SubSeqFull
<1>3. \A i \in 1..Len(s) : t[i] \in Chars
  BY <1>1, ElementOfSeq
<1> DEFINE l == Len(s)
<1>4. \A i \in 1..l - 1 + 1 : SubSeq(t, 1, l)[i] = t[1 + i - 1]
  BY <1>1, <1>3, SubSeqProperties
<1>5. \A i \in 1..l : i \in 1..l - 1 + 1 /\ 1 + i - 1 = i
  BY <1>1
<1> QED
  BY <1>1, <1>2, <1>4, <1>5

\* The text of a path on n.
LEMMA TextOn ==
  ASSUME NEW n \in Seq(Chars)
  PROVE  /\ n \o Slash \in Seq(Chars) /\ Len(n \o Slash) = Len(n) + 1
         /\ \A i \in 1..Len(n) : (n \o Slash)[i] = n[i]
         /\ (n \o Slash)[Len(n) + 1] = "/"
<1>1. Len(n) \in Nat
  BY LenProperties
<1>2. /\ n \o Slash \in Seq(Chars) /\ Len(n \o Slash) = Len(n) + Len(Slash)
      /\ \A i \in 1..Len(n) + Len(Slash) :
           (n \o Slash)[i] = IF i <= Len(n) THEN n[i] ELSE Slash[i - Len(n)]
  BY ShortNames, ConcatProperties, Zenon
<1>3. Len(Slash) = 1 /\ Slash[1] = "/"
  BY ShortNames
<1> DEFINE t == n \o Slash
<1> HIDE DEF t
<1>4. /\ Len(t) = Len(n) + 1
      /\ \A i \in 1..Len(n) + 1 : t[i] = IF i <= Len(n) THEN n[i] ELSE Slash[i - Len(n)]
  BY <1>2, <1>3 DEF t
<1>5. t[Len(n) + 1] = "/"
  <2>1. Len(n) + 1 \in 1..Len(n) + 1 /\ ~ (Len(n) + 1 <= Len(n)) /\ (Len(n) + 1) - Len(n) = 1
    BY <1>1
  <2> QED
    BY <1>3, <1>4, <2>1
<1>6. \A i \in 1..Len(n) : t[i] = n[i]
  BY <1>1, <1>4
<1> QED
  BY <1>2, <1>4, <1>5, <1>6 DEF t

\* No mount point begins a path that is not its own.
LEMMA NamesApart ==
  ASSUME FewMounts, NEW m \in Names, NEW n \in Places, IsPrefix(m, n \o Slash)
  PROVE  m = n
<1>1. m \in Seq(Chars) /\ Len(m) \in Nat \ {0} /\ m[1] \notin {"empty", "......", "/"}
  BY NameKinds
<1>2. n \in Seq(Chars) /\ << >> \in Seq(Chars) /\ Len(<< >>) = 0
  BY NameKinds, ShortNames, EmptySeq DEF Places
<1> DEFINE t == n \o Slash
<1>3. /\ t \in Seq(Chars) /\ Len(t) = Len(n) + 1 /\ \A i \in 1..Len(n) : t[i] = n[i]
      /\ t[Len(n) + 1] = "/"
  BY <1>2, TextOn, Zenon
<1>4. Len(m) <= Len(t) /\ \A i \in 1..Len(m) : m[i] = t[i]
  BY <1>1, <1>3, PrefixStarts, Zenon
<1> HIDE DEF t
<1>5. m[1] = t[1]
  BY <1>1, <1>4
<1>6. n # << >> => t[1] = n[1]
  BY <1>2, <1>3, EmptySeq
<1>7. n = << >> => t[1] = "/"
  BY <1>2, <1>3
<1>8. n \in Names /\ m[1] = n[1]
  BY <1>1, <1>7, <1>5, <1>6, ShortNames DEF Places
<1>9. CASE m \in FatNames /\ m[1] \notin {"isfs", "net"}
  <2>1. n \in FatNames
    BY <1>8, <1>9, NameKinds, ShortNames, NetName
  <2> QED
    BY <1>9, <2>1, FatNamesAssumption DEF FatNamesAssumption, Slash
<1>10. CASE m = Isfs
  <2>1. n = Isfs
    BY <1>8, <1>10, NameKinds, ShortNames, NetName
  <2> QED
    BY <1>10, <2>1
<1>11. ASSUME NEW k \in 1..MaxConnections, m = Net(k) PROVE m = n
  <2>1. m[1] = "net" /\ Len(m) = 2 /\ m[2] = Digit[k + 1]
    BY <1>11, NetName
  <2>2. PICK j \in 1..MaxConnections : n = Net(j)
    BY <1>8, <2>1, NameKinds, ShortNames
  <2>3. Len(n) = 2 /\ n[2] = Digit[j + 1]
    BY <2>2, NetName
  <2>4. m[2] = n[2]
    BY <1>3, <1>4, <2>1, <2>3
  <2>5. j \in 1..9 /\ k \in 1..9
    BY Params DEF FewMounts
  <2>6. j = k
    BY <2>1, <2>3, <2>4, <2>5, DigitsDiffer
  <2> QED
    BY <1>11, <2>2, <2>6
<1> QED
  BY <1>9, <1>10, <1>11, NameKinds

\* A path leads to the slash that follows its own mount point.
LEMMA OwnPath ==
  ASSUME FewMounts, NEW m \in Names
  PROVE  /\ IsPrefix(m, m \o Slash)
         /\ SubSeq(m \o Slash, Len(m) + 1, Len(m \o Slash)) = Slash
<1>1. m \in Seq(Chars) /\ Len(m) \in Nat \ {0}
  BY NameKinds
<1>2. Slash \in Seq(Chars) /\ Len(Slash) = 1
  BY ShortNames
<1>3. Len(m \o Slash) = Len(m) + 1
  BY <1>1, TextOn
<1> DEFINE l == Len(m)
<1>4. SubSeq(m \o Slash, 1, l) = SubSeq(m, 1, l)
  <2>1. 1 \in 1..Len(m) /\ l \in 1..Len(m)
    BY <1>1
  <2> QED
    BY <1>1, <1>2, <2>1, SubSeqOfConcat1, Zenon
<1>5. SubSeq(m \o Slash, l + 1, l + 1) = SubSeq(Slash, (l + 1) - l, (l + 1) - l)
  <2>1. l + 1 \in Len(m) + 1 .. Len(m) + Len(Slash)
    BY <1>1, <1>2
  <2> QED
    BY <1>1, <1>2, <2>1, SubSeqOfConcat2, Zenon
<1>6. (l + 1) - l = 1 /\ l <= l + 1
  BY <1>1
<1>7. SubSeq(Slash, 1, 1) = Slash
  BY <1>2, SubSeqFull
<1> QED
  BY <1>3, <1>4, <1>5, <1>6, <1>7 DEF IsPrefix

-----------------------------------------------------------------------------
(* Slots *)

\* A nonempty set of slots has a first one.
LEMMA LeastSlot ==
  ASSUME NEW T \in SUBSET Slots, T # {}
  PROVE  Least(T) \in T
<1> DEFINE R == {ss \in Nat \X Nat : ss[1] < ss[2]}
<1>1. T \subseteq Nat
  BY Params DEF Slots
<1>2. IsWellFoundedOn(R, Nat)
  BY NatLessThanWellFounded, Zenon DEF OpToRel
<1> HIDE DEF R
<1>3. PICK m \in T : \A k \in T : <<k, m>> \notin R
  BY <1>1, <1>2, WFMin, Zenon
<1>4. \A k \in T : ~ (k < m)
  BY <1>1, <1>3 DEF R
<1>5. \A k \in T : m <= k
  BY <1>1, <1>4
<1> QED
  BY <1>5 DEF Least

LEMMA LeastOfOne == ASSUME NEW i \in Slots PROVE Least({i}) = i
BY LeastSlot

LEMMA FreeSlot ==
  ASSUME Mounts, Used # Slots
  PROVE  /\ Least(Slots \ Used) \in Slots \ Used
         /\ Mounted[Least(Slots \ Used)] = Empty /\ Least(Slots \ Used) # 0
<1>1. Slots \ Used # {} /\ Slots \ Used \in SUBSET Slots
  BY DEF Used
<1>2. Least(Slots \ Used) \in Slots \ Used
  BY <1>1, LeastSlot
<1> QED
  BY <1>2, ShortNames DEF Used, Mounts

LEMMA ZeroUsed == ASSUME FewMounts, Mounts PROVE 0 \in Used /\ Used \subseteq Slots
<1>1. 0 \in Slots
  BY Params DEF Slots
<1>2. Isfs # Empty
  BY EmptyNoName DEF Names
<1> QED
  BY <1>1, <1>2 DEF Mounts, Used

LEMMA UsedNames == ASSUME Mounts, NEW i \in Used PROVE i \in Slots /\ Mounted[i] \in Names
BY DEF Mounts, Used

\* The mount point that a path begins with is its own.
LEMMA Hits ==
  ASSUME FewMounts, Mounts, NEW path, path.on \in Places
  PROVE  {i \in Used : IsPrefix(Mounted[i], Text(path))} = {i \in Used : Mounted[i] = path.on}
<1>1. ASSUME NEW i \in Used, IsPrefix(Mounted[i], Text(path)) PROVE Mounted[i] = path.on
  BY <1>1, UsedNames, NamesApart DEF Text, Slash
<1>2. ASSUME NEW i \in Used, Mounted[i] = path.on PROVE IsPrefix(Mounted[i], Text(path))
  BY <1>2, UsedNames, OwnPath DEF Text, Slash
<1> QED
  BY <1>1, <1>2

\* A path with the mount point of a filesystem leads to it and to what follows.
LEMMA FoundNamed ==
  ASSUME FewMounts, Mounts, NEW path, path.on \in Places,
         NEW i \in Used, Mounted[i] = path.on
  PROVE  Found(path) = i /\ Rest(path) = <<"/">>
<1>1. {j \in Used : Mounted[j] = path.on} = {i}
  BY DEF Mounts
<1>2. Found(path) = i
  BY <1>1, Hits, LeastOfOne, UsedNames DEF Found
<1>3. /\ IsPrefix(Mounted[i], Text(path))
      /\ SubSeq(Text(path), Len(Mounted[i]) + 1, Len(Text(path))) = <<"/">>
  BY UsedNames, OwnPath DEF Text, Slash
<1> QED
  BY <1>2, <1>3 DEF Rest

\* Any other path leads to the default.
LEMMA FoundDefault ==
  ASSUME FewMounts, Mounts, NEW path, path.on \in Places,
         \A i \in Used : Mounted[i] # path.on
  PROVE  Found(path) = Default
BY Hits DEF Found

LEMMA FoundUsed ==
  ASSUME FewMounts, Mounts, ChosenStay, NEW path, path.on \in Places
  PROVE  Found(path) \in Used /\ Mounted[Found(path)] \in Names
<1>1. Found(path) \in Used
  BY FoundNamed, FoundDefault DEF ChosenStay
<1> QED
  BY <1>1, UsedNames

LEMMA RestOfUnnamed ==
  ASSUME FewMounts, Mounts, ChosenStay, NEW path, path.on = << >>
  PROVE  Found(path) = Default /\ Rest(path) = <<"/">>
<1>1. path.on \in Places /\ \A i \in Used : Mounted[i] # path.on
  BY UsedNames, EmptyNoName DEF Places
<1>2. Found(path) = Default
  BY <1>1, FoundDefault
<1>3. Default \in Used /\ Mounted[Default] \in Names
  BY UsedNames DEF ChosenStay
<1>4. ~ IsPrefix(Mounted[Default], Text(path))
  BY <1>1, <1>3, Hits
<1>5. Text(path) = Slash
  BY ConcatEmptySeq, ShortNames DEF Text, Slash
<1> QED
  BY <1>2, <1>4, <1>5 DEF Rest, Slash

LEMMA PathPlaces ==
  /\ \A path \in Paths : path.on \in Places /\ path.on \in Names \cup {<< >>} /\ path.long \in BOOLEAN
  /\ NoPath.on \in Places /\ ShortName.on \in Places
  /\ FewMounts => NoPath \notin Paths /\ ShortName \notin Paths /\ ShortName # NoPath
<1>1. \A path \in Paths : path.on \in Names \cup {<< >>} /\ path.long \in BOOLEAN
  BY DEF Paths
<1>2. NoPath.on = Empty
  BY DEF NoPath
<1>3. FewMounts => NoPath \notin Paths /\ ShortName \notin Paths
  <2>1. FewMounts => Empty \notin Names \cup {<< >>} /\ ShortName.on \notin Names \cup {<< >>}
    BY EmptyNoName, ShortNames, EmptySeq
  <2> QED
    BY <1>1, <1>2, <2>1
<1>4. ShortName # NoPath
  BY <1>2, ShortNames
<1> QED
  BY <1>1, <1>2, <1>3, <1>4 DEF Places

-----------------------------------------------------------------------------
(* The table of mounts *)

\* A new mount takes a free slot and a name of its own; nothing else moves.
LEMMA Mounting ==
  ASSUME FewMounts, Mounts, ChosenStay, NEW name \in Names,
         \A i \in Used : Mounted[i] # name,
         MountAs(name), UNCHANGED <<Default, LogFS, chosen>>,
         connection' \in 0..MaxConnections,
         \A k \in 1..MaxConnections : k <= connection \/ Net(k) = name => k <= connection'
  PROVE  Mounts' /\ ChosenStay'
<1> DEFINE s == Least(Slots \ Used)
<1>1. /\ s \in Slots \ Used /\ Mounted[s] = Empty /\ s # 0
      /\ Mounted' = [Mounted EXCEPT ![s] = name]
  BY FreeSlot DEF MountAs
<1> HIDE DEF s
<1>2. name # Empty
  BY EmptyNoName
<1>3. Used' = Used \cup {s} /\ s \notin Used /\ \A i \in Used : Mounted'[i] = Mounted[i]
  BY <1>1, <1>2 DEF Used, Mounts
<1>4. Mounted'[s] = name /\ Mounted' \in [Slots -> Names \cup {Empty}]
  BY <1>1 DEF Mounts
<1>5. Mounted'[0] = Isfs
  BY <1>3, ZeroUsed DEF Mounts
<1>6. \A i, j \in Used' : Mounted'[i] = Mounted'[j] => i = j
  BY <1>3, <1>4 DEF Mounts
<1>7. ASSUME NEW i \in Used', NEW k \in 1..MaxConnections, Mounted'[i] = Net(k)
      PROVE  k <= connection'
  <2>1. CASE i = s
    BY <1>4, <1>7, <2>1
  <2>2. CASE i \in Used
    BY <1>3, <1>7, <2>2 DEF Mounts
  <2> QED
    BY <1>3, <2>1, <2>2
<1>8. ChosenStay'
  BY <1>3 DEF ChosenStay
<1> QED
  BY <1>4, <1>5, <1>6, <1>7, <1>8 DEF Mounts

LEMMA NetNumbers ==
  ASSUME FewMounts, NEW j \in 1..MaxConnections, NEW k \in 1..MaxConnections, Net(j) = Net(k)
  PROVE  j = k
<1>1. j \in 1..9 /\ k \in 1..9
  BY Params DEF FewMounts
<1> QED
  BY <1>1, NetName, DigitsDiffer

LEMMA MountFatKept ==
  ASSUME FewMounts, Mounts, ChosenStay, NEW name \in FatNames, MountFat(name)
  PROVE  Mounts' /\ ChosenStay'
<1>1. /\ \A i \in Used : Mounted[i] # name
      /\ MountAs(name) /\ UNCHANGED <<Default, LogFS, connection, chosen>>
  BY DEF MountFat, Used
<1>2. name \in Names
  BY DEF Names
<1>3. \A k \in 1..MaxConnections : Net(k) # name
  BY NetName, FatNamesAssumption DEF FatNamesAssumption
<1>4. connection' \in 0..MaxConnections
  BY <1>1 DEF Mounts
<1> QED
  BY <1>1, <1>2, <1>3, <1>4, Mounting

LEMMA MountNetKept ==
  ASSUME FewMounts, Mounts, ChosenStay, MountNet
  PROVE  Mounts' /\ ChosenStay'
<1>1. /\ connection < MaxConnections /\ connection' = connection + 1
      /\ MountAs(Net(connection + 1)) /\ UNCHANGED <<Default, LogFS, chosen>>
  BY DEF MountNet
<1> DEFINE n == connection + 1
<1>2. n \in 1..MaxConnections /\ connection' \in 0..MaxConnections /\ connection \in Nat
  BY <1>1, Params DEF Mounts
<1>3. Net(n) \in Names
  BY <1>2 DEF Names
<1>4. \A i \in Used : Mounted[i] # Net(n)
  BY <1>2 DEF Mounts
<1>5. ASSUME NEW k \in 1..MaxConnections, k <= connection \/ Net(k) = Net(n)
      PROVE  k <= connection'
  <2>1. CASE k <= connection
    BY <1>1, <1>2, <2>1
  <2>2. CASE Net(k) = Net(n)
    <3>1. k = n
      BY <1>2, <2>2, NetNumbers
    <3> QED
      BY <1>1, <1>2, <3>1
  <2> QED
    BY <1>5, <2>1, <2>2
<1> QED
  BY <1>1, <1>2, <1>3, <1>4, <1>5, Mounting

\* What is unmounted takes the default and the log with it, if they were there,
\* and nothing that referred to another slot changes.
LEMMA UnmountKept ==
  ASSUME FewMounts, Mounts, ChosenStay, NEW i, Unmount(i)
  PROVE  /\ Mounts' /\ ChosenStay'
         /\ i \in Used \ {0} /\ Used' = Used \ {i}
         /\ \A j \in Used' : Mounted'[j] = Mounted[j]
         /\ Default # i => Default' = Default
<1>1. i \in Used \ {0} /\ Mounted' = [Mounted EXCEPT ![i] = Empty] /\ connection' = connection
  BY DEF Unmount
<1>2. Used' = Used \ {i} /\ \A j \in Used' : Mounted'[j] = Mounted[j]
  BY <1>1 DEF Used, Mounts
<1>3. 0 \in Used'
  BY <1>1, <1>2, ZeroUsed
<1>4. Mounts'
  <2>1. Mounted' \in [Slots -> Names \cup {Empty}] /\ Mounted'[0] = Isfs
    BY <1>1, <1>2, <1>3 DEF Mounts
  <2>2. Used' \subseteq Used
    BY <1>2
  <2> QED
    BY <1>1, <1>2, <2>1, <2>2 DEF Mounts
<1>5. /\ Default' = IF Default = i THEN 0 ELSE Default
      /\ LogFS' = IF LogFS = i THEN -1 ELSE LogFS
      /\ chosen' = [default |-> IF chosen.default = Mounted[i] THEN Isfs ELSE chosen.default,
                    log |-> IF chosen.log = Mounted[i] THEN Empty ELSE chosen.log]
  BY DEF Unmount, Reset
<1>6. chosen' \in [default : Names, log : Names \cup {Empty}]
  BY <1>5 DEF ChosenStay, Names
<1>7. Default' \in Used' /\ Mounted'[Default'] = chosen'.default
  <2>1. CASE Default = i
    BY <1>2, <1>3, <1>4, <1>5, <2>1 DEF ChosenStay, Mounts
  <2>2. CASE Default # i
    <3>1. Default \in Used' /\ Mounted[Default] # Mounted[i]
      BY <1>1, <1>2, <2>2 DEF ChosenStay, Mounts
    <3> QED
      BY <1>2, <1>5, <2>2, <3>1 DEF ChosenStay
  <2> QED
    BY <2>1, <2>2
<1>8. LogFS' \in Used' \cup {-1} /\ (LogFS' # -1 => Mounted'[LogFS'] = chosen'.log)
  <2>1. CASE LogFS = i \/ LogFS = -1
    BY <1>5, <2>1
  <2>2. CASE LogFS # i /\ LogFS # -1
    <3>1. LogFS \in Used' /\ Mounted[LogFS] # Mounted[i]
      BY <1>1, <1>2, <2>2 DEF ChosenStay, Mounts
    <3> QED
      BY <1>2, <1>5, <2>2, <3>1 DEF ChosenStay
  <2> QED
    BY <2>1, <2>2
<1> QED
  BY <1>1, <1>2, <1>4, <1>5, <1>6, <1>7, <1>8 DEF ChosenStay

LEMMA TableUnmoved ==
  ASSUME Mounts, UNCHANGED <<Mounted, connection>>
  PROVE  Mounts' /\ Used' = Used
BY DEF Mounts, Used

LEMMA ChoosingKept ==
  ASSUME FewMounts, Mounts, ChosenStay,
         \/ \E i : SetDefault(i) \/ SetLogFS(i)
         \/ \E path \in Paths : SetDefaultPath(path)
  PROVE  Mounts' /\ ChosenStay' /\ UNCHANGED Mounted
<1>1. ASSUME NEW i, SetDefault(i) PROVE Mounts' /\ ChosenStay' /\ UNCHANGED Mounted
  <2>1. /\ i \in Used /\ Default' = i /\ chosen' = [chosen EXCEPT !.default = Mounted[i]]
        /\ UNCHANGED <<Mounted, LogFS, connection>>
    BY <1>1 DEF SetDefault
  <2> QED
    BY <2>1, TableUnmoved, UsedNames DEF ChosenStay
<1>2. ASSUME NEW i, SetLogFS(i) PROVE Mounts' /\ ChosenStay' /\ UNCHANGED Mounted
  <2>1. /\ i \in Used \cup {-1} /\ LogFS' = i
        /\ chosen' = [chosen EXCEPT !.log = IF i = -1 THEN Empty ELSE Mounted[i]]
        /\ UNCHANGED <<Mounted, Default, connection>>
    BY <1>2 DEF SetLogFS
  <2> QED
    BY <2>1, TableUnmoved, UsedNames DEF ChosenStay
<1>3. ASSUME NEW path \in Paths, SetDefaultPath(path) PROVE Mounts' /\ ChosenStay' /\ UNCHANGED Mounted
  <2>1. /\ Default' = Found(path) /\ chosen' = [chosen EXCEPT !.default = Mounted[Found(path)]]
        /\ UNCHANGED <<Mounted, LogFS, connection>>
    BY <1>3 DEF SetDefaultPath
  <2>2. Found(path) \in Used /\ Mounted[Found(path)] \in Names
    BY FoundUsed, PathPlaces
  <2> QED
    BY <2>1, <2>2, TableUnmoved DEF ChosenStay
<1> QED
  BY <1>1, <1>2, <1>3

-----------------------------------------------------------------------------
(* Lookups and opens *)

LookupRight ==
  /\ lookup.asked \in Paths \cup {NoPath} /\ lookup.used \in Paths \cup {NoPath, ShortName}
  /\ RightFilesystem

LEMMA LookedRight ==
  ASSUME FewMounts, Mounts, ChosenStay,
         NEW asked \in Paths \cup {NoPath}, NEW used \in Paths \cup {NoPath, ShortName},
         Looked(asked, used), UNCHANGED Mounted
  PROVE  LookupRight' /\ lookup'.asked = asked /\ lookup'.used = used
         /\ lookup'.fs = Mounted[Found(used)] /\ lookup'.fs \in Names
<1>1. /\ lookup'.asked = asked /\ lookup'.used = used
      /\ lookup'.fs = Mounted[Found(used)] /\ lookup'.rest = Rest(used)
  BY DEF Looked
<1>2. used.on \in Places
  BY PathPlaces
<1>3. Mounted[Found(used)] \in Names
  BY <1>2, FoundUsed
<1>4. Used' = Used
  BY DEF Used
<1>5. \A i \in Used : Mounted[i] = used.on => Mounted[Found(used)] = used.on /\ Rest(used) = <<"/">>
  BY <1>2, FoundNamed
<1> QED
  BY <1>1, <1>3, <1>4, <1>5 DEF LookupRight, RightFilesystem

LEMMA NoLookupRight ==
  ASSUME lookup' = NoLookup
  PROVE  LookupRight' /\ lookup'.used = lookup'.asked
BY DEF NoLookup, NoPath, LookupRight, RightFilesystem, Used

\* A rename looks its destination up on the filesystem of its source.
LEMMA RenameRight ==
  ASSUME FewMounts, Mounts, ChosenStay,
         NEW source \in Paths, NEW dest \in Paths, Rename(source, dest)
  PROVE  LookupRight' /\ lookup'.used = lookup'.asked
<1>1. CASE Found(source) # Found(dest)
  BY <1>1, NoLookupRight DEF Rename
<1>2. CASE Found(source) = Found(dest)
  <2>1. Looked(dest, dest) /\ UNCHANGED Mounted
    BY <1>2 DEF Rename, Looked, table
  <2> QED
    BY <2>1, LookedRight
<1> QED
  BY <1>1, <1>2

LEMMA ShortenKept ==
  ASSUME Messages, NEW c \in Clients, NEW path \in Paths, Shorten(c, path)
  PROVE  Messages'
<1>1. /\ Long_Path' = path /\ opening' = [opening EXCEPT ![c] = path]
      /\ file' = file /\ lookup' = NoLookup
  BY DEF Shorten
<1>2. LookupRight'
  BY <1>1, NoLookupRight
<1> QED
  BY <1>1, <1>2 DEF Messages, LookupRight

LEMMA OpenedFile ==
  ASSUME FewMounts, Mounts, ChosenStay, Messages, NEW c \in Clients,
         NEW asked \in Paths, NEW path \in Paths \cup {ShortName}, HandleOpen(c, asked, path),
         opening' \in [Clients -> Paths \cup {NoPath}]
  PROVE  /\ Messages'
         /\ lookup'.asked = asked
         /\ lookup'.used = IF path = ShortName /\ Long_Path # NoPath THEN Long_Path ELSE path
         /\ file' = file \/ file' = [file EXCEPT ![c] = Mounted[Found(lookup'.used)]]
         /\ UNCHANGED table /\ Long_Path' = NoPath
<1> DEFINE used == IF path = ShortName /\ Long_Path # NoPath THEN Long_Path ELSE path
<1>1. /\ Looked(asked, used) /\ UNCHANGED table /\ Long_Path' = NoPath
      /\ file' \in {file, [file EXCEPT ![c] = lookup'.fs]}
  BY DEF HandleOpen
<1>2. used \in Paths \cup {NoPath, ShortName} /\ asked \in Paths \cup {NoPath}
  BY DEF Messages
<1> HIDE DEF used
<1>3. /\ LookupRight' /\ lookup'.asked = asked /\ lookup'.used = used
      /\ lookup'.fs = Mounted[Found(used)] /\ lookup'.fs \in Names
  BY <1>1, <1>2, LookedRight DEF table
<1>4. file' \in [Clients -> Names \cup {Empty}]
  BY <1>1, <1>3 DEF Messages
<1> QED
  BY <1>1, <1>3, <1>4 DEF Messages, LookupRight, used

LEMMA OpenKept ==
  ASSUME FewMounts, Mounts, ChosenStay, Messages, NEW c \in Clients, NEW path \in Paths, Open(c, path)
  PROVE  /\ Messages' /\ lookup'.asked = path /\ lookup'.used = path
         /\ opening[c] = NoPath /\ UNCHANGED opening
         /\ file' = file \/ file' = [file EXCEPT ![c] = Mounted[Found(path)]]
         /\ UNCHANGED table /\ Long_Path' = NoPath
<1>1. opening[c] = NoPath /\ HandleOpen(c, path, path) /\ opening' = opening
  BY DEF Open
<1>2. path # ShortName
  BY PathPlaces
<1> QED
  BY <1>1, <1>2, OpenedFile DEF Messages

LEMMA OpenShortenedKept ==
  ASSUME FewMounts, Mounts, ChosenStay, Messages, NEW c \in Clients, OpenShortened(c)
  PROVE  /\ Messages' /\ lookup'.asked = opening[c]
         /\ lookup'.used = IF Long_Path # NoPath THEN Long_Path ELSE ShortName
         /\ opening[c] \in Paths /\ opening' = [opening EXCEPT ![c] = NoPath]
         /\ file' = file \/ file' = [file EXCEPT ![c] = Mounted[Found(lookup'.used)]]
         /\ UNCHANGED table /\ Long_Path' = NoPath
<1>1. /\ opening[c] # NoPath /\ HandleOpen(c, opening[c], ShortName)
      /\ opening' = [opening EXCEPT ![c] = NoPath]
  BY DEF OpenShortened
<1>2. opening[c] \in Paths /\ opening' \in [Clients -> Paths \cup {NoPath}]
  BY <1>1 DEF Messages
<1> QED
  BY <1>1, <1>2, OpenedFile

LEMMA CloseKept ==
  ASSUME Messages, NEW c \in Clients, Close(c)
  PROVE  Messages'
<1>1. file' = [file EXCEPT ![c] = Empty] /\ lookup' = NoLookup /\ UNCHANGED <<Long_Path, opening>>
  BY DEF Close
<1>2. LookupRight'
  BY <1>1, NoLookupRight
<1> QED
  BY <1>1, <1>2 DEF Messages, LookupRight

LEMMA OnlyLookup ==
  ASSUME Messages, LookupRight', UNCHANGED <<Long_Path, clients>>
  PROVE  Messages'
BY DEF Messages, LookupRight, clients

-----------------------------------------------------------------------------
(* The launcher *)

LEMMA PatchFound ==
  ASSUME FewMounts, Mounts, ChosenStay, Launching, NEW patch \in patches
  PROVE  \E i \in UsedFilesystems :
           /\ Found(patch.path) = i /\ Mounted[i] = patch.from
           /\ Rest(patch.path) = <<"/">>
<1>1. PICK i \in UsedFilesystems :
        /\ patch.from = Mounted[i]
        /\ patch.path.on = Mounted[i] \/ (patch.path.on = << >> /\ Default = i)
  BY DEF Launching
<1>2. patch.path.on \in Places /\ i \in Used
  BY PathPlaces DEF Launching
<1>3. CASE patch.path.on = Mounted[i]
  BY <1>1, <1>2, <1>3, FoundNamed
<1>4. CASE patch.path.on = << >> /\ Default = i
  BY <1>1, <1>4, RestOfUnnamed
<1> QED
  BY <1>1, <1>3, <1>4

\* A step that leaves the table and the launcher alone, and that the menu does not take.
LEMMA LaunchingUnmoved ==
  ASSUME Launching, UNCHANGED <<Mounted, Default, launcher>>, phase # "menu"
  PROVE  Launching'
<1>1. Used' = Used
  BY DEF Used
<1> QED
  BY <1>1 DEF Launching, launcher

\* The menu looks at files and opens none.
LEMMA AtRest ==
  ASSUME IndInv, Opening, phase = "menu", Resting, UNCHANGED <<Long_Path, clients>>,
         lookup'.used = lookup'.asked
  PROVE  Opening'
BY DEF Opening, Resting, clients, OpensWhatWasAsked

LEMMA MenuMountsKept ==
  ASSUME FewMounts, IndInv, phase = "menu", Resting, MenuMounts
  PROVE  IndInv' /\ (Opening => Opening')
<1> DEFINE s == Least(Slots \ Used)
<1>1. /\ Used # Slots /\ MountedByUs' = MountedByUs \cup {s}
      /\ UNCHANGED <<phase, UsedFilesystems, patches>>
  BY DEF MenuMounts
<1>2. PICK name \in Names : /\ MountAs(name) /\ lookup' = NoLookup
                            /\ UNCHANGED <<Long_Path, clients>>
                            /\ Mounts' /\ ChosenStay'
  <2>1. CASE MountNet
    <3>1. connection + 1 \in 1..MaxConnections
      BY <2>1, Params DEF MountNet, IndInv, Mounts
    <3>2. Net(connection + 1) \in Names
      BY <3>1 DEF Names
    <3>3. Mounts' /\ ChosenStay'
      BY <2>1, MountNetKept DEF IndInv
    <3> QED
      BY <2>1, <3>2, <3>3 DEF MountNet
  <2>2. ASSUME NEW name \in FatNames, MountFat(name)
        PROVE  name \in Names /\ MountAs(name) /\ lookup' = NoLookup
               /\ UNCHANGED <<Long_Path, clients>> /\ Mounts' /\ ChosenStay'
    <3>1. Mounts' /\ ChosenStay'
      BY <2>2, MountFatKept DEF IndInv
    <3> QED
      BY <2>2, <3>1 DEF MountFat, Names
  <2> QED
    BY <2>1, <2>2 DEF MenuMounts
<1>3. Messages' /\ lookup'.used = lookup'.asked
  BY <1>2, NoLookupRight, OnlyLookup DEF IndInv
<1>4. s \in Slots \ Used /\ s # 0 /\ Used' = Used \cup {s}
  <2>1. s \in Slots \ Used /\ s # 0 /\ Mounted' = [Mounted EXCEPT ![s] = name]
    BY <1>2, FreeSlot DEF IndInv, MountAs
  <2> HIDE DEF s
  <2> QED
    BY <2>1, EmptyNoName DEF Used, IndInv, Mounts
<1> HIDE DEF s
<1>5. Launching'
  <2>1. phase' = "menu" /\ patches' = {} /\ UsedFilesystems' = {} /\ Resting'
    BY <1>1, <1>2 DEF IndInv, Launching, Resting, clients
  <2>2. MountedByUs' \subseteq Used' \ {0}
    BY <1>1, <1>4 DEF IndInv, Launching
  <2> QED
    BY <2>1, <2>2 DEF Launching
<1> QED
  BY <1>2, <1>3, <1>5, AtRest DEF IndInv

LEMMA MenuUnmountsKept ==
  ASSUME FewMounts, IndInv, phase = "menu", Resting, NEW i \in Slots, MenuUnmounts(i)
  PROVE  IndInv' /\ (Opening => Opening')
<1>1. /\ Unmount(i) /\ MountedByUs' = MountedByUs \ {i}
      /\ UNCHANGED <<phase, UsedFilesystems, patches>>
  BY DEF MenuUnmounts
<1>2. Mounts' /\ ChosenStay' /\ Used' = Used \ {i}
  BY <1>1, UnmountKept DEF IndInv
<1>3. lookup' = NoLookup /\ UNCHANGED <<Long_Path, clients>>
  BY <1>1 DEF Unmount
<1>4. Messages' /\ lookup'.used = lookup'.asked
  BY <1>3, NoLookupRight, OnlyLookup DEF IndInv
<1>5. Launching'
  <2>1. phase' = "menu" /\ patches' = {} /\ UsedFilesystems' = {} /\ Resting'
    BY <1>1, <1>3 DEF IndInv, Launching, Resting, clients
  <2>2. MountedByUs' \subseteq Used' \ {0}
    BY <1>1, <1>2 DEF IndInv, Launching
  <2> QED
    BY <2>1, <2>2 DEF Launching
<1> QED
  BY <1>2, <1>3, <1>4, <1>5, AtRest DEF IndInv

LEMMA MenuCallsKept ==
  ASSUME FewMounts, IndInv, phase = "menu", Resting, MenuCalls
  PROVE  IndInv' /\ (Opening => Opening')
<1>1. UNCHANGED launcher
  BY DEF MenuCalls
<1>2. /\ Mounts' /\ ChosenStay' /\ UNCHANGED Mounted
      /\ LookupRight' /\ lookup'.used = lookup'.asked
      /\ UNCHANGED <<Long_Path, clients>>
  <2>1. ASSUME NEW i, SetDefault(i) \/ SetLogFS(i) PROVE <1>2!:
    <3>1. lookup' = NoLookup /\ UNCHANGED <<Long_Path, clients>>
      BY <2>1 DEF SetDefault, SetLogFS
    <3>2. Mounts' /\ ChosenStay' /\ UNCHANGED Mounted
      BY <2>1, ChoosingKept DEF IndInv
    <3> QED
      BY <3>1, <3>2, NoLookupRight
  <2>2. ASSUME NEW path \in Paths, Lookup(path) PROVE <1>2!:
    <3>1. Looked(path, path) /\ UNCHANGED <<table, Long_Path, clients>>
      BY <2>2 DEF Lookup
    <3>2. LookupRight' /\ lookup'.used = lookup'.asked
      BY <3>1, LookedRight DEF IndInv, table
    <3> QED
      BY <3>1, <3>2, TableUnmoved DEF IndInv, ChosenStay, table
  <2>3. ASSUME NEW path \in Paths, NEW dest \in Paths, Rename(path, dest) PROVE <1>2!:
    <3>1. UNCHANGED <<table, Long_Path, clients>>
      BY <2>3 DEF Rename
    <3>2. LookupRight' /\ lookup'.used = lookup'.asked
      BY <2>3, RenameRight DEF IndInv
    <3> QED
      BY <3>1, <3>2, TableUnmoved DEF IndInv, ChosenStay, table
  <2> QED
    BY <2>1, <2>2, <2>3 DEF MenuCalls
<1>3. Messages'
  BY <1>2, OnlyLookup DEF IndInv
<1>4. Launching'
  BY <1>1, <1>2, TableUnmoved DEF IndInv, Launching, Resting, launcher, clients, Used
<1> QED
  BY <1>2, <1>3, <1>4, AtRest DEF IndInv

\* The patches are registered by the names of their filesystems, or without, and
\* then the one filesystem is made the default.
LEMMA PatchKept ==
  ASSUME FewMounts, IndInv, NEW used \in SUBSET MountedByUs, RVL_Patch(used)
  PROVE  IndInv' /\ (Opening => Opening')
<1>1. /\ phase = "menu" /\ Resting /\ phase' = "loader" /\ UsedFilesystems' = used
      /\ MountedByUs' = MountedByUs
  BY DEF RVL_Patch
<1>2. PICK long \in BOOLEAN :
        patches' = {[from |-> Mounted[i],
                     path |-> [on |-> External(Mounted[i], CommonFs(used), kind), long |-> long]]
                    : i \in used, kind \in {"file", "save"}}
  BY DEF RVL_Patch
<1>3. used \subseteq Used /\ \A i \in used : i \in Slots /\ Mounted[i] \in Names
  BY UsedNames DEF IndInv, Launching
<1>4. ASSUME CommonFs(used) # << >>
      PROVE  \E i \in used : used = {i} /\ CommonFs(used) = Mounted[i]
  <2>1. Cardinality(used) = 1
    BY <1>4 DEF CommonFs
  <2>2. IsFiniteSet(Slots)
    BY Params, FS_Interval DEF Slots
  <2>3. IsFiniteSet(used)
    BY <1>3, <2>2, FS_Subset
  <2>4. PICK i : used = {i}
    BY <2>1, <2>3, FS_Singleton
  <2> QED
    BY <1>3, <2>1, <2>4, LeastOfOne DEF CommonFs
<1> DEFINE common == [on |-> CommonFs(used), long |-> FALSE]
<1>5. /\ Mounts' /\ ChosenStay' /\ UNCHANGED <<Mounted, Long_Path, clients>>
      /\ LookupRight' /\ lookup'.used = lookup'.asked
      /\ \A i \in used : Mounted[i] = CommonFs(used) => Default' = i
  <2>1. CASE CommonFs(used) # << >>
    <3>1. SetDefaultPath(common)
      BY <2>1 DEF RVL_Patch
    <3>2. PICK i \in used : used = {i} /\ CommonFs(used) = Mounted[i]
      BY <1>4, <2>1
    <3>3. common \in Paths /\ common.on = Mounted[i]
      BY <1>3, <3>2 DEF Paths
    <3> HIDE DEF common
    <3>4. Mounts' /\ ChosenStay' /\ UNCHANGED Mounted
      BY <3>1, <3>3, ChoosingKept DEF IndInv
    <3>5. /\ Default' = Found(common) /\ Looked(common, common)
          /\ UNCHANGED <<Long_Path, clients>>
      BY <3>1 DEF SetDefaultPath
    <3>6. LookupRight' /\ lookup'.used = lookup'.asked
      BY <3>3, <3>4, <3>5, LookedRight DEF IndInv
    <3>7. Found(common) = i
      BY <1>3, <3>3, FoundNamed, PathPlaces DEF IndInv
    <3> QED
      BY <3>2, <3>4, <3>5, <3>6, <3>7
  <2>2. CASE CommonFs(used) = << >>
    <3>1. lookup' = NoLookup /\ UNCHANGED <<table, Long_Path, clients>>
      BY <2>2 DEF RVL_Patch
    <3>2. \A i \in used : Mounted[i] # CommonFs(used)
      BY <1>3, <2>2, EmptyNoName
    <3> QED
      BY <3>1, <3>2, NoLookupRight, TableUnmoved DEF IndInv, ChosenStay, table
  <2> QED
    BY <2>1, <2>2
<1>6. Messages'
  BY <1>5, OnlyLookup DEF IndInv
<1>7. Launching'
  <2>1. Used' = Used
    BY <1>5 DEF Used
  <2>2. MountedByUs' \subseteq Used' \ {0} /\ UsedFilesystems' \subseteq MountedByUs'
    BY <1>1, <2>1 DEF IndInv, Launching
  <2>3. ASSUME NEW patch \in patches'
        PROVE  /\ patch.path \in Paths
               /\ \E i \in UsedFilesystems' :
                    /\ patch.from = Mounted'[i]
                    /\ patch.path.on = Mounted'[i] \/ (patch.path.on = << >> /\ Default' = i)
    <3>1. PICK i \in used, kind \in {"file", "save"} :
            patch = [from |-> Mounted[i],
                     path |-> [on |-> External(Mounted[i], CommonFs(used), kind), long |-> long]]
      BY <1>2
    <3>2. CASE kind = "file" /\ Mounted[i] = CommonFs(used)
      <4>1. patch.from = Mounted[i] /\ patch.path = [on |-> << >>, long |-> long]
        BY <3>1, <3>2 DEF External
      <4> QED
        BY <1>1, <1>5, <3>2, <4>1 DEF Paths
    <3>3. CASE ~ (kind = "file" /\ Mounted[i] = CommonFs(used))
      <4>1. patch.from = Mounted[i] /\ patch.path = [on |-> Mounted[i], long |-> long]
        BY <3>1, <3>3 DEF External
      <4> QED
        BY <1>1, <1>3, <1>5, <4>1 DEF Paths
    <3> QED
      BY <3>2, <3>3
  <2> QED
    BY <1>1, <2>2, <2>3 DEF Launching
<1> QED
  BY <1>1, <1>5, <1>6, <1>7, AtRest DEF IndInv

\* What no patch needs goes, what one needs stays, and so does the default if a
\* path relies on it.
LEMMA LoaderUnmountsKept ==
  ASSUME FewMounts, IndInv, NEW i \in Slots, RVL_Unmount(i)
  PROVE  IndInv' /\ (Opening => Opening')
<1>1. /\ phase = "loader" /\ Unmount(i) /\ i \in MountedByUs \ UsedFilesystems
      /\ MountedByUs' = MountedByUs \ {i}
      /\ UNCHANGED <<phase, UsedFilesystems, patches>>
  BY DEF RVL_Unmount, Unneeded
<1>2. /\ Mounts' /\ ChosenStay' /\ Used' = Used \ {i}
      /\ \A j \in Used' : Mounted'[j] = Mounted[j]
      /\ Default # i => Default' = Default
  BY <1>1, UnmountKept DEF IndInv
<1>3. lookup' = NoLookup /\ UNCHANGED <<Long_Path, clients>>
  BY <1>1 DEF Unmount
<1>4. Messages' /\ lookup'.used = lookup'.asked
  BY <1>3, NoLookupRight, OnlyLookup DEF IndInv
<1>5. \A j \in UsedFilesystems : j # i /\ j \in Used' /\ Mounted'[j] = Mounted[j]
  BY <1>1, <1>2 DEF IndInv, Launching
<1>6. Launching'
  <2>1. /\ MountedByUs' \subseteq Used' \ {0} /\ UsedFilesystems' \subseteq MountedByUs'
        /\ phase' = "loader"
    BY <1>1, <1>2 DEF IndInv, Launching
  <2>2. ASSUME NEW patch \in patches'
        PROVE  /\ patch.path \in Paths
               /\ \E j \in UsedFilesystems' :
                    /\ patch.from = Mounted'[j]
                    /\ patch.path.on = Mounted'[j] \/ (patch.path.on = << >> /\ Default' = j)
    <3>1. patch.path \in Paths
      BY <1>1 DEF IndInv, Launching
    <3>2. PICK j \in UsedFilesystems :
            /\ patch.from = Mounted[j]
            /\ patch.path.on = Mounted[j] \/ (patch.path.on = << >> /\ Default = j)
      BY <1>1 DEF IndInv, Launching
    <3> QED
      BY <1>1, <1>2, <1>5, <3>1, <3>2
  <2> QED
    BY <2>1, <2>2 DEF Launching
<1>7. Opening => Opening'
  BY <1>1, <1>3, <1>4, <1>5 DEF Opening, OpensWhatWasAsked, clients
<1> QED
  BY <1>2, <1>4, <1>6, <1>7 DEF IndInv

LEMMA GameStartsKept ==
  ASSUME FewMounts, IndInv, Launch
  PROVE  IndInv' /\ (Opening => Opening')
<1>1. /\ phase = "loader" /\ phase' = "game" /\ lookup' = NoLookup
      /\ UNCHANGED <<table, Long_Path, clients, MountedByUs, UsedFilesystems, patches>>
  BY DEF Launch
<1>2. Mounts' /\ ChosenStay' /\ Used' = Used /\ UNCHANGED <<Mounted, Default>>
  BY <1>1, TableUnmoved DEF IndInv, ChosenStay, table
<1>3. Messages' /\ lookup'.used = lookup'.asked
  BY <1>1, NoLookupRight, OnlyLookup DEF IndInv
<1>4. Launching'
  BY <1>1, <1>2 DEF IndInv, Launching
<1>5. Opening => Opening'
  BY <1>1, <1>2, <1>3 DEF Opening, OpensWhatWasAsked, clients
<1> QED
  BY <1>2, <1>3, <1>4, <1>5 DEF IndInv

LEMMA SaveGamesKept ==
  ASSUME FewMounts, IndInv, SaveGames
  PROVE  IndInv' /\ (Opening => Opening')
<1>1. phase = "game" /\ UNCHANGED launcher
  BY DEF SaveGames
<1>2. PICK path \in Paths : Lookup(path) \/ Rename(path, path)
  BY DEF SaveGames, IndInv, Launching
<1>3. UNCHANGED <<table, Long_Path, clients>>
  BY <1>2 DEF Lookup, Rename
<1>4. LookupRight' /\ lookup'.used = lookup'.asked
  <2>1. CASE Lookup(path)
    BY <1>3, <2>1, LookedRight DEF Lookup, IndInv, table
  <2>2. CASE Rename(path, path)
    BY <2>2, RenameRight DEF IndInv
  <2> QED
    BY <1>2, <2>1, <2>2
<1>5. Mounts' /\ ChosenStay' /\ Used' = Used /\ UNCHANGED <<Mounted, Default>>
  BY <1>3, TableUnmoved DEF IndInv, ChosenStay, table
<1>6. Messages'
  BY <1>3, <1>4, OnlyLookup DEF IndInv
<1>7. Launching'
  BY <1>1, <1>5, LaunchingUnmoved DEF IndInv
<1>8. Opening => Opening'
  BY <1>1, <1>3, <1>4, <1>5 DEF Opening, OpensWhatWasAsked, clients, launcher
<1> QED
  BY <1>5, <1>6, <1>7, <1>8 DEF IndInv

LEMMA ReadsKept ==
  ASSUME FewMounts, IndInv, Reads
  PROVE  /\ IndInv'
         /\ OneClient /\ Opening => Opening'
<1>1. phase # "menu" /\ UNCHANGED launcher
  BY DEF Reads
<1>2. PICK c \in Clients : Proceeds(c) \/ \E patch \in patches : Calls(c, patch.path)
  BY DEF Reads
<1>3. UNCHANGED table
  BY <1>2 DEF Proceeds, Calls, OpenShortened, Close, Shorten, Open, HandleOpen
<1>4. Mounts' /\ ChosenStay' /\ UNCHANGED <<Mounted, Default>>
  BY <1>3, TableUnmoved DEF IndInv, ChosenStay, table
<1>5. Launching'
  BY <1>1, <1>4, LaunchingUnmoved DEF IndInv
<1>6. \A patch \in patches : patch.path \in Paths
  BY DEF IndInv, Launching
<1>7. UNCHANGED <<UsedFilesystems, patches>>
  BY <1>1 DEF launcher
<1>8. ASSUME NEW patch \in patches PROVE \E i \in UsedFilesystems : Found(patch.path) = i
  BY PatchFound DEF IndInv
<1>9. CASE OpenShortened(c)
  <2>1. /\ Messages' /\ lookup'.asked = opening[c] /\ Long_Path' = NoPath
        /\ lookup'.used = IF Long_Path # NoPath THEN Long_Path ELSE ShortName
        /\ opening[c] \in Paths /\ opening' = [opening EXCEPT ![c] = NoPath]
        /\ file' = file \/ file' = [file EXCEPT ![c] = Mounted[Found(lookup'.used)]]
    BY <1>9, OpenShortenedKept DEF IndInv
  <2>2. ASSUME OneClient, Opening PROVE Opening'
    <3>1. Clients = {c}
      BY <2>2 DEF OneClient
    <3>2. Long_Path = opening[c] /\ opening[c] # NoPath
      BY <2>1, <2>2, PathPlaces DEF Opening
    <3>3. lookup'.used = opening[c]
      BY <2>1, <3>2
    <3>4. PICK patch \in patches : opening[c] = patch.path
      BY <2>2, <3>2 DEF Opening
    <3>5. opening'[c] = NoPath
      BY <2>1 DEF IndInv, Messages
    <3>6. file'[c] # Empty => \E i \in UsedFilesystems : file'[c] = Mounted[i]
      BY <1>8, <2>1, <2>2, <3>3, <3>4 DEF Opening, IndInv, Messages
    <3> QED
      BY <1>4, <1>7, <2>1, <3>1, <3>3, <3>5, <3>6 DEF Opening, OpensWhatWasAsked
  <2> QED
    BY <1>4, <1>5, <2>1, <2>2 DEF IndInv
<1>10. CASE Close(c)
  <2>1. Messages'
    BY <1>10, CloseKept DEF IndInv
  <2>2. /\ file' = [file EXCEPT ![c] = Empty] /\ lookup' = NoLookup
        /\ UNCHANGED <<Long_Path, opening>>
    BY <1>10 DEF Close
  <2>3. Opening => Opening'
    BY <1>4, <1>7, <2>2, NoLookupRight DEF Opening, OpensWhatWasAsked, IndInv, Messages
  <2> QED
    BY <1>4, <1>5, <2>1, <2>3 DEF IndInv
<1>11. ASSUME NEW patch \in patches, Shorten(c, patch.path)
       PROVE  IndInv' /\ (OneClient /\ Opening => Opening')
  <2>1. Messages'
    BY <1>6, <1>11, ShortenKept DEF IndInv
  <2>2. /\ Long_Path' = patch.path /\ opening' = [opening EXCEPT ![c] = patch.path]
        /\ lookup' = NoLookup /\ file' = file
    BY <1>11 DEF Shorten
  <2>3. ASSUME OneClient, Opening PROVE Opening'
    <3>1. Clients = {c}
      BY <2>3 DEF OneClient
    <3>2. opening'[c] = patch.path
      BY <2>2 DEF IndInv, Messages
    <3> QED
      BY <1>4, <1>7, <2>2, <2>3, <3>1, <3>2, NoLookupRight DEF Opening, OpensWhatWasAsked
  <2> QED
    BY <1>4, <1>5, <2>1, <2>3 DEF IndInv
<1>12. ASSUME NEW patch \in patches, Open(c, patch.path)
       PROVE  IndInv' /\ (OneClient /\ Opening => Opening')
  <2>1. /\ Messages' /\ lookup'.asked = patch.path /\ lookup'.used = patch.path
        /\ opening[c] = NoPath /\ UNCHANGED opening /\ Long_Path' = NoPath
        /\ file' = file \/ file' = [file EXCEPT ![c] = Mounted[Found(patch.path)]]
    BY <1>6, <1>12, OpenKept DEF IndInv
  <2>2. ASSUME OneClient, Opening PROVE Opening'
    <3>1. Clients = {c}
      BY <2>2 DEF OneClient
    <3>2. file'[c] # Empty => \E i \in UsedFilesystems : file'[c] = Mounted[i]
      BY <1>8, <2>1, <2>2 DEF Opening, IndInv, Messages
    <3> QED
      BY <1>4, <1>7, <2>1, <3>1, <3>2 DEF Opening, OpensWhatWasAsked
  <2> QED
    BY <1>4, <1>5, <2>1, <2>2 DEF IndInv
<1> QED
  BY <1>2, <1>9, <1>10, <1>11, <1>12 DEF Proceeds, Calls

-----------------------------------------------------------------------------
(* Theorems *)

LEMMA LaunchStep ==
  ASSUME FewMounts, IndInv, LaunchNext
  PROVE  IndInv' /\ (OneClient /\ Opening => Opening')
<1>1. CASE Menu
  BY <1>1, MenuMountsKept, MenuUnmountsKept, MenuCallsKept DEF Menu
<1> QED
  BY <1>1, PatchKept, LoaderUnmountsKept, GameStartsKept, ReadsKept, SaveGamesKept DEF LaunchNext

LEMMA LaunchStutter ==
  ASSUME UNCHANGED LaunchVars
  PROVE  /\ IndInv => IndInv'
         /\ Opening => Opening'
<1> USE DEF LaunchVars, vars, table, clients, launcher
<1>1. Used' = Used /\ (Mounts => Mounts') /\ (ChosenStay => ChosenStay')
  BY DEF Mounts, ChosenStay, Used
<1>2. Messages => Messages'
  BY DEF Messages, RightFilesystem, Used
<1>3. Launching => Launching'
  BY <1>1 DEF Launching, Resting
<1>4. Opening => Opening'
  BY DEF Opening, OpensWhatWasAsked
<1> QED
  BY <1>1, <1>2, <1>3, <1>4 DEF IndInv

LEMMA LaunchStarts ==
  ASSUME FewMounts, LaunchInit
  PROVE  IndInv /\ Opening
<1>1. /\ Mounted = [i \in Slots |-> IF i = 0 THEN Isfs ELSE Empty]
      /\ Default = 0 /\ LogFS = -1 /\ connection = 0 /\ Long_Path = NoPath
      /\ opening = [c \in Clients |-> NoPath] /\ file = [c \in Clients |-> Empty]
      /\ lookup = NoLookup /\ chosen = [default |-> Isfs, log |-> Empty]
      /\ phase = "menu" /\ MountedByUs = {} /\ UsedFilesystems = {} /\ patches = {}
  BY DEF LaunchInit, Init
<1>2. 0 \in Slots /\ Isfs \in Names /\ Isfs # Empty
  BY Params, EmptyNoName DEF Slots, Names
<1>3. Used = {0} /\ Mounted[0] = Isfs /\ Mounted \in [Slots -> Names \cup {Empty}]
  BY <1>1, <1>2 DEF Used
<1>4. Mounts
  <2>1. \A k \in 1..MaxConnections : Isfs # Net(k)
    BY NetName, ShortNames
  <2>2. 0 \in 0..MaxConnections
    BY Params
  <2> QED
    BY <1>1, <1>3, <2>1, <2>2 DEF Mounts
<1>5. ChosenStay
  BY <1>1, <1>2, <1>3 DEF ChosenStay
<1>6. Messages
  <2>1. /\ lookup.asked = NoPath /\ lookup.used = NoPath
        /\ lookup.used.on = Empty
    BY <1>1 DEF NoLookup, NoPath
  <2> QED
    BY <1>1, <2>1 DEF Messages, RightFilesystem, Used
<1>7. Launching
  BY <1>1 DEF Launching, Resting
<1>8. Opening
  BY <1>1 DEF Opening, OpensWhatWasAsked, NoLookup
<1> QED
  BY <1>4, <1>5, <1>6, <1>7, <1>8 DEF IndInv

\* The invariant behind the theorems: how the mounts, what was chosen among them,
\* the last lookup and the registered patches fit together.
THEOREM Inductive ==
  ASSUME FewMounts
  PROVE  LaunchSpec => []IndInv
<1>1. LaunchInit => IndInv
  BY LaunchStarts
<1>2. IndInv /\ [LaunchNext]_LaunchVars => IndInv'
  BY LaunchStep, LaunchStutter
<1> QED
  BY <1>1, <1>2, PTL DEF LaunchSpec

\* A path is looked up on the filesystem it names, under the name it has there,
\* by a thread or by several, whatever has been mounted and unmounted before
\* (FilePathDesc).
THEOREM LeadsToItsFilesystem ==
  ASSUME FewMounts
  PROVE  LaunchSpec => []RightFilesystem
<1>1. IndInv => RightFilesystem
  BY DEF IndInv, Messages
<1> QED
  BY <1>1, Inductive, PTL

\* The default and the log never pass to another filesystem that takes the slot
\* of the one chosen (Filesystem::HandleIoctl, Unmount).
THEOREM ChoicesStay ==
  ASSUME FewMounts
  PROVE  LaunchSpec => []StillChosen
<1>1. ASSUME IndInv PROVE StillChosen
  <2>1. Default \in Slots /\ LogFS \in Slots \cup {-1} /\ Slots \subseteq Int
    BY <1>1, Params DEF IndInv, ChosenStay, Used, Slots
  <2>2. TypeOK
    BY <1>1, <2>1 DEF IndInv, Mounts, ChosenStay, Messages, TypeOK
  <2>3. LogFS >= 0 => LogFS # -1
    BY <2>1
  <2> QED
    BY <1>1, <2>2, <2>3 DEF IndInv, ChosenStay, StillChosen
<1> QED
  BY <1>1, Inductive, PTL

\* What the launcher registered leads to the files the patches were chosen from,
\* after it has unmounted what they do not need and whatever the default was
\* before (RVL_Patch, RVL_Unmount).
THEOREM PatchesFound ==
  ASSUME FewMounts
  PROVE  LaunchSpec => []PatchesReachTheirFiles
<1>1. IndInv => PatchesReachTheirFiles
  BY PatchFound DEF IndInv, PatchesReachTheirFiles
<1> QED
  BY <1>1, Inductive, PTL

\* The log's filesystem is not unmounted once the patches are registered
\* (RVL_Unmount).
THEOREM LogNotMoved == LaunchSpec => LogStays
<1> DEFINE Stays == phase # "menu" => LogFS' = LogFS
<1>1. [LaunchNext]_LaunchVars => [Stays]_LaunchVars
  <2> SUFFICES ASSUME LaunchNext, phase # "menu" PROVE LogFS' = LogFS
    OBVIOUS
  <2>1. CASE \E i \in Slots : RVL_Unmount(i)
    BY <2>1 DEF RVL_Unmount, Unneeded, Unmount, Reset
  <2>2. CASE Reads
    BY <2>2 DEF Reads, Proceeds, Calls, OpenShortened, Close, Shorten, Open, HandleOpen, table
  <2>3. CASE Launch \/ SaveGames
    BY <2>3 DEF Launch, SaveGames, Lookup, Rename, table
  <2>4. ~ Menu
    BY DEF Menu
  <2>5. ASSUME NEW used, RVL_Patch(used) PROVE FALSE
    BY <2>5 DEF RVL_Patch
  <2> QED
    BY <2>1, <2>2, <2>3, <2>4, <2>5 DEF LaunchNext
<1> QED
  BY <1>1, PTL DEF LaunchSpec, LogStays

THEOREM InductiveOpening ==
  ASSUME FewMounts, OneClient
  PROVE  LaunchSpec => [](IndInv /\ Opening)
<1>1. LaunchInit => IndInv /\ Opening
  BY LaunchStarts
<1>2. IndInv /\ Opening /\ [LaunchNext]_LaunchVars => IndInv' /\ Opening'
  BY LaunchStep, LaunchStutter
<1> QED
  BY <1>1, <1>2, PTL DEF LaunchSpec

\* One thread that opens files gets the one it asks for, however long its path
\* (File_Open, Filesystem::HandleOpen).
THEOREM OpensItsFile ==
  ASSUME FewMounts, OneClient
  PROVE  LaunchSpec => []OpensWhatWasAsked
<1>1. IndInv /\ Opening => OpensWhatWasAsked
  BY DEF Opening
<1> QED
  BY <1>1, InductiveOpening, PTL

\* No filesystem is unmounted under a file that the disc module has open
\* (RVL_Unmount, Filesystem::HandleClose).
THEOREM HandlersStay ==
  ASSUME FewMounts, OneClient
  PROVE  LaunchSpec => []OpenFilesKeepTheirHandler
<1>1. IndInv /\ Opening => OpenFilesKeepTheirHandler
  BY DEF IndInv, Launching, Used, Opening, OpenFilesKeepTheirHandler
<1> QED
  BY <1>1, InductiveOpening, PTL
=============================================================================
