-------------------------- MODULE RiiServerProofs ---------------------------
(***************************************************************************)
(* Proofs about RiiServer, for any number of connections and any times     *)
(* that fit together as RiiServerAssumption says: the timeout thread walks *)
(* a list it can rely on, takes no stream from a command whose client is   *)
(* there, and throws out no client that pings.                             *)
(***************************************************************************)
EXTENDS RiiServer, SequenceTheorems, TLAPS

-----------------------------------------------------------------------------
(* The inductive invariant *)

Types ==
  /\ stage \in [Conns -> Stages]
  /\ alive \in [Conns -> BOOLEAN] /\ Connected \in [Conns -> BOOLEAN]
  /\ OpenFiles \in [Conns -> BOOLEAN] /\ using \in [Conns -> BOOLEAN]
  /\ silent \in [Conns -> 0..Timeout + 1] /\ spent \in [Conns -> 0..Timeout + 1]
  /\ locked \in BOOLEAN

\* The list holds exactly the connections a thread has or will have, each once,
\* and a walk goes on only while the lock is held.
Listing ==
  /\ Connections \in Seq(Conns) /\ IsInjective(Connections)
  /\ \A c \in Conns : c \in ToSet(Connections) <=> stage[c] \notin {"none", "accepted"}
  /\ scan \in Seq(Conns) /\ ToSet(scan) \subseteq ToSet(Connections)
  /\ ~ locked => scan = << >>

\* Only a command uses a stream, and its stream is there as long as its client.
Using ==
  \A c \in Conns : using[c] => stage[c] = "command" /\ (alive[c] => OpenFiles[c])

\* How long a client that is there can have been silent, stage by stage.
SilenceBound ==
  \A c \in Conns : alive[c] =>
    /\ stage[c] = "accepted" => silent[c] <= spent[c] /\ spent[c] <= PingEvery
    /\ stage[c] = "listed" => silent[c] <= PingEvery + spent[c] /\ spent[c] <= PingEvery
    /\ stage[c] = "waiting" =>
         /\ \/ silent[c] <= 2 * PingEvery + spent[c]
            \/ silent[c] <= CommandTime + spent[c]
         /\ spent[c] <= PingEvery
    /\ stage[c] = "command" => silent[c] <= spent[c] /\ spent[c] <= CommandTime

Served == {"accepted", "listed", "waiting", "command"}

Staying == \A c \in Conns : alive[c] /\ stage[c] \in Served => Connected[c]

IndInv == Types /\ Listing /\ Using /\ SilenceBound /\ Staying

-----------------------------------------------------------------------------
(* Lists *)

LEMMA AppendedList ==
  ASSUME NEW s \in Seq(Conns), IsInjective(s), NEW c \in Conns, c \notin ToSet(s)
  PROVE  /\ Append(s, c) \in Seq(Conns) /\ IsInjective(Append(s, c))
         /\ ToSet(Append(s, c)) = ToSet(s) \cup {c}
<1> DEFINE t == Append(s, c)
<1>1. /\ t \in Seq(Conns) /\ Len(t) = Len(s) + 1 /\ Len(s) \in Nat
      /\ DOMAIN s = 1..Len(s) /\ DOMAIN t = 1..Len(s) + 1
      /\ \A i \in 1..Len(s) : t[i] = s[i]
      /\ t[Len(s) + 1] = c
  BY AppendProperties, LenProperties
<1> HIDE DEF t
<1>2. ToSet(t) = ToSet(s) \cup {c}
  BY <1>1 DEF ToSet
<1>3. \A i \in 1..Len(s) : s[i] # c
  BY <1>1 DEF ToSet
<1>4. IsInjective(t)
  BY <1>1, <1>3 DEF IsInjective
<1> QED
  BY <1>1, <1>2, <1>4 DEF t

LEMMA ListWithout ==
  ASSUME NEW s \in Seq(Conns), IsInjective(s), NEW c \in Conns, c \in ToSet(s)
  PROVE  /\ RemoveFirst(s, c) \in Seq(Conns) /\ IsInjective(RemoveFirst(s, c))
         /\ ToSet(RemoveFirst(s, c)) = ToSet(s) \ {c}
<1> DEFINE t == RemoveFirst(s, c)
<1>1. Len(s) \in Nat /\ DOMAIN s = 1..Len(s) /\ \A j \in 1..Len(s) : s[j] \in Conns
  BY LenProperties
<1>2. PICK i \in 1..Len(s) : s[i] = c
  BY <1>1 DEF ToSet
<1>3. {j \in 1..Len(s) : s[j] = c} = {i}
  BY <1>1, <1>2 DEF IsInjective
<1>4. SelectInSeq(s, LAMBDA v : v = c) = i
  BY <1>1, <1>2, <1>3 DEF SelectInSeq, Min
<1>5. t = SubSeq(s, 1, i - 1) \o SubSeq(s, i + 1, Len(s))
  BY <1>2, <1>4 DEF RemoveFirst, RemoveAt
<1> HIDE DEF t
<1>6. /\ SubSeq(s, 1, i - 1) \in Seq(Conns) /\ Len(SubSeq(s, 1, i - 1)) = i - 1
      /\ \A j \in 1..i - 1 : SubSeq(s, 1, i - 1)[j] = s[j]
  BY <1>1, SubSeqProperties
<1>7. /\ SubSeq(s, i + 1, Len(s)) \in Seq(Conns)
      /\ Len(SubSeq(s, i + 1, Len(s))) = Len(s) - i
      /\ \A j \in 1..Len(s) - i : SubSeq(s, i + 1, Len(s))[j] = s[i + j]
  <2> DEFINE u == SubSeq(s, i + 1, Len(s))
  <2>1. i + 1 \in Int /\ Len(s) \in Int /\ \A j \in i + 1..Len(s) : s[j] \in Conns
    BY <1>1
  <2>2. /\ u \in Seq(Conns)
        /\ Len(u) = IF i + 1 <= Len(s) THEN Len(s) - (i + 1) + 1 ELSE 0
        /\ \A j \in 1..Len(s) - (i + 1) + 1 : u[j] = s[(i + 1) + j - 1]
    BY <2>1, SubSeqProperties
  <2> HIDE DEF u
  <2>3. \A j \in 1..Len(s) - i : j \in 1..Len(s) - (i + 1) + 1 /\ (i + 1) + j - 1 = i + j
    BY <1>1
  <2>4. Len(u) = IF i + 1 <= Len(s) THEN Len(s) - (i + 1) + 1 ELSE 0
    BY <2>2, Zenon
  <2>5. Len(u) = Len(s) - i
    <3>1. i \in Nat /\ i <= Len(s) /\ Len(s) \in Nat
      BY <1>1
    <3> QED
      BY <3>1, <2>4
  <2> QED
    BY <2>2, <2>3, <2>5 DEF u
<1>8. /\ t \in Seq(Conns) /\ Len(t) = Len(s) - 1
      /\ \A j \in 1..Len(s) - 1 : t[j] = IF j < i THEN s[j] ELSE s[j + 1]
  <2> DEFINE u == SubSeq(s, 1, i - 1)
             v == SubSeq(s, i + 1, Len(s))
  <2>1. /\ t \in Seq(Conns) /\ Len(t) = Len(u) + Len(v)
        /\ \A j \in 1..Len(u) + Len(v) : t[j] = IF j <= Len(u) THEN u[j] ELSE v[j - Len(u)]
    BY <1>5, <1>6, <1>7, ConcatProperties, Zenon
  <2>2. /\ Len(u) = i - 1 /\ Len(v) = Len(s) - i
        /\ \A j \in 1..i - 1 : u[j] = s[j]
        /\ \A j \in 1..Len(s) - i : v[j] = s[i + j]
    BY <1>6, <1>7
  <2> HIDE DEF u, v
  <2>3. Len(u) + Len(v) = Len(s) - 1
    BY <1>1, <2>2
  <2>4. ASSUME NEW j \in 1..Len(s) - 1 PROVE t[j] = IF j < i THEN s[j] ELSE s[j + 1]
    <3>1. CASE j < i
      BY <1>1, <2>1, <2>2, <2>3, <3>1
    <3>2. CASE j >= i
      <4>1. j - Len(u) \in 1..Len(s) - i /\ i + (j - Len(u)) = j + 1
        BY <1>1, <2>2, <3>2
      <4>2. t[j] = v[j - Len(u)]
        BY <1>1, <2>1, <2>2, <2>3, <3>2
      <4> QED
        BY <1>1, <2>2, <3>2, <4>1, <4>2
    <3> QED
      BY <1>1, <3>1, <3>2
  <2> QED
    BY <2>1, <2>3, <2>4
<1>9. DOMAIN t = 1..Len(s) - 1
  BY <1>8, LenProperties
<1>10. IsInjective(t)
  BY <1>1, <1>8, <1>9 DEF IsInjective
<1>11. ToSet(t) = ToSet(s) \ {c}
  <2>1. ASSUME NEW d \in ToSet(t) PROVE d \in ToSet(s) \ {c}
    BY <1>1, <1>2, <1>8, <1>9 DEF ToSet, IsInjective
  <2>2. ASSUME NEW d \in ToSet(s) \ {c} PROVE d \in ToSet(t)
    <3>1. PICK j \in 1..Len(s) : s[j] = d
      BY <1>1 DEF ToSet
    <3>2. j # i
      BY <1>2, <3>1
    <3>3. CASE j < i
      <4>1. j \in 1..Len(s) - 1 /\ t[j] = d
        BY <1>1, <1>8, <3>1, <3>3
      <4> QED
        BY <4>1, <1>9 DEF ToSet
    <3>4. CASE j > i
      <4>1. j - 1 \in 1..Len(s) - 1 /\ t[j - 1] = d
        BY <1>1, <1>8, <3>1, <3>4
      <4> QED
        BY <4>1, <1>9 DEF ToSet
    <3> QED
      BY <1>1, <3>2, <3>3, <3>4
  <2> QED
    BY <2>1, <2>2
<1> QED
  BY <1>8, <1>10, <1>11 DEF t

LEMMA RestOfList ==
  ASSUME NEW s \in Seq(Conns), s # << >>
  PROVE  Tail(s) \in Seq(Conns) /\ ToSet(Tail(s)) \subseteq ToSet(s) /\ Head(s) \in ToSet(s)
<1>1. /\ Tail(s) \in Seq(Conns) /\ Len(Tail(s)) = Len(s) - 1 /\ Len(s) \in Nat
      /\ DOMAIN s = 1..Len(s) /\ DOMAIN Tail(s) = 1..Len(s) - 1
      /\ \A i \in 1..Len(s) - 1 : Tail(s)[i] = s[i + 1]
  BY HeadTailProperties, LenProperties
<1>2. Head(s) = s[1] /\ 1 \in DOMAIN s
  BY <1>1, EmptySeq
<1> QED
  BY <1>1, <1>2 DEF ToSet

-----------------------------------------------------------------------------
(* Each part of the invariant is kept by every step *)

LEMMA TimesAreNat == Timeout \in Nat /\ PingEvery \in Nat /\ CommandTime \in Nat
                     /\ PingEvery + CommandTime <= Timeout /\ 3 * PingEvery <= Timeout
BY RiiServerAssumption DEF RiiServerAssumption

LEMMA CappedType ==
  ASSUME NEW n \in 0..Timeout + 1
  PROVE  Capped(n) \in 0..Timeout + 1 /\ Capped(n) <= n + 1 /\ (n <= Timeout => Capped(n) = n + 1)
BY TimesAreNat DEF Capped

LEMMA TypesKept ==
  ASSUME Types, Next
  PROVE  Types'
<1> USE DEF Types
<1>0. 0 \in 0..Timeout + 1
  BY TimesAreNat
<1>1. CASE StartScan
  BY <1>1 DEF StartScan, threads, shared, times
<1>2. CASE Visit
  BY <1>2 DEF Visit, threads, shared, times
<1>3. CASE EndScan
  BY <1>3 DEF EndScan, threads, shared, times
<1>4. CASE Tick
  <2>1. UNCHANGED <<stage, alive, Connected, OpenFiles, using, locked>>
    BY <1>4 DEF Tick, threads, shared, timeouter
  <2>2. \A c \in Conns : Capped(silent[c]) \in 0..Timeout + 1 /\ Capped(spent[c]) \in 0..Timeout + 1
    BY CappedType
  <2>3. silent' \in [Conns -> 0..Timeout + 1] /\ spent' \in [Conns -> 0..Timeout + 1]
    BY <1>0, <1>4, <2>2, Zenon DEF Tick
  <2> QED
    BY <2>1, <2>3
<1>5. ASSUME NEW c \in Conns, Main(c) \/ Thread(c) \/ Vanish(c)
      PROVE  Types'
  <2> USE DEF threads, shared, timeouter, times, Stages
  <2>1. CASE Accept(c)
    BY <1>0, <2>1 DEF Accept, Enter
  <2>2. CASE Refuse(c)
    BY <1>0, <2>2 DEF Refuse, Enter
  <2>3. CASE ListIt(c)
    BY <1>0, <2>3 DEF ListIt, Enter
  <2>4. CASE StartThread(c)
    BY <1>0, <2>4 DEF StartThread, Enter
  <2>5. CASE BeginCommand(c)
    BY <1>0, <2>5 DEF BeginCommand, Enter
  <2>6. CASE EndCommand(c)
    BY <1>0, <2>6 DEF EndCommand, Enter
  <2>7. CASE Leave(c)
    BY <1>0, <2>7 DEF Leave, Enter
  <2>8. CASE Delete(c)
    BY <1>0, <2>8 DEF Delete, Enter
  <2>9. CASE Vanish(c)
    BY <2>9 DEF Vanish
  <2> QED
    BY <1>5, <2>1, <2>2, <2>3, <2>4, <2>5, <2>6, <2>7, <2>8, <2>9 DEF Main, Thread
<1> QED
  BY <1>1, <1>2, <1>3, <1>4, <1>5 DEF Next, TimeoutThread

\* A step that leaves the list alone moves no thread into or out of it.
LEMMA ListingUnmoved ==
  ASSUME Types, Listing, UNCHANGED <<Connections, scan, locked>>,
         \A c \in Conns : stage'[c] \in {"none", "accepted"} <=> stage[c] \in {"none", "accepted"}
  PROVE  Listing'
BY DEF Listing

LEMMA ListingKept ==
  ASSUME Types, Listing, Next
  PROVE  Listing'
<1>1. CASE StartScan
  BY <1>1, Zenon DEF StartScan, threads, Listing
<1>2. CASE Visit
  <2>1. /\ Tail(scan) \in Seq(Conns)
        /\ ToSet(Tail(scan)) \subseteq ToSet(scan)
    BY <1>2, RestOfList DEF Visit, Listing
  <2>2. locked' /\ UNCHANGED <<stage, Connections>> /\ scan' = Tail(scan)
    BY <1>2 DEF Visit, threads
  <2> QED
    BY <2>1, <2>2, Zenon DEF Listing
<1>3. CASE EndScan
  BY <1>3, Zenon DEF EndScan, threads, Listing
<1>4. CASE Tick
  BY <1>4, ListingUnmoved DEF Tick, threads, timeouter
<1>5. ASSUME NEW c \in Conns, Main(c) \/ Thread(c) \/ Vanish(c)
      PROVE  Listing'
  <2> USE DEF threads, shared, timeouter, times
  <2>1. CASE Accept(c)
    BY <2>1, ListingUnmoved DEF Accept, Enter, Types
  <2>2. CASE Refuse(c)
    BY <2>2, ListingUnmoved DEF Refuse, Enter, Types
  <2>3. CASE ListIt(c)
    <3>1. /\ stage' = [stage EXCEPT ![c] = "listed"] /\ Connections' = Append(Connections, c)
          /\ stage[c] = "accepted" /\ UNCHANGED <<scan, locked>>
      BY <2>3 DEF ListIt, Enter
    <3>2. c \notin ToSet(Connections)
      BY <3>1 DEF Listing
    <3>3. /\ Connections' \in Seq(Conns) /\ IsInjective(Connections')
          /\ ToSet(Connections') = ToSet(Connections) \cup {c}
      BY <3>1, <3>2, AppendedList DEF Listing
    <3>4. \A d \in Conns : d \in ToSet(Connections') <=> stage'[d] \notin {"none", "accepted"}
      BY <3>1, <3>3 DEF Listing, Types
    <3> QED
      BY <3>1, <3>3, <3>4 DEF Listing
  <2>4. CASE StartThread(c)
    BY <2>4, ListingUnmoved DEF StartThread, Enter, Types
  <2>5. CASE BeginCommand(c)
    BY <2>5, ListingUnmoved DEF BeginCommand, Enter, Types
  <2>6. CASE EndCommand(c)
    BY <2>6, ListingUnmoved DEF EndCommand, Enter, Types
  <2>7. CASE Leave(c)
    BY <2>7, ListingUnmoved DEF Leave, Enter, Types
  <2>8. CASE Delete(c)
    <3>1. /\ stage' = [stage EXCEPT ![c] = "none"] /\ Connections' = RemoveFirst(Connections, c)
          /\ stage[c] = "leaving" /\ ~ locked /\ UNCHANGED <<scan, locked>>
      BY <2>8 DEF Delete, Enter
    <3>2. c \in ToSet(Connections)
      BY <3>1 DEF Listing
    <3>3. /\ Connections' \in Seq(Conns) /\ IsInjective(Connections')
          /\ ToSet(Connections') = ToSet(Connections) \ {c}
      BY <3>1, <3>2, ListWithout DEF Listing
    <3>4. \A d \in Conns : d \in ToSet(Connections') <=> stage'[d] \notin {"none", "accepted"}
      BY <3>1, <3>3 DEF Listing, Types
    <3>5. scan' = << >> /\ scan' \in Seq(Conns) /\ ToSet(scan') = {}
      BY <3>1 DEF Listing, ToSet
    <3> QED
      BY <3>3, <3>4, <3>5 DEF Listing
  <2>9. CASE Vanish(c)
    BY <2>9, ListingUnmoved DEF Vanish
  <2> QED
    BY <1>5, <2>1, <2>2, <2>3, <2>4, <2>5, <2>6, <2>7, <2>8, <2>9 DEF Main, Thread
<1> QED
  BY <1>1, <1>2, <1>3, <1>4, <1>5 DEF Next, TimeoutThread

\* The only way into a stage is Enter; every other connection stays as it is.
LEMMA SilenceKept ==
  ASSUME Types, Staying, SilenceBound, Next
  PROVE  SilenceBound'
<1> USE TimesAreNat DEF SilenceBound
<1>1. CASE StartScan \/ Visit \/ EndScan
  BY <1>1 DEF StartScan, Visit, EndScan, threads, shared, times
<1>2. CASE Tick
  <2>1. UNCHANGED <<stage, alive, Connected>>
    BY <1>2 DEF Tick, threads, shared
  <2>2. SUFFICES ASSUME NEW c \in Conns, alive[c], stage[c] \in Served
                 PROVE  SilenceBound!(c)'
    BY <2>1 DEF Served
  <2>3. /\ silent[c] \in 0..Timeout + 1 /\ spent[c] \in 0..Timeout + 1
        /\ silent'[c] = Capped(silent[c]) /\ spent'[c] = Capped(spent[c])
        /\ InTime(c) /\ Connected[c]
    BY <1>2, <2>2 DEF Tick, Types, Served, Staying
  <2>4. /\ silent'[c] <= silent[c] + 1 /\ (spent[c] <= Timeout => spent'[c] = spent[c] + 1)
        /\ silent'[c] \in Int /\ spent'[c] \in Int
    BY <2>3, CappedType
  <2> QED
    BY <2>1, <2>2, <2>3, <2>4 DEF InTime
<1>3. ASSUME NEW c \in Conns, Main(c) \/ Thread(c) \/ Vanish(c)
      PROVE  SilenceBound'
  <2> USE DEF threads, shared, timeouter, times, Types
  <2>1. CASE Accept(c)
    BY <2>1 DEF Accept, Enter
  <2>2. CASE Refuse(c)
    BY <2>2 DEF Refuse, Enter
  <2>3. CASE ListIt(c)
    BY <2>3 DEF ListIt, Enter
  <2>4. CASE StartThread(c)
    BY <2>4 DEF StartThread, Enter
  <2>5. CASE BeginCommand(c)
    BY <2>5 DEF BeginCommand, Enter
  <2>6. CASE EndCommand(c)
    BY <2>6 DEF EndCommand, Enter
  <2>7. CASE Leave(c)
    BY <2>7 DEF Leave, Enter
  <2>8. CASE Delete(c)
    BY <2>8 DEF Delete, Enter
  <2>9. CASE Vanish(c)
    BY <2>9 DEF Vanish
  <2> QED
    BY <1>3, <2>1, <2>2, <2>3, <2>4, <2>5, <2>6, <2>7, <2>8, <2>9 DEF Main, Thread
<1> QED
  BY <1>1, <1>2, <1>3 DEF Next, TimeoutThread

\* A client that is there and being served is never overdue.
LEMMA NotOverdue ==
  ASSUME Types, SilenceBound, NEW c \in Conns, alive[c], stage[c] \in Served
  PROVE  ~ Overdue(c)
BY TimesAreNat DEF Types, SilenceBound, Served, Overdue

LEMMA UsingKept ==
  ASSUME Types, Listing, SilenceBound, Using, Next
  PROVE  Using'
<1> USE DEF Using, Types
<1>1. CASE StartScan \/ EndScan \/ Tick
  BY <1>1 DEF StartScan, EndScan, Tick, threads, shared, times
<1>2. CASE Visit
  <2>1. UNCHANGED <<stage, using, alive>>
    BY <1>2 DEF Visit, threads
  <2>2. ASSUME NEW c \in Conns, using[c], alive[c] PROVE OpenFiles'[c]
    <3>1. OpenFiles[c] /\ ~ Overdue(c)
      BY <2>2, NotOverdue DEF Served
    <3> QED
      BY <1>2, <3>1 DEF Visit, shared
  <2> QED
    BY <2>1, <2>2
<1>3. ASSUME NEW c \in Conns, Main(c) \/ Thread(c) \/ Vanish(c)
      PROVE  Using'
  <2> USE DEF threads, shared, timeouter, times
  <2>1. CASE Accept(c)
    BY <2>1 DEF Accept, Enter
  <2>2. CASE Refuse(c)
    BY <2>2 DEF Refuse, Enter
  <2>3. CASE ListIt(c)
    BY <2>3 DEF ListIt, Enter
  <2>4. CASE StartThread(c)
    BY <2>4 DEF StartThread, Enter
  <2>5. CASE BeginCommand(c)
    BY <2>5 DEF BeginCommand, Enter
  <2>6. CASE EndCommand(c)
    BY <2>6 DEF EndCommand, Enter
  <2>7. CASE Leave(c)
    BY <2>7 DEF Leave, Enter
  <2>8. CASE Delete(c)
    BY <2>8 DEF Delete, Enter
  <2>9. CASE Vanish(c)
    BY <2>9 DEF Vanish
  <2> QED
    BY <1>3, <2>1, <2>2, <2>3, <2>4, <2>5, <2>6, <2>7, <2>8, <2>9 DEF Main, Thread
<1> QED
  BY <1>1, <1>2, <1>3 DEF Next, TimeoutThread

LEMMA StayingKept ==
  ASSUME Types, SilenceBound, Staying, Next
  PROVE  Staying'
<1> USE DEF Staying, Served, Types
<1>1. CASE StartScan \/ EndScan \/ Tick
  BY <1>1 DEF StartScan, EndScan, Tick, threads, shared, times
<1>2. CASE Visit
  <2>1. UNCHANGED <<stage, alive>>
    BY <1>2 DEF Visit, threads
  <2>2. ASSUME NEW c \in Conns, alive[c], stage[c] \in Served PROVE Connected'[c]
    <3>1. Connected[c] /\ ~ Overdue(c)
      BY <2>2, NotOverdue
    <3> QED
      BY <1>2, <3>1 DEF Visit, shared
  <2> QED
    BY <2>1, <2>2
<1>3. ASSUME NEW c \in Conns, Main(c) \/ Thread(c) \/ Vanish(c)
      PROVE  Staying'
  <2> USE DEF threads, shared, timeouter, times
  <2>1. CASE Accept(c)
    BY <2>1 DEF Accept, Enter
  <2>2. CASE Refuse(c)
    BY <2>2 DEF Refuse, Enter
  <2>3. CASE ListIt(c)
    BY <2>3 DEF ListIt, Enter
  <2>4. CASE StartThread(c)
    BY <2>4 DEF StartThread, Enter
  <2>5. CASE BeginCommand(c)
    BY <2>5 DEF BeginCommand, Enter
  <2>6. CASE EndCommand(c)
    BY <2>6 DEF EndCommand, Enter
  <2>7. CASE Leave(c)
    BY <2>7 DEF Leave, Enter
  <2>8. CASE Delete(c)
    BY <2>8 DEF Delete, Enter
  <2>9. CASE Vanish(c)
    BY <2>9 DEF Vanish
  <2> QED
    BY <1>3, <2>1, <2>2, <2>3, <2>4, <2>5, <2>6, <2>7, <2>8, <2>9 DEF Main, Thread
<1> QED
  BY <1>1, <1>2, <1>3 DEF Next, TimeoutThread

-----------------------------------------------------------------------------
(* Theorems *)

LEMMA InitIndInv == Init => IndInv
<1> SUFFICES ASSUME Init PROVE IndInv
  OBVIOUS
<1>1. Types
  <2>1. 0 \in 0..Timeout + 1
    BY TimesAreNat
  <2> QED
    BY <2>1 DEF Init, Types, Stages
<1>2. Listing
  <2>1. Connections = << >> /\ scan = << >> /\ \A c \in Conns : stage[c] = "none"
    BY DEF Init
  <2>2. << >> \in Seq(Conns) /\ ToSet(<< >>) = {} /\ IsInjective(<< >>)
    BY DEF ToSet, IsInjective
  <2> QED
    BY <2>1, <2>2 DEF Listing
<1>3. Using /\ SilenceBound /\ Staying
  BY DEF Init, Using, SilenceBound, Staying
<1> QED
  BY <1>1, <1>2, <1>3 DEF IndInv

LEMMA IndInvStutter == ASSUME IndInv, UNCHANGED vars PROVE IndInv'
<1> USE DEF vars, threads, shared, timeouter, times
<1>1. Types' /\ Listing'
  BY DEF IndInv, Types, Listing
<1>2. Using' /\ SilenceBound' /\ Staying'
  BY DEF IndInv, Using, SilenceBound, Staying
<1> QED
  BY <1>1, <1>2 DEF IndInv

\* The invariant behind the three theorems: how the list, the streams and the
\* clocks of the connections fit together in every reachable state.
THEOREM Inductive == Spec => []IndInv
<1>1. Init => IndInv
  BY InitIndInv
<1>2. IndInv /\ [Next]_vars => IndInv'
  <2> SUFFICES ASSUME IndInv, [Next]_vars PROVE IndInv'
    OBVIOUS
  <2>1. CASE Next
    BY <2>1, TypesKept, ListingKept, UsingKept, SilenceKept, StayingKept, Zenon DEF IndInv
  <2>2. CASE UNCHANGED vars
    BY <2>2, IndInvStutter
  <2> QED
    BY <2>1, <2>2
<1> QED
  BY <1>1, <1>2, PTL DEF Spec

\* However connections come and go while it walks, the timeout thread meets only
\* connections that exist, and the destructor removes each from the list
\* (TimeoutThread, AcceptClient, ~Connection).
THEOREM ScanSafe == Spec => []ScanIsSafe
<1>1. IndInv => ScanIsSafe
  <2> SUFFICES ASSUME IndInv PROVE ScanIsSafe
    OBVIOUS
  <2>1. ToSet(Connections) \subseteq Conns /\ ToSet(scan) \subseteq Conns
    BY LenProperties DEF IndInv, Listing, ToSet
  <2>2. TypeOK
    BY <2>1 DEF IndInv, Types, Listing, TypeOK
  <2>3. \A c \in ToSet(Connections) : stage[c] \notin {"none", "accepted"}
    BY <2>1 DEF IndInv, Listing
  <2> QED
    BY <2>2, <2>3 DEF IndInv, Listing, ScanIsSafe
<1> QED
  BY <1>1, Inductive, PTL

\* A stream a command uses is not closed under it while its client is there: the
\* timeout thread takes no lock for the streams, and needs none as long as a
\* command of a live client ends within the ping timeout (TimeoutThread, Close).
THEOREM StreamsSafe == Spec => []StreamsOutliveCommands
<1>1. IndInv => StreamsOutliveCommands
  BY DEF IndInv, Using, StreamsOutliveCommands
<1> QED
  BY <1>1, Inductive, PTL

\* A client that pings as the file module does is never thrown out
\* (TimeoutThread, RiiHandler::IdleTick).
THEOREM ClientsStay == Spec => []LiveClientsStay
<1>1. IndInv => LiveClientsStay
  BY DEF IndInv, Staying, Served, LiveClientsStay
<1> QED
  BY <1>1, Inductive, PTL
=============================================================================
