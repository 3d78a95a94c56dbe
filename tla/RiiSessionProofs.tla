-------------------------- MODULE RiiSessionProofs --------------------------
(***************************************************************************)
(* Proofs about RiiSession, for any descriptors, names, contents, numbers  *)
(* and any window: as long as no name and no content is four bytes long,   *)
(* every command finds the arguments of its own call, client and server    *)
(* stay in step, and the mount keeps the promise of RemoteCall.            *)
(***************************************************************************)
EXTENDS RiiSession, SequenceTheorems, WellFoundedInduction, TLAPS

\* The client caches numbers only (what else happens is what a run is about).
NoWords == WordSized = {}

-----------------------------------------------------------------------------
(* The inductive invariant *)

Scripts == Calls \cup {<< >>, Handshake, Goodbye}
Messages == [act : {"send"}, opt : Options, val : Values]
              \cup [act : {"receive"}, cmd : Commands, after : BOOLEAN]
Answers == [cmd : Commands, last : BOOLEAN, ret : Int]

Types ==
  /\ TypeOK
  /\ toServer \in Seq(Messages) /\ toClient \in Seq(Answers)
  /\ phase = "closed" => script = << >> /\ \A o \in Options : cache[o] = Unset
  /\ phase = "unmounting" => script # << >>

\* The first n messages under way are options.
OnlySends(n) == \A i \in 1..n : toServer[i].act = "send"

\* A command is under way, the last thing that is, or has been carried out.
Queue ==
  link =>
    \/ awaited = -1 /\ OnlySends(Len(toServer))
    \/ /\ awaited # -1 /\ acted = << >> /\ toClient = << >>
       /\ toServer # << >> /\ toServer[Len(toServer)] = script[pc]
       /\ OnlySends(Len(toServer) - 1)
    \/ awaited # -1 /\ acted # << >> /\ toServer = << >>

\* The command of the call has been carried out, once, with this result.
Executed(ret) == acted = <<[req |-> Request, ret |-> ret]>>

\* The client waits for the whole answer to its last step and nothing else.
Waiting ==
  /\ awaited = -1 => acted = << >> /\ toClient = << >>
  /\ awaited # -1 =>
       /\ pc \in 1..Len(script) /\ script[pc].act = "receive"
       /\ awaited = Expects(script[pc].cmd)
       /\ acted = << >> \/ \E ret \in Results : Executed(ret)
       /\ Len(toClient) <= awaited + 1
       /\ \A i \in 1..Len(toClient) :
            /\ toClient[i].cmd = script[pc].cmd /\ (toClient[i].last <=> i = awaited + 1)
            /\ i = awaited + 1 => Executed(toClient[i].ret)

HasSent(o) == \E i \in 1..pc : script[i].act = "send" /\ script[i].opt = o

\* What the call in progress has sent or left out, the server will have.
Agreed == link => \A o \in Options : HasSent(o) => Eventually(o) = Given(o)

IndInv == Types /\ Queue /\ Waiting /\ Agreed /\ CacheCoherent
-----------------------------------------------------------------------------
(* Calls *)

\* A send of a handler's call, and one of its commands.
Sends(m) ==
  /\ m \in Messages /\ m.act = "send" /\ m.opt \in Options /\ m.val \in Values
  /\ m.opt = "LENGTH" => m.val \in Lengths
  /\ m.opt \in Numbers => m.val # Unset
Commanding(m) == m \in Messages /\ m.act = "receive" /\ m.cmd \in Commands

\* Among the first n messages of s there is one that sets o.
Sets(s, n, o) == \E j \in 1..n : s[j].act = "send" /\ s[j].opt = o

\* A call sends what its commands need before it gives them.
WellFormed(s) ==
  /\ s \in Seq(Messages)
  /\ \A i \in 1..Len(s) :
       Sends(s[i]) \/ (Commanding(s[i]) /\ \A o \in Needs(s[i].cmd) : Sets(s, i - 1, o))

LEMMA SendIs ==
  ASSUME NEW o \in Options, NEW v \in Values,
         o = "LENGTH" => v \in Lengths, o \in Numbers => v # Unset
  PROVE  Sends(Send(o, v)) /\ Send(o, v).opt = o /\ Send(o, v).val = v
BY DEF Sends, Send, Messages

LEMMA ReceiveIs ==
  ASSUME NEW c \in Commands
  PROVE  /\ Commanding(Receive(c)) /\ Receive(c).cmd = c
         /\ Commanding(ThenReceive(c)) /\ ThenReceive(c).cmd = c
BY DEF Commanding, Receive, ThenReceive, Messages

\* One or two options, and a command that needs no others.
LEMMA OneSent ==
  ASSUME NEW a, NEW c, Sends(a), Commanding(c), Needs(c.cmd) \subseteq {a.opt}
  PROVE  WellFormed(<<a, c>>)
<1> DEFINE s == <<a, c>>
<1>1. s \in Seq(Messages) /\ Len(s) = 2 /\ s[1] = a /\ s[2] = c
  BY DEF Sends, Commanding
<1> HIDE DEF s
<1>2. \A o \in Needs(c.cmd) : Sets(s, 2 - 1, o)
  BY <1>1 DEF Sets, Sends
<1>3. \A i \in 1..2 : i = 1 \/ i = 2
  OBVIOUS
<1>4. WellFormed(s)
  BY <1>1, <1>2, <1>3 DEF WellFormed
<1> QED
  BY <1>4 DEF s

LEMMA TwoSent ==
  ASSUME NEW a, NEW b, NEW c, Sends(a), Sends(b), Commanding(c), Needs(c.cmd) \subseteq {a.opt, b.opt}
  PROVE  WellFormed(<<a, b, c>>)
<1> DEFINE s == <<a, b, c>>
<1>1. s \in Seq(Messages) /\ Len(s) = 3 /\ s[1] = a /\ s[2] = b /\ s[3] = c
  BY DEF Sends, Commanding
<1> HIDE DEF s
<1>2. \A o \in Needs(c.cmd) : Sets(s, 3 - 1, o)
  BY <1>1 DEF Sets, Sends
<1>3. \A i \in 1..3 : i = 1 \/ i = 2 \/ i = 3
  OBVIOUS
<1>4. WellFormed(s)
  BY <1>1, <1>2, <1>3 DEF WellFormed
<1> QED
  BY <1>4 DEF s

LEMMA ThreeSent ==
  ASSUME NEW a, NEW b, NEW c, NEW d, Sends(a), Sends(b), Sends(c), Commanding(d),
         Needs(d.cmd) \subseteq {a.opt, b.opt, c.opt}
  PROVE  WellFormed(<<a, b, c, d>>)
<1> DEFINE s == <<a, b, c, d>>
<1>1. s \in Seq(Messages) /\ Len(s) = 4 /\ s[1] = a /\ s[2] = b /\ s[3] = c /\ s[4] = d
  BY DEF Sends, Commanding
<1> HIDE DEF s
<1>2. \A o \in Needs(d.cmd) : Sets(s, 4 - 1, o)
  BY <1>1 DEF Sets, Sends
<1>3. \A i \in 1..4 : i = 1 \/ i = 2 \/ i = 3 \/ i = 4
  OBVIOUS
<1>4. WellFormed(s)
  BY <1>1, <1>2, <1>3 DEF WellFormed
<1> QED
  BY <1>4 DEF s

\* A call that goes on.
LEMMA Joined ==
  ASSUME NEW s, NEW t, WellFormed(s), t \in Seq(Messages),
         \A i \in 1..Len(t) :
           \/ Sends(t[i])
           \/ /\ Commanding(t[i])
              /\ \A o \in Needs(t[i].cmd) : Sets(s, Len(s), o) \/ Sets(t, i - 1, o)
  PROVE  WellFormed(s \o t)
<1> DEFINE u == s \o t
<1>1. s \in Seq(Messages) /\ Len(s) \in Nat /\ Len(t) \in Nat
  BY LenProperties DEF WellFormed
<1>2. /\ u \in Seq(Messages) /\ Len(u) = Len(s) + Len(t)
      /\ \A i \in 1..Len(s) + Len(t) : u[i] = IF i <= Len(s) THEN s[i] ELSE t[i - Len(s)]
  BY <1>1, ConcatProperties, Zenon
<1> HIDE DEF u
<1>3. \A i \in 1..Len(s) : u[i] = s[i]
  BY <1>1, <1>2
<1>4. \A i \in 1..Len(t) : u[Len(s) + i] = t[i]
  <2> TAKE i \in 1..Len(t)
  <2>1. Len(s) + i \in 1..Len(s) + Len(t) /\ ~ (Len(s) + i <= Len(s)) /\ (Len(s) + i) - Len(s) = i
    BY <1>1
  <2> QED
    BY <1>2, <2>1
<1>5. ASSUME NEW i \in 1..Len(s)
      PROVE  Sends(u[i]) \/ (Commanding(u[i]) /\ \A o \in Needs(u[i].cmd) : Sets(u, i - 1, o))
  <2>1. \A j \in 1..i - 1 : j \in 1..Len(s)
    BY <1>1
  <2>2. \A o : Sets(s, i - 1, o) => Sets(u, i - 1, o)
    BY <1>3, <2>1 DEF Sets
  <2> QED
    BY <1>3, <2>2 DEF WellFormed
<1>6. ASSUME NEW i \in 1..Len(t)
      PROVE  \/ Sends(u[Len(s) + i])
             \/ (Commanding(u[Len(s) + i])
                  /\ \A o \in Needs(u[Len(s) + i].cmd) : Sets(u, (Len(s) + i) - 1, o))
  <2>1. \A o : Sets(s, Len(s), o) => Sets(u, (Len(s) + i) - 1, o)
    <3>1. \A j \in 1..Len(s) : j \in 1..(Len(s) + i) - 1
      BY <1>1
    <3> QED
      BY <1>3, <3>1 DEF Sets
  <2>2. \A o : Sets(t, i - 1, o) => Sets(u, (Len(s) + i) - 1, o)
    <3>1. \A j \in 1..i - 1 : j \in 1..Len(t) /\ Len(s) + j \in 1..(Len(s) + i) - 1
      BY <1>1
    <3> QED
      BY <1>4, <3>1 DEF Sets
  <2> QED
    BY <1>4, <2>1, <2>2
<1>7. \A i \in 1..Len(u) : i \in 1..Len(s) \/ (i - Len(s) \in 1..Len(t) /\ i = Len(s) + (i - Len(s)))
  BY <1>1, <1>2
<1>8. \A i \in 1..Len(u) :
        Sends(u[i]) \/ (Commanding(u[i]) /\ \A o \in Needs(u[i].cmd) : Sets(u, i - 1, o))
  <2> TAKE i \in 1..Len(u)
  <2>1. CASE i \in 1..Len(s)
    BY <1>5, <2>1
  <2>2. CASE i - Len(s) \in 1..Len(t) /\ i = Len(s) + (i - Len(s))
    BY <1>6, <2>2
  <2> QED
    BY <1>7, <2>1, <2>2
<1>9. WellFormed(u)
  BY <1>2, <1>8 DEF WellFormed
<1> QED
  BY <1>9 DEF u

LEMMA SeekWellFormed ==
  ASSUME NEW f \in Fds, NEW where \in Offsets, NEW whence \in {SEEK_SET, SEEK_END}
  PROVE  WellFormed(RiiSeek(f, where, whence)) /\ Len(RiiSeek(f, where, whence)) = 4
         /\ Sets(RiiSeek(f, where, whence), 4, "FILE")
<1> DEFINE a == Send("FILE", f)
           b == Send("SEEK_WHENCE", whence)
           c == Send("SEEK_WHERE", where)
           d == Receive("SEEK")
<1>1. f # Unset /\ where # Unset /\ whence # Unset
  BY RiiSessionAssumption DEF RiiSessionAssumption
<1>2. Sends(a) /\ a.opt = "FILE"
  BY <1>1, SendIs DEF Options, Numbers, Values
<1>3. Sends(b) /\ b.opt = "SEEK_WHENCE"
  BY <1>1, SendIs DEF Options, Numbers, Values
<1>4. Sends(c) /\ c.opt = "SEEK_WHERE"
  BY <1>1, SendIs DEF Options, Numbers, Values
<1>5. Commanding(d) /\ d.cmd = "SEEK"
  BY ReceiveIs DEF Commands
<1>6. RiiSeek(f, where, whence) = <<a, b, c, d>>
  BY DEF RiiSeek
<1> HIDE DEF a, b, c, d
<1>7. Needs(d.cmd) = {"FILE", "SEEK_WHERE", "SEEK_WHENCE"}
  BY <1>5 DEF Needs
<1>8. WellFormed(<<a, b, c, d>>)
  BY <1>2, <1>3, <1>4, <1>5, <1>7, ThreeSent
<1>9. Sets(<<a, b, c, d>>, 4, "FILE")
  BY <1>2 DEF Sets, Sends
<1> QED
  BY <1>6, <1>8, <1>9

LEMMA AfterSeek ==
  ASSUME NEW f \in Fds, NEW seek \in DirtySeeks(f), NEW a, NEW b, NEW c,
         Sends(a), Sends(b), Commanding(c), Needs(c.cmd) \subseteq {a.opt, b.opt}
  PROVE  WellFormed(seek \o <<a, b, c>>)
<1> DEFINE t == <<a, b, c>>
<1>1. WellFormed(t)
  BY TwoSent
<1> HIDE DEF t
<1>2. WellFormed(seek)
  <2>1. CASE seek = << >>
    BY <2>1 DEF WellFormed
  <2>2. CASE seek \in {RiiSeek(f, where, SEEK_SET) : where \in Offsets}
    BY <2>2, SeekWellFormed
  <2> QED
    BY <2>1, <2>2 DEF DirtySeeks
<1>3. WellFormed(seek \o t)
  BY <1>1, <1>2, Joined DEF WellFormed
<1> QED
  BY <1>3 DEF t

LEMMA OnFileWellFormed ==
  ASSUME NEW f \in Fds, NEW s \in OnFile(f)
  PROVE  WellFormed(s)
<1> DEFINE a == Send("FILE", f)
<1>1. f # Unset /\ Unset \notin Lengths
  BY RiiSessionAssumption DEF RiiSessionAssumption
<1>2. Sends(a) /\ a.opt = "FILE"
  BY <1>1, SendIs DEF Options, Numbers, Values
<1> HIDE DEF a
<1>3. ASSUME NEW seek \in DirtySeeks(f), NEW n \in Lengths,
             s = Read(f, seek, n)
      PROVE  WellFormed(s)
  <2> DEFINE b == Send("LENGTH", n)
             c == Receive("READ")
  <2>1. Sends(b) /\ b.opt = "LENGTH"
    BY <1>1, SendIs DEF Options, Numbers, Values
  <2>2. Commanding(c) /\ c.cmd = "READ"
    BY ReceiveIs DEF Commands
  <2>3. s = seek \o <<a, b, c>>
    BY <1>3 DEF a, Read
  <2> HIDE DEF b, c
  <2>4. Needs(c.cmd) = {"FILE", "LENGTH"}
    BY <2>2 DEF Needs
  <2> QED
    BY <1>2, <2>1, <2>2, <2>3, <2>4, AfterSeek
<1>4. ASSUME NEW seek \in DirtySeeks(f), NEW d \in Datas,
             s = Write(f, seek, d)
      PROVE  WellFormed(s)
  <2> DEFINE b == Send("DATA", d)
             c == Receive("WRITE")
  <2>1. Sends(b) /\ b.opt = "DATA"
    BY SendIs DEF Options, Numbers, Strings, Values
  <2>2. Commanding(c) /\ c.cmd = "WRITE"
    BY ReceiveIs DEF Commands
  <2>3. s = seek \o <<a, b, c>>
    BY <1>4 DEF a, Write
  <2> HIDE DEF b, c
  <2>4. Needs(c.cmd) = {"FILE", "DATA"}
    BY <2>2 DEF Needs
  <2> QED
    BY <1>2, <2>1, <2>2, <2>3, <2>4, AfterSeek
<1>5. ASSUME NEW where \in Offsets, s = SeekEnd(f, where)
      PROVE  WellFormed(s)
  <2> DEFINE c == ThenReceive("TELL")
             seek == RiiSeek(f, where, SEEK_END)
  <2>1. Commanding(c) /\ c.cmd = "TELL"
    BY ReceiveIs DEF Commands
  <2>2. WellFormed(seek) /\ Len(seek) = 4 /\ Sets(seek, 4, "FILE")
    BY SeekWellFormed
  <2> HIDE DEF c, seek
  <2>3. Needs(c.cmd) = {"FILE"}
    BY <2>1 DEF Needs
  <2>4. <<c>> \in Seq(Messages) /\ Len(<<c>>) = 1 /\ <<c>>[1] = c
    BY <2>1 DEF Commanding
  <2>5. \A i \in 1..1 : i = 1
    OBVIOUS
  <2>6. WellFormed(seek \o <<c>>)
    BY <2>1, <2>2, <2>3, <2>4, <2>5, Joined
  <2> QED
    BY <1>5, <2>6 DEF c, seek, SeekEnd
<1>6. ASSUME s = <<Send("FILE", f), Receive("TELL"), Receive("SYNC")>>
      PROVE  WellFormed(s)
  <2> DEFINE c == Receive("TELL")
             d == Receive("SYNC")
  <2>1. Commanding(c) /\ c.cmd = "TELL" /\ Commanding(d) /\ d.cmd = "SYNC"
    BY ReceiveIs DEF Commands
  <2>2. s = <<a, c, d>>
    BY <1>6 DEF a
  <2> HIDE DEF c, d
  <2>3. Needs(c.cmd) = {"FILE"} /\ Needs(d.cmd) = {"FILE"}
    BY <2>1 DEF Needs
  <2>4. s \in Seq(Messages) /\ Len(s) = 3 /\ s[1] = a /\ s[2] = c /\ s[3] = d
    BY <1>2, <2>1, <2>2 DEF Sends, Commanding
  <2>5. Sets(s, 2 - 1, "FILE") /\ Sets(s, 3 - 1, "FILE")
    BY <1>2, <2>4 DEF Sets, Sends
  <2>6. \A i \in 1..3 : i = 1 \/ i = 2 \/ i = 3
    OBVIOUS
  <2> QED
    BY <1>2, <2>1, <2>3, <2>4, <2>5, <2>6 DEF WellFormed
<1>7. ASSUME NEW cmd \in {"CLOSE", "CLOSEDIR"}, s = <<Send("FILE", f), Receive(cmd)>>
      PROVE  WellFormed(s)
  <2> DEFINE c == Receive(cmd)
  <2>1. Commanding(c) /\ c.cmd = cmd
    BY ReceiveIs DEF Commands
  <2>2. s = <<a, c>>
    BY <1>7 DEF a
  <2> HIDE DEF c
  <2>3. Needs(c.cmd) = {"FILE"}
    BY <2>1 DEF Needs
  <2> QED
    BY <1>2, <2>1, <2>2, <2>3, OneSent
<1>8. ASSUME s = <<Send("FILE", f), Receive("NEXTDIR_PATH"), ThenReceive("NEXTDIR_STAT")>>
      PROVE  WellFormed(s)
  <2> DEFINE c == Receive("NEXTDIR_PATH")
             d == ThenReceive("NEXTDIR_STAT")
  <2>1. Commanding(c) /\ c.cmd = "NEXTDIR_PATH" /\ Commanding(d) /\ d.cmd = "NEXTDIR_STAT"
    BY ReceiveIs DEF Commands
  <2>2. s = <<a, c, d>>
    BY <1>8 DEF a
  <2> HIDE DEF c, d
  <2>3. Needs(c.cmd) = {"FILE"} /\ Needs(d.cmd) = {"FILE"}
    BY <2>1 DEF Needs
  <2>4. s \in Seq(Messages) /\ Len(s) = 3 /\ s[1] = a /\ s[2] = c /\ s[3] = d
    BY <1>2, <2>1, <2>2 DEF Sends, Commanding
  <2>5. Sets(s, 2 - 1, "FILE") /\ Sets(s, 3 - 1, "FILE")
    BY <1>2, <2>4 DEF Sets, Sends
  <2>6. \A i \in 1..3 : i = 1 \/ i = 2 \/ i = 3
    OBVIOUS
  <2> QED
    BY <1>2, <2>1, <2>3, <2>4, <2>5, <2>6 DEF WellFormed
<1>9. CASE s \in {Read(f, seek, n) : seek \in DirtySeeks(f), n \in Lengths}
  BY <1>3, <1>9
<1>10. CASE s \in {Write(f, seek, d) : seek \in DirtySeeks(f), d \in Datas}
  BY <1>4, <1>10
<1>11. CASE s \in {SeekEnd(f, where) : where \in Offsets}
  BY <1>5, <1>11
<1> QED
  BY <1>6, <1>7, <1>8, <1>9, <1>10, <1>11 DEF OnFile

LEMMA OnPathWellFormed ==
  ASSUME NEW p \in Paths, NEW s \in OnPath(p)
  PROVE  WellFormed(s)
<1>1. ASSUME NEW m \in Modes, s = <<Send("PATH", p), Send("MODE", m), Receive("OPEN")>>
      PROVE  WellFormed(s)
  <2> DEFINE a == Send("PATH", p)
             b == Send("MODE", m)
             c == Receive("OPEN")
  <2>1. Sends(a) /\ a.opt = "PATH"
    BY SendIs DEF Options, Numbers, Strings, Values
  <2>2. m # Unset
    BY RiiSessionAssumption DEF RiiSessionAssumption
  <2>3. Sends(b) /\ b.opt = "MODE"
    BY <2>2, SendIs DEF Options, Numbers, Values
  <2>4. Commanding(c) /\ c.cmd = "OPEN"
    BY ReceiveIs DEF Commands
  <2>5. s = <<a, b, c>>
    BY <1>1
  <2> HIDE DEF a, b, c
  <2>6. Needs(c.cmd) = {"PATH", "MODE"}
    BY <2>4 DEF Needs
  <2> QED
    BY <2>1, <2>3, <2>4, <2>5, <2>6, TwoSent
<1>2. ASSUME NEW cmd \in {"STAT", "CREATE", "DELETE", "CREATEDIR", "OPENDIR"},
             s = <<Send("PATH", p), Receive(cmd)>>
      PROVE  WellFormed(s)
  <2> DEFINE a == Send("PATH", p)
             c == Receive(cmd)
  <2>1. Sends(a) /\ a.opt = "PATH"
    BY SendIs DEF Options, Numbers, Strings, Values
  <2>2. Commanding(c) /\ c.cmd = cmd
    BY ReceiveIs DEF Commands
  <2>3. s = <<a, c>>
    BY <1>2
  <2> HIDE DEF a, c
  <2>4. Needs(c.cmd) = {"PATH"}
    BY <2>2 DEF Needs
  <2> QED
    BY <2>1, <2>2, <2>3, <2>4, OneSent
<1>3. ASSUME NEW q \in Paths,
             s = <<Send("RENAME_SOURCE", p), Send("RENAME_DESTINATION", q), Receive("RENAME")>>
      PROVE  WellFormed(s)
  <2> DEFINE a == Send("RENAME_SOURCE", p)
             b == Send("RENAME_DESTINATION", q)
             c == Receive("RENAME")
  <2>1. Sends(a) /\ a.opt = "RENAME_SOURCE"
    BY SendIs DEF Options, Numbers, Strings, Values
  <2>2. Sends(b) /\ b.opt = "RENAME_DESTINATION"
    BY SendIs DEF Options, Numbers, Strings, Values
  <2>3. Commanding(c) /\ c.cmd = "RENAME"
    BY ReceiveIs DEF Commands
  <2>4. s = <<a, b, c>>
    BY <1>3
  <2> HIDE DEF a, b, c
  <2>5. Needs(c.cmd) = {"RENAME_SOURCE", "RENAME_DESTINATION"}
    BY <2>3 DEF Needs
  <2> QED
    BY <2>1, <2>2, <2>3, <2>4, <2>5, TwoSent
<1> QED
  BY <1>1, <1>2, <1>3 DEF OnPath

LEMMA OnIdleWellFormed ==
  ASSUME NEW s \in OnIdle
  PROVE  WellFormed(s)
<1>1. ASSUME NEW d \in Datas, s = <<Send("DATA", d), Receive("LOG")>>
      PROVE  WellFormed(s)
  <2> DEFINE a == Send("DATA", d)
             c == Receive("LOG")
  <2>1. Sends(a) /\ a.opt = "DATA"
    BY SendIs DEF Options, Numbers, Strings, Values
  <2>2. Commanding(c) /\ c.cmd = "LOG"
    BY ReceiveIs DEF Commands
  <2>3. s = <<a, c>>
    BY <1>1
  <2> HIDE DEF a, c
  <2>4. Needs(c.cmd) = {"DATA"}
    BY <2>2 DEF Needs
  <2> QED
    BY <2>1, <2>2, <2>3, <2>4, OneSent
<1>2. ASSUME s = <<Send("PING", Unset)>>
      PROVE  WellFormed(s)
  <2> DEFINE a == Send("PING", Unset)
  <2>1. Sends(a)
    BY SendIs DEF Options, Numbers, Strings, Values
  <2>2. s = <<a>>
    BY <1>2
  <2> HIDE DEF a
  <2>3. s \in Seq(Messages) /\ Len(s) = 1 /\ s[1] = a /\ \A i \in 1..1 : i = 1
    BY <2>1, <2>2 DEF Sends
  <2> QED
    BY <2>1, <2>3 DEF WellFormed
<1> QED
  BY <1>1, <1>2 DEF OnIdle

\* A call has a step at least.
LEMMA NotEmpty ==
  ASSUME NEW s, NEW t, WellFormed(s), t \in Seq(Messages), t # << >>
  PROVE  s \o t # << >>
<1>1. s \in Seq(Messages) /\ Len(s) \in Nat /\ Len(t) \in Nat \ {0}
  BY EmptySeq, LenProperties DEF WellFormed
<1>2. Len(s \o t) = Len(s) + Len(t)
  BY <1>1, ConcatProperties
<1>3. Len(<< >>) = 0
  OBVIOUS
<1> QED
  BY <1>1, <1>2, <1>3

LEMMA NoEmptyCall == \A call \in Calls : call # << >>
<1>1. ASSUME NEW f \in Fds, NEW seek \in DirtySeeks(f), NEW t \in Seq(Messages), t # << >>
      PROVE  seek \o t # << >>
  <2>1. WellFormed(seek)
    <3>1. CASE seek = << >>
      BY <3>1 DEF WellFormed
    <3>2. CASE seek \in {RiiSeek(f, where, SEEK_SET) : where \in Offsets}
      BY <3>2, SeekWellFormed
    <3> QED
      BY <3>1, <3>2 DEF DirtySeeks
  <2> QED
    BY <2>1, <1>1, NotEmpty
<1>2. ASSUME NEW f \in Fds, NEW seek \in DirtySeeks(f), NEW n \in Lengths
      PROVE  Read(f, seek, n) # << >>
  <2>1. <<Send("FILE", f), Send("LENGTH", n), Receive("READ")>> \in Seq(Messages)
    BY DEF Messages, Send, Receive, Options, Numbers, Values, Commands
  <2> QED
    BY <2>1, <1>1 DEF Read
<1>3. ASSUME NEW f \in Fds, NEW seek \in DirtySeeks(f), NEW d \in Datas
      PROVE  Write(f, seek, d) # << >>
  <2>1. <<Send("FILE", f), Send("DATA", d), Receive("WRITE")>> \in Seq(Messages)
    BY DEF Messages, Send, Receive, Options, Numbers, Strings, Values, Commands
  <2> QED
    BY <2>1, <1>1 DEF Write
<1>4. ASSUME NEW f \in Fds, NEW where \in Offsets
      PROVE  SeekEnd(f, where) # << >>
  <2>1. <<ThenReceive("TELL")>> \in Seq(Messages)
    BY DEF Messages, ThenReceive, Commands
  <2> QED
    BY <2>1, NotEmpty, SeekWellFormed DEF SeekEnd
<1>5. ASSUME NEW f \in Fds, NEW call \in OnFile(f) PROVE call # << >>
  BY <1>2, <1>3, <1>4, <1>5 DEF OnFile
<1>6. ASSUME NEW p \in Paths, NEW call \in OnPath(p) PROVE call # << >>
  BY <1>6 DEF OnPath
<1>7. ASSUME NEW call \in OnIdle PROVE call # << >>
  BY <1>7 DEF OnIdle
<1> QED
  BY <1>5, <1>6, <1>7 DEF Calls

\* Whatever the handler is asked to do, it is well formed.
LEMMA EveryCallWellFormed == \A s \in Scripts : WellFormed(s)
<1>1. WellFormed(<< >>)
  BY DEF WellFormed
<1>2. WellFormed(Handshake)
  <2> DEFINE a == Send("HANDSHAKE", RII_VERSION)
             c == Receive("HANDSHAKE")
  <2>1. Sends(a) /\ a.opt = "HANDSHAKE"
    BY SendIs DEF Options, Numbers, Strings, Values
  <2>2. Commanding(c) /\ c.cmd = "HANDSHAKE"
    BY ReceiveIs DEF Commands
  <2>3. Handshake = <<a, c>>
    BY DEF Handshake
  <2> HIDE DEF a, c
  <2>4. Needs(c.cmd) = {"HANDSHAKE"}
    BY <2>2 DEF Needs
  <2> QED
    BY <2>1, <2>2, <2>3, <2>4, OneSent
<1>3. WellFormed(Goodbye)
  <2> DEFINE c == Receive("GOODBYE")
  <2>1. Commanding(c) /\ c.cmd = "GOODBYE"
    BY ReceiveIs DEF Commands
  <2>2. Goodbye = <<c>>
    BY DEF Goodbye
  <2> HIDE DEF c
  <2>3. Needs(c.cmd) = {}
    BY <2>1 DEF Needs
  <2>4. Goodbye \in Seq(Messages) /\ Len(Goodbye) = 1 /\ Goodbye[1] = c /\ \A i \in 1..1 : i = 1
    BY <2>1, <2>2 DEF Commanding
  <2> QED
    BY <2>1, <2>3, <2>4 DEF WellFormed
<1>4. \A s \in Calls : WellFormed(s)
  <2> TAKE s \in Calls
  <2>1. CASE s \in UNION {OnFile(f) : f \in Fds}
    <3>1. PICK f \in Fds : s \in OnFile(f)
      BY <2>1
    <3> QED
      BY <3>1, OnFileWellFormed
  <2>2. CASE s \in UNION {OnPath(p) : p \in Paths}
    <3>1. PICK p \in Paths : s \in OnPath(p)
      BY <2>2
    <3> QED
      BY <3>1, OnPathWellFormed
  <2> QED
    BY <2>1, <2>2, OnIdleWellFormed DEF Calls
<1> QED
  BY <1>1, <1>2, <1>3, <1>4 DEF Scripts
-----------------------------------------------------------------------------
(* The last value given to an option *)

\* The messages among the first n of s that set o.
Setting(s, n, o) == {i \in 1..n : s[i].act = "send" /\ s[i].opt = o}

LEMMA Greatest ==
  ASSUME NEW n \in Nat, NEW S \in SUBSET (1..n), S # {}
  PROVE  Max(S) \in S /\ \A i \in S : i <= Max(S)
<1> DEFINE D == {n - i : i \in S}
<1>1. D \subseteq Nat /\ D # {}
  <2>1. \A i \in S : i \in 1..n /\ n - i \in Nat
    OBVIOUS
  <2> QED
    BY <2>1
<1>2. PICK d \in D : \A e \in D : ~ (<<e, d>> \in OpToRel(<, Nat))
  BY <1>1, WFMin, NatLessThanWellFounded
<1>3. PICK k \in S : d = n - k
  BY <1>2
<1>4. \A e \in D : ~ (e < d)
  BY <1>1, <1>2 DEF OpToRel
<1>5. \A i \in S : i <= k
  <2> TAKE i \in S
  <2>1. n - i \in D
    OBVIOUS
  <2>2. ~ (n - i < n - k)
    BY <1>3, <1>4, <2>1
  <2> QED
    BY <2>2
<1>6. Max(S) = CHOOSE x \in S : \A y \in S : x >= y
  BY DEF Max
<1>7. k \in S /\ \A y \in S : k >= y
  BY <1>5
<1>8. Max(S) \in S /\ \A y \in S : Max(S) >= y
  BY <1>6, <1>7
<1> QED
  BY <1>8

LEMMA LastIs ==
  ASSUME NEW s, NEW n \in Nat, NEW o, NEW x, NEW k \in Setting(s, n, o),
         \A i \in Setting(s, n, o) : i <= k
  PROVE  LastValue(s, n, o, x) = s[k].val
<1> DEFINE S == Setting(s, n, o)
<1>1. S \in SUBSET (1..n) /\ S # {} /\ k \in Nat
  BY DEF Setting
<1>2. LastValue(s, n, o, x) = s[Max(S)].val
  BY <1>1 DEF LastValue, Setting
<1>3. Max(S) \in S /\ \A i \in S : i <= Max(S)
  BY <1>1, Greatest
<1>4. Max(S) <= k /\ k <= Max(S) /\ Max(S) \in 1..n
  BY <1>1, <1>3
<1>5. Max(S) = k
  BY <1>1, <1>4
<1> QED
  BY <1>2, <1>5

LEMMA LastOfNone ==
  ASSUME NEW s, NEW n \in Nat, NEW o, NEW x, Setting(s, n, o) = {}
  PROVE  LastValue(s, n, o, x) = x
BY DEF LastValue, Setting

LEMMA LastStep ==
  ASSUME NEW s, NEW n \in Nat, NEW o, NEW x
  PROVE  LastValue(s, n + 1, o, x) =
           IF s[n + 1].act = "send" /\ s[n + 1].opt = o THEN s[n + 1].val ELSE LastValue(s, n, o, x)
<1>1. \A i \in 1..n + 1 : i \in 1..n \/ i = n + 1
  OBVIOUS
<1>2. n + 1 \in Nat /\ n + 1 \in 1..n + 1 /\ \A i \in 1..n : i \in 1..n + 1
  OBVIOUS
<1>3. CASE s[n + 1].act = "send" /\ s[n + 1].opt = o
  <2>1. n + 1 \in Setting(s, n + 1, o) /\ \A i \in Setting(s, n + 1, o) : i <= n + 1
    BY <1>2, <1>3 DEF Setting
  <2> QED
    BY <1>2, <1>3, <2>1, LastIs
<1>4. CASE ~ (s[n + 1].act = "send" /\ s[n + 1].opt = o)
  <2>1. Setting(s, n + 1, o) = Setting(s, n, o)
    BY <1>1, <1>2, <1>4 DEF Setting
  <2> QED
    BY <1>4, <2>1 DEF LastValue, Setting
<1> QED
  BY <1>3, <1>4

LEMMA LastOfEmpty == ASSUME NEW s, NEW o, NEW x PROVE LastValue(s, 0, o, x) = x
<1>1. Setting(s, 0, o) = {}
  BY DEF Setting
<1> QED
  BY <1>1, LastOfNone

LEMMA LastAgrees ==
  ASSUME NEW s, NEW t, NEW n \in Nat, \A i \in 1..n : s[i] = t[i], NEW o, NEW x
  PROVE  LastValue(s, n, o, x) = LastValue(t, n, o, x)
<1>1. Setting(s, n, o) = Setting(t, n, o) /\ Setting(s, n, o) \in SUBSET (1..n)
  BY DEF Setting
<1>2. CASE Setting(s, n, o) = {}
  BY <1>1, <1>2, LastOfNone
<1>3. CASE Setting(s, n, o) # {}
  <2>1. Max(Setting(s, n, o)) \in 1..n
    BY <1>1, <1>3, Greatest
  <2> QED
    BY <1>1, <1>3, <2>1 DEF LastValue, Setting
<1> QED
  BY <1>2, <1>3

\* An option that has been sent has the value of one of the messages.
LEMMA LastIsSent ==
  ASSUME NEW s, NEW n \in Nat, NEW o, NEW x, Sets(s, n, o)
  PROVE  \E k \in 1..n : s[k].act = "send" /\ s[k].opt = o /\ LastValue(s, n, o, x) = s[k].val
<1> DEFINE S == Setting(s, n, o)
<1>1. S \in SUBSET (1..n) /\ S # {}
  BY DEF Setting, Sets
<1>2. Max(S) \in S /\ \A i \in S : i <= Max(S)
  BY <1>1, Greatest
<1>3. LastValue(s, n, o, x) = s[Max(S)].val
  BY <1>2, LastIs
<1> QED
  BY <1>2, <1>3 DEF Setting

LEMMA LastAppended ==
  ASSUME NEW s \in Seq(Messages), NEW m \in Messages, NEW o, NEW x
  PROVE  LastValue(Append(s, m), Len(Append(s, m)), o, x) =
           IF m.act = "send" /\ m.opt = o THEN m.val ELSE LastValue(s, Len(s), o, x)
<1> DEFINE t == Append(s, m)
<1>1. Len(s) \in Nat /\ Len(t) = Len(s) + 1 /\ t[Len(s) + 1] = m /\ \A i \in 1..Len(s) : t[i] = s[i]
  BY AppendProperties, LenProperties
<1> HIDE DEF t
<1>2. LastValue(t, Len(s), o, x) = LastValue(s, Len(s), o, x)
  BY <1>1, LastAgrees
<1>3. LastValue(t, Len(t), o, x) =
        IF m.act = "send" /\ m.opt = o THEN m.val ELSE LastValue(s, Len(s), o, x)
  BY <1>1, <1>2, LastStep
<1> QED
  BY <1>3 DEF t

LEMMA TailIs ==
  ASSUME NEW T, NEW s \in Seq(T), s # << >>
  PROVE  /\ Len(s) \in Nat /\ Len(s) >= 1 /\ Head(s) = s[1]
         /\ Tail(s) \in Seq(T) /\ Len(Tail(s)) = Len(s) - 1
         /\ \A i \in 1..Len(s) - 1 : Tail(s)[i] = s[i + 1]
<1>1. Len(s) \in Nat /\ Len(s) # 0
  BY LenProperties, EmptySeq
<1>2. Len(s) >= 1
  BY <1>1
<1> QED
  BY <1>1, <1>2, HeadTailProperties

\* Reading the first message does not change what will have been read in the end.
LEMMA LastOfTail ==
  ASSUME NEW s \in Seq(Messages), s # << >>, s[1].act = "send", NEW o, NEW x
  PROVE  LastValue(Tail(s), Len(Tail(s)), o, IF s[1].opt = o THEN s[1].val ELSE x)
           = LastValue(s, Len(s), o, x)
<1> DEFINE t == Tail(s)
           n == Len(s)
           y == IF s[1].opt = o THEN s[1].val ELSE x
<1>1. n \in Nat /\ n >= 1 /\ Len(t) = n - 1 /\ \A i \in 1..n - 1 : t[i] = s[i + 1]
  BY TailIs
<1> HIDE DEF t, n, y
<1>2. n - 1 \in Nat /\ \A i \in 1..n : i = 1 \/ (i - 1 \in 1..n - 1 /\ (i - 1) + 1 = i)
  BY <1>1
<1>3. \A i \in 1..n - 1 : i + 1 \in 1..n
  BY <1>1
<1>4. \A i \in 1..n - 1 : i \in Setting(t, n - 1, o) <=> i + 1 \in Setting(s, n, o)
  BY <1>1, <1>3 DEF Setting
<1>5. Setting(s, n, o) \in SUBSET (1..n) /\ Setting(t, n - 1, o) \in SUBSET (1..n - 1)
  BY DEF Setting
<1>6. CASE Setting(s, n, o) = {}
  <2>1. Setting(t, n - 1, o) = {}
    BY <1>4, <1>5, <1>6
  <2>2. s[1].opt # o
    BY <1>1, <1>6 DEF Setting
  <2> QED
    BY <1>1, <1>2, <1>6, <2>1, <2>2, LastOfNone DEF t, n, y
<1>7. CASE Setting(s, n, o) # {}
  <2> DEFINE k == Max(Setting(s, n, o))
  <2>1. k \in Setting(s, n, o) /\ \A i \in Setting(s, n, o) : i <= k
    BY <1>1, <1>5, <1>7, Greatest
  <2> HIDE DEF k
  <2>2. LastValue(s, n, o, x) = s[k].val /\ k \in 1..n
    BY <1>1, <2>1, <1>5, LastIs
  <2>3. CASE k = 1
    <3>1. Setting(t, n - 1, o) = {}
      <4>1. ASSUME NEW i \in Setting(t, n - 1, o) PROVE FALSE
        <5>1. i \in 1..n - 1 /\ i + 1 <= 1
          BY <1>4, <1>5, <2>1, <2>3
        <5> QED
          BY <5>1
      <4> QED
        BY <4>1
    <3>2. s[1].opt = o
      BY <2>1, <2>3 DEF Setting
    <3> QED
      BY <1>1, <1>2, <2>2, <2>3, <3>1, <3>2, LastOfNone DEF t, n, y
  <2>4. CASE k - 1 \in 1..n - 1 /\ (k - 1) + 1 = k
    <3>1. k - 1 \in Setting(t, n - 1, o) /\ t[k - 1] = s[k]
      BY <1>1, <1>4, <2>1, <2>4
    <3>2. ASSUME NEW i \in Setting(t, n - 1, o) PROVE i <= k - 1
      <4>1. i \in 1..n - 1 /\ i + 1 <= k
        BY <1>4, <1>5, <2>1
      <4> QED
        BY <4>1, <2>2
    <3>3. LastValue(t, n - 1, o, y) = t[k - 1].val
      BY <1>2, <3>1, <3>2, LastIs
    <3> QED
      BY <1>1, <2>2, <3>1, <3>3 DEF t, n, y
  <2> QED
    BY <1>2, <2>2, <2>3, <2>4
<1> QED
  BY <1>6, <1>7
-----------------------------------------------------------------------------
(* The call in progress *)

LEMMA ScriptIs ==
  ASSUME Types
  PROVE  /\ WellFormed(script) /\ script \in Seq(Messages) /\ Len(script) \in Nat
         /\ pc \in Nat /\ pc <= Len(script)
<1>1. WellFormed(script)
  BY EveryCallWellFormed DEF Types, TypeOK, Scripts
<1>2. script \in Seq(Messages) /\ Len(script) \in Nat
  BY <1>1, LenProperties DEF WellFormed
<1> QED
  BY <1>1, <1>2 DEF Types, TypeOK

LEMMA NeedsAreOptions == \A c \in Commands : Needs(c) \subseteq Options
BY DEF Commands, Needs, Options, Numbers, Strings

LEMMA SetsMore ==
  ASSUME NEW s, NEW m \in Nat, NEW n \in Nat, m <= n, NEW o, Sets(s, m, o)
  PROVE  Sets(s, n, o)
BY DEF Sets

LEMMA SentIs ==
  ASSUME NEW s, WellFormed(s), NEW n \in Nat, n <= Len(s), NEW o, Sets(s, n, o)
  PROVE  /\ LastValue(s, n, o, Unset) \in Values
         /\ o = "LENGTH" => LastValue(s, n, o, Unset) \in Lengths
<1>1. PICK k \in 1..n : s[k].act = "send" /\ s[k].opt = o /\ LastValue(s, n, o, Unset) = s[k].val
  BY LastIsSent
<1>2. Len(s) \in Nat
  BY LenProperties DEF WellFormed
<1>3. k \in 1..Len(s)
  BY <1>2
<1>4. Sends(s[k])
  BY <1>1, <1>3 DEF WellFormed, Commanding
<1> QED
  BY <1>1, <1>4 DEF Sends

\* What the client expects of the command that is the nth step of its call.
LEMMA RequestOf ==
  ASSUME NEW s, WellFormed(s), NEW n \in 1..Len(s), s[n].act = "receive",
         NEW r, r = [cmd |-> s[n].cmd, args |-> [o \in Needs(s[n].cmd) |-> LastValue(s, n, o, Unset)]]
  PROVE  /\ r \in Requests /\ r # Nothing
         /\ \A o \in Needs(s[n].cmd) : Sets(s, n, o) /\ o \in Options
         /\ s[n].cmd = "READ" => LastValue(s, n, "LENGTH", Unset) \in Lengths
         /\ s[n] \in Messages /\ s[n].cmd \in Commands
<1> DEFINE cmd == s[n].cmd
<1>1. Len(s) \in Nat
  BY LenProperties DEF WellFormed
<1>2. n \in Nat /\ n <= Len(s) /\ n - 1 \in Nat /\ n - 1 <= n
  BY <1>1
<1>3. s[n] \in Messages /\ cmd \in Commands /\ \A o \in Needs(cmd) : Sets(s, n - 1, o)
  BY DEF WellFormed, Sends, Commanding
<1> HIDE DEF cmd
<1>4. \A o \in Needs(cmd) : Sets(s, n, o)
  BY <1>2, <1>3, SetsMore
<1>5. \A o \in Needs(cmd) : LastValue(s, n, o, Unset) \in Values
  BY <1>2, <1>4, SentIs
<1>6. [o \in Needs(cmd) |-> LastValue(s, n, o, Unset)] \in [Needs(cmd) -> Values]
  BY <1>5
<1>7. r \in Requests /\ r.cmd = cmd
  BY <1>3, <1>6 DEF Requests, cmd
<1>8. Nothing.cmd = "NONE" /\ cmd # "NONE"
  BY <1>3 DEF Nothing, Commands
<1>9. cmd = "READ" => LastValue(s, n, "LENGTH", Unset) \in Lengths
  <2> HAVE cmd = "READ"
  <2>1. "LENGTH" \in Needs(cmd)
    BY DEF Needs
  <2> QED
    BY <1>2, <1>4, <2>1, SentIs
<1> QED
  BY <1>3, <1>4, <1>7, <1>8, <1>9, NeedsAreOptions DEF cmd

LEMMA RequestIs ==
  ASSUME Types, pc \in 1..Len(script), script[pc].act = "receive"
  PROVE  /\ Request \in Requests /\ Request # Nothing
         /\ \A o \in Needs(script[pc].cmd) : HasSent(o) /\ o \in Options
         /\ script[pc].cmd = "READ" => Given("LENGTH") \in Lengths
         /\ script[pc].cmd \in Commands
<1>1. WellFormed(script)
  BY ScriptIs
<1> DEFINE Concludes(s, n, r) ==
             /\ r \in Requests /\ r # Nothing
             /\ \A o \in Needs(s[n].cmd) : Sets(s, n, o) /\ o \in Options
             /\ s[n].cmd = "READ" => LastValue(s, n, "LENGTH", Unset) \in Lengths
             /\ s[n].cmd \in Commands
<1>2. ASSUME NEW s, WellFormed(s), NEW n \in 1..Len(s), s[n].act = "receive"
      PROVE  Concludes(s, n, [cmd |-> s[n].cmd,
                              args |-> [o \in Needs(s[n].cmd) |-> LastValue(s, n, o, Unset)]])
  BY <1>2, RequestOf
<1> HIDE DEF Concludes
<1>3. Concludes(script, pc, [cmd |-> script[pc].cmd,
                             args |-> [o \in Needs(script[pc].cmd) |-> LastValue(script, pc, o, Unset)]])
  BY <1>1, <1>2
<1> QED
  BY <1>3 DEF Concludes, Request, Given, HasSent, Sets

-----------------------------------------------------------------------------
(* The client's steps *)

LEMMA InitKeeps == ASSUME Init PROVE IndInv
<1>1. \A o \in Options : options[o] = Unset /\ cache[o] = Unset
  BY DEF Init
<1>2. toServer = << >> /\ toClient = << >> /\ Len(<< >>) = 0 /\ awaited = -1 /\ ~ link
  BY DEF Init
<1>3. TypeOK
  <2>1. 0 \in 0..Len(<< >>)
    OBVIOUS
  <2>2. [o \in Options |-> Unset] \in [Options -> Values]
    BY DEF Values
  <2>3. << >> \in Seq([req : Requests, ret : Results])
    OBVIOUS
  <2> QED
    BY <2>1, <2>2, <2>3 DEF Init, TypeOK
<1>4. Types
  <2>1. << >> \in Seq(Messages) /\ << >> \in Seq(Answers)
    OBVIOUS
  <2> QED
    BY <1>1, <1>2, <1>3, <2>1 DEF Types, Init
<1> QED
  BY <1>2, <1>4 DEF IndInv, Queue, Waiting, Agreed, CacheCoherent, Init

\* Between calls nothing is under way to the client.
LEMMA AtRest ==
  ASSUME IndInv, Idle \/ Done
  PROVE  awaited = -1 /\ acted = << >> /\ toClient = << >>
<1>1. CASE Idle
  <2>1. Len(script) = 0 /\ ~ (pc \in 1..Len(script))
    BY <1>1 DEF Idle
  <2> QED
    BY <2>1 DEF IndInv, Waiting
<1>2. CASE Done
  BY <1>2 DEF Done, IndInv, Waiting
<1> QED
  BY <1>1, <1>2

\* While the client waits, its request stays the same.
LEMMA RequestSame ==
  ASSUME UNCHANGED <<script, pc>>
  PROVE  /\ Request' = Request
         /\ acted' = acted => \A ret : Executed(ret)' <=> Executed(ret)
BY DEF Request, Given, Executed

\* The next call begins with nothing sent yet.
LEMMA StartKeeps ==
  ASSUME IndInv, NEW call \in Scripts, Start(call), Idle \/ Done,
         phase' \in {"mounting", "mounted", "unmounting"}, phase' = "unmounting" => call = Goodbye,
         UNCHANGED <<cache, link, toServer, toClient, options, acted>>
  PROVE  IndInv'
<1>1. script' = call /\ pc' = 0 /\ awaited' = -1 /\ failed' = FALSE /\ awaited = -1
  BY AtRest DEF Start
<1>2. acted' = << >> /\ toClient' = << >>
  BY AtRest
<1>3. Types'
  <2>1. Len(call) \in Nat
    BY EveryCallWellFormed, LenProperties DEF WellFormed
  <2>2. 0 \in 0..Len(call)
    BY <2>1
  <2>3. Goodbye # << >>
    BY DEF Goodbye
  <2> QED
    BY <1>1, <2>2, <2>3 DEF IndInv, Types, TypeOK, Scripts
<1>4. Queue'
  BY <1>1 DEF IndInv, Queue, OnlySends
<1>5. Waiting'
  BY <1>1, <1>2 DEF Waiting
<1>6. Agreed'
  BY <1>1 DEF Agreed, HasSent
<1>7. CacheCoherent'
  BY <1>1 DEF IndInv, CacheCoherent, Eventually
<1> QED
  BY <1>3, <1>4, <1>5, <1>6, <1>7 DEF IndInv

LEMMA ConnectKeeps == ASSUME IndInv, Connect PROVE IndInv'
<1>1. /\ phase' = "mounting" /\ script' = Handshake /\ pc' = 0 /\ awaited' = -1 /\ failed' = FALSE
      /\ cache' = cache /\ link' = TRUE /\ toServer' = << >> /\ toClient' = << >>
      /\ options' = [o \in Options |-> Unset] /\ acted' = << >>
  BY DEF Connect, Start
<1>2. \A o \in Options : cache'[o] = Unset
  BY <1>1 DEF IndInv, Types, Connect
<1>3. Types'
  <2>1. 0 \in 0..Len(Handshake)
    BY EveryCallWellFormed, LenProperties DEF WellFormed, Scripts
  <2>2. << >> \in Seq(Messages) /\ << >> \in Seq(Answers)
    OBVIOUS
  <2>3. << >> \in Seq([req : Requests, ret : Results])
    OBVIOUS
  <2> QED
    BY <1>1, <2>1, <2>2, <2>3 DEF IndInv, Types, TypeOK, Values
<1>4. Len(<< >>) = 0
  OBVIOUS
<1>5. Queue' /\ Waiting' /\ Agreed'
  BY <1>1, <1>4 DEF Queue, OnlySends, Waiting, Agreed, HasSent
<1>6. CacheCoherent'
  BY <1>2 DEF CacheCoherent, Options
<1> QED
  BY <1>3, <1>5, <1>6 DEF IndInv

LEMMA CallKeeps == ASSUME IndInv, Call PROVE IndInv'
BY StartKeeps DEF Call, Scripts, server

LEMMA UnmountKeeps == ASSUME IndInv, Unmount PROVE IndInv'
BY StartKeeps DEF Unmount, Scripts, server

LEMMA ReturnKeeps == ASSUME IndInv, Return PROVE IndInv'
BY StartKeeps DEF Return, Scripts, server

LEMMA ClosedKeeps == ASSUME IndInv, Closed PROVE IndInv'
<1>1. /\ phase' = "closed" /\ script' = << >> /\ pc' = 0 /\ awaited' = -1 /\ failed' = FALSE
      /\ cache' = [o \in Options |-> Unset] /\ link' = FALSE
      /\ options' = [o \in Options |-> Unset]
      /\ toServer' = toServer /\ toClient' = toClient /\ acted' = acted
      /\ acted = << >> /\ toClient = << >>
  BY AtRest DEF Closed, Start
<1>2. Types'
  <2>1. 0 \in 0..Len(<< >>)
    OBVIOUS
  <2> QED
    BY <1>1, <2>1 DEF IndInv, Types, TypeOK, Values
<1> QED
  BY <1>1, <1>2 DEF IndInv, Queue, Waiting, Agreed, CacheCoherent

\* A step of the call that is not an option gives none a new value.
LEMMA GivenSame ==
  ASSUME Types, pc < Len(script), Step.act = "receive", script' = script, pc' = pc + 1
  PROVE  /\ \A o : Given(o)' = Given(o)
         /\ \A o : HasSent(o)' => HasSent(o)
<1>1. pc \in Nat /\ script[pc + 1].act # "send"
  BY ScriptIs DEF Step
<1>2. ASSUME NEW s, NEW n \in Nat, s[n + 1].act # "send", NEW o
      PROVE  LastValue(s, n + 1, o, Unset) = LastValue(s, n, o, Unset)
  BY <1>2, LastStep
<1>3. \A o : Given(o)' = Given(o)
  BY <1>1, <1>2 DEF Given
<1>4. \A i \in 1..pc + 1 : i \in 1..pc \/ i = pc + 1
  BY <1>1
<1>5. \A o : HasSent(o)' => HasSent(o)
  BY <1>1, <1>4 DEF HasSent
<1> QED
  BY <1>3, <1>5

LEMMA SkipReceiveKeeps == ASSUME IndInv, SkipReceive PROVE IndInv'
<1>1. /\ script' = script /\ pc' = pc + 1 /\ pc < Len(script) /\ Step.act = "receive"
      /\ UNCHANGED <<phase, awaited, failed, cache, link, toServer, toClient, options, acted>>
      /\ awaited = -1
  BY DEF SkipReceive, server
<1>2. Types'
  <2>1. pc + 1 \in 0..Len(script)
    BY <1>1, ScriptIs DEF IndInv
  <2> QED
    BY <1>1, <2>1 DEF IndInv, Types, TypeOK
<1>3. \A o : HasSent(o)' => HasSent(o) /\ Given(o)' = Given(o)
  BY <1>1, GivenSame DEF IndInv
<1>4. \A o : Eventually(o)' = Eventually(o)
  BY <1>1 DEF Eventually
<1>5. Queue' /\ Waiting'
  BY <1>1 DEF IndInv, Queue, OnlySends, Waiting
<1>6. Agreed'
  BY <1>1, <1>3, <1>4 DEF IndInv, Agreed
<1>7. CacheCoherent'
  BY <1>1, <1>4 DEF IndInv, CacheCoherent
<1> QED
  BY <1>2, <1>5, <1>6, <1>7 DEF IndInv

\* What the server will have, once more is under way.
LEMMA EventuallyAppended ==
  ASSUME Types, NEW m \in Messages, toServer' = Append(toServer, m), options' = options, NEW o
  PROVE  Eventually(o)' = IF m.act = "send" /\ m.opt = o THEN m.val ELSE Eventually(o)
<1>1. ASSUME NEW s \in Seq(Messages), NEW x
      PROVE  LastValue(Append(s, m), Len(Append(s, m)), o, x) =
               IF m.act = "send" /\ m.opt = o THEN m.val ELSE LastValue(s, Len(s), o, x)
  BY LastAppended
<1>2. toServer \in Seq(Messages)
  BY DEF Types
<1> QED
  BY <1>1, <1>2 DEF Eventually

LEMMA SendOptionKeeps == ASSUME NoWords, IndInv, SendOption PROVE IndInv'
<1> DEFINE m == script[pc + 1]
<1>1. /\ script' = script /\ pc' = pc + 1 /\ pc < Len(script) /\ m.act = "send" /\ awaited = -1
      /\ UNCHANGED <<phase, awaited, failed, link, toClient, options, acted>>
  BY DEF SendOption, Step, server
<1>2. Types /\ pc \in Nat /\ pc + 1 \in 0..Len(script) /\ pc + 1 \in 1..Len(script)
  BY <1>1, ScriptIs DEF IndInv
<1>3. Sends(m)
  BY <1>1, <1>2, ScriptIs DEF WellFormed, Commanding
<1> HIDE DEF m
<1>4. \/ m.opt \in Numbers /\ cache[m.opt] = m.val /\ cache' = cache /\ toServer' = toServer
      \/ /\ link /\ toServer' = Append(toServer, m)
         /\ cache' = IF m.opt \in Numbers THEN [cache EXCEPT ![m.opt] = m.val] ELSE cache
      \/ /\ ~ link /\ toServer' = toServer
         /\ cache' \in {cache, [cache EXCEPT ![m.opt] = m.val]}
  BY DEF SendOption, Cached, Cacheable, NoWords, Step, m
<1>5. Types'
  <2>1. cache \in [Options -> Values] /\ toServer \in Seq(Messages) /\ m.opt \in Options
        /\ m.val \in Values /\ m \in Messages
    BY <1>3 DEF Sends, IndInv, Types, TypeOK
  <2>2. cache' \in [Options -> Values]
    <3>1. [cache EXCEPT ![m.opt] = m.val] \in [Options -> Values]
      BY <2>1
    <3> QED
      BY <1>4, <2>1, <3>1
  <2>3. toServer' \in Seq(Messages)
    BY <1>4, <2>1, AppendProperties
  <2>4. phase # "closed"
    <3>1. script # << >>
      <4>1. Len(<< >>) = 0 /\ ~ (pc + 1 \in 1..0)
        BY <1>2
      <4> QED
        BY <1>2, <4>1
    <3> QED
      BY <1>2, <3>1 DEF Types
  <2> QED
    BY <1>1, <1>2, <2>2, <2>3, <2>4 DEF Types, TypeOK
<1>6. ASSUME NEW o \in Options, HasSent(o)', m.opt # o
      PROVE  HasSent(o)
  <2>1. \A i \in 1..pc + 1 : i \in 1..pc \/ i = pc + 1
    BY <1>2
  <2> QED
    BY <1>1, <1>6, <2>1 DEF HasSent, m
<1>7. \A o : Given(o)' = IF m.opt = o THEN m.val ELSE Given(o)
  <2>1. ASSUME NEW s, NEW n \in Nat, s[n + 1].act = "send", NEW o
        PROVE  LastValue(s, n + 1, o, Unset) =
                 IF s[n + 1].opt = o THEN s[n + 1].val ELSE LastValue(s, n, o, Unset)
    <3>1. LastValue(s, n + 1, o, Unset) =
            IF s[n + 1].act = "send" /\ s[n + 1].opt = o THEN s[n + 1].val ELSE LastValue(s, n, o, Unset)
      BY LastStep
    <3> QED
      BY <2>1, <3>1
  <2> QED
    BY <1>1, <1>2, <2>1 DEF Given, m
<1>8. \A o : toServer' = toServer => Eventually(o)' = Eventually(o)
  BY <1>1 DEF Eventually
<1>9. \A o : toServer' = Append(toServer, m) =>
               Eventually(o)' = IF m.opt = o THEN m.val ELSE Eventually(o)
  BY <1>1, <1>2, <1>3, EventuallyAppended DEF Sends, m
<1>10. Queue'
  <2>1. link => OnlySends(Len(toServer))
    BY <1>1 DEF IndInv, Queue
  <2>2. CASE toServer' = toServer
    BY <1>1, <2>1, <2>2 DEF Queue, OnlySends
  <2>3. CASE toServer' = Append(toServer, m)
    <3>1. /\ Len(toServer) \in Nat /\ Len(toServer') = Len(toServer) + 1
          /\ toServer'[Len(toServer) + 1] = m
          /\ \A i \in 1..Len(toServer) : toServer'[i] = toServer[i]
      BY <1>2, <1>3, <2>3, AppendProperties, LenProperties DEF Sends, Types
    <3>2. m.act = "send"
      BY <1>3 DEF Sends
    <3>3. \A i \in 1..Len(toServer) + 1 : i \in 1..Len(toServer) \/ i = Len(toServer) + 1
      BY <3>1
    <3>4. link => \A i \in 1..Len(toServer) + 1 : toServer'[i].act = "send"
      BY <2>1, <3>1, <3>2, <3>3 DEF OnlySends
    <3>5. link => OnlySends(Len(toServer))'
      BY <3>1, <3>4 DEF OnlySends
    <3> QED
      BY <1>1, <3>5 DEF Queue
  <2> QED
    BY <1>4, <2>2, <2>3
<1>11. Waiting'
  BY <1>1 DEF IndInv, Waiting
<1>12. ASSUME link'
       PROVE  \/ /\ m.opt \in Numbers /\ cache[m.opt] = m.val /\ m.val # Unset
                 /\ cache' = cache /\ toServer' = toServer /\ Eventually(m.opt) = m.val
              \/ /\ toServer' = Append(toServer, m)
                 /\ cache' = IF m.opt \in Numbers THEN [cache EXCEPT ![m.opt] = m.val] ELSE cache
  <2>1. m.opt \in Numbers => m.val # Unset
    BY <1>3 DEF Sends
  <2> QED
    BY <1>1, <1>4, <1>12, <2>1 DEF IndInv, CacheCoherent
<1>13. Agreed'
  <2> SUFFICES ASSUME link', NEW o \in Options, HasSent(o)'
               PROVE  Eventually(o)' = Given(o)'
    BY DEF Agreed
  <2>1. m.opt # o => Eventually(o) = Given(o)
    BY <1>1, <1>6 DEF IndInv, Agreed
  <2> QED
    BY <1>7, <1>8, <1>9, <1>12, <2>1
<1>14. CacheCoherent'
  <2> SUFFICES ASSUME link', NEW o \in Numbers, cache'[o] # Unset
               PROVE  Eventually(o)' = cache'[o]
    BY DEF CacheCoherent
  <2>1. cache[o] # Unset => Eventually(o) = cache[o]
    BY <1>1 DEF IndInv, CacheCoherent
  <2>2. cache \in [Options -> Values] /\ o \in Options
    BY <1>2 DEF Types, TypeOK, Options
  <2> QED
    BY <1>8, <1>9, <1>12, <2>1, <2>2
<1> QED
  BY <1>5, <1>10, <1>11, <1>13, <1>14 DEF IndInv

LEMMA SendReceiveKeeps ==
  ASSUME IndInv, SendReceive
  PROVE  /\ IndInv'
         /\ awaited = -1 /\ UNCHANGED acted
         /\ awaited' # -1 => (Request \in Requests)'
<1> DEFINE m == script[pc + 1]
<1>1. /\ script' = script /\ pc' = pc + 1 /\ pc < Len(script) /\ m.act = "receive" /\ awaited = -1
      /\ Step.act = "receive"
      /\ UNCHANGED <<phase, cache, link, toClient, options, acted>>
  BY DEF SendReceive, Step, server
<1>2. Types /\ pc \in Nat /\ pc + 1 \in 0..Len(script) /\ pc + 1 \in 1..Len(script)
  BY <1>1, ScriptIs DEF IndInv
<1>3. m \in Messages
  BY <1>1, <1>2, ScriptIs DEF WellFormed, Sends, Commanding
<1> HIDE DEF m
<1>4. \/ /\ toServer' = IF link THEN Append(toServer, m) ELSE toServer
         /\ awaited' = Expects(m.cmd) /\ failed' = failed
      \/ ~ link /\ failed' = TRUE /\ UNCHANGED <<toServer, awaited>>
  BY DEF SendReceive, Step, m
<1>5. acted = << >> /\ toClient = << >>
  BY <1>1 DEF IndInv, Waiting
<1>6. \A o : HasSent(o)' => HasSent(o) /\ Given(o)' = Given(o)
  BY <1>1, <1>2, GivenSame
<1>7. script'[pc'] = m /\ \A o : Given(o)' = LastValue(script, pc + 1, o, Unset)
  BY <1>1 DEF m, Given
<1>8. /\ Request' \in Requests /\ Request' # Nothing
      /\ m.cmd = "READ" => Given("LENGTH") \in Lengths
  <2> DEFINE n == pc + 1
             Asked(s) == [cmd |-> s[n].cmd,
                          args |-> [o \in Needs(s[n].cmd) |-> LastValue(s, n, o, Unset)]]
  <2>1. WellFormed(script) /\ n \in 1..Len(script) /\ script[n].act = "receive"
    BY <1>1, <1>2, ScriptIs DEF m
  <2>2. Request' = Asked(script)
    BY <1>1 DEF Request, Given
  <2>3. ASSUME NEW s, NEW k \in 1..Len(s), WellFormed(s), s[k].act = "receive"
        PROVE  LET r == [cmd |-> s[k].cmd, args |-> [o \in Needs(s[k].cmd) |-> LastValue(s, k, o, Unset)]]
               IN /\ r \in Requests /\ r # Nothing
                  /\ s[k].cmd = "READ" => LastValue(s, k, "LENGTH", Unset) \in Lengths
    BY <2>3, RequestOf
  <2>4. Asked(script) \in Requests /\ Asked(script) # Nothing
    BY <2>1, <2>3
  <2>5. m.cmd = "READ" => LastValue(script, n, "LENGTH", Unset) \in Lengths
    BY <2>1, <2>3 DEF m
  <2>6. Given("LENGTH")' = LastValue(script, n, "LENGTH", Unset)
    BY <1>7
  <2>7. Given("LENGTH")' = Given("LENGTH")
    BY <1>1, <1>2, GivenSame
  <2> QED
    BY <2>2, <2>4, <2>5, <2>6, <2>7
<1>9. /\ Expects(m.cmd) \in Lengths \cup {0, 1} /\ Expects(m.cmd) # -1
      /\ Expects(script[pc].cmd)' = Expects(m.cmd)
  <2>1. Lengths \subseteq Nat
    BY RiiSessionAssumption DEF RiiSessionAssumption
  <2>2. Expects(m.cmd) \in Lengths \cup {0, 1}
    BY <1>8 DEF Expects
  <2>3. Given("LENGTH")' = Given("LENGTH")
    BY <1>1, <1>2, GivenSame
  <2> QED
    BY <1>7, <2>1, <2>2, <2>3 DEF Expects
<1>10. Types'
  <2>1. toServer' \in Seq(Messages)
    BY <1>2, <1>3, <1>4, AppendProperties DEF Types
  <2>2. failed' \in BOOLEAN /\ awaited' \in Lengths \cup {-1, 0, 1}
    BY <1>2, <1>4, <1>9 DEF Types, TypeOK
  <2>3. phase # "closed"
    <3>1. script # << >>
      <4>1. Len(<< >>) = 0 /\ ~ (pc + 1 \in 1..0)
        BY <1>2
      <4> QED
        BY <1>2, <4>1
    <3> QED
      BY <1>2, <3>1 DEF Types
  <2> QED
    BY <1>1, <1>2, <2>1, <2>2, <2>3 DEF Types, TypeOK
<1>11. \A o : Eventually(o)' = Eventually(o)
  <2>1. toServer' = toServer \/ toServer' = Append(toServer, m)
    BY <1>4
  <2>2. toServer' = toServer => \A o : Eventually(o)' = Eventually(o)
    BY <1>1 DEF Eventually
  <2>3. ASSUME toServer' = Append(toServer, m), NEW o
        PROVE  Eventually(o)' = Eventually(o)
    <3>1. m.act # "send"
      BY <1>1 DEF m
    <3> QED
      BY <1>1, <1>2, <1>3, <2>3, <3>1, EventuallyAppended
  <2> QED
    BY <2>1, <2>2, <2>3
<1>12. Queue'
  <2> SUFFICES ASSUME link
               PROVE  /\ awaited' # -1 /\ acted' = << >> /\ toClient' = << >>
                      /\ toServer' # << >> /\ toServer'[Len(toServer')] = script'[pc']
                      /\ \A i \in 1..Len(toServer') - 1 : toServer'[i].act = "send"
    BY <1>1 DEF Queue, OnlySends
  <2>1. /\ Len(toServer) \in Nat /\ toServer' # << >> /\ Len(toServer') = Len(toServer) + 1
        /\ toServer'[Len(toServer) + 1] = m
        /\ \A i \in 1..Len(toServer) : toServer'[i] = toServer[i]
    BY <1>2, <1>3, <1>4, AppendProperties, LenProperties DEF Types
  <2>2. \A i \in 1..Len(toServer) : toServer[i].act = "send"
    BY <1>1 DEF IndInv, Queue, OnlySends
  <2>3. (Len(toServer) + 1) - 1 = Len(toServer)
    BY <2>1
  <2> QED
    BY <1>1, <1>4, <1>5, <1>7, <1>9, <2>1, <2>2, <2>3
<1>13. Waiting'
  <2>1. acted' = << >> /\ toClient' = << >> /\ Len(toClient') = 0
    BY <1>1, <1>5
  <2>2. CASE awaited' = -1
    BY <2>1, <2>2 DEF Waiting
  <2>3. CASE awaited' # -1
    <3>1. awaited' = Expects(m.cmd) /\ awaited' \in Nat
      <4>1. Lengths \cup {0, 1} \subseteq Nat
        BY RiiSessionAssumption DEF RiiSessionAssumption
      <4>2. awaited' = Expects(m.cmd)
        BY <1>1, <1>4, <2>3
      <4>3. Expects(m.cmd) \in Nat
        BY <1>9, <4>1
      <4> QED
        BY <4>2, <4>3
    <3>2. pc' \in 1..Len(script') /\ script'[pc'].act = "receive"
      BY <1>1, <1>2 DEF m
    <3>3. awaited' = Expects(script[pc].cmd)'
      BY <1>9, <3>1
    <3>4. Len(toClient') <= awaited' + 1 /\ ~ (\E i \in 1..Len(toClient') : TRUE)
      BY <2>1, <3>1
    <3> QED
      BY <2>1, <2>3, <3>2, <3>3, <3>4 DEF Waiting
  <2> QED
    BY <2>2, <2>3
<1>14. Agreed'
  BY <1>1, <1>6, <1>11 DEF IndInv, Agreed
<1>15. CacheCoherent'
  BY <1>1, <1>11 DEF IndInv, CacheCoherent
<1> QED
  BY <1>1, <1>8, <1>10, <1>12, <1>13, <1>14, <1>15 DEF IndInv

\* When the answer ends, a command is under way no more.
LEMMA EndKeeps ==
  ASSUME IndInv, toClient' = << >>, awaited' = -1, acted' = << >>, failed' \in BOOLEAN,
         link => OnlySends(Len(toServer)),
         UNCHANGED <<phase, script, pc, cache, link, toServer, options>>
  PROVE  IndInv'
<1>1. Types'
  <2>1. << >> \in Seq(Answers)
    OBVIOUS
  <2> QED
    BY <2>1 DEF IndInv, Types, TypeOK
<1>2. Queue' /\ Waiting'
  BY DEF Queue, Waiting, OnlySends
<1>3. \A o : Eventually(o)' = Eventually(o) /\ Given(o)' = Given(o) /\ (HasSent(o)' <=> HasSent(o))
  BY DEF Eventually, Given, HasSent
<1> QED
  BY <1>1, <1>2, <1>3 DEF IndInv, Agreed, CacheCoherent

LEMMA GetAnswerKeeps == ASSUME IndInv, GetAnswer PROVE IndInv'
<1>1. Len(toClient) \in Nat /\ awaited \in Int /\ awaited # -1
  BY RiiSessionAssumption, LenProperties DEF RiiSessionAssumption, GetAnswer, IndInv, Types, TypeOK
<1>2. Len(toClient) < awaited + 2
  BY <1>1 DEF IndInv, Waiting
<1>3. toClient' = << >>
  BY <1>1, <1>2, SubSeqEmpty DEF GetAnswer
<1>4. link => OnlySends(Len(toServer))
  <2>1. toClient # << >>
    <3>1. Len(toClient) > 0 /\ Len(<< >>) = 0
      BY <1>1 DEF GetAnswer
    <3> QED
      BY <3>1
  <2>2. link => toServer = << >>
    BY <1>1, <2>1 DEF IndInv, Queue
  <2> QED
    BY <2>2 DEF OnlySends
<1> QED
  BY <1>3, <1>4, EndKeeps DEF GetAnswer

LEMMA NoAnswerKeeps == ASSUME IndInv, NoAnswer PROVE IndInv'
BY EndKeeps DEF NoAnswer
-----------------------------------------------------------------------------
(* The server's steps *)

LEMMA UnderWay ==
  ASSUME IndInv, link, toServer # << >>
  PROVE  /\ toServer \in Seq(Messages) /\ Len(toServer) \in Nat /\ Len(toServer) >= 1
         /\ Head(toServer) = toServer[1] /\ toServer[1] \in Messages
         /\ Tail(toServer) \in Seq(Messages) /\ Len(Tail(toServer)) = Len(toServer) - 1
         /\ \A i \in 1..Len(toServer) - 1 : Tail(toServer)[i] = toServer[i + 1]
<1>1. toServer \in Seq(Messages)
  BY DEF IndInv, Types
<1>2. Len(toServer) \in Nat /\ Len(toServer) >= 1
  BY <1>1, TailIs
<1> QED
  BY <1>1, <1>2, TailIs, ElementOfSeq

LEMMA ServeSendKeeps == ASSUME IndInv, ServeSend PROVE IndInv'
<1> DEFINE m == toServer[1]
<1>1. /\ link /\ toServer # << >> /\ m.act = "send" /\ toServer' = Tail(toServer)
      /\ options' = [options EXCEPT ![m.opt] = m.val]
      /\ UNCHANGED <<phase, script, pc, awaited, failed, cache, link, toClient, acted>>
  BY UnderWay DEF ServeSend, client
<1>2. m \in Messages /\ m.opt \in Options /\ m.val \in Values
  BY <1>1, UnderWay DEF Messages
<1>3. options \in [Options -> Values]
  BY DEF IndInv, Types, TypeOK
<1>4. \A o \in Options : options'[o] = IF m.opt = o THEN m.val ELSE options[o]
  BY <1>1, <1>2, <1>3
<1>5. \A o \in Options : Eventually(o)' = Eventually(o)
  <2> TAKE o \in Options
  <2>1. ASSUME NEW s \in Seq(Messages), s # << >>, s[1].act = "send", NEW x
        PROVE  LastValue(Tail(s), Len(Tail(s)), o, IF s[1].opt = o THEN s[1].val ELSE x)
                 = LastValue(s, Len(s), o, x)
    BY <2>1, LastOfTail
  <2>2. LastValue(Tail(toServer), Len(Tail(toServer)), o, IF m.opt = o THEN m.val ELSE options[o])
          = LastValue(toServer, Len(toServer), o, options[o])
    BY <1>1, <2>1, UnderWay
  <2> QED
    BY <1>1, <1>4, <2>2 DEF Eventually
<1>6. Types'
  <2>1. options' \in [Options -> Values]
    BY <1>1, <1>2, <1>3
  <2> QED
    BY <1>1, <2>1, UnderWay DEF IndInv, Types, TypeOK
<1>7. Queue'
  <2>1. toServer' = Tail(toServer) /\ Len(toServer') = Len(toServer) - 1
        /\ \A i \in 1..Len(toServer) - 1 : toServer'[i] = toServer[i + 1]
    BY <1>1, UnderWay
  <2>2. Len(toServer) \in Nat /\ Len(toServer) >= 1
    BY <1>1, UnderWay
  <2>3. CASE awaited = -1 /\ OnlySends(Len(toServer))
    <3>1. \A i \in 1..Len(toServer) - 1 : i + 1 \in 1..Len(toServer)
      BY <2>2
    <3> QED
      BY <1>1, <2>1, <2>3, <3>1 DEF Queue, OnlySends
  <2>4. CASE /\ awaited # -1 /\ acted = << >> /\ toClient = << >>
             /\ toServer[Len(toServer)] = script[pc]
             /\ OnlySends(Len(toServer) - 1)
    <3>1. script[pc].act = "receive"
      BY <2>4 DEF IndInv, Waiting
    <3>2. Len(toServer) # 1
      BY <1>1, <2>4, <3>1
    <3>3. /\ Len(toServer) - 1 \in 1..Len(toServer) - 1 /\ (Len(toServer) - 1) + 1 = Len(toServer)
          /\ \A i \in 1..(Len(toServer) - 1) - 1 :
               i \in 1..Len(toServer) - 1 /\ i + 1 \in 1..Len(toServer) - 1
          /\ Len(toServer) - 1 # 0
      <4> DEFINE n == Len(toServer)
      <4>1. n \in Nat /\ n >= 1 /\ n # 1
        BY <2>2, <3>2
      <4> HIDE DEF n
      <4>2. /\ n - 1 \in 1..n - 1 /\ (n - 1) + 1 = n
            /\ \A i \in 1..(n - 1) - 1 : i \in 1..n - 1 /\ i + 1 \in 1..n - 1
            /\ n - 1 # 0
        BY <4>1
      <4> QED
        BY <4>2 DEF n
    <3>4. toServer' # << >>
      BY <2>1, <3>3, EmptySeq
    <3>5. toServer'[Len(toServer')] = script[pc]
      BY <2>1, <2>4, <3>3
    <3>6. \A i \in 1..(Len(toServer) - 1) - 1 : toServer'[i].act = "send"
      BY <2>1, <2>4, <3>3 DEF OnlySends
    <3>7. OnlySends(Len(toServer) - 1)'
      BY <2>1, <3>6 DEF OnlySends
    <3> QED
      BY <1>1, <2>4, <3>4, <3>5, <3>7 DEF Queue
  <2> QED
    BY <1>1, <2>3, <2>4 DEF IndInv, Queue
<1>8. \A o : Given(o)' = Given(o) /\ (HasSent(o)' <=> HasSent(o))
  BY <1>1 DEF Given, HasSent
<1>9. Waiting'
  <2>1. (\A ret : Executed(ret)' <=> Executed(ret)) /\ \A k : Expects(k)' = Expects(k)
    BY <1>1, RequestSame DEF Given, Expects
  <2> QED
    BY <1>1, <2>1 DEF IndInv, Waiting
<1>10. Agreed' /\ CacheCoherent'
  <2>1. Numbers \subseteq Options
    BY DEF Options
  <2> QED
    BY <1>1, <1>5, <1>8, <2>1 DEF IndInv, Agreed, CacheCoherent
<1> QED
  BY <1>6, <1>7, <1>9, <1>10 DEF IndInv

LEMMA BreakKeeps == ASSUME IndInv, Break PROVE IndInv'
<1>1. /\ link' = FALSE /\ options' = [o \in Options |-> Unset] /\ toServer' = << >>
      /\ UNCHANGED <<phase, script, pc, awaited, failed, cache, acted>>
  BY DEF Break, EndConnection, client
<1>2. toClient \in Seq(Answers) /\ Len(toClient) \in Nat
  BY LenProperties DEF IndInv, Types
<1>3. PICK n \in 0..Len(toClient) : toClient' = SubSeq(toClient, 1, n)
  BY DEF Break
<1>4. \A i \in 1..n : i \in 1..Len(toClient) /\ toClient[i] \in Answers
  BY <1>2, ElementOfSeq
<1>5. /\ toClient' \in Seq(Answers) /\ Len(toClient') = n
      /\ \A i \in 1..n : toClient'[i] = toClient[i]
  <2>1. n \in Int /\ 1 \in Int /\ n - 1 + 1 = n /\ (1 <= n \/ n = 0) /\ \A i \in 1..n : 1 + i - 1 = i
    BY <1>2
  <2>2. /\ SubSeq(toClient, 1, n) \in Seq(Answers)
        /\ Len(SubSeq(toClient, 1, n)) = IF 1 <= n THEN n - 1 + 1 ELSE 0
        /\ \A i \in 1..n - 1 + 1 : SubSeq(toClient, 1, n)[i] = toClient[1 + i - 1]
    BY <1>4, <2>1, SubSeqProperties
  <2> QED
    BY <1>3, <2>1, <2>2
<1>6. Types'
  <2>1. << >> \in Seq(Messages) /\ [o \in Options |-> Unset] \in [Options -> Values]
    BY DEF Values
  <2> QED
    BY <1>1, <1>5, <2>1 DEF IndInv, Types, TypeOK
<1>7. \A o : Given(o)' = Given(o)
  BY <1>1 DEF Given
<1>8. Waiting'
  <2>1. CASE awaited = -1
    <3>1. acted = << >> /\ n = 0
      BY <1>2, <2>1 DEF IndInv, Waiting
    <3>2. toClient' = << >>
      BY <1>5, <3>1, EmptySeq
    <3> QED
      BY <1>1, <2>1, <3>1, <3>2 DEF Waiting
  <2>2. CASE awaited # -1
    <3>1. n <= awaited + 1
      <4>1. awaited \in Int
        BY RiiSessionAssumption DEF RiiSessionAssumption, IndInv, Types, TypeOK
      <4> QED
        BY <1>2, <2>2, <4>1 DEF IndInv, Waiting
    <3>2. \A i \in 1..n :
            /\ toClient'[i].cmd = script[pc].cmd /\ (toClient'[i].last <=> i = awaited + 1)
            /\ i = awaited + 1 => Executed(toClient'[i].ret)
      BY <1>4, <1>5, <2>2 DEF IndInv, Waiting
    <3>3. Expects(script[pc].cmd)' = Expects(script[pc].cmd) /\ \A ret : Executed(ret)' <=> Executed(ret)
      BY <1>1, <1>7, RequestSame DEF Expects
    <3> QED
      BY <1>1, <1>5, <2>2, <3>1, <3>2, <3>3 DEF IndInv, Waiting
  <2> QED
    BY <2>1, <2>2
<1> QED
  BY <1>1, <1>6, <1>8 DEF IndInv, Queue, Agreed, CacheCoherent

\* The answer: as many blocks of data as the client expects, then the last word.
LEMMA ReplyIs ==
  ASSUME NEW cmd \in Commands, NEW ret \in Returns(cmd), Blocks(cmd) \in Nat
  PROVE  /\ Reply(cmd, ret) \in Seq(Answers) /\ Len(Reply(cmd, ret)) = Blocks(cmd) + 1
         /\ \A i \in 1..Blocks(cmd) + 1 :
              /\ Reply(cmd, ret)[i].cmd = cmd
              /\ Reply(cmd, ret)[i].last <=> i = Blocks(cmd) + 1
              /\ i = Blocks(cmd) + 1 => Reply(cmd, ret)[i].ret = ret
<1> DEFINE n == Blocks(cmd)
           block == [cmd |-> cmd, last |-> FALSE, ret |-> 0]
           word == [cmd |-> cmd, last |-> TRUE, ret |-> ret]
           data == [i \in 1..n |-> block]
<1>1. ret \in Int
  BY DEF Returns
<1>2. block \in Answers /\ word \in Answers /\ block.cmd = cmd /\ word.cmd = cmd /\ ~ block.last /\ word.last /\ word.ret = ret
  BY <1>1 DEF Answers
<1>3. Reply(cmd, ret) = data \o <<word>>
  BY DEF Reply
<1> HIDE DEF block, word
<1>4. n \in Nat
  OBVIOUS
<1> HIDE DEF n
<1>5. data \in Seq(Answers) /\ Len(data) = n /\ \A i \in 1..n : data[i] = block
  BY <1>2, <1>4
<1> HIDE DEF data
<1>6. <<word>> \in Seq(Answers) /\ Len(<<word>>) = 1 /\ <<word>>[1] = word
  BY <1>2
<1> DEFINE t == <<word>>
<1> HIDE DEF t
<1>7. /\ data \o t \in Seq(Answers) /\ Len(data \o t) = Len(data) + Len(t)
      /\ \A i \in 1..Len(data) + Len(t) :
           (data \o t)[i] = IF i <= Len(data) THEN data[i] ELSE t[i - Len(data)]
  BY <1>5, <1>6, ConcatProperties, Zenon DEF t
<1> DEFINE u == data \o t
<1> HIDE DEF u
<1>8. /\ u \in Seq(Answers) /\ Len(u) = n + 1
      /\ \A i \in 1..n + 1 : u[i] = IF i <= n THEN data[i] ELSE t[i - n]
  BY <1>5, <1>6, <1>7 DEF u, t
<1>9. ASSUME NEW i \in 1..n + 1
      PROVE  u[i].cmd = cmd /\ (u[i].last <=> i = n + 1) /\ (i = n + 1 => u[i].ret = ret)
  <2>1. CASE i \in 1..n
    <3>1. i <= n /\ i # n + 1
      BY <1>4, <2>1
    <3> QED
      BY <1>2, <1>5, <1>8, <2>1, <3>1
  <2>2. CASE i = n + 1
    <3>1. ~ (i <= n) /\ i - n = 1
      BY <1>4, <2>2
    <3>2. u[i] = t[1]
      BY <1>8, <3>1
    <3> QED
      BY <1>2, <1>6, <2>2, <3>2 DEF t
  <2> QED
    BY <1>4, <2>1, <2>2
<1> QED
  BY <1>3, <1>8, <1>9 DEF u, t, n

\* A command that has come to the server finds the arguments of its call.
LEMMA ServeReceiveKeeps ==
  ASSUME IndInv, ServeReceive
  PROVE  /\ IndInv'
         /\ awaited # -1 /\ acted = << >> /\ \E ret \in Results : Executed(ret)' /\ link
         /\ UNCHANGED <<script, pc, awaited>>
<1> DEFINE m == toServer[1]
           cmd == m.cmd
<1>1. /\ link /\ toServer # << >> /\ m.act = "receive" /\ toServer' = Tail(toServer)
      /\ UNCHANGED <<phase, script, pc, awaited, failed, cache>>
  BY UnderWay DEF ServeReceive, client
<1>2. PICK ret \in Returns(cmd) :
        /\ toClient' = toClient \o Reply(cmd, ret)
        /\ acted' = Append(acted, [req |-> Arguments(cmd), ret |-> ret])
  BY <1>1, UnderWay DEF ServeReceive
<1>3. IF cmd = "GOODBYE" THEN EndConnection ELSE UNCHANGED <<link, options>>
  BY <1>1, UnderWay DEF ServeReceive
<1>4. /\ awaited # -1 /\ acted = << >> /\ toClient = << >> /\ Len(toServer) = 1 /\ m = script[pc]
  <2>1. Len(toServer) \in Nat /\ Len(toServer) >= 1
    BY <1>1, UnderWay
  <2>2. ~ OnlySends(Len(toServer))
    BY <1>1, <2>1 DEF OnlySends
  <2>3. OnlySends(Len(toServer) - 1) => Len(toServer) = 1
    <3>1. \A n \in Nat : n >= 1 => n = 1 \/ 1 \in 1..n - 1
      OBVIOUS
    <3>2. 1 \notin 1..Len(toServer) - 1 => Len(toServer) = 1
      BY <2>1, <3>1
    <3> QED
      BY <1>1, <3>2 DEF OnlySends
  <2>4. /\ awaited # -1 /\ acted = << >> /\ toClient = << >>
        /\ toServer[Len(toServer)] = script[pc]
        /\ OnlySends(Len(toServer) - 1)
    BY <1>1, <2>2 DEF IndInv, Queue
  <2> QED
    BY <2>3, <2>4
<1>5. Types /\ pc \in 1..Len(script) /\ script[pc].act = "receive" /\ awaited = Expects(cmd)
  BY <1>4 DEF IndInv, Waiting
<1>6. /\ Request \in Requests /\ Request # Nothing /\ cmd \in Commands
      /\ \A o \in Needs(cmd) : HasSent(o) /\ o \in Options
      /\ cmd = "READ" => Given("LENGTH") \in Lengths
  BY <1>4, <1>5, RequestIs
<1>7. \A o : Eventually(o) = options[o]
  <2>1. ASSUME NEW s, s[1].act # "send", NEW o, NEW x
        PROVE  LastValue(s, 1, o, x) = x
    <3>1. LastValue(s, 0 + 1, o, x) = LastValue(s, 0, o, x)
      BY <2>1, LastStep
    <3> QED
      BY <3>1, LastOfEmpty
  <2>2. toServer[1].act # "send"
    BY <1>1
  <2> QED
    BY <1>4, <2>1, <2>2 DEF Eventually
<1>8. \A o \in Needs(cmd) : options[o] = Given(o)
  BY <1>1, <1>6, <1>7 DEF IndInv, Agreed
<1>9. Executed(ret)' /\ ret \in Results /\ acted' \in Seq([req : Requests, ret : Results])
  <2>1. Arguments(cmd) = Request
    BY <1>1, <1>4, <1>8 DEF Arguments, Request
  <2>2. ret \in Results
    BY DEF Returns, Results
  <2>3. acted' = <<[req |-> Request, ret |-> ret]>>
    BY <1>2, <1>4, <2>1
  <2>4. Request' = Request
    BY <1>1, RequestSame
  <2> QED
    BY <1>6, <2>2, <2>3, <2>4 DEF Executed
<1>10. Blocks(cmd) = awaited /\ awaited \in Nat
  <2>1. Lengths \subseteq Nat /\ Unset \notin Lengths
    BY RiiSessionAssumption DEF RiiSessionAssumption
  <2>2. cmd = "READ" => options["LENGTH"] \in Lengths /\ options["LENGTH"] = Given("LENGTH")
    <3>1. cmd = "READ" => "LENGTH" \in Needs(cmd)
      BY DEF Needs
    <3> QED
      BY <1>6, <1>8, <3>1
  <2>3. CASE cmd = "READ"
    <3>1. Blocks(cmd) = options["LENGTH"] /\ Expects(cmd) = Given("LENGTH")
      BY <2>1, <2>2, <2>3 DEF Blocks, Expects
    <3> QED
      BY <1>5, <2>1, <2>2, <2>3, <3>1
  <2>4. CASE cmd # "READ"
    <3>1. Blocks(cmd) = Expects(cmd) /\ Expects(cmd) \in {0, 1}
      BY <2>4 DEF Blocks, Expects
    <3> QED
      BY <1>5, <3>1
  <2> QED
    BY <2>3, <2>4
<1> HIDE DEF cmd
<1>11. /\ toClient' \in Seq(Answers) /\ Len(toClient') = awaited + 1
       /\ \A i \in 1..awaited + 1 :
            /\ toClient'[i].cmd = cmd /\ (toClient'[i].last <=> i = awaited + 1)
            /\ i = awaited + 1 => toClient'[i].ret = ret
  <2>1. Reply(cmd, ret) \in Seq(Answers)
    BY <1>6, <1>10, ReplyIs
  <2>2. toClient' = Reply(cmd, ret)
    BY <1>2, <1>4, <2>1, ConcatEmptySeq
  <2> QED
    BY <1>6, <1>10, <2>2, ReplyIs
<1>12. toServer' = << >>
  <2>1. Tail(toServer) \in Seq(Messages) /\ Len(Tail(toServer)) = 1 - 1
    BY <1>1, <1>4, UnderWay
  <2>2. Len(Tail(toServer)) \notin Nat \ {0}
    BY <2>1
  <2> QED
    BY <1>1, <2>1, <2>2, EmptySeq
<1>13. /\ link' \in BOOLEAN /\ options' \in [Options -> Values]
       /\ link' => options' = options
  <2>1. [o \in Options |-> Unset] \in [Options -> Values]
    BY DEF Values
  <2> QED
    BY <1>1, <1>3, <1>5, <2>1 DEF EndConnection, Types, TypeOK
<1>14. Types'
  BY <1>1, <1>5, <1>6, <1>9, <1>11, <1>12, <1>13 DEF Types, TypeOK
<1>15. \A k : Expects(k)' = Expects(k)
  BY <1>1 DEF Given, Expects
<1>16. Queue'
  <2>1. acted' # << >>
    BY <1>9 DEF Executed
  <2> QED
    BY <1>1, <1>4, <1>12, <2>1 DEF Queue
<1>17. Waiting'
  <2>1. cmd = script[pc].cmd
    BY <1>4 DEF cmd
  <2>2. Expects(script[pc].cmd)' = Expects(cmd)
    BY <1>1, <1>15, <2>1
  <2> QED
    BY <1>1, <1>4, <1>5, <1>9, <1>10, <1>11, <2>1, <2>2 DEF Waiting
<1>18. ASSUME link' PROVE \A o : Eventually(o)' = Eventually(o)
  <2>1. Len(<< >>) = 0
    OBVIOUS
  <2>2. \A o : Eventually(o)' = LastValue(<< >>, 0, o, options[o])
    BY <1>12, <1>13, <1>18, <2>1 DEF Eventually
  <2> QED
    BY <1>7, <2>2, LastOfEmpty
<1>19. \A o : Given(o)' = Given(o) /\ (HasSent(o)' <=> HasSent(o))
  BY <1>1 DEF Given, HasSent
<1>20. Agreed' /\ CacheCoherent'
  BY <1>1, <1>18, <1>19 DEF IndInv, Agreed, CacheCoherent
<1> QED
  BY <1>1, <1>4, <1>9, <1>14, <1>16, <1>17, <1>20 DEF IndInv
-----------------------------------------------------------------------------
(* The theorems *)

LEMMA StutterKeeps == ASSUME IndInv, UNCHANGED vars PROVE IndInv'
<1>1. UNCHANGED <<phase, script, pc, awaited, failed, cache, link, toServer, toClient, options, acted>>
  BY DEF vars, client, server
<1>2. \A o : Eventually(o)' = Eventually(o) /\ Given(o)' = Given(o) /\ (HasSent(o)' <=> HasSent(o))
  BY <1>1 DEF Eventually, Given, HasSent
<1>3. Types' /\ Queue'
  BY <1>1 DEF IndInv, Types, TypeOK, Queue, OnlySends
<1>4. Waiting'
  <2>1. (\A ret : Executed(ret)' <=> Executed(ret)) /\ \A k : Expects(k)' = Expects(k)
    BY <1>1, RequestSame DEF Given, Expects
  <2> QED
    BY <1>1, <2>1 DEF IndInv, Waiting
<1> QED
  BY <1>1, <1>2, <1>3, <1>4 DEF IndInv, Agreed, CacheCoherent

\* The client's caches, the queue and the server's options agree in every state.
THEOREM Inductive == ASSUME NoWords PROVE Spec => []IndInv
<1>1. Init => IndInv
  BY InitKeeps
<1>2. IndInv /\ [Next]_vars => IndInv'
  <2> SUFFICES ASSUME IndInv, [Next]_vars PROVE IndInv'
    OBVIOUS
  <2>1. CASE Connect \/ Call \/ Unmount
    BY <2>1, ConnectKeeps, CallKeeps, UnmountKeeps
  <2>2. CASE SendOption \/ SendReceive \/ SkipReceive
    BY <2>2, SendOptionKeeps, SendReceiveKeeps, SkipReceiveKeeps
  <2>3. CASE GetAnswer \/ NoAnswer \/ Return \/ Closed
    BY <2>3, GetAnswerKeeps, NoAnswerKeeps, ReturnKeeps, ClosedKeeps
  <2>4. CASE ServeSend \/ ServeReceive \/ Break
    BY <2>4, ServeSendKeeps, ServeReceiveKeeps, BreakKeeps
  <2>5. CASE UNCHANGED vars
    BY <2>5, StutterKeeps
  <2> QED
    BY <2>1, <2>2, <2>3, <2>4, <2>5 DEF Next, ClientStep, ServerStep
<1> QED
  BY <1>1, <1>2, PTL DEF Spec

\* CacheCoherent: an option that SendCommand leaves out is one the server has, or
\* will have before it reads anything sent later.
THEOREM CachesAgree == ASSUME NoWords PROVE Spec => []CacheCoherent
<1>1. IndInv => CacheCoherent
  BY DEF IndInv
<1> QED
  BY <1>1, Inductive, PTL

\* ActsOnCall: every command that WaitForAction carries out finds the arguments of
\* the call that gave it, whatever was left out and whatever broke before.
THEOREM CommandsFindTheirArguments == ASSUME NoWords PROVE Spec => []ActsOnCall
<1>1. IndInv => ActsOnCall
  <2> SUFFICES ASSUME IndInv, awaited >= 0, NEW i \in 1..Len(acted) PROVE acted[i].req = Request
    BY DEF ActsOnCall
  <2>1. acted = << >> \/ \E ret \in Results : Executed(ret)
    BY DEF IndInv, Waiting
  <2> QED
    BY <2>1 DEF Executed
<1> QED
  BY <1>1, Inductive, PTL

\* InStep: what is on its way to the client is the answer to the command it waits
\* for, with as many blocks as ReceiveCommand is about to read, and nothing else.
THEOREM AnswersStayInStep == ASSUME NoWords PROVE Spec => []InStep
<1>1. IndInv => InStep
  BY DEF IndInv, Types, Waiting, InStep
<1> QED
  BY <1>1, Inductive, PTL

\* There is a call in progress as long as it has steps.
LEMMA Calling ==
  ASSUME IndInv, pc < Len(script) \/ awaited # -1
  PROVE  ~ Idle /\ phase # "none"
<1>1. pc \in Nat
  BY ScriptIs DEF IndInv
<1>2. Len(script) > 0
  BY <1>1 DEF IndInv, Waiting
<1>3. Len(<< >>) = 0
  OBVIOUS
<1> QED
  BY <1>2, <1>3 DEF Idle, IndInv, Types, TypeOK

\* A call begins or ends, or gives way to one of another kind.
LEMMA TurnOfCall ==
  ASSUME IndInv, Connect \/ Call \/ Unmount \/ Return \/ Closed
  PROVE  LET kind == IF Idle THEN "none" ELSE phase
         IN /\ kind' \in {"mounting", "mounted", "unmounting", "none"} \ {kind}
            /\ \/ link' = link
               \/ kind = "none" /\ link' = TRUE
               \/ kind' = "none" /\ link' = FALSE
<1>1. Handshake # << >> /\ Goodbye # << >> /\ \A call \in Calls : call # << >>
  BY NoEmptyCall DEF Handshake, Goodbye
<1>2. CASE Connect
  BY <1>1, <1>2 DEF Connect, Start, Idle, IndInv, Types
<1>3. CASE Call
  BY <1>1, <1>3 DEF Call, Start, Idle, IndInv, Types
<1>4. CASE Unmount
  BY <1>1, <1>4 DEF Unmount, Start, Idle, IndInv, Types
<1>5. CASE Return
  BY <1>1, <1>5 DEF Return, Start, Idle, IndInv, Types
<1>6. CASE Closed
  <2>1. script # << >>
    BY <1>6 DEF Closed, IndInv, Types
  <2> QED
    BY <1>6, <2>1 DEF Closed, Start, Idle, IndInv, Types
<1> QED
  BY <1>2, <1>3, <1>4, <1>5, <1>6

\* ImplementsRemoteCall: a mount carries out each command at most once, with its
\* own arguments and before its answer is returned; what the call learns is that
\* answer, and it is left without one only by a connection that is gone.
THEOREM MountIsRemoteCall == ASSUME NoWords PROVE Spec => ImplementsRemoteCall
<1> DEFINE kind == IF Idle THEN "none" ELSE phase
           asked == IF awaited = -1 THEN Nothing ELSE Request
<1>1. Init => Remote!Init
  BY DEF Init, Idle, Remote!Init
<1>2. IndInv /\ [Next]_vars => [Remote!Next]_Remote!vars
  <2> SUFFICES ASSUME IndInv, [Next]_vars
               PROVE  Remote!Next \/ UNCHANGED Remote!vars
    OBVIOUS
  <2>1. ASSUME UNCHANGED <<phase, script, link, failed, acted>>, asked' = asked
        PROVE  UNCHANGED Remote!vars
    BY <2>1 DEF Remote!vars, Idle
  <2>2. UNCHANGED <<script, pc, awaited>> => asked' = asked
    BY RequestSame
  <2>3. CASE Connect \/ Call \/ Unmount \/ Return \/ Closed
    <3>1. awaited = -1 /\ acted = << >>
      <4>1. Connect => Idle
        BY DEF IndInv, Types, Connect, Idle
      <4> QED
        BY <2>3, <4>1, AtRest DEF Call, Unmount, Return, Closed
    <3>2. awaited' = -1 /\ acted' = << >> /\ failed' = FALSE
      BY <2>3, <3>1 DEF Connect, Call, Unmount, Return, Closed, Start, server
    <3>3. /\ kind' \in {"mounting", "mounted", "unmounting", "none"} \ {kind}
          /\ \/ link' = link
             \/ kind = "none" /\ link' = TRUE
             \/ kind' = "none" /\ link' = FALSE
      BY <2>3, TurnOfCall
    <3> QED
      BY <3>1, <3>2, <3>3 DEF Remote!Next, Remote!Turn
  <2>4. CASE SkipReceive \/ SendOption
    BY <2>1, <2>4 DEF SkipReceive, SendOption, server
  <2>5. CASE SendReceive
    <3>1. awaited = -1 /\ UNCHANGED acted /\ (awaited' # -1 => Request' \in Requests)
      BY <2>5, SendReceiveKeeps
    <3>2. acted = << >>
      BY <3>1 DEF IndInv, Waiting
    <3>3. UNCHANGED <<phase, script, link>> /\ kind # "none" /\ kind' = kind
      BY <2>5, Calling DEF SendReceive, Idle
    <3>4. CASE awaited' # -1 /\ failed' = failed
      BY <3>1, <3>2, <3>3, <3>4 DEF Remote!Next, Remote!Ask
    <3>5. CASE ~ link /\ failed' = TRUE /\ awaited' = -1
      BY <3>1, <3>2, <3>3, <3>5 DEF Remote!Next, Remote!Fail
    <3>6. awaited' = -1 /\ failed' = failed => UNCHANGED Remote!vars
      BY <2>1, <3>1, <3>3
    <3> QED
      BY <2>5, <3>1, <3>4, <3>5, <3>6 DEF SendReceive
  <2>6. CASE GetAnswer \/ NoAnswer
    <3>1. awaited >= 0 /\ awaited' = -1 /\ acted' = << >> /\ UNCHANGED <<phase, script, pc, link>>
      BY <2>6 DEF GetAnswer, NoAnswer
    <3>2. awaited # -1
      BY <3>1
    <3>3. Request # Nothing
      BY <3>2, RequestIs DEF IndInv, Waiting
    <3>4. kind # "none" /\ kind' = kind
      BY <3>1, <3>2, Calling DEF Idle
    <3>5. CASE GetAnswer
      <4>1. awaited + 1 \in 1..Len(toClient)
        BY <3>1, <3>5, RiiSessionAssumption, LenProperties
        DEF RiiSessionAssumption, GetAnswer, IndInv, Types, TypeOK
      <4>2. Executed(toClient[awaited + 1].ret)
        BY <3>2, <4>1 DEF IndInv, Waiting
      <4>3. acted # << >> /\ failed' = (acted[1].ret < 0)
        BY <3>5, <4>2 DEF GetAnswer, Executed
      <4> QED
        BY <3>1, <3>2, <3>3, <3>4, <4>3 DEF Remote!Next, Remote!Answer
    <3>6. CASE NoAnswer
      BY <3>1, <3>2, <3>4, <3>6 DEF NoAnswer, Remote!Next, Remote!Fail
    <3> QED
      BY <2>6, <3>5, <3>6
  <2>7. CASE ServeReceive
    <3>1. awaited # -1 /\ acted = << >> /\ link /\ UNCHANGED <<script, pc, awaited>>
      BY <2>7, ServeReceiveKeeps
    <3>2. PICK ret \in Results : Executed(ret)'
      BY <2>7, ServeReceiveKeeps
    <3>3. Request # Nothing /\ Request' = Request
      BY <3>1, RequestIs, RequestSame DEF IndInv, Waiting
    <3>4. acted' = <<[req |-> Request, ret |-> ret]>>
      BY <3>2, <3>3 DEF Executed
    <3>5. UNCHANGED <<phase, failed>> /\ kind' = kind /\ link' \in {link, FALSE}
      BY <2>7 DEF ServeReceive, client, EndConnection, Idle
    <3> QED
      BY <3>1, <3>3, <3>4, <3>5 DEF Remote!Next, Remote!Perform
  <2>8. CASE Break
    <3>1. UNCHANGED <<phase, script, pc, awaited, failed, acted>> /\ link /\ link' = FALSE
      BY <2>8 DEF Break, EndConnection, client
    <3>2. asked' = asked /\ kind' = kind
      BY <2>2, <3>1 DEF Idle
    <3> QED
      BY <3>1, <3>2 DEF Remote!Next, Remote!Lose
  <2>9. CASE ServeSend \/ UNCHANGED vars
    BY <2>1, <2>2, <2>9 DEF ServeSend, vars, client, server
  <2> QED
    BY <2>3, <2>4, <2>5, <2>6, <2>7, <2>8, <2>9 DEF Next, ClientStep, ServerStep
<1> QED
  BY <1>1, <1>2, Inductive, PTL DEF Spec, ImplementsRemoteCall, Remote!Spec
=============================================================================
