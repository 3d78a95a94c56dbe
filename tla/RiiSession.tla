----------------------------- MODULE RiiSession -----------------------------
(***************************************************************************)
(* One RiiFS mount, message by message: the client of the filesystem       *)
(* module (filemodule/source/file_riifs.cpp) and the connection that       *)
(* serves it (riifs/server-c/riifs.cpp).                                   *)
(*                                                                         *)
(* A command takes its arguments from options the client sends beforehand  *)
(* and the server remembers.  The client remembers the four-byte options   *)
(* it has sent and does not send one again that has not changed; so two    *)
(* copies of the options, with a queue between them, must agree.  A call   *)
(* of the handler is a script: options to send, commands to wait for.      *)
(* What a command does to files is not modelled here, only which arguments *)
(* it finds, and that its answer may be negative.                          *)
(***************************************************************************)
EXTENDS Integers, Sequences, SequencesExt

CONSTANTS
  Fds,          \* descriptors the server has handed out
  Paths, Datas, \* the strings and the contents that calls refer to
  Modes, Lengths, Offsets,   \* the numbers that calls pass
  SEEK_SET, SEEK_END,        \* the two values of whence the handler sends
  RII_VERSION,  \* the version string of the handshake
  Window,       \* how much may be under way to the server before a send blocks
  WordSized,    \* the Paths and Datas that are four bytes long
  Unset         \* an option the server has not been sent

ASSUME RiiSessionAssumption ==
  /\ WordSized \subseteq Paths \cup Datas
  /\ Lengths \subseteq Nat
  /\ Window \in Nat \ {0}
  /\ Unset \notin Fds \cup Modes \cup Lengths \cup Offsets \cup {SEEK_SET, SEEK_END}

Numbers == {"FILE", "MODE", "LENGTH", "SEEK_WHERE", "SEEK_WHENCE"}
Strings == {"HANDSHAKE", "PATH", "DATA", "RENAME_SOURCE", "RENAME_DESTINATION", "PING"}
Options == Numbers \cup Strings

\* The options each command of WaitForAction reads.
Needs(cmd) ==
  CASE cmd \in {"STAT", "CREATE", "DELETE", "CREATEDIR", "OPENDIR"} -> {"PATH"}
    [] cmd = "OPEN" -> {"PATH", "MODE"}
    [] cmd = "READ" -> {"FILE", "LENGTH"}
    [] cmd = "WRITE" -> {"FILE", "DATA"}
    [] cmd = "SEEK" -> {"FILE", "SEEK_WHERE", "SEEK_WHENCE"}
    [] cmd = "RENAME" -> {"RENAME_SOURCE", "RENAME_DESTINATION"}
    [] cmd = "LOG" -> {"DATA"}
    [] cmd = "HANDSHAKE" -> {"HANDSHAKE"}
    [] cmd = "GOODBYE" -> {}
    [] OTHER -> {"FILE"}
-----------------------------------------------------------------------------
(* The calls of the handler *)

Send(o, v) == [act |-> "send", opt |-> o, val |-> v]
Receive(c) == [act |-> "receive", cmd |-> c, after |-> FALSE]
\* A command that is only given if the one before it did not fail.
ThenReceive(c) == [act |-> "receive", cmd |-> c, after |-> TRUE]

\* RiiSeek, and DIRTY_SEEK when the position has been moved locally
RiiSeek(f, where, whence) ==
  <<Send("FILE", f), Send("SEEK_WHENCE", whence), Send("SEEK_WHERE", where), Receive("SEEK")>>
DirtySeeks(f) == {<< >>} \cup {RiiSeek(f, where, SEEK_SET) : where \in Offsets}

Read(f, seek, n) == seek \o <<Send("FILE", f), Send("LENGTH", n), Receive("READ")>>
Write(f, seek, d) == seek \o <<Send("FILE", f), Send("DATA", d), Receive("WRITE")>>
SeekEnd(f, where) == RiiSeek(f, where, SEEK_END) \o <<ThenReceive("TELL")>>

OnFile(f) ==
  {Read(f, seek, n) : seek \in DirtySeeks(f), n \in Lengths} \cup
  {Write(f, seek, d) : seek \in DirtySeeks(f), d \in Datas} \cup
  {SeekEnd(f, where) : where \in Offsets} \cup
  {<<Send("FILE", f), Receive("TELL"), Receive("SYNC")>>,
   <<Send("FILE", f), Receive("CLOSE")>>,
   <<Send("FILE", f), Receive("NEXTDIR_PATH"), ThenReceive("NEXTDIR_STAT")>>,
   <<Send("FILE", f), Receive("CLOSEDIR")>>}

OnPath(p) ==
  {<<Send("PATH", p), Send("MODE", m), Receive("OPEN")>> : m \in Modes} \cup
  {<<Send("PATH", p), Receive(c)>> : c \in {"STAT", "CREATE", "DELETE", "CREATEDIR", "OPENDIR"}} \cup
  {<<Send("RENAME_SOURCE", p), Send("RENAME_DESTINATION", q), Receive("RENAME")>> : q \in Paths}

\* IdleTick flushes the log and may ping; CheckPhysical pings.
OnIdle == {<<Send("DATA", d), Receive("LOG")>> : d \in Datas} \cup {<<Send("PING", Unset)>>}

Calls == (UNION {OnFile(f) : f \in Fds}) \cup (UNION {OnPath(p) : p \in Paths}) \cup OnIdle

Handshake == <<Send("HANDSHAKE", RII_VERSION), Receive("HANDSHAKE")>>
Goodbye   == <<Receive("GOODBYE")>>
-----------------------------------------------------------------------------
VARIABLES
  phase,      \* the handler: closed, mounting, mounted or unmounting
  script, pc, \* the call in progress, and how many of its steps are done
  awaited,    \* the blocks of data still to be received with the answer, or -1
  failed,     \* whether the last command failed or its answer was negative
  cache,      \* Options and OptionsInit: the four-byte options sent so far
  link,       \* whether the connection is up
  toServer, toClient,   \* the two directions of the connection
  options,    \* the server's copy of the options
  acted       \* each time the server carried out the command that the client
              \* waits for: the arguments it found, and what came of it

client == <<phase, script, pc, awaited, failed, cache>>
server == <<options, acted>>
vars == <<client, link, toServer, toClient, server>>

Nothing == [cmd |-> "NONE", args |-> << >>]
Idle == script = << >>
Done == pc = Len(script) /\ awaited = -1

Init ==
  /\ phase = "closed" /\ script = << >> /\ pc = 0 /\ awaited = -1 /\ failed = FALSE
  /\ cache = [o \in Options |-> Unset]
  /\ link = FALSE /\ toServer = << >> /\ toClient = << >>
  /\ options = [o \in Options |-> Unset] /\ acted = << >>

Start(call) == script' = call /\ pc' = 0 /\ awaited' = -1 /\ failed' = FALSE

\* Mount: a new handler, whose net_connect succeeds, and a new Connection.
Connect ==
  /\ phase = "closed"
  /\ phase' = "mounting"
  /\ Start(Handshake)
  /\ UNCHANGED cache
  /\ link' = TRUE /\ toServer' = << >> /\ toClient' = << >>
  /\ options' = [o \in Options |-> Unset] /\ acted' = << >>

Call ==
  /\ phase = "mounted" /\ Idle
  /\ \E call \in Calls : Start(call)
  /\ UNCHANGED <<phase, cache, link, toServer, toClient, server>>

Unmount ==
  /\ phase = "mounted" /\ Idle
  /\ phase' = "unmounting"
  /\ Start(Goodbye)
  /\ UNCHANGED <<cache, link, toServer, toClient, server>>

Step == script[pc + 1]

\* SendCommand's size == 4 && type > 0
Cacheable(s) == s.opt \in Numbers \/ s.val \in WordSized

\* Mutant: an option is not sent again if its type has been sent at all.
CachedWhateverItsValue(s) == Cacheable(s) /\ cache[s.opt] # Unset

\* OptionsInit[type - 1] && Options[type - 1] == value
Cached(s) == Cacheable(s) /\ cache[s.opt] = s.val

\* SendCommand.  On a connection that is gone a send may still seem to work.
SendOption ==
  /\ pc < Len(script) /\ awaited = -1 /\ Step.act = "send"
  /\ pc' = pc + 1
  /\ \/ Cached(Step) /\ UNCHANGED <<cache, toServer>>
     \/ /\ ~ Cached(Step) /\ link /\ Len(toServer) < Window
        /\ toServer' = Append(toServer, Step)
        /\ cache' = IF Cacheable(Step) THEN [cache EXCEPT ![Step.opt] = Step.val] ELSE cache
     \/ /\ ~ Cached(Step) /\ ~ link
        /\ cache' \in {cache, IF Cacheable(Step) THEN [cache EXCEPT ![Step.opt] = Step.val] ELSE cache}
        /\ UNCHANGED toServer
  /\ UNCHANGED <<phase, script, awaited, failed, link, toClient, server>>

\* The value that the last of the first n messages of s that sets o gives it.
LastValue(s, n, o, otherwise) ==
  LET sends == {i \in 1..n : s[i].act = "send" /\ s[i].opt = o}
  IN IF sends = {} THEN otherwise ELSE s[Max(sends)].val

\* The value the call in progress has given to o.
Given(o) == LastValue(script, pc, o, Unset)

\* The blocks of data that the client expects before the answer's last word.
Expects(cmd) ==
  CASE cmd = "READ" -> Given("LENGTH")
    [] cmd \in {"STAT", "NEXTDIR_PATH", "NEXTDIR_STAT"} -> 1
    [] OTHER -> 0

\* ReceiveCommand up to the point where it waits; it returns -1 at once when
\* the connection is known to be gone.
SendReceive ==
  /\ pc < Len(script) /\ awaited = -1 /\ Step.act = "receive"
  /\ ~ (Step.after /\ failed)
  /\ pc' = pc + 1
  /\ link => Len(toServer) < Window
  /\ \/ /\ toServer' = IF link THEN Append(toServer, Step) ELSE toServer
        /\ awaited' = Expects(Step.cmd)
        /\ failed' = failed
     \/ /\ ~ link
        /\ failed' = TRUE
        /\ UNCHANGED <<toServer, awaited>>
  /\ UNCHANGED <<phase, script, cache, link, toClient, server>>

SkipReceive ==
  /\ pc < Len(script) /\ awaited = -1 /\ Step.act = "receive" /\ Step.after /\ failed
  /\ pc' = pc + 1
  /\ UNCHANGED <<phase, script, awaited, failed, cache, link, toServer, toClient, server>>

\* ReceiveCommand has all its data and the last word, which may be negative.
GetAnswer ==
  /\ awaited >= 0 /\ Len(toClient) > awaited
  /\ toClient' = SubSeq(toClient, awaited + 2, Len(toClient))
  /\ awaited' = -1
  /\ failed' = (toClient[awaited + 1].ret < 0)
  /\ acted' = << >>
  /\ UNCHANGED <<phase, script, pc, cache, link, toServer, options>>

\* Mutant: that the last word of the answer has not come is not noticed.
NoAnswerUnnoticed ==
  /\ awaited >= 0 /\ ~ link /\ Len(toClient) <= awaited
  /\ toClient' = << >>
  /\ awaited' = -1
  /\ failed' = (Len(toClient) < awaited)
  /\ acted' = << >>
  /\ UNCHANGED <<phase, script, pc, cache, link, toServer, options>>

\* The connection ends before the answer is complete.
NoAnswer ==
  /\ awaited >= 0 /\ ~ link /\ Len(toClient) <= awaited
  /\ toClient' = << >>
  /\ awaited' = -1
  /\ failed' = TRUE
  /\ acted' = << >>
  /\ UNCHANGED <<phase, script, pc, cache, link, toServer, options>>

\* The call returns; a handshake that failed is followed by Unmount.
Return ==
  /\ Done /\ phase \in {"mounting", "mounted"} /\ ~ Idle
  /\ IF phase = "mounting" /\ failed
     THEN phase' = "unmounting" /\ Start(Goodbye)
     ELSE phase' = "mounted" /\ Start(<< >>)
  /\ UNCHANGED <<cache, link, toServer, toClient, server>>

\* Mutant: the handler outlives its connection, and so do its options.
ClosedKeepsCache ==
  /\ Done /\ phase = "unmounting"
  /\ phase' = "closed" /\ Start(<< >>)
  /\ cache' = cache
  /\ link' = FALSE /\ options' = [o \in Options |-> Unset]
  /\ UNCHANGED <<toServer, toClient, acted>>

\* The end of Unmount: net_close, and the handler is deleted.
Closed ==
  /\ Done /\ phase = "unmounting"
  /\ phase' = "closed" /\ Start(<< >>)
  /\ cache' = [o \in Options |-> Unset]
  /\ link' = FALSE /\ options' = [o \in Options |-> Unset]
  /\ UNCHANGED <<toServer, toClient, acted>>
-----------------------------------------------------------------------------
(* The server: WaitForAction, and the connection *)

\* Run deletes the Connection, and with it the options.
EndConnection == link' = FALSE /\ options' = [o \in Options |-> Unset]

\* Mutant: a short read is not padded.
BlocksUnpadded(cmd) ==
  CASE cmd = "READ" -> 0
    [] cmd \in {"STAT", "NEXTDIR_PATH", "NEXTDIR_STAT"} -> 1
    [] OTHER -> 0

\* The blocks of data in an answer; a short read is padded to its LENGTH.
Blocks(cmd) ==
  CASE cmd = "READ" -> IF options["LENGTH"] = Unset THEN 0 ELSE options["LENGTH"]
    [] cmd \in {"STAT", "NEXTDIR_PATH", "NEXTDIR_STAT"} -> 1
    [] OTHER -> 0

Reply(cmd, ret) ==
  [i \in 1..Blocks(cmd) |-> [cmd |-> cmd, last |-> FALSE, ret |-> 0]]
    \o <<[cmd |-> cmd, last |-> TRUE, ret |-> ret]>>

Arguments(cmd) == [cmd |-> cmd, args |-> [o \in Needs(cmd) |-> options[o]]]
Returns(cmd) == IF cmd \in {"HANDSHAKE", "GOODBYE", "LOG"} THEN {1} ELSE {-1, 1}

ServeSend ==
  /\ link /\ toServer # << >> /\ Head(toServer).act = "send"
  /\ toServer' = Tail(toServer)
  /\ options' = [options EXCEPT ![Head(toServer).opt] = Head(toServer).val]
  /\ UNCHANGED <<client, link, toClient, acted>>

\* Mutant: a command that fails is not answered.
ServeReceiveSilently ==
  /\ link /\ toServer # << >> /\ Head(toServer).act = "receive"
  /\ toServer' = Tail(toServer)
  /\ LET cmd == Head(toServer).cmd IN
       /\ \E ret \in Returns(cmd) :
            /\ toClient' = IF ret > 0 THEN toClient \o Reply(cmd, ret) ELSE toClient
            /\ acted' = Append(acted, [req |-> Arguments(cmd), ret |-> ret])
       /\ IF cmd = "GOODBYE" THEN EndConnection ELSE UNCHANGED <<link, options>>
  /\ UNCHANGED client

\* The command finds its arguments in the options, and is answered even when it
\* fails; GOODBYE ends the connection.
ServeReceive ==
  /\ link /\ toServer # << >> /\ Head(toServer).act = "receive"
  /\ toServer' = Tail(toServer)
  /\ LET cmd == Head(toServer).cmd IN
       /\ \E ret \in Returns(cmd) :
            /\ toClient' = toClient \o Reply(cmd, ret)
            /\ acted' = Append(acted, [req |-> Arguments(cmd), ret |-> ret])
       /\ IF cmd = "GOODBYE" THEN EndConnection ELSE UNCHANGED <<link, options>>
  /\ UNCHANGED client

\* The connection fails, or the server's timeout closes it.  Of an answer under
\* way the client gets what was sent first.  Commands under way may still be
\* carried out, but nobody hears of it: for this model they are lost.
Break ==
  /\ link
  /\ EndConnection
  /\ toServer' = << >>
  /\ \E i \in 0..Len(toClient) : toClient' = SubSeq(toClient, 1, i)
  /\ UNCHANGED <<client, acted>>

ClientStep == SendOption \/ SendReceive \/ SkipReceive \/ GetAnswer \/ NoAnswer \/ Return \/ Closed
ServerStep == ServeSend \/ ServeReceive

Next == Connect \/ Call \/ Unmount \/ ClientStep \/ ServerStep \/ Break

Spec == Init /\ [][Next]_vars

\* The module's thread and the connection's thread keep running; a connection
\* that has failed is noticed.  No call need ever be made.
FairSpec == Spec /\ WF_vars(ClientStep) /\ WF_vars(ServerStep)
-----------------------------------------------------------------------------
Commands == {"HANDSHAKE", "GOODBYE", "LOG", "OPEN", "READ", "WRITE", "SEEK", "TELL", "SYNC",
             "CLOSE", "STAT", "CREATE", "DELETE", "RENAME", "CREATEDIR", "OPENDIR",
             "CLOSEDIR", "NEXTDIR_PATH", "NEXTDIR_STAT"}
Values == Fds \cup Paths \cup Datas \cup Modes \cup Lengths \cup Offsets
            \cup {SEEK_SET, SEEK_END, RII_VERSION, Unset}
Results == {-1, 1}
Requests == [cmd : Commands, args : UNION {[Needs(c) -> Values] : c \in Commands}]

TypeOK ==
  /\ phase \in {"closed", "mounting", "mounted", "unmounting"}
  /\ script \in Calls \cup {<< >>, Handshake, Goodbye} /\ pc \in 0..Len(script)
  /\ awaited \in Lengths \cup {-1, 0, 1} /\ failed \in BOOLEAN
  /\ cache \in [Options -> Values] /\ options \in [Options -> Values]
  /\ link \in BOOLEAN
  /\ acted \in Seq([req : Requests, ret : Results])

\* What the call in progress asks of the server.
Request ==
  LET cmd == script[pc].cmd IN [cmd |-> cmd, args |-> [o \in Needs(cmd) |-> Given(o)]]

\* The server carries out each command with the arguments of its own call, not
\* with options an earlier call left behind.
ActsOnCall == awaited >= 0 => \A i \in 1..Len(acted) : acted[i].req = Request

\* The value of o that the server will hold once it has read what is under way.
Eventually(o) == LastValue(toServer, Len(toServer), o, options[o])

\* SendCommand leaves an option out only if the server has the same value, or
\* will have it before it reads anything sent later.
CacheCoherent ==
  link => \A o \in Numbers : cache[o] # Unset => Eventually(o) = cache[o]

\* The variables have their types, and client and server never lose step: what is
\* on its way to the client is part of the answer it waits for, data first, and
\* nothing follows that answer.
InStep ==
  /\ TypeOK
  /\ awaited = -1 /\ link => toClient = << >>
  /\ awaited # -1 =>
       \A i \in 1..Len(toClient) :
         toClient[i].cmd = script[pc].cmd /\ (toClient[i].last <=> i = awaited + 1)

\* No call blocks the filesystem module for ever, whenever the connection fails.
CallsReturn == ~ Idle ~> Idle

\* The mount carries out each command at most once, with its own arguments, and
\* what a call learns is the answer, or that the connection is gone: it takes no
\* failed command for a success, and gives up none while the connection lasts.
Remote == INSTANCE RemoteCall WITH
            Kinds <- {"mounting", "mounted", "unmounting"},
            call <- IF Idle THEN "none" ELSE phase,
            up <- link,
            request <- IF awaited = -1 THEN Nothing ELSE Request,
            performed <- acted
ImplementsRemoteCall == Remote!Spec
=============================================================================
