----------------------------- MODULE RiiServer ------------------------------
(***************************************************************************)
(* The threads of the RiiFS server (riifs/server-c/riifs.cpp): main, which *)
(* accepts connections and lists them, one thread for each connection,     *)
(* which serves it and deletes it, and the timeout thread, which walks the *)
(* list and closes the connections whose client has been silent.  The list *)
(* is guarded by ConnectionsLock; what belongs to a connection, its open   *)
(* streams and LastPing, is guarded by nothing.                            *)
(*                                                                         *)
(* Only the time in which things happen keeps the timeout thread away from *)
(* the streams of a command in progress, so time is part of the model, in  *)
(* units of half a minute.  What commands do is in RiiSession and RiiFile. *)
(***************************************************************************)
EXTENDS Integers, Sequences, SequencesExt

CONSTANTS
  Conns,         \* the Connection objects; one that was deleted may be used again
  Timeout,       \* the client may be silent this long
  PingEvery,     \* a client that is there and idle pings this often
  CommandTime    \* bound: a command of a client that is there takes no longer

RiiServerAssumption ==
  /\ {Timeout, PingEvery, CommandTime} \subseteq Nat
  /\ PingEvery + CommandTime <= Timeout /\ 3 * PingEvery <= Timeout
ASSUME RiiServerAssumption

VARIABLES
  stage,         \* what each connection's thread, or main on its behalf, is doing
  Connections,   \* the list
  scan,          \* what the timeout thread has yet to visit, first the iterator's own
  locked,        \* whether the timeout thread holds ConnectionsLock
  alive,         \* whether the client is there
  Connected,     \* Client->Connected
  OpenFiles,     \* whether the connection has open streams
  using,         \* whether the command in progress uses one of them
  silent,        \* the time since LastPing
  spent          \* the time spent in the present stage

threads == <<stage, Connections, using>>
shared == <<Connected, OpenFiles>>
timeouter == <<scan, locked>>
times == <<silent, spent>>
vars == <<threads, shared, timeouter, alive, times>>

Stages == {"none", "accepted", "listed", "waiting", "command", "leaving"}

Init ==
  /\ stage = [c \in Conns |-> "none"] /\ Connections = << >>
  /\ scan = << >> /\ locked = FALSE
  /\ alive = [c \in Conns |-> FALSE] /\ Connected = [c \in Conns |-> FALSE]
  /\ OpenFiles = [c \in Conns |-> FALSE] /\ using = [c \in Conns |-> FALSE]
  /\ silent = [c \in Conns |-> 0] /\ spent = [c \in Conns |-> 0]

Enter(c, s) == stage' = [stage EXCEPT ![c] = s] /\ spent' = [spent EXCEPT ![c] = 0]
-----------------------------------------------------------------------------
(* main: AcceptClient *)

\* A new Connection; main deals with one at a time.
Accept(c) ==
  /\ stage[c] = "none" /\ \A d \in Conns : stage[d] # "accepted"
  /\ Enter(c, "accepted")
  /\ alive' = [alive EXCEPT ![c] = TRUE]
  /\ Connected' = [Connected EXCEPT ![c] = TRUE]
  /\ silent' = [silent EXCEPT ![c] = 0]
  /\ UNCHANGED <<Connections, using, OpenFiles, timeouter>>

\* No thread can be created for it.
Refuse(c) ==
  /\ stage[c] = "accepted" /\ ~ locked
  /\ Enter(c, "none")
  /\ alive' = [alive EXCEPT ![c] = FALSE]
  /\ Connected' = [Connected EXCEPT ![c] = FALSE]
  /\ UNCHANGED <<Connections, using, OpenFiles, timeouter, silent>>

ListIt(c) ==
  /\ stage[c] = "accepted" /\ ~ locked
  /\ Enter(c, "listed")
  /\ Connections' = Append(Connections, c)
  /\ UNCHANGED <<using, shared, timeouter, alive, silent>>

StartThread(c) ==
  /\ stage[c] = "listed"
  /\ Enter(c, "waiting")
  /\ UNCHANGED <<Connections, using, shared, timeouter, alive, silent>>
-----------------------------------------------------------------------------
(* a connection's thread: Run, WaitForAction *)

\* Mutant: the time of a message is not noted.
BeginCommandUnnoted(c) ==
  /\ stage[c] = "waiting" /\ Connected[c] /\ alive[c]
  /\ Enter(c, "command")
  /\ using' \in {[using EXCEPT ![c] = u] : u \in {FALSE, OpenFiles[c]}}
  /\ UNCHANGED <<Connections, shared, timeouter, alive, silent>>

\* The client has sent a command, or an option, which takes its time too.
BeginCommand(c) ==
  /\ stage[c] = "waiting" /\ Connected[c] /\ alive[c]
  /\ Enter(c, "command")
  /\ silent' = [silent EXCEPT ![c] = 0]
  /\ using' \in {[using EXCEPT ![c] = u] : u \in {FALSE, OpenFiles[c]}}
  /\ UNCHANGED <<Connections, shared, timeouter, alive>>

\* It has been carried out, and may have opened or closed a stream; Goodbye, or
\* a connection found closed, ends the loop of Run.
EndCommand(c) ==
  /\ stage[c] = "command"
  /\ using' = [using EXCEPT ![c] = FALSE]
  /\ OpenFiles' \in {[OpenFiles EXCEPT ![c] = f] : f \in BOOLEAN}
  /\ Enter(c, "waiting") \/ Enter(c, "leaving")
  /\ UNCHANGED <<Connections, Connected, timeouter, alive, silent>>

\* recv ends: the client has closed the connection, or the timeout thread has.
Leave(c) ==
  /\ stage[c] = "waiting"
  /\ \/ ~ Connected[c]
     \/ alive[c]
  /\ Connected' = [Connected EXCEPT ![c] = FALSE]
  /\ alive' = [alive EXCEPT ![c] = FALSE]
  /\ Enter(c, "leaving")
  /\ UNCHANGED <<Connections, using, OpenFiles, timeouter, silent>>

\* Mutant: the destructor does not wait for the lock.
DeleteUnlocked(c) ==
  /\ stage[c] = "leaving"
  /\ Enter(c, "none")
  /\ Connections' = RemoveFirst(Connections, c)
  /\ Connected' = [Connected EXCEPT ![c] = FALSE]
  /\ OpenFiles' = [OpenFiles EXCEPT ![c] = FALSE]
  /\ alive' = [alive EXCEPT ![c] = FALSE]
  /\ UNCHANGED <<using, timeouter, silent>>

\* ~Connection, under the lock; the list holds c once
Delete(c) ==
  /\ stage[c] = "leaving" /\ ~ locked
  /\ Enter(c, "none")
  /\ Connections' = RemoveFirst(Connections, c)
  /\ Connected' = [Connected EXCEPT ![c] = FALSE]
  /\ OpenFiles' = [OpenFiles EXCEPT ![c] = FALSE]
  /\ alive' = [alive EXCEPT ![c] = FALSE]
  /\ UNCHANGED <<using, timeouter, silent>>
-----------------------------------------------------------------------------
(* TimeoutThread *)

StartScan ==
  /\ ~ locked
  /\ locked' = TRUE /\ scan' = Connections
  /\ UNCHANGED <<threads, shared, alive, times>>

\* Mutant: the limit is reached a unit early.
OverdueEarly(c) == silent[c] >= Timeout - 1

\* Mutant: a connection without open streams is not overdue.
OverdueWithStreams(c) == silent[c] > Timeout /\ OpenFiles[c]

Overdue(c) == silent[c] > Timeout

\* A client that is overdue: Close takes its streams away and shuts the
\* connection down, whatever the connection's thread is doing.
Visit ==
  /\ locked /\ scan # << >>
  /\ LET c == Head(scan) IN
       IF Overdue(c)
       THEN /\ OpenFiles' = [OpenFiles EXCEPT ![c] = FALSE]
            /\ Connected' = [Connected EXCEPT ![c] = FALSE]
       ELSE UNCHANGED shared
  /\ scan' = Tail(scan)
  /\ UNCHANGED <<threads, locked, alive, times>>

EndScan ==
  /\ locked /\ scan = << >>
  /\ locked' = FALSE
  /\ UNCHANGED <<threads, shared, scan, alive, times>>
-----------------------------------------------------------------------------
\* The client, or the network to it, is gone without a word.
Vanish(c) ==
  /\ alive[c]
  /\ alive' = [alive EXCEPT ![c] = FALSE]
  /\ UNCHANGED <<threads, shared, timeouter, times>>

\* Main does not keep a connection waiting for long, a command ends in time if
\* its client takes and sends what it must, and a client that is there and idle
\* pings in time (RiiHandler::IdleTick).
InTime(c) ==
  /\ stage[c] \in {"accepted", "listed"} => spent[c] < PingEvery
  /\ stage[c] = "command" /\ alive[c] => spent[c] < CommandTime
  /\ stage[c] = "waiting" /\ alive[c] /\ Connected[c] => spent[c] < PingEvery

Capped(n) == IF n > Timeout THEN n ELSE n + 1

Tick ==
  /\ \A c \in Conns : InTime(c)
  /\ silent' = [c \in Conns |-> IF stage[c] = "none" THEN 0 ELSE Capped(silent[c])]
  /\ spent' = [c \in Conns |-> IF stage[c] \in {"none", "leaving"} THEN 0 ELSE Capped(spent[c])]
  /\ UNCHANGED <<threads, shared, timeouter, alive>>

Main(c) == Accept(c) \/ Refuse(c) \/ ListIt(c) \/ StartThread(c)
Thread(c) == BeginCommand(c) \/ EndCommand(c) \/ Leave(c) \/ Delete(c)
TimeoutThread == StartScan \/ Visit \/ EndScan

Next == TimeoutThread \/ Tick \/ \E c \in Conns : Main(c) \/ Thread(c) \/ Vanish(c)

Spec == Init /\ [][Next]_vars

\* Every thread that can go on does, main included, and gets the lock in the end,
\* since the timeout thread lets go of it between its scans; a client that is
\* there pings or leaves when it is due; a command may block for as long as its
\* client is gone and its connection open; time passes.
FairSpec ==
  /\ Spec /\ SF_vars(Tick) /\ WF_vars(TimeoutThread)
  /\ \A c \in Conns :
       /\ WF_vars(StartThread(c)) /\ WF_vars(BeginCommand(c) \/ Leave(c))
       /\ WF_vars((alive[c] \/ ~ Connected[c]) /\ EndCommand(c))
       /\ SF_vars(ListIt(c)) /\ SF_vars(Delete(c))
-----------------------------------------------------------------------------
TypeOK ==
  /\ stage \in [Conns -> Stages]
  /\ ToSet(Connections) \subseteq Conns /\ ToSet(scan) \subseteq Conns
  /\ IsInjective(Connections)
  /\ {locked} \subseteq BOOLEAN
  /\ {alive, Connected, OpenFiles, using} \subseteq [Conns -> BOOLEAN]
  /\ {silent, spent} \subseteq [Conns -> 0..Timeout + 1]

\* The variables have their types, no connection is listed twice, and the
\* timeout thread never follows an iterator into a connection that has been
\* deleted, and every connection it can reach is one that a thread will delete.
ScanIsSafe ==
  /\ TypeOK
  /\ ToSet(scan) \subseteq ToSet(Connections)
  /\ \A c \in ToSet(Connections) : stage[c] \notin {"none", "accepted"}

\* No stream is closed and deleted while a command uses it, as long as the client
\* is there.  (A client that vanishes in the middle of a read leaves the thread
\* in send, with the stream still to be read, until the timeout thread has
\* deleted the stream and shut the connection down: lines 67, 198-203, 459-463.)
StreamsOutliveCommands == \A c \in Conns : using[c] /\ alive[c] => OpenFiles[c]

\* A client that is there, and pings as it should, is not thrown out.
LiveClientsStay ==
  \A c \in Conns : alive[c] /\ stage[c] \in {"listed", "waiting", "command"} => Connected[c]

\* A connection whose client is gone is deleted in the end, and its streams
\* with it.
DeadClientsLeave == \A c \in Conns : stage[c] # "none" /\ ~ alive[c] ~> stage[c] = "none"
=============================================================================
