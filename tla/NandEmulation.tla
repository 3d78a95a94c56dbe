---------------------------- MODULE NandEmulation ---------------------------
(***************************************************************************)
(* The emulation of NAND files on a card (dipmodule/source/emu.cpp): the   *)
(* hook that runs in the thread of /dev/fs, the emulation's own thread     *)
(* with its table of open files, and the two queues between them.  The     *)
(* hook asks the emulation about every request before /dev/fs may handle   *)
(* it, and while it waits it executes the requests that the emulation      *)
(* makes of the NAND in turn, which it does when it moves a file to the    *)
(* card.                                                                   *)
(*                                                                         *)
(* There is one redirected directory; a file of it is on the card under    *)
(* its own name.  /dev/fs and the card are external: they do what they are *)
(* asked or fail.  Left out is a hook that cannot reach the emulation:     *)
(* when os_ioctl_async fails, its queue dies or was never made, it returns *)
(* 0 and /dev/fs serves the request itself, a redirected one too.          *)
(***************************************************************************)
EXTENDS NandRequests, FiniteSets

CONSTANTS
  Paths,          \* the paths that the game names
  Redirected,     \* those below the redirected directory
  Vff,            \* those that end in .vff
  MayFail,        \* those whose files the card may fail to open or write
  Units,          \* what files are made of
  Written,        \* what the game writes at once, sequences of units
  FirstFiles,     \* what the files may hold at first
  Hidden,         \* what the NAND has at the redirected paths
  MaxLen,         \* bound: no file is longer
  MaxHeld,        \* bound: the files that the game has open
  MAX_EMU_OPEN,   \* the files that the emulation can have open
  MAX_FS_OPEN,    \* those of /dev/fs
  move_size,      \* the size of MoveTo's buffer
  buf_size        \* that of VFFFile's

DevFs == "/dev/fs"
Contents == UNION {[1..n -> Units] : n \in 0..MaxLen}

NandEmulationAssumption ==
  /\ Vff \subseteq Redirected /\ Redirected \subseteq Paths /\ MayFail \subseteq Redirected \ Vff
  /\ Nowhere \notin Paths /\ DevFs \notin Paths
  /\ FirstFiles \cup {Hidden} \subseteq Contents \cup {Absent} /\ Units \subseteq Nat
  /\ \A d \in Written : d \in Contents /\ Len(d) \in 1..buf_size
  /\ {MaxLen, MAX_EMU_OPEN, MAX_FS_OPEN, move_size, buf_size} \subseteq Nat \ {0}
  /\ move_size <= buf_size
ASSUME NandEmulationAssumption

VARIABLES
  nand,           \* the files of the NAND
  FS_Files,       \* the open files of /dev/fs
  card,           \* the files of the card that stand for redirected ones
  open_files,     \* the open files of the emulation
  fs,             \* the thread of /dev/fs: "ready", "waits" in the hook, or "serves"
  message,        \* the request it has, or Nothing
  ProxyMessage,   \* the copy of it that the hook passes on
  queue,          \* the emulation's queue
  fs_internal_queue, \* the hook's queue
  job,            \* the call of MoveTo that the emulation's thread is in
  ipc,            \* its call of FS_IPC
  cargo,          \* history: what the file to be moved held at first
  reply           \* the last answer to the game

threads == <<fs, message, ProxyMessage, queue, fs_internal_queue>>
vars == <<nand, FS_Files, card, open_files, threads, job, ipc, cargo, reply>>

Lesser(m, n) == IF m < n THEN m ELSE n
Least(S) == CHOOSE i \in S : \A j \in S : i <= j

EmuFds == 0..MAX_EMU_OPEN - 1
NandFds == MAX_EMU_OPEN..MAX_EMU_OPEN + MAX_FS_OPEN - 1

\* An ISFSFile; emu tells the emulation's own from the game's.
Unused == [path |-> Nowhere, pos |-> 0, emu |-> FALSE]
\* A RiivFile: whether the card's file has been opened, where it is, and the
\* buffer of a VFFFile.
RiivFile(path) == [path |-> path, opened |-> FALSE, pos |-> 0, buffer |-> << >>]
NULL == RiivFile(Nowhere)

NoJob == [at |-> "none", from |-> Nowhere, to |-> Nowhere, src |-> NoFd, size |-> 0, dest |-> NULL, ret |-> OK]
NoIpc == [phase |-> "none", acked |-> FALSE, request |-> Nothing, ret |-> OK]
NotOurs == Code("not ours")

Idle ==
  /\ FS_Files = [fd \in NandFds |-> Unused] /\ open_files = [i \in EmuFds |-> NULL]
  /\ fs = "ready" /\ message = Nothing /\ ProxyMessage = Nothing
  /\ queue = << >> /\ fs_internal_queue = << >>
  /\ job = NoJob /\ ipc = NoIpc /\ cargo = Absent /\ reply = OK

Init ==
  /\ nand \in [Paths -> FirstFiles \cup {Hidden}] /\ card \in [Redirected -> FirstFiles]
  /\ \A path \in Paths : IF path \in Redirected THEN nand[path] = Hidden ELSE nand[path] \in FirstFiles
  /\ Idle

Post(q, msg, ret) == Append(q, [msg |-> msg, ret |-> ret])
-----------------------------------------------------------------------------
(* /dev/fs: what may come of a request. *)

Nand(files, table, ret) == [nand |-> files, FS_Files |-> table, ret |-> ret]
Failed(ret) == Nand(nand, FS_Files, ret)

NandOpen(r, emu) ==
  LET free == {fd \in NandFds : FS_Files[fd] = Unused}
  IN IF r.path # DevFs /\ nand[r.path] = Absent THEN {Failed(FileNotFound)}
     ELSE IF free = {} THEN {Failed(IOError)}
     ELSE {Nand(nand, [FS_Files EXCEPT ![Least(free)] = [path |-> r.path, pos |-> 0, emu |-> emu]],
                Reply("OK", Least(free), << >>))}
            \cup (IF r.path = DevFs THEN {Failed(IOError)} ELSE {})

NandOutcomes(r, emu) ==
  LET here == FS_Files[r.fd]
      to(pos) == [FS_Files EXCEPT ![r.fd].pos = pos]
  IN CASE r.op = "open" -> NandOpen(r, emu)
       [] r.op = "close" -> {Nand(nand, [FS_Files EXCEPT ![r.fd] = Unused], OK)}
       [] r.op = "read" ->
            LET got == Slice(nand[here.path], here.pos, r.arg[1])
            IN {Nand(nand, to(here.pos + Len(got)), Reply("OK", Len(got), got)), Failed(IOError)}
       [] r.op = "rewind" -> {Nand(nand, to(0), OK)}
       [] r.op = "seek end" -> {Nand(nand, to(Len(nand[here.path])), Reply("OK", Len(nand[here.path]), << >>))}
       [] r.op = "stats" -> {Nand(nand, FS_Files, Reply("OK", here.pos, <<Len(nand[here.path])>>))}
       [] r.op = "create" -> {Nand([nand EXCEPT ![r.path] = IF @ = Absent THEN << >> ELSE @], FS_Files, OK)}
       [] r.op = "delete" -> {Nand([nand EXCEPT ![r.path] = Absent], FS_Files, OK), Failed(IOError)}
       [] r.op = "move" ->
            IF nand[r.path] = Absent THEN {Failed(FileNotFound)}
            ELSE {Nand([nand EXCEPT ![r.path2] = nand[r.path], ![r.path] = Absent], FS_Files, OK)}

NandDoes(o) == nand' = o.nand /\ FS_Files' = o.FS_Files
-----------------------------------------------------------------------------
(* FilesystemHook, in the thread of /dev/fs *)

\* The game makes one request at a time, and /dev/fs takes one at a time.
Hook(r) ==
  /\ fs = "ready"
  /\ message' = r /\ ProxyMessage' = r
  /\ queue' = Append(queue, "FSMessage")
  /\ fs' = "waits"
  /\ cargo' = IF r.op # "move" THEN Absent ELSE IF r.path \in Redirected THEN card[r.path] ELSE nand[r.path]
  /\ reply' = OK
  /\ UNCHANGED <<nand, FS_Files, card, open_files, fs_internal_queue, job, ipc>>

Received(msg) ==
  /\ fs = "waits" /\ fs_internal_queue # << >>
  /\ Head(fs_internal_queue).msg = msg
  /\ fs_internal_queue' = Tail(fs_internal_queue)

\* Mutant: the device is closed without an answer.
HookForgetsClose ==
  /\ Received("open") \/ Received("close")
  /\ ipc' = [ipc EXCEPT !.acked = (ipc.phase = "open")]
  /\ UNCHANGED <<nand, FS_Files, card, open_files, fs, message, ProxyMessage, queue, job, cargo, reply>>

\* The emulation opens or closes the internal device.
HookOpensCloses ==
  /\ Received("open") \/ Received("close")
  /\ ipc' = [ipc EXCEPT !.acked = TRUE]
  /\ UNCHANGED <<nand, FS_Files, card, open_files, fs, message, ProxyMessage, queue, job, cargo, reply>>

\* The emulation has a request of the NAND.
HookServesNand ==
  /\ Received("ioctl")
  /\ \E o \in NandOutcomes(ipc.request, TRUE) :
       /\ NandDoes(o)
       /\ ipc' = [ipc EXCEPT !.acked = TRUE, !.ret = o.ret]
  /\ UNCHANGED <<card, open_files, fs, message, ProxyMessage, queue, job, cargo, reply>>

\* Mutant: whatever comes first is taken for the answer.
HookReturnsEarly ==
  /\ fs = "waits" /\ fs_internal_queue # << >>
  /\ fs_internal_queue' = Tail(fs_internal_queue)
  /\ IF Head(fs_internal_queue).ret = NotOurs THEN fs' = "serves" /\ UNCHANGED message
     ELSE fs' = "ready" /\ message' = Nothing
  /\ ProxyMessage' = Nothing
  /\ UNCHANGED <<nand, FS_Files, card, open_files, queue, job, ipc, cargo, reply>>

\* The emulation has answered: /dev/fs handles what is not the emulation's.
\* ProxyMessage is not looked at again before it is written again.
HookReturns ==
  /\ Received("done")
  /\ IF Head(fs_internal_queue).ret = NotOurs THEN fs' = "serves" /\ UNCHANGED message
     ELSE fs' = "ready" /\ message' = Nothing
  /\ ProxyMessage' = Nothing
  /\ UNCHANGED <<nand, FS_Files, card, open_files, queue, job, ipc, cargo, reply>>

FsServes ==
  /\ fs = "serves"
  /\ \E o \in NandOutcomes(message, FALSE) : NandDoes(o) /\ reply' = o.ret
  /\ fs' = "ready" /\ message' = Nothing /\ cargo' = Absent
  /\ UNCHANGED <<card, open_files, ProxyMessage, queue, fs_internal_queue, job, ipc>>
-----------------------------------------------------------------------------
(* RiivFile and VFFFile: what may come of a call, the card and the file after it. *)

Card(files, f, ret) == [card |-> files, f |-> f, ret |-> ret]

\* The card's file is opened when it is first used.
Opened(files, f) ==
  (IF f.opened \/ files[f.path] # Absent THEN {[f EXCEPT !.opened = TRUE]} ELSE {})
    \cup (IF ~ f.opened /\ (f.path \in MayFail \/ files[f.path] = Absent) THEN {f} ELSE {})

\* RiivFile::Write: how much of d was written, or -1 if the file is not opened.
CardWrite(files, f, d) ==
  UNION {IF ~ g.opened THEN {Card(files, g, -1)}
         ELSE {Card([files EXCEPT ![g.path] = Overwrite(@, g.pos, SubSeq(d, 1, n))],
                    [g EXCEPT !.pos = @ + n], n)
                : n \in IF g.path \in MayFail THEN 0..Len(d) ELSE {Len(d)}}
         : g \in Opened(files, f)}

\* VFFFile::Flush takes no notice of what comes of the write.
Flushed(files, f) ==
  IF f.buffer = << >> THEN {Card(files, f, 0)}
  ELSE {Card(c.card, [c.f EXCEPT !.buffer = << >>], 0) : c \in CardWrite(files, f, f.buffer)}

\* VFFFile::Write when the buffer is flushed as soon as it holds `limit'.
BufferedWrite(files, f, d, limit) ==
  LET all == f.buffer \o d
      now == SubSeq(all, 1, Lesser(buf_size, Len(all)))
      rest == SubSeq(all, Len(now) + 1, Len(all))
  IN IF Len(all) < limit THEN {Card(files, [f EXCEPT !.buffer = all], Len(d))}
     ELSE {Card(c.card, [c.f EXCEPT !.buffer = rest], Len(d)) : c \in Flushed(files, [f EXCEPT !.buffer = now])}

\* Write of either class; d is no longer than the buffer.
FileWrite(files, f, d) ==
  IF f.path \notin Vff THEN CardWrite(files, f, d) ELSE BufferedWrite(files, f, d, buf_size)

\* Read, Seek and GetFileStats of a file whose buffer has been flushed.  The
\* last takes the errors of its seeks for a position and a length.
Used(r, files, f) ==
  IF ~ f.opened THEN Card(files, f, IF r.op = "stats" THEN Reply("OK", NoFd, << NoFd >>) ELSE IOError)
  ELSE CASE r.op = "read" ->
              LET got == Slice(files[f.path], f.pos, r.arg[1])
              IN Card(files, [f EXCEPT !.pos = @ + Len(got)], Reply("OK", Len(got), got))
         [] r.op = "rewind" -> Card(files, [f EXCEPT !.pos = 0], OK)
         [] r.op = "stats" -> Card(files, f, Reply("OK", f.pos, <<Len(files[f.path])>>))

FileUse(r, f) == UNION {{Used(r, c.card, g) : g \in Opened(c.card, c.f)} : c \in Flushed(card, f)}

\* Mutant: the destructor leaves the buffer behind.
DestroyedUnflushed(files, f) == {Card(files, f, OK)}

Destroyed(files, f) == Flushed(files, f)
-----------------------------------------------------------------------------
(* EMU::HandleFSMessage, in the emulation's thread, and RiivDir *)

Answer(ret) ==
  /\ fs_internal_queue' = Post(fs_internal_queue, "done", ret)
  /\ IF ret = NotOurs THEN UNCHANGED <<cargo, reply>> ELSE cargo' = Absent /\ reply' = ret

\* The thread takes the next message of its queue.
Takes(msg) ==
  /\ job = NoJob /\ queue # << >> /\ Head(queue) = msg
  /\ queue' = Tail(queue)

Ours(fd) == fd \in EmuFds /\ open_files[fd] # NULL

HandleOpen(r) ==
  LET free == {i \in EmuFds : open_files[i] = NULL}
  IN /\ r.op = "open"
     /\ IF free = {} \/ r.path \notin Redirected THEN Answer(NotOurs) /\ UNCHANGED open_files
        ELSE IF card[r.path] = Absent THEN Answer(FileNotFound) /\ UNCHANGED open_files
        ELSE /\ open_files' = [open_files EXCEPT ![Least(free)] = RiivFile(r.path)]
             /\ Answer(Reply("OK", Least(free), << >>))
     /\ UNCHANGED <<card, job>>

HandleClose(r) ==
  /\ r.op = "close" /\ Ours(r.fd)
  /\ \E c \in Destroyed(card, open_files[r.fd]) : card' = c.card
  /\ open_files' = [open_files EXCEPT ![r.fd] = NULL]
  /\ Answer(OK) /\ UNCHANGED job

HandleWrite(r) ==
  /\ r.op = "write" /\ Ours(r.fd)
  /\ \E c \in FileWrite(card, open_files[r.fd], r.arg) :
       /\ card' = c.card /\ open_files' = [open_files EXCEPT ![r.fd] = c.f]
       /\ Answer(IF c.ret = -1 THEN IOError ELSE Reply("OK", c.ret, << >>))
  /\ UNCHANGED job

HandleUse(r) ==
  /\ r.op \in {"read", "rewind", "stats"} /\ Ours(r.fd)
  /\ \E c \in FileUse(r, open_files[r.fd]) :
       /\ card' = c.card /\ open_files' = [open_files EXCEPT ![r.fd] = c.f]
       /\ Answer(c.ret)
  /\ UNCHANGED job

HandlePath(r) ==
  /\ r.op \in {"create", "delete"} /\ r.path \in Redirected
  /\ \/ /\ r.op = "create" \/ card[r.path] # Absent
        /\ card' = [card EXCEPT ![r.path] = IF r.op = "delete" THEN Absent ELSE IF @ = Absent THEN << >> ELSE @]
        /\ Answer(OK)
     \/ /\ r.path \in MayFail \/ (r.op = "delete" /\ card[r.path] = Absent)
        /\ Answer(IOError) /\ UNCHANGED card
  /\ UNCHANGED <<open_files, job>>

\* File_Rename; FAT's fails if there is a file at the new path.
HandleRename(r) ==
  /\ r.op = "move" /\ {r.path, r.path2} \subseteq Redirected
  /\ IF card[r.path] = Absent \/ card[r.path2] # Absent THEN Answer(FileNotFound) /\ UNCHANGED card
     ELSE /\ card' = [card EXCEPT ![r.path2] = card[r.path], ![r.path] = Absent]
          /\ Answer(OK)
  /\ UNCHANGED <<open_files, job>>

\* RiivDir::MoveFrom
HandleMoveFrom(r) ==
  /\ r.op = "move" /\ r.path \in Redirected /\ r.path2 \notin Redirected
  /\ Answer(InvalidArgument)
  /\ UNCHANGED <<card, open_files, job>>

\* The call of MoveTo begins.
HandleMoveTo(r) ==
  /\ r.op = "move" /\ r.path \notin Redirected /\ r.path2 \in Redirected
  /\ job' = [NoJob EXCEPT !.at = "open", !.from = r.path, !.to = r.path2, !.ret = InvalidArgument]
  /\ UNCHANGED <<card, open_files, fs_internal_queue, cargo, reply>>

HandleNotOurs(r) ==
  /\ r.fd \notin EmuFds /\ {r.path, r.path2} \cap Redirected = {} /\ r.op # "open"
  /\ Answer(NotOurs)
  /\ UNCHANGED <<card, open_files, job>>

HandleFSMessage ==
  /\ Takes("FSMessage")
  /\ LET r == ProxyMessage IN
       \/ HandleOpen(r) \/ HandleClose(r) \/ HandleWrite(r) \/ HandleUse(r) \/ HandlePath(r)
       \/ HandleRename(r) \/ HandleMoveFrom(r) \/ HandleMoveTo(r) \/ HandleNotOurs(r)
  /\ UNCHANGED <<nand, FS_Files, fs, message, ProxyMessage, ipc>>
-----------------------------------------------------------------------------
(* FS_IPC: the internal device is opened, asked and closed. *)

\* What MoveTo asks of the NAND at each of its steps.
Wanted ==
  CASE job.at = "open"    -> Request("open", job.from, Nowhere, NoFd, << >>)
    [] job.at = "size"    -> Request("seek end", Nowhere, Nowhere, job.src, << >>)
    [] job.at = "rewind"  -> Request("rewind", Nowhere, Nowhere, job.src, << >>)
    [] job.at = "read"    -> Request("read", Nowhere, Nowhere, job.src, <<Lesser(move_size, job.size)>>)
    [] job.at = "close"   -> Request("close", Nowhere, Nowhere, job.src, << >>)
    [] job.at = "open fs" -> Request("open", DevFs, Nowhere, NoFd, << >>)
    [] job.at = "delete"  -> Request("delete", job.from, Nowhere, NoFd, << >>)
    [] job.at = "close fs" -> Request("close", Nowhere, Nowhere, job.src, << >>)

\* The next of the three calls of the device.
Ipc(phase) ==
  /\ ipc' = [phase |-> phase, acked |-> FALSE, request |-> IF phase = "open" THEN Wanted ELSE ipc.request, ret |-> ipc.ret]
  /\ fs_internal_queue' = Post(fs_internal_queue, phase, OK)
  /\ UNCHANGED <<nand, FS_Files, card, open_files, fs, message, ProxyMessage, queue, job, cargo, reply>>

EmuCalls ==
  \/ job # NoJob /\ ipc = NoIpc /\ Ipc("open")
  \/ ipc.phase = "open" /\ ipc.acked /\ Ipc("ioctl")
  \/ ipc.phase = "ioctl" /\ ipc.acked /\ Ipc("close")

\* The step of MoveTo at `at' has its answer.
Returned(at) == job.at = at /\ ipc.phase = "close" /\ ipc.acked /\ ipc' = NoIpc
-----------------------------------------------------------------------------
(* RiivDir::MoveTo, from one request of the NAND to the next *)

Goes(at) == job' = [job EXCEPT !.at = at]
Ends(ret) == Answer(ret) /\ job' = NoJob

MoveOpened ==
  /\ Returned("open")
  /\ IF ipc.ret.code # "OK" THEN Ends(FileNotFound) /\ UNCHANGED card
     ELSE /\ UNCHANGED <<fs_internal_queue, cargo, reply>>
          /\ \/ /\ card' = [card EXCEPT ![job.to] = IF @ = Absent THEN << >> ELSE @]
                /\ job' = [job EXCEPT !.at = "size", !.src = ipc.ret.value, !.dest = RiivFile(job.to)]
             \/ /\ job.to \in MayFail
                /\ job' = [job EXCEPT !.at = "close", !.src = ipc.ret.value]
                /\ UNCHANGED card

MoveSized ==
  /\ Returned("size")
  /\ job' = [job EXCEPT !.at = "rewind", !.size = ipc.ret.value]
  /\ UNCHANGED <<card, fs_internal_queue, cargo, reply>>

\* dest is destroyed, and its buffer written, when the loop is left.
Leave(ret, files, f) ==
  \E c \in Destroyed(files, f) :
    /\ card' = c.card
    /\ job' = [job EXCEPT !.at = "close", !.dest = NULL, !.ret = ret]

MoveRewound ==
  /\ Returned("rewind")
  /\ \/ job.size > 0 /\ job' = [job EXCEPT !.at = "read", !.ret = ipc.ret] /\ UNCHANGED card
     \/ job.size = 0 /\ Leave(ipc.ret, card, job.dest)
  /\ UNCHANGED <<fs_internal_queue, cargo, reply>>

\* Mutant: a write that comes up short is taken for a whole one.
CopiedShort(d, c) == c.ret >= 0

\* Whether a turn of the loop has copied all it has read.
Copied(d, c) == d # << >> /\ c.ret = Len(d)

MoveRead ==
  /\ Returned("read")
  /\ LET d == ipc.ret.data IN
       \E c \in IF d = << >> THEN {Card(card, job.dest, 0)} ELSE FileWrite(card, job.dest, d) :
         IF Copied(d, c) /\ job.size > Len(d)
         THEN card' = c.card /\ job' = [job EXCEPT !.dest = c.f, !.size = @ - Len(d)]
         ELSE Leave(IF Copied(d, c) THEN job.ret ELSE IOError, c.card, c.f)
  /\ UNCHANGED <<fs_internal_queue, cargo, reply>>

MoveClosed ==
  /\ Returned("close")
  /\ IF job.ret = OK THEN Goes("open fs") /\ UNCHANGED <<fs_internal_queue, cargo, reply>> ELSE Ends(job.ret)
  /\ UNCHANGED card

\* The old file is deleted if it can be.
MoveOpenedFs ==
  /\ Returned("open fs")
  /\ IF ipc.ret.code = "OK"
     THEN job' = [job EXCEPT !.at = "delete", !.src = ipc.ret.value] /\ UNCHANGED <<fs_internal_queue, cargo, reply>>
     ELSE Ends(job.ret)
  /\ UNCHANGED card

MoveDeleted ==
  /\ Returned("delete") /\ Goes("close fs")
  /\ UNCHANGED <<card, fs_internal_queue, cargo, reply>>

MoveEnds ==
  /\ Returned("close fs") /\ Ends(job.ret)
  /\ UNCHANGED card

MoveTo ==
  /\ \/ MoveOpened \/ MoveSized \/ MoveRewound \/ MoveRead \/ MoveClosed
     \/ MoveOpenedFs \/ MoveDeleted \/ MoveEnds
  /\ UNCHANGED <<nand, FS_Files, open_files, fs, message, ProxyMessage, queue>>
-----------------------------------------------------------------------------
(* The game *)

\* The game's open files
Held == {fd \in EmuFds : open_files[fd] # NULL} \cup {fd \in NandFds : FS_Files[fd] # Unused /\ ~ FS_Files[fd].emu}
PathOf(fd) == IF fd \in EmuFds THEN open_files[fd].path ELSE FS_Files[fd].path
PosOf(fd) == IF fd \in EmuFds THEN open_files[fd].pos + Len(open_files[fd].buffer) ELSE FS_Files[fd].pos
Quiet(path) == \A fd \in Held : PathOf(fd) # path
On(path) == IF path \in Redirected THEN card[path] ELSE nand[path]

\* A file that is open is not opened again, moved or deleted.
Opens(path) ==
  /\ Quiet(path) /\ Cardinality(Held) < MaxHeld
  /\ path \in Redirected => \E i \in EmuFds : open_files[i] = NULL
\* What is moved is not shorter than what it replaces.
Moves(path, path2) ==
  /\ path # path2 /\ Quiet(path) /\ Quiet(path2)
  /\ On(path2) = Absent \/ (On(path) # Absent /\ Len(On(path2)) <= Len(On(path)))

\* The length of a file is asked for when its first use has shown it can be opened.
Measures(fd) == fd \in EmuFds /\ PathOf(fd) \in MayFail => open_files[fd].opened

\* It writes only redirected files: a bound, what it writes to others is not the
\* emulation's.
GameAsks ==
  \/ \E path \in Paths :
       \/ Opens(path) /\ Hook(Request("open", path, Nowhere, NoFd, << >>))
       \/ \E op \in {"create", "delete"} : Quiet(path) /\ Hook(Request(op, path, Nowhere, NoFd, << >>))
       \/ \E path2 \in Paths : Moves(path, path2) /\ Hook(Request("move", path, path2, NoFd, << >>))
  \/ \E fd \in Held :
       \/ \E op \in {"close", "rewind"} : Hook(Request(op, Nowhere, Nowhere, fd, << >>))
       \/ Measures(fd) /\ Hook(Request("stats", Nowhere, Nowhere, fd, << >>))
       \/ Hook(Request("read", Nowhere, Nowhere, fd, <<1>>))
       \/ \E d \in Written :
            /\ fd \in EmuFds /\ PosOf(fd) + Len(d) <= MaxLen
            /\ Hook(Request("write", Nowhere, Nowhere, fd, d))

\* The console is switched off and on again.
PowerCut ==
  /\ FS_Files' = [fd \in NandFds |-> Unused] /\ open_files' = [i \in EmuFds |-> NULL]
  /\ fs' = "ready" /\ message' = Nothing /\ ProxyMessage' = Nothing
  /\ queue' = << >> /\ fs_internal_queue' = << >>
  /\ job' = NoJob /\ ipc' = NoIpc /\ cargo' = Absent /\ reply' = OK
  /\ UNCHANGED <<nand, card>>

FsThread == HookOpensCloses \/ HookServesNand \/ HookReturns \/ FsServes
EmuThread == HandleFSMessage \/ EmuCalls \/ MoveTo

Next == GameAsks \/ FsThread \/ EmuThread \/ PowerCut

Spec == Init /\ [][Next]_vars

\* Both threads run when they can.
FairSpec == Spec /\ WF_vars(FsThread) /\ WF_vars(EmuThread)
-----------------------------------------------------------------------------
TypeOK ==
  /\ nand \in [Paths -> Contents \cup {Absent}] /\ card \in [Redirected -> Contents \cup {Absent}]
  /\ \A fd \in NandFds : FS_Files[fd].path \in Paths \cup {DevFs, Nowhere}
  /\ \A i \in EmuFds : Len(open_files[i].buffer) < buf_size /\ open_files[i].path \in Redirected \cup {Nowhere}
  /\ fs \in {"ready", "waits", "serves"} /\ reply.code \in {"OK"} \cup {r.code : r \in Refusals}

\* The variables have their types, and a buffer is never full.  While the
\* emulation works on a request the hook waits for it, with the request
\* in the message they share, and answers only what the emulation asks; no
\* message is left over for a later request.
OneConversation ==
  /\ TypeOK
  /\ job # NoJob \/ "FSMessage" \in {queue[i] : i \in DOMAIN queue} => fs = "waits" /\ ProxyMessage = message
  /\ fs # "waits" => fs_internal_queue = << >>
  /\ Len(fs_internal_queue) <= 1 /\ Len(queue) <= 1

\* A file that is moved to the card is at any time whole at its old or at its new
\* place, whatever fails and whenever the power goes.
MoveKeepsACopy ==
  message.op = "move" /\ cargo # Absent => On(message.path) = cargo \/ On(message.path2) = cargo

\* Wherever its files are, the game sees them behave as files of the NAND.
Answered == fs_internal_queue # << >> /\ Head(fs_internal_queue).msg = "done" /\ Head(fs_internal_queue).ret # NotOurs
Buffered(path) == {i \in EmuFds : open_files[i].path = path /\ open_files[i].buffer # << >>}
Shown(path) ==
  IF Buffered(path) = {} THEN On(path)
  ELSE LET f == open_files[Least(Buffered(path))] IN Overwrite(card[path], f.pos, f.buffer)

Seen == INSTANCE NandFiles WITH
  Fds <- EmuFds \cup NandFds,
  files <- [path \in Paths |-> Shown(path)],
  handles <- [fd \in EmuFds \cup NandFds |->
                [path |-> IF fd \in Held THEN PathOf(fd) ELSE Nowhere, pos |-> IF fd \in Held THEN PosOf(fd) ELSE 0]],
  asked <- IF Answered THEN Nothing ELSE message
ImplementsNandFiles == Seen!Spec

\* Every request of the game is answered, unless the power goes.
EveryRequestAnswered == message # Nothing ~> message = Nothing
=============================================================================
