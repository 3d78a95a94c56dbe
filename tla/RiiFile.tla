------------------------------ MODULE RiiFile -------------------------------
(***************************************************************************)
(* One file open over RiiFS: the client's RiiFileInfo, which keeps a       *)
(* position of its own and moves the server's only when it must            *)
(* (filemodule/source/file_riifs.cpp with RIIFS_LOCAL_SEEKING), and the    *)
(* server's fstream (riifs/server-c/riifs.cpp), whose state is as much     *)
(* part of the protocol as its position: once a read has come up short     *)
(* the stream refuses everything until a seek clears it.                   *)
(*                                                                         *)
(* Every action is a call of the handler with all the commands it gives,   *)
(* on a connection that works; RiiSession is about the commands.           *)
(***************************************************************************)
EXTENDS Integers, Sequences

CONSTANTS
  Bytes,       \* what can be written to a byte of the file
  MaxSize,     \* bound: no call makes the file or a position larger
  Modes,       \* the modes the module's callers use, sets of O_ flags
  WriteAfterShortRead,  \* whether a caller writes where a read came up short
  SyncAtAnyTime         \* whether a caller syncs there, or between a seek and its read or write

RiiFileAssumption ==
  /\ MaxSize \in Nat
  /\ WriteAfterShortRead \in BOOLEAN /\ SyncAtAnyTime \in BOOLEAN
  /\ \A mode \in Modes : "O_CREAT" \in mode => "O_WRONLY" \in mode
ASSUME RiiFileAssumption

VARIABLES
  contents,    \* the file on the server
  opened,      \* the mode the file is open in, or Closed
  Position,    \* RiiFileInfo::Position: where the client takes itself to be
  SeekDirty,   \* RiiFileInfo::SeekDirty: whether the server has yet to be told
  pos,         \* the position of the fstream's buffer
  fail,        \* its failbit
  result       \* the last call: its name, its argument, what it returned

info == <<Position, SeekDirty>>
stream == <<pos, fail>>
vars == <<contents, opened, info, stream, result>>

Card == INSTANCE PlainFile WITH position <- Position
Closed == Card!Closed
Called(call, arg, ret) == Card!Called(call, arg, ret)
Data == Card!Data

Init ==
  /\ contents = << >> /\ opened = Closed
  /\ Position = 0 /\ SeekDirty = FALSE /\ pos = 0 /\ fail = FALSE
  /\ result = Called("none", 0, 0)

\* The openmode FileOpen makes of the flags.
In(mode)  == "O_CREAT" \notin mode
Out(mode) == mode \cap {"O_RDWR", "O_WRONLY"} # {}

\* CopyDir creates without O_TRUNC, and only what it has not found.
Open(mode) ==
  /\ opened = Closed
  /\ In(mode) \/ "O_TRUNC" \in mode \/ contents = << >>
  /\ opened' = mode
  /\ contents' = IF "O_TRUNC" \in mode \/ ~ In(mode) THEN << >> ELSE contents
  /\ Position' = 0 /\ SeekDirty' = FALSE /\ pos' = 0 /\ fail' = FALSE
  /\ result' = Called("open", mode, 0)

\* Mutant: a stream that has failed stays failed, as before version 1.03b.
SoughtUncleared(here, failed, target) ==
  [pos  |-> IF target >= 0 /\ ~ failed THEN target ELSE here,
   fail |-> failed,
   ret  |-> IF target >= 0 /\ ~ failed THEN 0 ELSE -1]

\* FileSeek, from a stream at here: seekg and, on a stream that has failed,
\* clear and seekp; the answer given, the state is cleared again.
Sought(here, failed, target) ==
  [pos  |-> IF target >= 0 THEN target ELSE here,
   fail |-> FALSE,
   ret  |-> IF target >= 0 THEN 0 ELSE -1]

\* Mutant: the server is not told of a seek back to the beginning.
FlushedUnlessStart ==
  IF SeekDirty /\ Position # 0 THEN Sought(pos, fail, Position)
  ELSE [pos |-> pos, fail |-> fail, ret |-> 0]

\* The stream after DIRTY_SEEK.
Flushed == IF SeekDirty THEN Sought(pos, fail, Position) ELSE [pos |-> pos, fail |-> fail, ret |-> 0]

\* The client's position after a read of n that brought got.
Advance(n, got) == Position' = Position + Len(got)

\* FileRead: a stream that has failed or is not open for input yields nothing.
Read(n) ==
  /\ opened # Closed
  /\ LET able == In(opened) /\ ~ Flushed.fail
         got  == IF able THEN Card!Slice(contents, Flushed.pos, n) ELSE << >>
     IN /\ pos' = Flushed.pos + Len(got)
        /\ fail' = (Flushed.fail \/ Len(got) < n)
        /\ Advance(n, got)
        /\ result' = Called("read", n, got)
  /\ SeekDirty' = FALSE
  /\ UNCHANGED <<contents, opened>>

\* FileWrite: to a stream that has failed nothing is written, but only badbit
\* is asked for, so the answer is the length all the same.  A stream not open
\* for output answers 0, and its badbit is cleared.
Write(d) ==
  /\ opened # Closed
  /\ WriteAfterShortRead \/ ~ Flushed.fail
  /\ Flushed.pos + Len(d) <= MaxSize /\ Position + Len(d) <= MaxSize
  /\ LET able == Out(opened) /\ ~ Flushed.fail
         ret  == IF Out(opened) \/ Flushed.fail THEN Len(d) ELSE 0
     IN /\ contents' = IF able THEN Card!Overwrite(contents, Flushed.pos, d) ELSE contents
        /\ pos' = IF able THEN Flushed.pos + Len(d) ELSE Flushed.pos
        /\ fail' = Flushed.fail
        /\ Position' = Position + ret
        /\ result' = Called("write", d, ret)
  /\ SeekDirty' = FALSE
  /\ UNCHANGED opened

\* Seek, SEEK_SET and SEEK_CUR: a seek to where the client is already is ignored.
\* The module's callers do not seek to before the beginning of a file.
SeekLocally(target, call, arg) ==
  /\ opened # Closed /\ target \in 0..MaxSize
  /\ Position' = target
  /\ SeekDirty' = (SeekDirty \/ target # Position)
  /\ result' = Called(call, arg, Position')
  /\ UNCHANGED <<contents, opened, stream>>

\* Seek, SEEK_END: the server seeks and tells.
SeekEnd(off) ==
  /\ opened # Closed /\ Len(contents) + off <= MaxSize
  /\ LET s == Sought(pos, fail, Len(contents) + off) IN
       /\ pos' = s.pos /\ fail' = s.fail
       /\ Position' = IF s.ret = 0 THEN s.pos ELSE Position
  /\ result' = Called("seek end", off, Position')
  /\ UNCHANGED <<contents, opened, SeekDirty>>

Tell ==
  /\ opened # Closed
  /\ result' = Called("tell", 0, Position)
  /\ UNCHANGED <<contents, opened, info, stream>>

\* Sync asks the server for its position, which is -1 on a failed stream.
Sync ==
  /\ opened # Closed
  /\ SyncAtAnyTime \/ (~ SeekDirty /\ ~ fail)
  /\ Position' = IF fail THEN -1 ELSE pos
  /\ result' = Called("sync", 0, 0)
  /\ UNCHANGED <<contents, opened, SeekDirty, stream>>

Close ==
  /\ opened # Closed
  /\ opened' = Closed
  /\ Position' = 0 /\ SeekDirty' = FALSE /\ pos' = 0 /\ fail' = FALSE
  /\ result' = Called("close", 0, 0)
  /\ UNCHANGED contents

Next ==
  \/ Tell \/ Sync \/ Close
  \/ \E mode \in Modes : Open(mode)
  \/ \E n \in 0..MaxSize : Read(n)
  \/ \E d \in Data : Write(d)
  \/ \E off \in -MaxSize..MaxSize :
       \/ SeekLocally(off, "seek set", off)
       \/ SeekLocally(Position + off, "seek cur", off)
       \/ SeekEnd(off)

Spec == Init /\ [][Next]_vars
-----------------------------------------------------------------------------
TypeOK ==
  /\ contents \in UNION {[1..n -> Bytes \cup {0}] : n \in 0..MaxSize}
  /\ opened \in Modes \cup {Closed}
  /\ Position \in -1..MaxSize /\ SeekDirty \in BOOLEAN
  /\ pos \in 0..MaxSize /\ fail \in BOOLEAN

\* The variables have their types, and a call takes place where the client believes
\* itself to be: the server is there, or will be told before anything happens.  A
\* stream that refuses to read has nothing more to give at that position, so that
\* a read after a short read loses no data.
PositionsAgree ==
  /\ TypeOK
  /\ opened # Closed /\ ~ SeekDirty =>
       Position = pos /\ (fail /\ In(opened) => pos >= Len(contents))

\* A write that reports its length has put the data in the file, where the
\* position was.
WritesLand ==
  [][result'.call = "write" /\ opened' = opened /\ result'.ret = Len(result'.arg) =>
       contents' = Card!Overwrite(contents, Position, result'.arg)]_vars

\* The file is treated no differently than one on an SD card.
ImplementsPlainFile == Card!Spec
=============================================================================
