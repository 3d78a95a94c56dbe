------------------------------ MODULE DipFiles ------------------------------
(***************************************************************************)
(* The disc module's table of open replacement files                       *)
(* (dipmodule/source/dip.cpp): MAX_OPEN_FILES slots linked into two        *)
(* singly linked lists, OpenFiles (most recently used first) and           *)
(* FreeFiles.  GetFile moves the slot of a file to the front, taking a     *)
(* free slot or the last open one when the file is not open; ReadFile      *)
(* opens the file and stamps the slot; the idle message of HandleOther     *)
(* closes the files nobody has read for DIPIDLE_TIMEOUT.                   *)
(*                                                                         *)
(* All three run on the module's only thread, one message at a time, so    *)
(* each is one action.  The pointers are kept: a slot has a next field and *)
(* the two heads are slots or NULL.                                        *)
(***************************************************************************)
EXTENDS Integers, Sequences

CONSTANTS
  MaxOpenFiles, \* MAX_OPEN_FILES, the number of slots
  FileIds,      \* indices of the registered files that reads refer to
  NullFileId,   \* what NULL->fileid reads: GetFile does so for a one-slot list
  Fds,          \* descriptors the filesystem module may hand out
  Timeout,      \* DIPIDLE_TIMEOUT, in periods of the idle timer
  MaxLate,      \* bound: periods that pass before the idle message is handled
  ClockMod      \* the clock is an unsigned word that wraps at ClockMod

NoFd   == -1       \* fd of a slot that holds no open file, whatever the error
NoFile == -1       \* a fileid never assigned; what a closed descriptor reads

\* With a single slot GetFile would write through a null pointer.  Address 0
\* holds the first letters of the disc id, far above any index of a
\* registered file.  The idle check comes round long before the clock wraps.
ASSUME DipFilesAssumption ==
  /\ MaxOpenFiles \in Nat /\ MaxOpenFiles >= 2
  /\ NullFileId \notin FileIds
  /\ NoFile \notin FileIds /\ NoFd \notin Fds
  /\ Timeout \in Nat \ {0} /\ MaxLate \in Nat \ {0}
  /\ ClockMod \in Nat /\ Timeout + MaxLate < ClockMod

Slots   == 1..MaxOpenFiles
NULL    == 0
Pointer == Slots \cup {NULL}

VARIABLES
  OpenFiles, FreeFiles,          \* the list heads
  next, fileid, fd, lastaccess,  \* the fields of the slots
  fsFile,     \* the filesystem module: the file each descriptor reads
  now, late,  \* os_time_now, and periods since the last idle check
  served      \* the last ReadFile: the file asked for, and the file read

pool == <<OpenFiles, FreeFiles, next, fileid, fd, lastaccess>>
vars == <<pool, fsFile, now, late, served>>

\* c lists, in order, the slots of the list that starts at head.
Chains == UNION {[1..n -> Slots] : n \in 0..MaxOpenFiles}
IsChain(head, c) ==
  /\ Len(c) = 0 => head = NULL
  /\ Len(c) > 0 => head = c[1] /\ next[c[Len(c)]] = NULL
  /\ \A i \in 1..(Len(c) - 1) : next[c[i]] = c[i + 1]

\* `time_now - lastaccess`, in u32 arithmetic
Age(s) == (now - lastaccess[s]) % ClockMod
-----------------------------------------------------------------------------
\* Mutant: the loop of the constructor links the last slot too, to the place
\* behind the array.
InitUnterminated ==
  /\ OpenFiles = NULL
  /\ FreeFiles = 1
  /\ next = [s \in Slots |-> s + 1]
  /\ fileid = [s \in Slots |-> NoFile]
  /\ fd = [s \in Slots |-> NoFd]
  /\ lastaccess = [s \in Slots |-> 0]
  /\ fsFile = [f \in Fds |-> NoFile]
  /\ now = 0 /\ late = 0
  /\ served = [asked |-> NoFile, got |-> NoFile]

\* DIP::DIP(): every slot is in the free list, in order.
Init ==
  /\ OpenFiles = NULL
  /\ FreeFiles = 1
  /\ next = [s \in Slots |-> IF s = MaxOpenFiles THEN NULL ELSE s + 1]
  /\ fileid = [s \in Slots |-> NoFile]
  /\ fd = [s \in Slots |-> NoFd]
  /\ lastaccess = [s \in Slots |-> 0]
  /\ fsFile = [f \in Fds |-> NoFile]
  /\ now = 0 /\ late = 0
  /\ served = [asked |-> NoFile, got |-> NoFile]

\* The lists after a file has been closed to make room for another: the last
\* slot of the open list c becomes the free list.
CloseOldest(c) ==
  LET last == c[Len(c)]
  IN [free |-> last,
      next |-> [next EXCEPT ![c[Len(c) - 1]] = next[last], ![last] = FreeFiles],
      fd   |-> [fd EXCEPT ![last] = NoFd]]

\* Mutant: the slot stays where it is in the list.
MoveNothing(c, i) ==
  [this |-> c[i], open |-> OpenFiles, free |-> FreeFiles, next |-> next, fd |-> fd]

\* Mutant: the slot returned is the one that was in front.
MoveReturnsFront(c, i) ==
  [this |-> c[1],
   open |-> c[i],
   free |-> FreeFiles,
   next |-> IF i = 1 THEN next
            ELSE [next EXCEPT ![c[i - 1]] = next[c[i]], ![c[i]] = OpenFiles],
   fd   |-> fd]

\* GetFile's lists when the file is open already, in the i-th slot of c.
MoveToFront(c, i) ==
  [this |-> c[i],
   open |-> c[i],
   free |-> FreeFiles,
   next |-> IF i = 1 THEN next
            ELSE [next EXCEPT ![c[i - 1]] = next[c[i]], ![c[i]] = OpenFiles],
   fd   |-> fd]

\* GetFile's lists when a slot is taken for the file.
TakeSlot(c) ==
  LET room == IF FreeFiles = NULL THEN CloseOldest(c)
              ELSE [free |-> FreeFiles, next |-> next, fd |-> fd]
  IN [this |-> room.free,
      open |-> room.free,
      free |-> room.next[room.free],
      next |-> [room.next EXCEPT ![room.free] = OpenFiles],
      fd   |-> room.fd]

\* Mutant: the search stops before the last slot of the list.
FindMissesLast(id, c) == {i \in 1..(Len(c) - 1) : fileid[c[i]] = id}

\* Where the open list c holds the file.  When c has a single slot, of another
\* file, the loop compares id with NULL->fileid, which is none of FileIds.
Find(id, c) == {i \in 1..Len(c) : fileid[c[i]] = id}

\* What GetFile returns and leaves behind, c being the open list.
GetFile(id, c) ==
  IF Find(id, c) = {}
  THEN TakeSlot(c)
  ELSE MoveToFront(c, CHOOSE i \in Find(id, c) : \A j \in Find(id, c) : i <= j)

\* Mutant: the descriptor of the evicted slot is forgotten, not closed.
ClosedLeaks(newfd) == fsFile

\* The descriptors once GetFile has closed the one of an evicted slot.
Closed(newfd) ==
  [f \in Fds |-> IF \E s \in Slots : fd[s] = f /\ newfd[s] # f
                 THEN NoFile ELSE fsFile[f]]

\* Mutant: the slot is not stamped.
FinishReadUnstamped(g, id) ==
  /\ OpenFiles' = g.open
  /\ FreeFiles' = g.free
  /\ next' = g.next
  /\ lastaccess' = lastaccess
  /\ served' = [asked |-> id, got |-> fsFile'[fd'[g.this]]]

\* The data come from the descriptor of the slot, and the slot is stamped.
FinishRead(g, id) ==
  /\ OpenFiles' = g.open
  /\ FreeFiles' = g.free
  /\ next' = g.next
  /\ lastaccess' = [lastaccess EXCEPT ![g.this] = now]
  /\ served' = [asked |-> id, got |-> fsFile'[fd'[g.this]]]

\* ReadFile of a file whose slot holds a descriptor.
ReadOpenFile(id) ==
  \E c \in Chains : IsChain(OpenFiles, c) /\
    LET g == GetFile(id, c) IN
      /\ g.fd[g.this] # NoFd
      /\ fd' = g.fd
      /\ fsFile' = Closed(g.fd)
      /\ FinishRead(g, id)
      /\ UNCHANGED <<fileid, now, late>>

\* ReadFile of a file that is opened first.
ReadNewFile(id) ==
  \E c \in Chains : IsChain(OpenFiles, c) /\
    LET g == GetFile(id, c) IN
      /\ g.fd[g.this] = NoFd
      /\ \E f \in Fds :
           /\ Closed(g.fd)[f] = NoFile
           /\ fd' = [g.fd EXCEPT ![g.this] = f]
           /\ fsFile' = [Closed(g.fd) EXCEPT ![f] = id]
      /\ fileid' = [fileid EXCEPT ![g.this] = id]
      /\ FinishRead(g, id)
      /\ UNCHANGED <<now, late>>

\* Mutant: the slot joins the free list without being linked to its head.
ReadFailedNotLinked(id) ==
  \E c \in Chains : IsChain(OpenFiles, c) /\
    LET g == GetFile(id, c) IN
      /\ g.fd[g.this] = NoFd
      /\ OpenFiles' = g.next[g.this]
      /\ next' = g.next
      /\ FreeFiles' = g.this
      /\ fd' = g.fd
      /\ fsFile' = Closed(g.fd)
      /\ served' = [asked |-> id, got |-> NoFile]
      /\ UNCHANGED <<fileid, lastaccess, now, late>>

\* Mutant: the slot stays in the open list.
ReadFailedStaysOpen(id) ==
  \E c \in Chains : IsChain(OpenFiles, c) /\
    LET g == GetFile(id, c) IN
      /\ g.fd[g.this] = NoFd
      /\ OpenFiles' = g.open /\ next' = g.next /\ FreeFiles' = g.free
      /\ fd' = g.fd
      /\ fsFile' = Closed(g.fd)
      /\ served' = [asked |-> id, got |-> NoFile]
      /\ UNCHANGED <<fileid, lastaccess, now, late>>

\* ReadFile of a file that cannot be opened: the slot goes back to the free list.
ReadFailed(id) ==
  \E c \in Chains : IsChain(OpenFiles, c) /\
    LET g == GetFile(id, c) IN
      /\ g.fd[g.this] = NoFd
      /\ OpenFiles' = g.next[g.this]
      /\ next' = [g.next EXCEPT ![g.this] = g.free]
      /\ FreeFiles' = g.this
      /\ fd' = g.fd
      /\ fsFile' = Closed(g.fd)
      /\ served' = [asked |-> id, got |-> NoFile]
      /\ UNCHANGED <<fileid, lastaccess, now, late>>

\* HandleOther: the idle timer has fired; the open list is cut before the
\* first expired slot, and the slots after the cut are closed one by one.
IdleCheck ==
  /\ late > 0
  /\ \E c \in Chains : IsChain(OpenFiles, c) /\
       \E k \in 0..Len(c) :
         /\ \A i \in 1..k : Age(c[i]) < Timeout
         /\ k < Len(c) => Age(c[k + 1]) >= Timeout
         /\ LET expired == {c[i] : i \in (k + 1)..Len(c)} IN
              /\ OpenFiles' = IF k = 0 THEN NULL ELSE OpenFiles
              /\ FreeFiles' = IF k = Len(c) THEN FreeFiles ELSE c[Len(c)]
              /\ next' = [s \in Slots |->
                            IF k > 0 /\ s = c[k] THEN NULL
                            ELSE IF s \in expired
                              THEN LET i == CHOOSE i \in (k + 1)..Len(c) : c[i] = s
                                   IN IF i = k + 1 THEN FreeFiles ELSE c[i - 1]
                              ELSE next[s]]
              /\ fd' = [s \in Slots |-> IF s \in expired THEN NoFd ELSE fd[s]]
              /\ fsFile' = [f \in Fds |-> IF \E s \in expired : fd[s] = f
                                          THEN NoFile ELSE fsFile[f]]
  /\ late' = 0
  /\ UNCHANGED <<fileid, lastaccess, now, served>>

\* Time passes; the idle message is never more than MaxLate periods late.
Tick ==
  /\ late < MaxLate
  /\ now' = (now + 1) % ClockMod
  /\ late' = late + 1
  /\ UNCHANGED <<pool, fsFile, served>>

Read(id) == ReadOpenFile(id) \/ ReadNewFile(id) \/ ReadFailed(id)

Next == (\E id \in FileIds : Read(id)) \/ IdleCheck \/ Tick

Spec == Init /\ [][Next]_vars
-----------------------------------------------------------------------------
TypeOK ==
  /\ OpenFiles \in Pointer /\ FreeFiles \in Pointer
  /\ next \in [Slots -> Pointer]
  /\ fileid \in [Slots -> FileIds \cup {NoFile}]
  /\ fd \in [Slots -> Fds \cup {NoFd}]
  /\ lastaccess \in [Slots -> 0..(ClockMod - 1)]
  /\ fsFile \in [Fds -> FileIds \cup {NoFile}]
  /\ now \in 0..(ClockMod - 1) /\ late \in 0..MaxLate
  /\ served \in [asked : FileIds \cup {NoFile}, got : FileIds \cup {NoFile}]

\* No list operation loses a slot, links it twice, closes a cycle or mixes the
\* lists up: both lists end, every slot is in exactly one of them, once, and
\* the slots of OpenFiles are the ones that hold a descriptor.
Partition(o, f) ==
  /\ IsChain(OpenFiles, o) /\ IsChain(FreeFiles, f)
  /\ Len(o) + Len(f) = MaxOpenFiles
  /\ \A i \in 1..Len(o) : fd[o[i]] # NoFd
  /\ \A i \in 1..Len(f) : fd[f[i]] = NoFd
  /\ \A i, j \in 1..Len(o) : o[i] = o[j] => i = j
  /\ \A i, j \in 1..Len(f) : f[i] = f[j] => i = j
  /\ \A s \in Slots : (\E i \in 1..Len(o) : o[i] = s) \/ (\E i \in 1..Len(f) : f[i] = s)

SlotsPartitioned == \E o, f \in Chains : Partition(o, f)

\* No descriptor leaks, none is shared or used after it was closed: the files
\* open in the filesystem module are exactly those the slots hold.
DescriptorsMatch ==
  /\ \A s \in Slots : fd[s] # NoFd => fsFile[fd[s]] = fileid[s] /\ fileid[s] # NoFile
  /\ \A s, t \in Slots : fd[s] # NoFd /\ fd[s] = fd[t] => s = t
  /\ \A f \in Fds : fsFile[f] # NoFile => \E s \in Slots : fd[s] = f

\* No file is opened twice: the search of GetFile misses no open slot.
OpenedOnce ==
  \A s, t \in Slots : fd[s] # NoFd /\ fd[t] # NoFd /\ fileid[s] = fileid[t] => s = t

\* A game never gets the data of another replacement file than the one its
\* patch names, whatever slots were evicted, expired or failed to open before.
RightFile == served.got \in {served.asked, NoFile}

\* dip.cpp:71, "they're sorted, so all files after the first expired one will
\* be closed": the open list is sorted by age.  No file that is not read stays
\* open for longer than the timeout and the delay of the idle message, so that
\* no age wraps.
SortedByAge ==
  \A o \in Chains : IsChain(OpenFiles, o) =>
    \A i \in 1..Len(o) :
      /\ Age(o[i]) < Timeout + MaxLate
      /\ i > 1 => Age(o[i - 1]) <= Age(o[i])

\* A file is closed for one of two reasons only: it has expired, or the table
\* was full and no other open file was used less recently.  The descriptor of a
\* closed file may be handed out again at once, for the file opened in its place.
ClosesOnlyOldest ==
  [][\A s \in Slots : fd[s] # NoFd /\ <<fd'[s], fileid'[s]>> # <<fd[s], fileid[s]>> =>
       \/ Age(s) >= Timeout
       \/ \A t \in Slots : fd[t] # NoFd /\ Age(t) <= Age(s)]_vars

\* The table is an LRU list of file ids.
OpenChain == CHOOSE c \in Chains : IsChain(OpenFiles, c)
Lru == INSTANCE LruFiles WITH
         Capacity <- MaxOpenFiles,
         cache <- [i \in 1..Len(OpenChain) |-> fileid[OpenChain[i]]]
ImplementsLru == Lru!Spec
=============================================================================
