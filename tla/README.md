# A formal model of HAI-Riivolution

Riivolution lets a Wii game read files from an SD card, a USB drive or a PC in
place of those on its disc. Most of it runs on the console's ARM processor as
modules loaded into IOS: one that serves files from several kinds of
filesystem, one that answers the game's disc reads, one that answers its NAND
filesystem calls, one for debugging. A launcher on the PowerPC sets them up. On
the PC a small server, RiiFS, offers a directory over the network.

This directory holds TLA+ models of the parts of that system whose correctness
depends on the order of things: lists threaded through arrays, two copies of a
state kept in step over a network, positions held on both sides of a
connection, slots that are reused, operations made of many messages, nodes put into
the middle of an array, free blocks joined in memory. TLC
checks the models on small instances; TLAPS proves the central results about
the disc module's file table and patches, its emulation of NAND files, the RiiFS
protocol, files and server, the modules' heap, and the mounts and patches from the menu to the
game, for all sizes.

## Inventory

All paths are below `src/`.

| Component | State it keeps | Operations | Talks to | What is hard | What makes it correct |
|---|---|---|---|---|---|
| Disc module, file table (`dipmodule/source/dip.cpp`: `GetFile`, `ReadFile`, `HandleOther`) | eight slots, an open and a free list threaded through them, a descriptor, a file and a time in each | find or open a file for a read, evict the oldest, close what has been idle | file module, one descriptor per slot; idle timer messages | pointers to pointers rewritten in three ways; an open that fails half-way; eviction; a timestamp of 32 bits; a list order the idle check relies on | both lists intact, no descriptor leaked or used after close, the right file read, least recently used evicted |
| Disc module, patches and shifts (`dip.cpp`: `HandleIoctl`, `FindPatch`, `AddPatch`, `AddShift`) | patches and shifts in the order they were added, the table of files, the partition they are for | compose a disc read from patches, a shifted place and the disc | the real `/dev/di`, the file table | patches that touch, contain or meet a read, zero lengths, more than `MAX_FOUND`, partitions | a read of a file returns what its patches make of it |
| NAND emulation (`emu.cpp`) | redirected directories and files, descriptors | open, read, write, rename, delete on redirected paths; forward the rest | game, `/dev/fs` through a hook and a queue of its own, the file module | messages nested in messages, a shared `ProxyMessage`, renames across media | a call has the effect it would have on the NAND |
| File module (`filemodule/source/module.cpp`) | table of mounts, default, log, the one long path | mount, unmount, path lookup, open of long paths, logging | every filesystem handler; every other module is its client | slots reused; prefixes; an open in two messages by several threads | paths lead to the filesystem they name; default and log stay with their filesystem; an open opens what was asked |
| RiiFS client (`filemodule/source/file_riifs.cpp`) | socket, remembered options, log buffer, idle count; per file a position and whether it is dirty | all file operations as commands over TCP | RiiFS server | options left out when believed known; a connection that breaks anywhere; delayed seeks | every command acts on its own arguments; answers in step; calls return; a file behaves as on a card |
| RiiFS server (`riifs/server-c`) | connections; per connection the options, open streams, directories, last ping | receive options, carry out commands; time out silent clients | clients; a timeout thread shares the connections | three kinds of thread; streams with sticky error state; a timeout during a command | as for the client; a timeout never frees what a command uses |
| FAT and ISFS handlers (`file_fat.cpp`, `file_isfs.cpp`) | name, idle count; a table of twelve NAND files | file operations on libfat and `/dev/fs` | libfat, NAND | idle sync; full table | thin |
| IOS runtime (`libios`: `proxiios.cpp`, `lwp_heap.c`, `mem.c`, `timer.c`, `lock.c`, `network_wii.c`, `usb*.c`, `wiisd.c`) | heap blocks, timers, message queues, device state | dispatch a message and acknowledge it, allocate, time, lock, transfer | IOS | acknowledgements sent later; coalescing of free blocks; timeouts of a transfer | one answer per request; heap blocks partition the heap |
| Debugger module (`megamodule`) | connection to the PC, breakpoints, poll state | connect, disconnect, poll, memory commands | file module's network, the PPC | disconnection during a command; polling timer | commands answered once |
| Launcher, patching (`launcher/source/riivolution.cpp`, `riivolution_config.cpp`) | the disc's file tree, patches, mounts used | parse XML, rewrite the FST, allocate room above the disc for bigger files | disc and file modules | sizes and offsets, nodes created while others move | every file of the patched FST lies where a patch or shift serves it |
| Launcher, loading (`launcher.cpp`, `init.cpp`, `haxx.cpp`, `wdvd.cpp`, `usb.cpp`, installer, menus, `http.cpp`, `ssl.cpp`) | mostly the console | boot, exploits, drawing, downloads | hardware | hardware | — |
| RawkSD (`rawksd`, `rawksd-master`), `launcher/brawl`, `launcher/dollz3`, `stripios`, `usbloadergx`, `consolehaxx`, `rawkaudio`, `riifs/server-cs`, `riifs/debugger-python`, libraries | — | games' own menus, converters, tools, vendored code | — | — | — |

`PROJECT.json` lists them with their status.

## The modules

| Module | Models | Abstract counterpart |
|---|---|---|
| `DipFiles` | the disc module's table of open replacement files | `LruFiles`: a sequence of open files, most recently used first |
| `DiscPatches` | the places of files in the launcher's file table, and the disc module's patches, shifts and reads | `PatchedDisc`: files and their contents (`DiscContents` runs the two side by side) |
| `FileTable` | the layout of that table: nodes, directories' extents and names as the launcher makes files | `DiscTree`: paths and what they name |
| `NandEmulation` | the NAND hook, the emulation's thread and its files, the moves between NAND and card | `NandFiles`: one NAND with whole files; `NandRequests` holds what both call requests |
| `RiiSession` | one RiiFS mount, message by message | `RemoteCall`: a call's commands are carried out at most once, with its own arguments, and the call learns the server's answer or, with the connection gone, of a failure |
| `RiiFile` | one file open over RiiFS, call by call | `PlainFile`: bytes and a position |
| `RiiServer` | the server's threads, with time | — |
| `Filesystem` | the file module's mounts, path lookup, long paths and open files | — |
| `Launch` | `Filesystem` with the launcher, from the menu to the game: mounts, registered patches, unmounts | — |
| `LwpHeap` | the modules' heap: blocks in memory and the list of free ones | `Allocator`: pieces of memory that belong to callers |
| `DipFilesProofs`, `DiscPatchesProofs`, `LaunchProofs`, `RiiSessionProofs`, `RiiFileProofs`, `RiiServerProofs`, `NandEmulationProofs`, `LwpHeapProofs` | theorems about the module of that name, and about `Filesystem` under `Launch` | |

Each has an `MC...` module with the constants of its runs.

### DipFiles

`slots` of the code are `1..Slots`; the pointers `OpenFiles`, `FreeFiles` and
each slot's `Next` are one function from places (two list heads and the slots)
to slots or the end. Pointer-to-pointer walks (`DIPFile** last`) are walks over
places. `ReadFile` with `GetFile` inside it is one action, split on what
happens: the file is open (`ReadOpenFile`), is opened now (`ReadNewFile`) or
cannot be (`ReadFailed`), each taking a slot from the free list or from the
oldest open file. `HandleOther` on the idle timer is `IdleCheck`. Time is a
counter of idle ticks modulo `Clock`, as the hardware timer is modulo 2^32.

### DiscPatches

`fst` gives each file its place and size; `shift` is the launcher's counter of
room above the disc. `PatchFile` is `RVL_Patch` of a file with all it does to the
table and all its ioctls; `PatchMissing` is the same when the external file is not there,
which is noticed once the file's node has been made. A patch may be about a place of the
disc (`Fixed`: the disc itself, with an empty path, or `main.dol`) and not about a file;
its node is the launcher's own and has a size without end. `ShareFile` is `RVL_Patch` of a shift. `Composed` is the
`Read` ioctl after the partition check: the first `MaxFound` patches that touch
the read, the last shift, `filecover`, and the disc where the code forwards the
read. A byte is a source (a partition, an external file, or nothing, for a part
of the buffer nobody wrote) and its place there. `DiscContents` adds the
contents that files should have as a variable, laid over by `PatchedDisc`'s
`Overlaid`, and compares.

Launcher and module do not compose every sequence of patches. `Sensible` says
which ones they do, and each of its parts marks a place where the code loses
bytes: with the part dropped TLC finds a read that returns others.

* Without `resize` a patch that ends after the file shows up in the next file.
* A file that grows is moved with a shift that leads to the disc; a part that an
  earlier patch replaced stays behind, unless the new patch replaces everything.
* With `shiftfiles` a file is moved without a shift, so the patch must replace
  everything.
* A file whose place another one shares is patched in both.
* A read sees `MAX_FOUND` patches, no more.

A patch that gives the length of a missing external file registered by name is left out: it
is noticed only when a read cannot open the file. Offsets are multiples of four bytes in
the model (the module drops the rest), and external files are used from their beginning: the launcher passes `fileoffset`
on, and the module ignores it (`dip.cpp` 149, 160). `DiscAssumption` says of the
disc as it was pressed that its files begin at blocks and do not overlap.

### FileTable

`table` is the launcher's copy of the disc's table as one record: `fst`, the array
of nodes; `names`, all that lies behind it, character by character and with its
padding; `shift`; and `node`, the node that an operation is at. The operators of
the same names as the code's functions take a table and give one, so that `CreateNode` is
`RVL_CreateNode` with every directory it makes on the way, and with the memory
for one of them missing. `fstsize` is what nodes and names take together. The
chain of `GetParent`s of a node is `Parents`, the set of directories around it;
the walk over siblings is `Children`, the set it visits. `tree` has no
counterpart in the launcher: it is what the table spells to the game, and what
`DiscTree` talks of. Sizes are in units of 0x40 bytes; the offset of a patch in
its file and `shiftfiles` are with `DiscPatches`. Only the last part of a path
may name a file, and paths begin with a slash (the search for a file name
anywhere in the table is left out).

### RiiSession

A call of the handler is a script of `Send` and `Receive` steps, the
`SendCommand`s and `ReceiveCommand`s it makes; the client takes the steps one
by one while the server reads the connection. `cache` is `Options` and
`OptionsInit` of the handler; `options` is the map of the server's
`Connection`. The data a command answers with is counted in blocks, so that an
answer that is too short or too long puts the two sides out of step as it would
in the stream. The connection may break at any moment. What was under way to the
server is then lost to the model; what had been sent to the client arrives up to
some point. `RemoteCall` has a command carried out once, by the server, before the call
can learn its result; a failure without an answer is learned only when the connection is
gone, and the refinement says which of the client's and the server's steps these are. Numbers are always four bytes long; a path or a
content is four bytes long if it is in `WordSized`.

### RiiFile

One handle on one file. The client's `RiiFileInfo` keeps `Position` and
`SeekDirty`, the server's `fstream` its buffer's position and its `failbit`.
Each action is one call with all its commands. The libstdc++ behaviour that matters
is modelled: a read that comes up short sets `failbit`; on a failed stream
`tellg` answers -1, `seekg` and `write` do nothing, and `bad` is false;
`FileSeek` clears the state. The `seekg(tellg())` before each read and write
changes neither the position nor the state and has no counterpart. Files are
opened with the flags the modules use: one that is made is opened for writing
(`RiiFileAssumption`). A file that is opened for writing only, without `O_TRUNC`, is
truncated by the server all the same; the guard of `Open` leaves that case out unless
the file is empty. `O_APPEND` is left out too, and so is the
case of two handles on one file, whose buffers the server does not reconcile.

### RiiServer

`stage` says where a connection is: made by main, listed, waiting for a message,
in a command, leaving. `scan` is what the timeout thread's iterator has yet to
visit; `Visit` is one turn of its loop, so that commands run in between, and
deletions do not, since they wait for the lock. `using` marks a command that
uses a stream. Time counts in half minutes: `silent` is the time since
`LastPing`, and `InTime` keeps the clock from passing what main, a command and a
client that is there do in time. A client that vanishes in the middle of a command
leaves the thread blocked in `send` or `recv` for as long as the connection is
open. In that case the timeout thread does delete the stream from which
`TcpClient::Write` goes on reading once `send` has failed
(`riifs.cpp` 198-209, 459-463); `StreamsOutliveCommands` speaks only of clients
that are there, and says so.

### NandEmulation

Three parties take turns: the thread of `/dev/fs`, which runs the hook
(`FilesystemHook`), the emulation's thread (`EMU::HandleIoctl`,
`HandleFSMessage`), and the game. The hook hands a request to the emulation and
serves, while it waits, the requests that the emulation makes of the NAND
through the same device. `fs` says which of the two it is at, `message` and
`ProxyMessage` are its request and the copy it passes on, `queue` and
`fs_internal_queue` the two message queues; `job` is the move that the emulation's
thread is in, and `ipc` the call of `FS_IPC` within it. Files are sequences of
units; a unit stands for the part of a file that one turn of a move's loop
copies, and files are read and written by whole units; a write to the card may come up short,
and its answer says by how much. `RiivFile` writes to
the card at once, `VFFFile` keeps a buffer. `MoveTo`, which copies a file from the
NAND to the card by a loop of calls of both, is a step per call, so that the power
can go between any two. Reads have their contents compared in `NandFiles`.

The game of the model keeps to what the code can do, and each rule marks a place
where it cannot, or a case left out: it writes redirected files only (`GameAsks`), has no more files open
than the table holds (`Opens`; another one is opened on the NAND instead), does not
open, move or delete a file that it has open (`Quiet`), a move does not go onto a longer file (`Moves`; its old end would
stay), and the size of a file that could not be opened is not asked (`Measures`;
the answer is OK with an error number for a size). Writes fail on files
without a buffer only (`MayFail`), since `Flush` does not look at the answer; a
seek on the NAND does not fail, since `MoveTo` would go on to delete the file. A hook that cannot reach the
emulation (`os_ioctl_async` fails, or its queue is dead: `emu.cpp` 183, 204) is left out
as well: it lets `/dev/fs` serve the request, a redirected one too, so that the game would
see the other of its two files.

### LwpHeap

`mem` is the memory of heap and control block, a word at each address: flags with
sizes, links of the free list, the distance before a piece, and what callers write,
all in one function, so that a size that is wrong lets a caller's data run into a
header. `held` and `data` are the callers' knowledge of their pieces. One action is one call of `Alloc`, `Memalign`, `Dealloc` or
`Realloc`, which `mem.c`'s lock makes one step. Callers write into all of what
they get. `Allocator` knows pieces only: an allocation that fails says that
there may have been no room, and a reallocation that fails leaves the old piece to its
caller. The code frees it; that is `LosesPiece`, the one step that
`AllocatesAsPromised` allows besides those of `Allocator`, and what `lwp_heap_realloc` is about.
The guards of `__lwp_heap_free` and `__lwp_heap_realloc` on what they are given are in
`CanBeFreed` and `IsPiece`. Callers give back and resize NULL and what they hold; a piece that
is given back twice, or a pointer from elsewhere, is not met.

### Filesystem and Launch

Every action is the handling of one message. Mount points are sequences, so
that one can be a prefix of another as strings are; slot 0 holds the NAND's
filesystem from the start. `lookup` shows the last path lookup: the path the
client asked for, the path the module used and where it led. `chosen` remembers
which filesystem was made the default or the log's and is updated only where
the code's caller chooses one, or when that filesystem is unmounted. `file` is
the filesystem whose handler an open file leads to.

`Launch` puts the launcher on top. In the menu it mounts, unmounts, looks files
up and chooses the default and the log; `RVL_Patch` picks the filesystems that patches
use and registers paths, without the mount point if there is only one; the disc
module opens them for the loader and the game (`Reads`), and the NAND emulation looks
files of save games up (`SaveGames`); `RVL_Unmount` is one turn of its loop, and
`Launch` starts the game when none is left. The client that opens files is one
thread: with two, one's open between the two messages of the other's long open
takes its path away, and `OpensWhatWasAsked` fails (`module.cpp` 235, 337).

## What each run checks

| Run | Instance | What it shows |
|---|---|---|
| `dip_files` | 3 slots, 4 files, 3 descriptors, a clock of a few ticks | lists intact, no descriptor leaked, no file open twice, the right file read, list sorted by age, only the oldest evicted, implements `LruFiles` |
| `disc_patches` | 2 files on the disc and one that is made, 3 external files and one that is missing, patches of the disc and of `main.dol`, 2 patches, 2 partitions, `MaxFound` 2, with and without `shiftfiles` | all reads of all files return their contents and reads of the other partition what is there, files stay apart, implements `PatchedDisc` |
| `disc_tree` | a disc of two directories and two files, with and without padding, 6 paths, up to 3 new files of 2 sizes | every node keeps its extent, name and order; implements `DiscTree` |
| `nand_emulation` | 3 files: one on the NAND, two redirected, one of them buffered; a table of 2 open files on each side, contents of up to 2 units, a power cut | the conversation of hook and emulation stays in order, a moved file is whole at one of its places, implements `NandFiles`, every request is answered |
| `lwp_heap` | a heap of 120 bytes, pieces of 8 and 20 bytes, aligned to 8 and to 16 | headers and list in order, free blocks joined, data untouched, implements `Allocator` but for reallocations without room |
| `lwp_heap_realloc` | the same | **fails**: a reallocation without room frees the piece |
| `rii_session` | 2 descriptors, 2 paths, 2 contents, lengths 0 and 2, one offset | arguments, cache and answers in step through any breakage; implements `RemoteCall` (at most once, and no failure without an answer while there is a connection); every call returns |
| `rii_session_words` | a path and a content of four bytes | **fails**: a command acts on another path |
| `rii_file` | 3 bytes of 2 values, 4 modes | positions agree, implements `PlainFile` for careful callers |
| `rii_file_write` | a caller that writes where a read came up short | **fails**: the write is lost |
| `rii_server` | 2 connections, a limit of 4 units, commands of up to 3 | the scan meets no deleted connection, no stream closed under a command, no live client thrown out; the connection of a vanished client is deleted |
| `filesystem` | `Launch` with 4 slots, an SD card, 4 RiiFS mounts, one thread that opens files | lookup, default and log right; opens right; registered patches lead to their files until the end; no open file loses its handler; the log stays |

The type invariant `TypeOK` of every module but `DipFiles` is checked as the first
part of another invariant: of `InStep`, `PositionsAgree`, `FilesApart`, `WellNested`,
`StillChosen`, `ScanIsSafe`, `WalkEnds` and `OneConversation`. `WritesLand`, which
fails in `rii_file_write`, holds in `rii_file` as part of `PlainFile`, whose writes land.

The failing runs are findings; `PROJECT.json` quotes the lines they contradict.
Three more disagreements showed on the way and have a note among the hazards
there: a sync over RiiFS that moves the position (`SyncAtAnyTime` in `RiiFile`), the
long opens of two threads (above), and the tenth RiiFS mount, whose paths `/mnt/net/1` takes:
`file_riifs.cpp` 132 allows for every number below 100000, and `module.cpp` 426
takes the first mount point that begins a path.

`filesystem` is the one run without the check for deadlock: a game none of whose patches
has files on a filesystem rests for ever.

### Bounds

* Three slots are the least for which the open list has a middle: moves from the
  front, the middle and the end, and an eviction that leaves more than one file,
  all happen. Four files on three slots make every eviction happen. The proofs
  need neither bound.
* The two files of the disc patches have sizes below and at a block. The first is
  patched from the beginning or the second word with nothing, less, as much and
  more than it holds, the second is replaced by more than it holds or grows behind its
  first word, and a third is made, for an external file that is there or is missing. The patch of the
disc meets both of its files. Two patches, with any sharing of places between and
  after them, let one disturb the other.
* Two values of every option are enough for one to be stale. `Window` bounds what
  is under way to the server; with three places it holds the options of a command
  ahead of the command itself, and the client blocks as it would on a full socket.
* Three bytes leave room for a read that comes up short, a hole, and an
  overwrite in the middle; two values tell old from new.
* Two connections let one be deleted while the iterator stands on the other.
  The timeout is 4 half minutes, a ping comes after 1 (31 idle ticks of a second)
  and a command takes up to 3: that a command takes no longer than 90 seconds is
  an assumption about the disk and the network, and with commands of 2 minutes
  the properties fail.
* Four slots let a slot be freed and taken by another filesystem while a third
  is mounted and a fourth has the log. Four connections are fewer than ten on
  purpose: with ten `RightFilesystem` fails.
* The six paths of `disc_tree` put nodes before, between and behind others, into an
  empty directory, into one with a file, and make one and two directories on the way;
  up to four nodes are added. Nodes of 3 bytes and blocks of 8 make an
  insertion find room in the padding or not.
* Two units are the least for which a move takes two turns, so that it may
  stop with half of a file copied; the second conversation with a table of two files open
  lets one be closed while another is used. The game writes one unit or two, so that a write
that comes up short may have written none, some or all of them.
* The heap holds four of the smallest pieces, so that a block
  freed between two free ones, before one and behind one all happen, and a fit
  leaves nothing, too little for a block, or a block.

### Fairness

That a file which is not read any more is closed is a matter of time, not of
fairness, in `DipFiles`: an idle message is never more than `MaxLate` periods late,
and `SortedByAge` says how long a file stays open at most. `nand_emulation` assumes that
the thread of `/dev/fs` and the emulation's thread keep running, which is all that
its requests wait for. `rii_session` assumes that the module's
thread and the connection's thread keep running, and that a connection that has
broken is noticed; it assumes nothing about calls being made. A server that
hangs with its connection open would block the module for ever: the client's
socket has no receive timeout, and no property says otherwise.

`rii_server` assumes that the server's threads run, that those who wait for
`ConnectionsLock` get it in the end (the timeout thread sleeps 15 seconds between
scans), that a client that is there pings when due, and that time passes. It
assumes nothing of a command whose client is gone until the connection is shut
down.

## What is proved

The theorems hold for all values of the constants that satisfy the assumptions of
the modules (`DipFilesAssumption`, `DiscAssumption` and so on), which say that
sizes and times are numbers, that what stands for "none" is nothing else, and
what the sections above name. What a theorem needs beyond that is a named
hypothesis, and it is said below what happens without it.

| Theorems | Property | Hypotheses |
|---|---|---|
| `DipFilesProofs`: `TypeCorrect`, `ListsIntact`, `NoLeak`, `NeverTwice`, `ReadsRightFile` | `TypeOK`, `SlotsPartitioned`, `DescriptorsMatch`, `OpenedOnce`, `RightFile` | |
| `SortedList`, `OldestIsClosed`, `IsLruList` | `SortedByAge`, `ClosesOnlyOldest`, `ImplementsLru` | |
| `DiscPatchesProofs`: `FilesStayApart` | `FilesApart` | |
| `LaunchProofs`: `LeadsToItsFilesystem`, `ChoicesStay`, `PatchesFound` | `RightFilesystem`, `StillChosen`, `PatchesReachTheirFiles` | `FewMounts` |
| `LogNotMoved` | `LogStays` | |
| `OpensItsFile`, `HandlersStay` | `OpensWhatWasAsked`, `OpenFilesKeepTheirHandler` | `FewMounts`, `OneClient` |
| `RiiSessionProofs`: `CachesAgree`, `CommandsFindTheirArguments`, `AnswersStayInStep`, `MountIsRemoteCall` | `CacheCoherent`, `ActsOnCall`, `InStep`, `ImplementsRemoteCall` | `NoWords` |
| `RiiFileProofs`: `PositionsStayInStep`, `TreatedLikeACardFile`, `CarefulWritesLand` | `PositionsAgree`, `ImplementsPlainFile`, `WritesLand` | `Careful` |
| `RiiServerProofs`: `ScanSafe`, `StreamsSafe`, `ClientsStay` | `ScanIsSafe`, `StreamsOutliveCommands`, `LiveClientsStay` | |
| `NandEmulationProofs`: `TalksOfOneRequest`, `MovedFilesAreKept`, `NandBehavesAsFiles` | `OneConversation`, `MoveKeepsACopy`, `ImplementsNandFiles` | |
| `LwpHeapProofs`: `HeapWalks`, `HeapListsFree`, `HeapKeepsData`, `HeapAllocates` | `WalkEnds`, `ListIsFreeBlocks`, `DataIntact`, `AllocatesAsPromised` | |

### The file table

`SlotsPartitioned` says that there are two sequences without repetition, one
for each list, which the pointers spell. It is not inductive by itself in a
form a prover can use, so the invariant `Inv` joins it with the type invariant,
with `FilesOK` (descriptors and files of open and free slots) and with
`RightFile`. Three lemmas do the work: `MoveStep` (unlinking a slot and putting it in
front), `PushStep` (putting a slot in front of a list) and `CutStep` (taking
off what follows a place) say which sequences the rewritten pointers spell.
`ChainUnique` says that the pointers spell only one; so what an action computes by walking the list can be compared
with the sequence the invariant provides. `GetFileCases` reduces
`GetFile` to its three outcomes, and there is one lemma of invariance per action.

The order of the list needs `InOrder` besides: no age exceeds the timeout by more than
the idle message has been late so far, and ages do not decrease along the list. The first
half is what makes the second stable, since a clock that wraps would make an old
file young: `AgeAfterTick` shows that ages then grow together. `ClosesOnlyOldest`
follows, as the slot that is evicted is the chain's last and those that expire are
a tail of it. The refinement reads the abstract list off the chain: each lemma of
invariance also says how the chain changes (moved to the front, pushed, cut), and
`FilesMoved`, `FilesPushed`, `FilesGiven` and `FilesKept` say what that does to the
sequence of files.

### Disc patches

`IndInv` joins `TypeOK` with `Tables` (what the three tables hold), `Room` (in the menu the
file table is the disc's; afterwards `shift` is at a block and no file's last block ends
behind it), `Playing` (the game's partition is open until the game runs) and
`Apart` (the blocks of files that do not begin together do not meet), which is stronger than
`FilesApart`. The work is in `PatchFileKeeps`: whatever a patch does to a file's
size and place, the file ends before the next one or is moved to `shift`, which grows by as much
(`RoomIsEnough`). A patch of a place of the disc changes no file's place (`FixedStays`), and one
whose external file is missing leaves a file of the length it named (`PatchMissingKeeps`); both
rest on `PlacesKeep`, which says what it takes for the places to stay apart.
The lemmas before these are about rounding.

### Mounts and patches

`IndInv` joins `Mounts` (no two slots have one mount point, and no number of a RiiFS mount
is given twice), `ChosenStay` (the default's and the log's slots hold what was chosen), `Messages`
(each lookup led where it should, each path that was announced is the one
used) and `Launching` (a registered path has the mount point of its filesystem or none;
none is given only if that is the default; a filesystem in use is not
unmounted). `NamesApart` is why a lookup finds what it should: no mount
point is the beginning of a path under another one. It needs `FewMounts`, fewer than ten RiiFS mounts in
all, since `/mnt/net/1` begins `/mnt/net/10`.
It also needs that the FAT devices' names do not begin each other or the
others, `FatNamesAssumption`, which those of `module.cpp` do not. `OneClient` says that
a single thread opens files. With two the open of one takes the long path of the
other (`module.cpp` 235, 337).

### The protocol

`Eventually(o)` is what the server will hold of option `o` when it has read all that is under
way. `CacheCoherent` says that what the client remembers is that, and is proved together with
`Queue` (what is under way is options, then at most one command, and nothing after
it), `Waiting` (the client waits for exactly the blocks of the answer to its last step)
and `Agreed` (what the call in progress has sent or left out is what the server
will have). With every call's script shown to send what its commands need
(`EveryCallWellFormed`), a command that is carried out then finds its own arguments.
`NoWords`, that no path and no content is four bytes long, is needed: `rii_session_words`
is the counterexample. The refinement of `RemoteCall` is proved step by step from the
same invariant. A request of `RemoteCall` is open while the client waits for an answer, and
`acted` keeps each time the server has carried a command out since. The second half of the
argument is that what the client then receives is the result in `acted`, and that it gives a
request up only when the connection has broken.

### A file, and the server

`PositionsAgree` of `RiiFile` is inductive together with the position not
being negative. `Careful` says that nobody writes or syncs where a read came up short, or
syncs between a seek and its use: `rii_file_write` is the counterexample to the
first, and the note among the hazards tells of the second. Under it each call maps to the same
call of `PlainFile`.

The invariant of `RiiServer` is `Types`, `Listing` (the list holds the connections that have
a thread or will have, each once, and the timeout thread walks a part of it only while it
has the lock), `Using`, `SilenceBound` and `Staying`. `SilenceBound` is the
argument that the code leaves unsaid: it bounds, stage by stage, how long a client that is there can
have been silent, so that the timeout thread never finds one overdue, and never takes a
stream from a command, although it does not ask whether one is in progress. The times must only
satisfy `PingEvery + CommandTime <= Timeout` and `3 * PingEvery <= Timeout`.

### The NAND emulation

`IndInv` joins the types with `Conversation`: the request is with exactly one of the game,
the emulation's queue, a call of `MoveTo`, the hook's queue and `/dev/fs`, and each of these
(`Resting`, `Asked`, `InMove`, `Finished`, `Serving`) says what both queues hold then.
While a move runs (`Moving`) a call of `FS_IPC` has one message on its way, and that asks
what the present step wants. `OneConversation` is read off this, with `Fits` for the
buffers: an open file stands within the card's file, and its buffer is not full.

`MoveKeepsACopy` needs to know what each step of `MoveTo` has achieved, before and after
the NAND has done what the step asks (`Done`). The heart is `AtRead`: what
the card's file would be with the buffer flushed (`View`) agrees with the old file as
far as the loop has come, is no longer than it, and what is left to copy is the rest.
The end of a buffer and the file it goes into are seen as one through `OverwriteTwice`, and
`FileWriteIs` says of `RiivFile` and `VFFFile` alike that a write, flushed or not, puts
the units that its answer counts at the end of that view. So when the loop ends well and the file is flushed it is the old one
(`LeaveKeeps`), before that is deleted. The assumption of the module bears the limits above:
`MayFail` has no buffered files, and files are `Contents`, whole units.

That `NandFiles` is implemented (`NandBehavesAsFiles`) needs `SeenInv` besides. Its parts say
what no one of the three parties could tell alone: a path is open once, whether in the
table of the emulation or in that of `/dev/fs`, and the latter has no redirected file of
the game (`Handles`); the descriptors `MoveTo` uses are its own, so that the game's
positions do not move with it (`OwnFile`); what the game made sure of when it asked is
still so when it is answered, and what the emulation leaves to `/dev/fs` is not about
a file of its own (`DueAndRest`). With it `ShownIs` can say which contents the game sees of a path:
those of the NAND, or of the card's file with the one buffer that there can be for it. For
each step of `NandFiles` a lemma (`SeenReads`, `SeenCopies` and so on) says what must be seen
to change for it, and for each action another one finds the step: a flush changes
nothing (`UseSees`, `HandleCloseSees`), a turn of the move's loop is a `Copying` that the old
file outlasts (`TurnGoesSees`), the deletion afterwards an `Uncopy`, and an answer a
`Moved` or a `NotMoved` (`TurnEndsSees`).

### The heap

`IndInv` says that there are a set of places `B` where blocks begin, their sizes `z`, the
set `F` of those that are free, a rank `r` of each entry of the free list and an owner `o`
of each piece such that the memory is what these describe: the blocks fill the heap one
behind the other (`Layout`), both ends of each hold its size and whether it is used
(`Headers`), the links lead through `F` in both directions while the rank grows
(`FreeList`), no two free blocks are neighbours (`Apart`), each used block holds one
piece with the distance to it in the word before (`Owned`), and the callers' data is there
(`Holds`). The rank stands for the order of the list, so that a block can be taken out of
it, put first, or take another's place without a word about sequences.

Of each way the code has of changing the memory a lemma says what happens to these: a block is cut
(`SplitKeeps`) or taken as it is (`WholeKeeps`), joins the one before it, the one behind
it or both (`JoinPrevKeeps`, `JoinNextKeeps`, `JoinBothKeeps`) or is put on the list
(`EnlistKeeps`). All of them leave the bodies of the other used blocks alone (`Untouched`),
from which `DataIntact` follows. That a walk along the blocks or along the list meets them all (`WalkReaches`,
`ListEnumerates`) is shown for the least place or rank that it would miss; `FewBlocks` is why
`Listed` and `Walked` go far enough. The refinement adds what the callers are promised: pieces lie in their blocks and
so apart (`PiecesApart`), `AlignedAsAsked` is the arithmetic of alignments, and
`FitsNone` says that with no piece held the one free block is the whole heap.
`HeapAllocates` has a step of `Allocator` for every call but one, the reallocation that finds no room.

The assumption of the module says of alignments what `lwp_heap.c` asks of its callers, that
they are powers of two; the proofs use two things that follow, which the assumption
lists as well. An alignment of, say, six would put headers at odd places.

### Only model-checked

* Liveness (`CallsReturn`, `DeadClientsLeave`, `EveryRequestAnswered`): out of the prover's
  reach.
* `ImplementsPromise` of `DiscPatches`: what a read composes is a fold over the
  patches that it meets, and what it should be is a fold over those that were made; that the
  two agree is an induction over data.
* `WellNested`, `EveryNodeIsFound`, `SiblingsSorted` and the refinement of `DiscTree`:
  `FileTable`'s operators walk the array by recursive functions, and what they
  compute is again an induction over data.

## Plan

In this order:

1. *done* `DipFiles`, `LruFiles`, `DipFilesProofs`: the table every read of a
   replaced file goes through.
2. *done* `RiiSession`, `RemoteCall`: the protocol every network file goes through.
3. *done* `RiiFile`, `PlainFile`; `Filesystem`, `Launch`.
4. *done* `RiiServer`: the timeout's `Close` against a command.
5. *done* `DiscPatches`, `DiscContents`, `PatchedDisc`; `FileTable`, `DiscTree`.
6. *done* `NandEmulation`, `NandFiles`: the hook, its nested messages, and the move
   between NAND and card.
7. *done* `LwpHeap`, `Allocator`.
8. *done* Proofs about `DipFiles` (all properties and the refinement), `RiiSession`,
   `RiiFile`, `RiiServer`, `Filesystem` and `Launch` (all but liveness), `DiscPatches`
   (places).
9. *done* Proofs about `NandEmulation` (all but liveness, with the refinement).
10. *done* Proofs about `LwpHeap` (all properties, and the refinement but for `LosesPiece`).

## Not modelled

The reasons are with the components in `PROJECT.json`. In short:

* Most of the repository's lines are not this program's logic: libxml2, libxml++,
  libfat, libwiigui and most of the tools are vendored, and
  `rawksd-master` is a second copy of the whole tree, libraries included. The models
  cover the parts of the modules, the server and the launcher in which state
  and order matter.
* Drawing, exploits, hardware drivers, cryptography, format converters: sequential
  code that is right or wrong by what the hardware or a file format says.
* The message loop (`proxiios.cpp`) is in every model as the rule that one message is
  handled at a time.
* The debugger module writes through an uninitialized pointer in its
  constructor; what it does then is not defined.
* The caches of `YARR` are not built.
* Of the NAND emulation: tickets, titles and the listing of directories, which
  translate names and forward; of the file module: the handlers that forward
  to libfat and `/dev/fs`, disc slots; of the launcher: XML, folders, memory patches.
* The server's table of file identifiers, which threads extend without a lock: that is
  undefined behaviour, and no property holds after it.
* Cases that the models exclude because the code does not handle them, besides those
  under "Sensible" and "the game of the model" above: a relative seek to before the
  beginning of a file over RiiFS, which makes the client's unsigned position huge
  (`file_riifs.cpp` 302); an option of the launcher that names a patch nobody
  defined, which is read through a map's end (`riivolution.cpp` 572); a path that goes on
  below a file's name, which takes the file's length for the end of a directory
  (`riivolution.cpp` 213); the parents' numbers in directories' `DataOffset`, which
  no insertion corrects (`riivolution.cpp` 353; the launcher never reads them);
  requests of the game before the emulation has started, which share a message with
  its own (`emu.cpp` 392); a rename between two redirected directories, done by
  the first that translates either path (`emu.cpp` 664).
* In the modelled parts: wording of logs, byte order, cache maintenance
  (`os_sync_*`), and, except in `FileTable`, the failure of a small allocation.
