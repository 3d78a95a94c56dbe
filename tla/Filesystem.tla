----------------------------- MODULE Filesystem -----------------------------
(***************************************************************************)
(* The filesystem module's table of mounts and its path lookup             *)
(* (filemodule/source/module.cpp), the two steps in which a client opens a *)
(* file whose path is too long for an IOS_Open (filemodule/libfile/files.c)*)
(* and the handlers that open files lead to.  The module handles one       *)
(* message at a time, so every action is the handling of a message.        *)
(*                                                                         *)
(* A path is a mount point, or none, and what follows it; mount points are *)
(* sequences of characters, cut no finer than prefixes need.               *)
(***************************************************************************)
EXTENDS Integers, Sequences, FiniteSets, SequencesExt

CONSTANTS
  Clients,         \* the threads that open files
  FatNames,        \* the mount points of FAT devices
  MaxMounted,      \* FILE_MAX_MOUNTED
  MaxConnections   \* bound: RiiFS mounts made, of all times

FilesystemAssumption ==
  /\ MaxMounted \in Nat \ {0}
  /\ MaxConnections \in 0..99
ASSUME FilesystemAssumption

Digit == <<"0", "1", "2", "3", "4", "5", "6", "7", "8", "9">>
Digits(n) == IF n < 10 THEN <<Digit[n + 1]>> ELSE <<Digit[(n \div 10) + 1], Digit[(n % 10) + 1]>>

Isfs == <<"isfs">>
Net(n) == <<"net">> \o Digits(n)
Names == {Isfs} \cup FatNames \cup {Net(n) : n \in 1..MaxConnections}
Slots == 0..MaxMounted - 1
Empty == <<"empty">>

\* A path names a place under a mount point, or under none; a long one does not
\* fit an IOS_Open.
Paths == [on : Names \cup {<< >>}, long : BOOLEAN]
NoPath == [on |-> Empty, long |-> FALSE]
\* SHORT_NAME, the path that stands for Long_Path
ShortName == [on |-> <<"......">>, long |-> FALSE]
Text(path) == path.on \o <<"/">>

\* The names of the FAT devices, /mnt/sd and the like, begin no other's paths.
FatNamesAssumption ==
  /\ FatNames \subseteq Seq(STRING) \ {<< >>}
  /\ \A name \in FatNames :
       /\ name[1] \notin {"isfs", "net", "empty", "......", "/"}
       /\ \A other \in FatNames : IsPrefix(name, other \o <<"/">>) => other = name
ASSUME FatNamesAssumption

VARIABLES
  Mounted,      \* the filesystem in each slot, by its mount point, or Empty
  Default,      \* the slot for paths without a mount point
  LogFS,        \* the slot of the log, or -1
  connection,   \* the RiiFS mounts made so far
  Long_Path,    \* the long path last sent ahead of an open, or NoPath
  opening,      \* for each client the long path it has sent ahead, or NoPath
  file,         \* the filesystem of the file that each client has open, or Empty
  lookup,       \* the lookup just made: the path asked for, that used, and where it led
  chosen        \* the filesystems that were made the default and the log's

table == <<Mounted, Default, LogFS, connection, chosen>>
clients == <<opening, file>>
vars == <<table, Long_Path, clients, lookup>>

NoLookup == [asked |-> NoPath, used |-> NoPath, fs |-> Empty, rest |-> << >>]

Init ==
  /\ Mounted = [i \in Slots |-> IF i = 0 THEN Isfs ELSE Empty]
  /\ Default = 0 /\ LogFS = -1
  /\ connection = 0
  /\ Long_Path = NoPath
  /\ opening = [c \in Clients |-> NoPath] /\ file = [c \in Clients |-> Empty]
  /\ lookup = NoLookup
  /\ chosen = [default |-> Isfs, log |-> Empty]
-----------------------------------------------------------------------------
Used == {i \in Slots : Mounted[i] # Empty}
Least(S) == CHOOSE i \in S : \A j \in S : i <= j

\* The first empty slot.
MountAs(name) ==
  /\ Used # Slots
  /\ Mounted' = [Mounted EXCEPT ![Least(Slots \ Used)] = name]

\* FatHandler::Mount; no caller mounts a device a second time.
MountFat(name) ==
  /\ \A i \in Slots : Mounted[i] # name
  /\ MountAs(name)
  /\ UNCHANGED <<Default, LogFS, connection, chosen, Long_Path, clients>>
  /\ lookup' = NoLookup

\* RiiHandler::Mount, when the handshake succeeds, numbers the mount points.
MountNet ==
  /\ connection < MaxConnections
  /\ connection' = connection + 1
  /\ MountAs(Net(connection + 1))
  /\ UNCHANGED <<Default, LogFS, chosen, Long_Path, clients>>
  /\ lookup' = NoLookup

\* Mutant: the default is not reset.
ResetKeepsDefault(i) ==
  /\ Default' = Default
  /\ LogFS' = IF LogFS = i THEN -1 ELSE LogFS

\* Mutant: the default is reset whatever is unmounted.
ResetAnyway(i) ==
  /\ Default' = 0
  /\ LogFS' = IF LogFS = i THEN -1 ELSE LogFS

\* What refers to the slot of a filesystem that is gone.
Reset(i) ==
  /\ Default' = IF Default = i THEN 0 ELSE Default
  /\ LogFS' = IF LogFS = i THEN -1 ELSE LogFS

\* Callers unmount what they have mounted.
Unmount(i) ==
  /\ i \in Used \ {0}
  /\ Mounted' = [Mounted EXCEPT ![i] = Empty]
  /\ Reset(i)
  /\ chosen' = [default |-> IF chosen.default = Mounted[i] THEN Isfs ELSE chosen.default,
                log |-> IF chosen.log = Mounted[i] THEN Empty ELSE chosen.log]
  /\ UNCHANGED <<connection, Long_Path, clients>>
  /\ lookup' = NoLookup
-----------------------------------------------------------------------------
(* FilePathDesc *)

\* Mutant: the default is asked first.
FoundDefaultFirst(path) == Default

\* The slot a path leads to: the first whose mount point begins the path.
Found(path) ==
  LET hits == {i \in Used : IsPrefix(Mounted[i], Text(path))}
  IN IF hits = {} THEN Default ELSE Least(hits)

Rest(path) ==
  IF IsPrefix(Mounted[Found(path)], Text(path))
  THEN SubSeq(Text(path), Len(Mounted[Found(path)]) + 1, Len(Text(path)))
  ELSE Text(path)

Looked(asked, used) ==
  lookup' = [asked |-> asked, used |-> used, fs |-> Mounted[Found(used)], rest |-> Rest(used)]

SetDefault(i) ==
  /\ i \in Used
  /\ Default' = i /\ chosen' = [chosen EXCEPT !.default = Mounted[i]]
  /\ UNCHANGED <<Mounted, LogFS, connection, Long_Path, clients>>
  /\ lookup' = NoLookup

\* SetDefault with a path, of a filesystem that is mounted
SetDefaultPath(path) ==
  /\ \E i \in Used : Mounted[i] = path.on
  /\ Default' = Found(path)
  /\ chosen' = [chosen EXCEPT !.default = Mounted[Found(path)]]
  /\ UNCHANGED <<Mounted, LogFS, connection, Long_Path, clients>>
  /\ Looked(path, path)

SetLogFS(i) ==
  /\ i \in Used \cup {-1}
  /\ LogFS' = i
  /\ chosen' = [chosen EXCEPT !.log = IF i = -1 THEN Empty ELSE Mounted[i]]
  /\ UNCHANGED <<Mounted, Default, connection, Long_Path, clients>>
  /\ lookup' = NoLookup

\* Mutant: the long path is forgotten by every lookup.
LookupForgets(path) ==
  /\ Looked(path, path)
  /\ Long_Path' = NoPath
  /\ UNCHANGED <<table, clients>>

\* Stat, CreateFile, Delete, CreateDir, OpenDir: the path comes in an ioctl.
Lookup(path) ==
  /\ Looked(path, path)
  /\ UNCHANGED <<table, Long_Path, clients>>

\* File_Open of a long path, first step: the ioctl Shorten
Shorten(c, path) ==
  /\ opening[c] = NoPath /\ file[c] = Empty /\ path.long
  /\ Long_Path' = path
  /\ opening' = [opening EXCEPT ![c] = path]
  /\ UNCHANGED <<table, file>>
  /\ lookup' = NoLookup

\* A rename is done by the filesystem of the source, if it is the destination's
\* too.
Rename(source, dest) ==
  /\ lookup' = IF Found(source) # Found(dest) THEN NoLookup
               ELSE [asked |-> dest, used |-> dest, fs |-> Mounted[Found(source)], rest |-> Rest(dest)]
  /\ UNCHANGED <<table, Long_Path, clients>>

\* HandleOpen: whatever was opened, the long path is forgotten.
HandleOpen(c, asked, path) ==
  /\ Looked(asked, IF path = ShortName /\ Long_Path # NoPath THEN Long_Path ELSE path)
  /\ file[c] = Empty /\ file' \in {file, [file EXCEPT ![c] = lookup'.fs]}
  /\ Long_Path' = NoPath
  /\ UNCHANGED table

\* File_Open of a path that fits
Open(c, path) ==
  /\ opening[c] = NoPath /\ ~ path.long
  /\ HandleOpen(c, path, path)
  /\ UNCHANGED opening

\* second step of File_Open of a long path
OpenShortened(c) ==
  /\ opening[c] # NoPath
  /\ HandleOpen(c, opening[c], ShortName)
  /\ opening' = [opening EXCEPT ![c] = NoPath]

\* HandleClose: the file's handler closes it.
Close(c) ==
  /\ file[c] # Empty /\ opening[c] = NoPath
  /\ file' = [file EXCEPT ![c] = Empty]
  /\ lookup' = NoLookup
  /\ UNCHANGED <<table, Long_Path, opening>>

\* The messages that a client sends.
Calls(c, path) == Shorten(c, path) \/ Open(c, path)
Proceeds(c) == OpenShortened(c) \/ Close(c)

Next ==
  \/ \E name \in FatNames : MountFat(name)
  \/ MountNet
  \/ \E i \in Slots : Unmount(i) \/ SetDefault(i)
  \/ \E i \in Slots \cup {-1} : SetLogFS(i)
  \/ \E path \in Paths : SetDefaultPath(path) \/ Lookup(path) \/ \E dest \in Paths : Rename(path, dest)
  \/ \E c \in Clients : Proceeds(c) \/ \E path \in Paths : Calls(c, path)

Spec == Init /\ [][Next]_vars
-----------------------------------------------------------------------------
TypeOK ==
  /\ Mounted \in [Slots -> Names \cup {Empty}]
  /\ Default \in Slots /\ LogFS \in Slots \cup {-1}
  /\ connection \in 0..MaxConnections
  /\ Long_Path \in Paths \cup {NoPath}
  /\ opening \in [Clients -> Paths \cup {NoPath}] /\ file \in [Clients -> Names \cup {Empty}]
  /\ lookup.asked \in Paths \cup {NoPath} /\ lookup.used \in Paths \cup {NoPath, ShortName}
  /\ chosen.default \in Names /\ chosen.log \in Names \cup {Empty}

\* A path is looked up on the filesystem it names, under the name it has there,
\* whatever has been mounted and unmounted before.
RightFilesystem ==
  (\E i \in Used : Mounted[i] = lookup.used.on) => lookup.fs = lookup.used.on /\ lookup.rest = <<"/">>

\* A file that is opened is the one that was asked for, however long its path.
OpensWhatWasAsked == lookup.used = lookup.asked

\* The variables have their types, and the default and the log never pass to
\* another filesystem that takes the slot of the one chosen.
StillChosen ==
  /\ TypeOK
  /\ Mounted[Default] = chosen.default
  /\ LogFS >= 0 => Mounted[LogFS] = chosen.log
=============================================================================
