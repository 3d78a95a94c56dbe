------------------------------- MODULE Launch -------------------------------
(***************************************************************************)
(* How the launcher uses the filesystem module, from its first mount to    *)
(* the game: it mounts devices and shares, registers the files of the      *)
(* chosen patches by their paths (launcher/source/riivolution.cpp), runs   *)
(* the game's loader, unmounts what no patch needs, and starts the game,   *)
(* whose disc module opens the registered paths.  When all patches are on  *)
(* one filesystem it is made the default and their paths lose their mount  *)
(* point.                                                                  *)
(*                                                                         *)
(* A path stands for all the files that patches have on its filesystem.    *)
(***************************************************************************)
EXTENDS Filesystem

VARIABLES
  phase,           \* "menu", "loader" once the patches are registered, or "game"
  MountedByUs,     \* Mounted, the launcher's vector of mounts
  UsedFilesystems, \* those of the patches that the game needs
  patches          \* the registered paths, each with the filesystem it is from

launcher == <<phase, MountedByUs, UsedFilesystems, patches>>
LaunchVars == <<vars, launcher>>

LaunchInit ==
  /\ Init
  /\ phase = "menu" /\ MountedByUs = {} /\ UsedFilesystems = {} /\ patches = {}

Resting == \A c \in Clients : opening[c] = NoPath /\ file[c] = Empty

\* Haxx_Mount, and ParseXML for the shares that an XML file names
MenuMounts ==
  /\ Used # Slots
  /\ MountNet \/ \E name \in FatNames : MountFat(name)
  /\ MountedByUs' = MountedByUs \cup {Least(Slots \ Used)}
  /\ UNCHANGED <<phase, UsedFilesystems, patches>>

\* A card that is pulled out (UpdateDevice of RawkSD, which is such a launcher too)
MenuUnmounts(i) ==
  /\ i \in MountedByUs /\ Unmount(i)
  /\ MountedByUs' = MountedByUs \ {i}
  /\ UNCHANGED <<phase, UsedFilesystems, patches>>

\* The default and the log are chosen among the mounts, and files are looked at.
MenuCalls ==
  /\ \/ \E i \in MountedByUs : SetDefault(i) \/ SetLogFS(i)
     \/ SetLogFS(-1)
     \/ \E path \in Paths : Lookup(path) \/ \E dest \in Paths : Rename(path, dest)
  /\ UNCHANGED launcher

Menu ==
  /\ phase = "menu" /\ Resting
  /\ MenuMounts \/ (\E i \in Slots : MenuUnmounts(i)) \/ MenuCalls

\* The mount point that paths need not have.
CommonFs(used) == IF Cardinality(used) = 1 THEN Mounted[Least(used)] ELSE << >>

\* Files and folders have it removed, save games and content keep theirs.
External(name, commonfs, kind) == IF kind = "file" /\ name = commonfs THEN << >> ELSE name

\* RVL_Patch of the disc: the patches' files are on any of the mounts.
RVL_Patch(used) ==
  /\ phase = "menu" /\ Resting /\ phase' = "loader"
  /\ UsedFilesystems' = used
  /\ \E long \in BOOLEAN :
       patches' = {[from |-> Mounted[i],
                    path |-> [on |-> External(Mounted[i], CommonFs(used), kind), long |-> long]]
                   : i \in used, kind \in {"file", "save"}}
  /\ IF CommonFs(used) # << >>
     THEN SetDefaultPath([on |-> CommonFs(used), long |-> FALSE])
     ELSE lookup' = NoLookup /\ UNCHANGED <<table, Long_Path, clients>>
  /\ UNCHANGED MountedByUs

\* The disc module reads patched files, for the loader and for the game.
Reads ==
  /\ phase \in {"loader", "game"}
  /\ \E c \in Clients : Proceeds(c) \/ \E patch \in patches : Calls(c, patch.path)
  /\ UNCHANGED launcher

\* The NAND emulation, a thread of its own, looks files of save games up and
\* renames them while the disc module reads.  What it opens is left out: two
\* threads that open files at once do not always get them (Long_Path).
SaveGames ==
  /\ phase = "game"
  /\ \E patch \in patches : Lookup(patch.path) \/ Rename(patch.path, patch.path)
  /\ UNCHANGED launcher

\* Mutant: the log is not looked at.
UnneededOrLog(i) == i \in MountedByUs \ UsedFilesystems

\* Mutant: a filesystem without the log is unmounted.
UnneededOrUsed(i) == i \in MountedByUs /\ LogFS # i

Unneeded(i) == i \in MountedByUs \ UsedFilesystems /\ LogFS # i

\* A turn of the loop of RVL_Unmount
RVL_Unmount(i) ==
  /\ phase = "loader" /\ Unneeded(i) /\ Unmount(i)
  /\ MountedByUs' = MountedByUs \ {i}
  /\ UNCHANGED <<phase, UsedFilesystems, patches>>

\* Launcher_Launch
Launch ==
  /\ phase = "loader" /\ \A i \in Slots : ~ Unneeded(i)
  /\ phase' = "game" /\ lookup' = NoLookup
  /\ UNCHANGED <<table, Long_Path, clients, MountedByUs, UsedFilesystems, patches>>

LaunchNext ==
  \/ Menu
  \/ \E used \in SUBSET MountedByUs : RVL_Patch(used)
  \/ \E i \in Slots : RVL_Unmount(i)
  \/ Launch \/ Reads \/ SaveGames

LaunchSpec == LaunchInit /\ [][LaunchNext]_LaunchVars
-----------------------------------------------------------------------------
\* Every registered path leads, as long as the game runs, to the filesystem that
\* its patch was chosen from, and to the same file there: whatever is unmounted,
\* whatever the default was, with and without its mount point.
PatchesReachTheirFiles ==
  \A patch \in patches :
    Mounted[Found(patch.path)] = patch.from /\ Rest(patch.path) = <<"/">>

\* The handler of an open file is not deleted: a file is read and closed through
\* a pointer to it.
OpenFilesKeepTheirHandler ==
  \A c \in Clients : file[c] # Empty => \E i \in Slots : Mounted[i] = file[c]

\* Once the patches are registered the log stays where it is.
LogStays == [][phase # "menu" => LogFS' = LogFS]_LaunchVars
=============================================================================
