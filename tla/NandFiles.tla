------------------------------ MODULE NandFiles -----------------------------
(***************************************************************************)
(* What a game expects of /dev/fs, wherever its files really are: a        *)
(* request at a time is made and answered; every path has one file; what   *)
(* is read is what was written; and a file that is moved is at its old     *)
(* place until the new one has all of it.                                  *)
(***************************************************************************)
EXTENDS NandRequests

CONSTANTS
  Paths,       \* the paths of files
  Fds,         \* the descriptors of open files
  Contents     \* what a file may hold, sequences

VARIABLES
  files,       \* the file at each path, or Absent
  handles,     \* the open files by descriptor: a path and a position, or Closed
  asked,       \* the request that has not been answered, or Nothing
  cargo,       \* what the file that it moves held when it was made, or Absent
  reply        \* the last answer

vars == <<files, handles, asked, cargo, reply>>

Handle(path, pos) == [path |-> path, pos |-> pos]
Closed == Handle(Nowhere, 0)

Init ==
  /\ files \in [Paths -> Contents \cup {Absent}]
  /\ handles = [fd \in Fds |-> Closed]
  /\ asked = Nothing /\ cargo = Absent /\ reply = OK

Ask(request) ==
  /\ asked = Nothing
  /\ asked' = request
  /\ cargo' = IF request.op = "move" THEN files[request.path] ELSE Absent
  /\ reply' = OK
  /\ UNCHANGED <<files, handles>>

Answer(ret) == asked' = Nothing /\ cargo' = Absent /\ reply' = ret

\* A request may be refused, and has then done nothing.
Refuse ==
  /\ asked # Nothing /\ asked.op # "move"
  /\ \E ret \in Refusals : Answer(ret)
  /\ UNCHANGED <<files, handles>>

Open ==
  /\ asked.op = "open" /\ files[asked.path] # Absent
  /\ \E fd \in Fds :
       /\ handles[fd] = Closed
       /\ handles' = [handles EXCEPT ![fd] = Handle(asked.path, 0)]
       /\ Answer(Reply("OK", fd, << >>))
  /\ UNCHANGED files

Here == handles[asked.fd]

Read ==
  /\ asked.op = "read"
  /\ LET got == Slice(files[Here.path], Here.pos, asked.arg[1]) IN
       /\ handles' = [handles EXCEPT ![asked.fd].pos = @ + Len(got)]
       /\ Answer(Reply("OK", Len(got), got))
  /\ UNCHANGED files

\* The answer says how much was written; the position is behind that.
Write ==
  /\ asked.op = "write"
  /\ \E n \in 0..Len(asked.arg) :
       /\ files' = [files EXCEPT ![Here.path] = Overwrite(@, Here.pos, SubSeq(asked.arg, 1, n))]
       /\ handles' = [handles EXCEPT ![asked.fd].pos = @ + n]
       /\ Answer(Reply("OK", n, << >>))

Rewind ==
  /\ asked.op = "rewind"
  /\ handles' = [handles EXCEPT ![asked.fd].pos = 0]
  /\ Answer(OK)
  /\ UNCHANGED files

\* GetFileStats
Stats ==
  /\ asked.op = "stats"
  /\ Answer(Reply("OK", Here.pos, <<Len(files[Here.path])>>))
  /\ UNCHANGED <<files, handles>>

Close ==
  /\ asked.op = "close"
  /\ handles' = [handles EXCEPT ![asked.fd] = Closed]
  /\ Answer(OK)
  /\ UNCHANGED files

\* A file that is there already is left as it is.
Create ==
  /\ asked.op = "create"
  /\ files' = [files EXCEPT ![asked.path] = IF @ = Absent THEN << >> ELSE @]
  /\ Answer(OK)
  /\ UNCHANGED handles

Delete ==
  /\ asked.op = "delete"
  /\ files' = [files EXCEPT ![asked.path] = Absent]
  /\ Answer(OK)
  /\ UNCHANGED handles

\* While a file is moved its new place may hold anything.
Copying ==
  /\ asked.op = "move" /\ files[asked.path] = cargo
  /\ \E content \in Contents : files' = [files EXCEPT ![asked.path2] = content]
  /\ UNCHANGED <<handles, asked, cargo, reply>>

\* The old place is given up when the new one holds all of the file.
Uncopy ==
  /\ asked.op = "move" /\ files[asked.path2] = cargo
  /\ files' = [files EXCEPT ![asked.path] = Absent]
  /\ UNCHANGED <<handles, asked, cargo, reply>>

\* A move that succeeds may leave the file at its old place too.
Moved ==
  /\ asked.op = "move" /\ cargo # Absent
  /\ \/ files[asked.path2] = cargo /\ UNCHANGED files
     \/ files' = [files EXCEPT ![asked.path] = Absent, ![asked.path2] = cargo]
  /\ Answer(OK)
  /\ UNCHANGED handles

NotMoved ==
  /\ asked.op = "move" /\ files[asked.path] = cargo
  /\ \E ret \in Refusals : Answer(ret)
  /\ UNCHANGED <<files, handles>>

\* The power goes: what was open, or was being moved to from a place that still
\* holds it, is not to be relied on.
InFlux(path) ==
  \/ \E fd \in Fds : handles[fd].path = path
  \/ asked.op = "move" /\ path = asked.path2 /\ files[asked.path] = cargo

PowerCut ==
  /\ handles' = [fd \in Fds |-> Closed]
  /\ asked' = Nothing /\ cargo' = Absent /\ reply' = OK
  /\ \A path \in Paths : ~ InFlux(path) => files'[path] = files[path]

Next ==
  \/ asked' # Nothing /\ Ask(asked')
  \/ Refuse \/ Open \/ Read \/ Write \/ Rewind \/ Stats \/ Close \/ Create \/ Delete
  \/ Copying \/ Uncopy \/ Moved \/ NotMoved
  \/ PowerCut

Spec == Init /\ [][Next]_vars
=============================================================================
