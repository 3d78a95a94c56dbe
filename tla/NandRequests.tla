---------------------------- MODULE NandRequests ----------------------------
(***************************************************************************)
(* The requests made of /dev/fs, their answers, and files as sequences.    *)
(***************************************************************************)
EXTENDS Integers, Sequences

\* No file; files are sequences of units, which are numbers from 0.
Absent == << -1 >>
Nowhere == "nowhere"
NoFd == -1

\* arg is what is written or how much is read.
Request(op, path, path2, fd, arg) == [op |-> op, path |-> path, path2 |-> path2, fd |-> fd, arg |-> arg]
Nothing == Request("nothing", Nowhere, Nowhere, NoFd, << >>)

\* value is a descriptor, a position or a length.
Reply(code, value, data) == [code |-> code, value |-> value, data |-> data]
Code(code) == Reply(code, 0, << >>)
OK == Code("OK")
FileNotFound == Code("FileNotFound")
IOError == Code("IOError")
InvalidArgument == Code("InvalidArgument")
Refusals == {FileNotFound, IOError, InvalidArgument}

\* n units of f from pos, or as many as there are; and f with d there instead.
Slice(f, pos, n) == SubSeq(f, pos + 1, IF pos + n < Len(f) THEN pos + n ELSE Len(f))
Overwrite(f, pos, d) == SubSeq(f, 1, pos) \o d \o SubSeq(f, pos + Len(d) + 1, Len(f))
=============================================================================
