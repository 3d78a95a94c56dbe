----------------------------- MODULE PlainFile ------------------------------
(***************************************************************************)
(* What a caller of the filesystem module expects of one file on an SD     *)
(* card: a sequence of bytes and, while it is open, a position at which    *)
(* reads and writes take place.                                            *)
(***************************************************************************)
EXTENDS Integers, Sequences

CONSTANTS
  Bytes,       \* what a byte of the file can be; those of a hole are zero
  MaxSize,     \* bound: no file and no position is larger
  Modes        \* the modes a file is opened with, sets of O_ flags

VARIABLES
  contents,    \* the bytes of the file
  opened,      \* the mode the file is open in, or Closed
  position,    \* where the next read or write takes place
  result       \* the last call: its name, its argument, what it returned

vars == <<contents, opened, position, result>>

Zero == 0
Closed == {"closed"}
Called(call, arg, ret) == [call |-> call, arg |-> arg, ret |-> ret]

Lesser(m, n) == IF m < n THEN m ELSE n
Greater(m, n) == IF m < n THEN n ELSE m

\* f with the bytes d written at p, a hole before p filled with zeros.
Overwrite(f, p, d) ==
  IF d = << >> THEN f
  ELSE [i \in 1..Greater(Len(f), p + Len(d)) |->
          IF i \in p + 1 .. p + Len(d) THEN d[i - p]
          ELSE IF i <= Len(f) THEN f[i] ELSE Zero]

\* The bytes of f from p, n of them or as many as there are.
Slice(f, p, n) == SubSeq(f, p + 1, Lesser(p + n, Len(f)))

Data == UNION {[1..n -> Bytes] : n \in 0..MaxSize}

Init == contents = << >> /\ opened = Closed /\ position = 0 /\ result = Called("none", 0, 0)

Open(mode) ==
  /\ opened = Closed
  /\ opened' = mode /\ position' = 0 /\ result' = Called("open", mode, 0)
  /\ contents' = IF "O_TRUNC" \in mode THEN << >> ELSE contents

Read(n) ==
  /\ opened # Closed
  /\ LET got == Slice(contents, position, n) IN
       /\ result' = Called("read", n, got)
       /\ position' = position + Len(got)
  /\ UNCHANGED <<contents, opened>>

ReadRefused(n) ==
  /\ "O_WRONLY" \in opened
  /\ result' = Called("read", n, << >>)
  /\ UNCHANGED <<contents, opened, position>>

Write(d) ==
  /\ opened \cap {"O_WRONLY", "O_RDWR"} # {}
  /\ contents' = Overwrite(contents, position, d)
  /\ position' = position + Len(d)
  /\ result' = Called("write", d, Len(d))
  /\ UNCHANGED opened

WriteRefused(d) ==
  /\ opened # Closed /\ opened \cap {"O_WRONLY", "O_RDWR"} = {}
  /\ result' = Called("write", d, 0)
  /\ UNCHANGED <<contents, opened, position>>

\* A seek to before the beginning of the file goes nowhere.
Seek(target, call, arg) ==
  /\ opened # Closed
  /\ position' = IF target >= 0 THEN target ELSE position
  /\ result' = Called(call, arg, position')
  /\ UNCHANGED <<contents, opened>>

Tell ==
  /\ opened # Closed
  /\ result' = Called("tell", 0, position)
  /\ UNCHANGED <<contents, opened, position>>

Sync ==
  /\ opened # Closed
  /\ result' = Called("sync", 0, 0)
  /\ UNCHANGED <<contents, opened, position>>

Close ==
  /\ opened # Closed
  /\ opened' = Closed /\ position' = 0 /\ result' = Called("close", 0, 0)
  /\ UNCHANGED contents

Next ==
  \/ Tell \/ Sync \/ Close
  \/ \E mode \in Modes : Open(mode)
  \/ \E n \in 0..MaxSize : Read(n) \/ ReadRefused(n)
  \/ \E d \in Data : Write(d) \/ WriteRefused(d)
  \/ \E off \in -MaxSize..MaxSize :
       \/ Seek(off, "seek set", off)
       \/ Seek(position + off, "seek cur", off)
       \/ Seek(Len(contents) + off, "seek end", off)

Spec == Init /\ [][Next]_vars
=============================================================================
