---------------------------- MODULE MCFileTable ----------------------------
(* Instance of FileTable for TLC: a disc with a directory that holds a file,  *)
(* an empty one and a file between them, without padding and with some.       *)
EXTENDS FileTable

a == <<1>>
ab == <<1, 2>>
b == <<2>>
c == <<3>>

Of(type, name, place, size) == [Type |-> type, NameOffset |-> name, DataOffset |-> place, Size |-> size]

\* / with a/ (holding b), ab and c/
MCTables ==
  {[fst |-> [i \in 0..4 |->
               CASE i = 0 -> Of(Directory, 0, 0, 5)
                 [] i = 1 -> Of(Directory, 0, 0, 3)
                 [] i = 2 -> Of(File, 2, 0, 1)
                 [] i = 3 -> Of(File, 4, 1, 1)
                 [] i = 4 -> Of(Directory, 7, 0, 5)],
    names |-> a \o <<NUL>> \o b \o <<NUL>> \o ab \o <<NUL>> \o c \o <<NUL>> \o padding,
    shift |-> 2, node |-> None]
   : padding \in {<< >>, <<NUL, NUL, NUL, NUL, NUL, NUL>>}}

MCPaths == {<<a, b>>, <<ab>>, <<a, a>>, <<b>>, <<b, a, b>>, <<c, ab, c>>}
MCSizes == {1, 2}
=============================================================================
