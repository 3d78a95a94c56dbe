------------------------------ MODULE MCRiiFile -----------------------------
(* Instance of RiiFile for TLC: the modes of the open calls in dipmodule,    *)
(* rawksd and the launcher, and a file that is written, read and rewritten.  *)
EXTENDS RiiFile

MCBytes == {1, 2}
MCModes == {{}, {"O_RDWR"}, {"O_WRONLY"}, {"O_CREAT", "O_WRONLY"},
            {"O_CREAT", "O_TRUNC", "O_WRONLY"}}
\* for the runs that are to fail
MCReadWrite == {{"O_RDWR"}}
=============================================================================
