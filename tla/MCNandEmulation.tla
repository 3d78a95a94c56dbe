--------------------------- MODULE MCNandEmulation ---------------------------
(* Instance of NandEmulation for TLC: a file of the NAND, and one plain and   *)
(* one .vff file that are redirected.                                         *)
EXTENDS NandEmulation

MCPaths == {"n", "r", "v"}
MCRedirected == {"r", "v"}
MCVff == {"v"}
MCMayFail == {"r"}
MCUnits == {1, 2}
MCWritten == {<<1>>, <<1, 1>>}
MCFirstFiles == {Absent, <<2, 2>>}
MCHidden == <<1, 2>>
==============================================================================
