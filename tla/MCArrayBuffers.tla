--------------------------- MODULE MCArrayBuffers ---------------------------
(* Three cells share a buffer: two typed arrays and the watchpoint of code *)
(* compiled for one of them, say.  No cell and no storage is told apart.   *)
EXTENDS ArrayBuffers, TLC

CONSTANTS c1, c2, c3, b1, s1, s2

MCCells == {c1, c2, c3}
MCBuffers == {b1}
MCStorages == {s1, s2}
Symmetry == Permutations(MCCells) \cup Permutations(MCStorages)
=============================================================================
