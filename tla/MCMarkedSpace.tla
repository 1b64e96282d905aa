--------------------------- MODULE MCMarkedSpace ---------------------------
(* Small instances of MarkedSpace: allocators of cells with destructors,   *)
(* one of cells without, and the large allocator, whose blocks have one    *)
(* cell here and differ in size.                                           *)
EXTENDS MarkedSpace

Destructors ==
    [cellSize |-> 1, destructor |-> TRUE, cells |-> 2, requests |-> {1}, callbacks |-> {1},
     maxBlocks |-> 2]
OneBlock == [Destructors EXCEPT !.cells = 3, !.maxBlocks = 1]
Plain == [Destructors EXCEPT !.destructor = FALSE]
Large ==
    [cellSize |-> 0, destructor |-> TRUE, cells |-> 1, requests |-> {1, 2}, callbacks |-> {1},
     maxBlocks |-> 2]

MCKinds == {Destructors, OneBlock, Plain, Large}
=============================================================================
