-------------------------- MODULE MCBlockAllocator --------------------------
(***************************************************************************)
(* The block allocator with regions of one block (those of marked and      *)
(* copied blocks) and of several (those of 4 KB blocks), and two threads.  *)
(***************************************************************************)
EXTENDS BlockAllocator

CONSTANTS marked, fourKB, main, gc

MCTotalBlocks == [s \in {marked, fourKB} |-> IF s = marked THEN 1 ELSE 2]
=============================================================================
