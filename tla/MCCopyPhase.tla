---------------------------- MODULE MCCopyPhase ----------------------------
(* CopyPhase with two objects, one GC thread besides the main thread, and  *)
(* blocks that two of the smallest stores fill.  A block is evacuated with *)
(* one store in it, and pinned with two.                                   *)
EXTENDS CopyPhase
=============================================================================
