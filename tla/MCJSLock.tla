------------------------------ MODULE MCJSLock ------------------------------
(* JSLock with three interchangeable threads.                              *)
EXTENDS JSLock, TLC

ThreadSymmetry == Permutations(Threads)
=============================================================================
