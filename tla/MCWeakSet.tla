----------------------------- MODULE MCWeakSet -----------------------------
(* Instances of WeakSet for TLC: cells and slots are interchangeable.       *)
EXTENDS WeakSet, TLC

Symmetry == Permutations(Cells) \cup Permutations(Slots)
=============================================================================
