---------------------------- MODULE MCFastMalloc ----------------------------
(* Two threads, two pages of four bytes and two size classes, each with    *)
(* spans of a page: an object of class 1 fills it, and it has two of       *)
(* class 2.  A large block has both pages.                                 *)
EXTENDS FastMalloc

CONSTANTS t1, t2

MCThreads == {t1, t2}
MCByteSize == <<4, 2>>
MCClassPages == <<1, 1>>
MCMove == <<1, 2>>
MCLarge == {2}
Symmetry == Permutations(MCThreads)
=============================================================================
