------------------------------ MODULE WeakSet ------------------------------
(***************************************************************************)
(* The weak handles of one MarkedBlock (heap/WeakSet, WeakBlock, WeakImpl, *)
(* Weak): the list of WeakBlocks, each an array of WeakImpls with a sweep   *)
(* result; the free list allocation takes impls from; the Weak<T> slots     *)
(* that hold an impl; and the three things the collector does to them:      *)
(* visiting, reaping and, at some later time, sweeping with finalizers.     *)
(*                                                                         *)
(* An impl is handed out with one of three owners:                         *)
(*   "none"      no WeakHandleOwner;                                       *)
(*   "cache"     an owner whose finalizer empties the slot the handle was   *)
(*               stored under (RegExpCache, through weakRemove);           *)
(*   "balanced"  an impl no Weak<T> holds, which its finalizer deallocates  *)
(*               (Heap::FinalizerOwner, JSAPIWrapperObject); such a         *)
(*               finalizer runs foreign code, which may clear any Weak<T>.  *)
(* No finalizer allocates a handle: JSObjectRef.h forbids it.               *)
(*                                                                         *)
(* The marked block itself is reduced to its cells: the objects, which of   *)
(* them Heap::isLive calls live, and a sweep that frees the others (module  *)
(* MarkedSpace has the whole of it).                                       *)
(***************************************************************************)
EXTENDS Naturals, Sequences, FiniteSets, SequencesExt

CONSTANTS
    Cells,          \* the cells of the marked block
    WeakBlocks,     \* the blocks the block allocator can supply
    ImplCount,      \* weakImplCount(): impls in a WeakBlock
    Slots,          \* the Weak<T> variables, or the keys of a weak map
    Null            \* the null pointer

ASSUME WeakSetAssumption ==
    /\ ImplCount \in Nat \ {0}
    /\ Null \notin WeakBlocks \cup Cells \cup (WeakBlocks \X Nat)

VARIABLES
    objects,        \* cells holding an object, dead or alive
    live,           \* those for which Heap::isLive holds
    impl,           \* the WeakImpls, by block and index
    blocks,         \* m_blocks
    sweepResult,    \* m_sweepResult of every block
    allocator,      \* m_allocator: the free list being consumed
    nextAllocator,  \* m_nextAllocator
    weak,           \* m_impl of every Weak<T> slot
    pc,             \* what the thread is doing
    cursor,         \* its position in a walk over the impls
    result,         \* the SweepResult local of WeakBlock::sweep
    mode            \* what follows the sweep

cellVars == <<objects, live>>
setVars == <<blocks, allocator, nextAllocator>>
walkVars == <<pc, cursor, result, mode>>
vars == <<objects, live, impl, blocks, sweepResult, allocator, nextAllocator,
          weak, pc, cursor, result, mode>>

-----------------------------------------------------------------------------
Live == 0
Dead == 1
Finalized == 2
Deallocated == 3

Impls == WeakBlocks \X (1..ImplCount)
Owners == {"none", "cache", "balanced"}

(* Nothing reads a deallocated impl but its state: the free list's link     *)
(* overwrites its value.                                                   *)
BlankImpl == [state |-> Deallocated, value |-> Null, owner |-> "none", context |-> Null]

NullResult == [blockIsFree |-> TRUE, freeList |-> <<>>]
IsNull(r) == r.blockIsFree /\ r.freeList = <<>>
IsEmptyBlock(b) == ~ IsNull(sweepResult[b]) /\ sweepResult[b].blockIsFree
IsEmptySet == \A k \in DOMAIN blocks : IsEmptyBlock(blocks[k])

(* The free list of a new block; addToFreeList pushes at the front.         *)
WholeBlock(b) == [k \in 1..ImplCount |-> <<b, ImplCount + 1 - k>>]

(* Mutant: the list being consumed is kept.                                *)
ResetNextOnly(bs) ==
    /\ UNCHANGED allocator
    /\ nextAllocator' = IF bs = <<>> THEN Null ELSE Head(bs)

(* resetAllocator.                                                         *)
ResetAllocator(bs) ==
    /\ allocator' = <<>>
    /\ nextAllocator' = IF bs = <<>> THEN Null ELSE Head(bs)

Get(s) ==
    IF weak[s] = Null \/ impl[weak[s]].state # Live THEN Null ELSE impl[weak[s]].value

Cleared(im, D) ==
    [x \in DOMAIN im |->
        IF \E s \in D : weak[s] = x THEN BlankImpl ELSE im[x]]

TypeOK ==
    /\ live \subseteq objects /\ objects \subseteq Cells
    /\ impl \in [Impls -> [state : {Live, Dead, Finalized, Deallocated},
                           value : Cells \cup {Null},
                           owner : Owners,
                           context : Slots \cup {Null}]]
    /\ blocks \in Seq(WeakBlocks) /\ IsInjective(blocks)
    /\ sweepResult \in [WeakBlocks -> [blockIsFree : BOOLEAN, freeList : Seq(Impls)]]
    /\ allocator \in Seq(Impls)
    /\ nextAllocator \in WeakBlocks \cup {Null}
    /\ weak \in [Slots -> Impls \cup {Null}]
    /\ pc \in {"mutator", "sweep", "lastChance", "gone"}
    /\ cursor \in Nat \X Nat
    /\ result \in [blockIsFree : BOOLEAN, freeList : Seq(Impls)]
    /\ mode \in [frees : BOOLEAN, shrinks : BOOLEAN, last : BOOLEAN]

Init ==
    /\ objects = {} /\ live = {}
    /\ impl = [x \in Impls |-> BlankImpl]
    /\ blocks = <<>>
    /\ sweepResult = [b \in WeakBlocks |-> NullResult]
    /\ allocator = <<>> /\ nextAllocator = Null
    /\ weak = [s \in Slots |-> Null]
    /\ pc = "mutator"
    /\ cursor = <<1, 1>>
    /\ result = NullResult
    /\ mode = [frees |-> FALSE, shrinks |-> FALSE, last |-> FALSE]

-----------------------------------------------------------------------------
(* The mutator                                                             *)

AllocateCell(c) ==
    /\ pc = "mutator"
    /\ c \notin objects
    /\ objects' = objects \cup {c}
    /\ live' = live \cup {c}
    /\ UNCHANGED <<impl, setVars, sweepResult, weak, walkVars>>

(* tryFindAllocator: the first block from m_nextAllocator on whose result   *)
(* has a free list, every result on the way being taken.                    *)
TryFindAllocator ==
    LET from == IF nextAllocator = Null THEN Len(blocks) + 1
                ELSE CHOOSE k \in DOMAIN blocks : blocks[k] = nextAllocator
        hits == {k \in from..Len(blocks) : sweepResult[blocks[k]].freeList # <<>>}
        hit == CHOOSE k \in hits : \A j \in hits : k =< j
        last == IF hits = {} THEN Len(blocks) ELSE hit
    IN  [freeList |-> IF hits = {} THEN <<>> ELSE sweepResult[blocks[hit]].freeList,
         taken |-> {blocks[k] : k \in from..last},
         next |-> IF last < Len(blocks) THEN blocks[last + 1] ELSE Null]

(* What WeakSet::allocate finds: the rest of m_allocator, a swept block's    *)
(* free list, or that of a block addAllocator appends.                      *)
FreshBlocks == WeakBlocks \ Range(blocks)

Allocation ==
    LET found == TryFindAllocator
        b == CHOOSE b \in FreshBlocks : TRUE
    IN  CASE allocator # <<>> ->
               [freeList |-> allocator, taken |-> {}, next |-> nextAllocator, added |-> <<>>]
          [] allocator = <<>> /\ found.freeList # <<>> ->
               [freeList |-> found.freeList, taken |-> found.taken, next |-> found.next,
                added |-> <<>>]
          [] allocator = <<>> /\ found.freeList = <<>> ->
               [freeList |-> WholeBlock(b), taken |-> found.taken, next |-> Null,
                added |-> <<b>>]

(* Named bound: the block allocator has WeakBlocks to give.                 *)
HasRoom == allocator # <<>> \/ FreshBlocks # {} \/ TryFindAllocator.freeList # <<>>

Allocate(c, o, s) ==
    LET a == Allocation
        x == Head(a.freeList)
        kept == IF s = Null THEN impl ELSE Cleared(impl, {s})
    IN  /\ HasRoom
        /\ allocator' = Tail(a.freeList)
        /\ nextAllocator' = a.next
        /\ blocks' = blocks \o a.added
        /\ sweepResult' = [b \in WeakBlocks |->
                              IF b \in a.taken \cup Range(a.added)
                              THEN NullResult ELSE sweepResult[b]]
        /\ impl' = [kept EXCEPT ![x] = [state |-> Live, value |-> c, owner |-> o, context |-> s]]
        /\ weak' = IF s = Null THEN weak ELSE [weak EXCEPT ![s] = x]

(* weakAdd puts a handle in a weak map only where get() finds none, though  *)
(* a zombie may still be there.                                            *)
weakAdd(s, o) == o = "cache" => Get(s) = Null

(* A Weak<T> is assigned a new handle for a live cell: the impl is          *)
(* allocated, swapped in, and the one it replaces deallocated.              *)
AssignWeak(s, c, o) ==
    /\ pc = "mutator"
    /\ c \in live
    /\ o \in {"none", "cache"}
    /\ weakAdd(s, o)
    /\ Allocate(c, o, s)
    /\ UNCHANGED <<cellVars, walkVars>>

(* Heap::addFinalizer, JSAPIWrapperObject::finishCreation                   *)
AddFinalizer(c) ==
    /\ pc = "mutator"
    /\ c \in live
    /\ Allocate(c, "balanced", Null)
    /\ UNCHANGED <<cellVars, walkVars>>

(* Weak<T>::clear                                                          *)
Clear(s) ==
    /\ pc = "mutator"
    /\ weak[s] # Null
    /\ impl' = Cleared(impl, {s})
    /\ weak' = [weak EXCEPT ![s] = Null]
    /\ UNCHANGED <<cellVars, setVars, sweepResult, walkVars>>

-----------------------------------------------------------------------------
(* A collection, with the mutator stopped                                  *)

Visited(marked, opaque) ==
    {impl[x].value : x \in {x \in Impls :
        /\ x[1] \in Range(blocks)
        /\ ~ IsEmptyBlock(x[1])
        /\ impl[x].state = Live
        /\ impl[x].value \notin marked
        /\ impl[x].owner # "none"
        /\ impl[x].value \in opaque}}

(* Mutant: handles without an owner are passed over.                       *)
ReapedOwned(isLive) ==
    [x \in Impls |->
        IF x[1] \in Range(blocks) /\ impl[x].owner # "none" /\ impl[x].value \notin isLive
        THEN [impl[x] EXCEPT !.state = Dead] ELSE impl[x]]

(* WeakBlock::reap of every block.                                         *)
Reaped(isLive) ==
    [x \in Impls |->
        IF /\ x[1] \in Range(blocks)
           /\ ~ IsEmptyBlock(x[1])
           /\ impl[x].state =< Dead
           /\ impl[x].value \notin isLive
        THEN [impl[x] EXCEPT !.state = Dead]
        ELSE impl[x]]

(* Marking reached "marked"; owners report the handles of "opaque" cells    *)
(* reachable from opaque roots; what is left unmarked is reaped.            *)
Collect(marked, opaque) ==
    /\ pc = "mutator"
    /\ marked \subseteq live
    /\ opaque \subseteq live \ marked
    /\ live' = marked \cup Visited(marked, opaque)
    /\ impl' = Reaped(live')
    /\ UNCHANGED <<objects, setVars, sweepResult, weak, walkVars>>

-----------------------------------------------------------------------------
(* MarkedBlock::sweep, lazily after a collection                           *)

NextPosition ==
    IF cursor[2] < ImplCount THEN <<cursor[1], cursor[2] + 1>> ELSE <<cursor[1] + 1, 1>>

(* WeakBlock::finalize on x, and the effect of the owner's finalizer, which *)
(* drops the slots D when it is foreign code.                              *)
Drops(x, D) ==
    CASE impl[x].owner = "none" -> {}
      [] impl[x].owner = "cache" -> {impl[x].context}
      [] impl[x].owner = "balanced" -> D

Finalize(x, D) ==
    LET cleared == Cleared([impl EXCEPT ![x].state = Finalized], Drops(x, D))
    IN  [impl |-> IF impl[x].owner = "balanced"
                  THEN [cleared EXCEPT ![x] = BlankImpl] ELSE cleared,
         weak |-> [s \in Slots |-> IF s \in Drops(x, D) THEN Null ELSE weak[s]]]

Untouched == [impl |-> impl, weak |-> weak]

(* The allocator sweeps to a free list; the sweepers sweep and shrink, and  *)
(* free cells only where there are destructors to run.                      *)
SweepModes ==
    {[frees |-> TRUE, shrinks |-> FALSE, last |-> FALSE]}
        \cup [frees : BOOLEAN, shrinks : {TRUE}, last : {FALSE}]

SweepBegins(m) ==
    /\ pc = "mutator"
    /\ pc' = "sweep"
    /\ cursor' = <<1, 1>>
    /\ result' = NullResult
    /\ mode' = m
    /\ UNCHANGED <<cellVars, impl, setVars, sweepResult, weak>>

AddToFreeList(r, x) == [r EXCEPT !.freeList = <<x>> \o @]

(* Mutant: dead impls are left for later.                                  *)
SweepTurnUnfinalized(x, D) ==
    [impl |-> impl, weak |-> weak,
     result |-> IF impl[x].state = Deallocated THEN AddToFreeList(result, x)
                ELSE [result EXCEPT !.blockIsFree = FALSE]]

(* One turn of WeakBlock::sweep's loop: an impl found deallocated joins the *)
(* free list.                                                              *)
SweepTurn(x, D) ==
    LET after == IF impl[x].state = Dead THEN Finalize(x, D) ELSE Untouched
    IN  [impl |-> after.impl,
         weak |-> after.weak,
         result |-> IF after.impl[x].state = Deallocated THEN AddToFreeList(result, x)
                    ELSE [result EXCEPT !.blockIsFree = FALSE]]

SweepImpl(D) ==
    LET b == blocks[cursor[1]]
        x == <<b, cursor[2]>>
        turn == SweepTurn(x, D)
    IN  /\ pc = "sweep"
        /\ cursor[1] =< Len(blocks)
        /\ ~ (cursor[2] = 1 /\ IsEmptyBlock(b))
        /\ D # {} => impl[x].state = Dead /\ impl[x].owner = "balanced"
        /\ impl' = turn.impl
        /\ weak' = turn.weak
        /\ IF cursor[2] = ImplCount
           THEN /\ sweepResult' = [sweepResult EXCEPT ![b] = turn.result]
                /\ result' = NullResult
           ELSE /\ result' = turn.result
                /\ UNCHANGED sweepResult
        /\ cursor' = NextPosition
        /\ UNCHANGED <<cellVars, setVars, pc, mode>>

SweepSkipsEmptyBlock ==
    /\ pc = "sweep"
    /\ cursor[1] =< Len(blocks)
    /\ cursor[2] = 1
    /\ IsEmptyBlock(blocks[cursor[1]])
    /\ cursor' = <<cursor[1] + 1, 1>>
    /\ UNCHANGED <<cellVars, impl, setVars, sweepResult, weak, pc, result, mode>>

(* What WeakSet::shrink leaves.                                            *)
Shrunk == SelectSeq(blocks, LAMBDA b : ~ IsEmptyBlock(b))

(* The objects left by the sweep of the cells.                             *)
Swept == IF mode.frees THEN live ELSE objects

(* WeakBlock::destroy: nothing is left of the blocks not in "kept".         *)
DestroyAllBut(kept) ==
    /\ blocks' = kept
    /\ impl' = [x \in Impls |-> IF x[1] \in Range(kept) THEN impl[x] ELSE BlankImpl]
    /\ sweepResult' = [b \in WeakBlocks |->
                          IF b \in Range(kept) THEN sweepResult[b] ELSE NullResult]
    /\ ResetAllocator(kept)

(* The end of WeakSet::sweep, the sweep of the cells, and freeOrShrinkBlock *)
(* when the incremental sweeper or a full sweep asked for it.               *)
SweepEnds ==
    /\ pc = "sweep"
    /\ cursor[1] > Len(blocks)
    /\ LET freed == mode.last \/ (mode.shrinks /\ live = {} /\ IsEmptySet)
           kept == IF mode.shrinks THEN Shrunk ELSE blocks
       IN  IF freed
           THEN /\ pc' = "gone"
                /\ objects' = {} /\ live' = {}
                /\ DestroyAllBut(<<>>)
           ELSE /\ pc' = "mutator"
                /\ objects' = Swept
                /\ live' = live
                /\ DestroyAllBut(kept)
    /\ cursor' = <<1, 1>>
    /\ mode' = [frees |-> FALSE, shrinks |-> FALSE, last |-> mode.last]
    /\ UNCHANGED <<weak, result>>

(* The block allocator hands the memory out again, to a new MarkedBlock.    *)
BlockReused ==
    /\ pc = "gone"
    /\ ~ mode.last
    /\ pc' = "mutator"
    /\ UNCHANGED <<cellVars, impl, setVars, sweepResult, weak, cursor, result, mode>>

-----------------------------------------------------------------------------
(* The VM is destroyed                                                     *)

LastChanceBegins ==
    /\ pc = "mutator"
    /\ pc' = "lastChance"
    /\ cursor' = <<1, 1>>
    /\ UNCHANGED <<cellVars, impl, setVars, sweepResult, weak, result, mode>>

(* One turn of WeakBlock::lastChanceToFinalize                             *)
LastChanceImpl(D) ==
    LET x == <<blocks[cursor[1]], cursor[2]>>
        after == IF impl[x].state < Finalized THEN Finalize(x, D) ELSE Untouched
    IN  /\ pc = "lastChance"
        /\ cursor[1] =< Len(blocks)
        /\ D # {} => impl[x].state < Finalized /\ impl[x].owner = "balanced"
        /\ impl' = after.impl
        /\ weak' = after.weak
        /\ cursor' = NextPosition
        /\ UNCHANGED <<cellVars, setVars, sweepResult, pc, result, mode>>

(* MarkedBlock::lastChanceToFinalize clears the marks and sweeps; then      *)
(* ~MarkedSpace frees every block.                                         *)
LastChanceEnds ==
    /\ pc = "lastChance"
    /\ cursor[1] > Len(blocks)
    /\ live' = {}
    /\ pc' = "sweep"
    /\ cursor' = <<1, 1>>
    /\ result' = NullResult
    /\ mode' = [frees |-> TRUE, shrinks |-> FALSE, last |-> TRUE]
    /\ UNCHANGED <<objects, impl, setVars, sweepResult, weak>>

Finished ==
    /\ pc = "gone" /\ mode.last
    /\ UNCHANGED vars

Next ==
    \/ \E c \in Cells : AllocateCell(c)
    \/ \E s \in Slots, c \in Cells, o \in Owners : AssignWeak(s, c, o)
    \/ \E c \in Cells : AddFinalizer(c)
    \/ \E s \in Slots : Clear(s)
    \/ \E marked, opaque \in SUBSET Cells : Collect(marked, opaque)
    \/ \E m \in SweepModes : SweepBegins(m)
    \/ \E D \in SUBSET Slots : SweepImpl(D)
    \/ SweepSkipsEmptyBlock
    \/ SweepEnds
    \/ BlockReused
    \/ LastChanceBegins
    \/ \E D \in SUBSET Slots : LastChanceImpl(D)
    \/ LastChanceEnds
    \/ Finished

Spec == Init /\ [][Next]_vars

-----------------------------------------------------------------------------
Present == {x \in Impls : x[1] \in Range(blocks)}

(* Weak<T>::get() returns the cell of an impl whose state is Live, so while *)
(* the mutator runs such a cell is live: a collection that lets a cell die  *)
(* reaps every handle to it, in whatever block, before the mutator resumes. *)
NoDeadCellSeen ==
    pc = "mutator" =>
        \A x \in Present : impl[x].state = Live => impl[x].value \in live

(* MarkedBlock::sweep sweeps the weak set before the cells: a cell is never *)
(* freed while a handle to it awaits its finalizer, which reads the cell;   *)
(* and once Heap::lastChanceToFinalize has run no finalizer is pending.     *)
FinalizedBeforeFreed ==
    \A x \in Present :
        impl[x].state < Finalized =>
            impl[x].value \in objects /\ ~ (pc = "sweep" /\ mode.last)

FreeLists ==
    FlattenSeq([k \in DOMAIN blocks |-> sweepResult[blocks[k]].freeList] \o <<allocator>>)

(* visit, reap and sweep skip a block whose sweep result says it is free,   *)
(* and allocation constructs a WeakImpl over the head of a free list. So no *)
(* handle of a skipped block is in use, however old the result; and every   *)
(* impl listed, in m_allocator or in a result a later findAllocator takes,  *)
(* is deallocated, in a block of the set, and listed once.  A Weak<T> holds *)
(* an impl no one else was given, in a block that neither shrink nor the    *)
(* freeing of the marked block has taken away; and (weakRemove's            *)
(* assertions) when the finalizer of a cached cell runs, the entry under    *)
(* its key is that very handle and not a newer object's.                    *)
HandlesCoherent ==
    /\ TypeOK
    /\ \A x \in Present : IsEmptyBlock(x[1]) => impl[x].state = Deallocated
    /\ pc = "mutator" =>
          /\ IsInjective(FreeLists)
          /\ \A x \in Range(FreeLists) : x \in Present /\ impl[x].state = Deallocated
    /\ mode.last \/
          \A s \in Slots : weak[s] # Null =>
              /\ weak[s] \in Present
              /\ impl[weak[s]].context = s
              /\ impl[weak[s]].state # Deallocated
    /\ \A x \in Present :
          impl[x].owner = "cache" /\ impl[x].state < Finalized => weak[impl[x].context] = x
=============================================================================
