---------------------------- MODULE MarkedSpace ----------------------------
(***************************************************************************)
(* The space of garbage-collected cells: heap/MarkedBlock.h and .cpp,      *)
(* MarkedAllocator.h and .cpp, MarkedSpace.cpp, IncrementalSweeper.cpp and *)
(* the parts of Heap::collect that work on blocks, for one allocator (the  *)
(* others share nothing with it but the set of blocks and the sweeper).    *)
(*                                                                         *)
(* Which cells of a block are live is recorded in three ways, depending on *)
(* the state of the block: by the free list it is being allocated from, by *)
(* mark bits, or by a bitmap of newly allocated cells.  Sweeping may queue *)
(* Objective-C objects for release; they are released when the             *)
(* DelayedReleaseScope ends, which drops the API lock and runs arbitrary   *)
(* code.  That code (of this or another thread) is a frame on top of the   *)
(* interrupted operation.                                                  *)
(***************************************************************************)
EXTENDS Naturals, Sequences, FiniteSets, FiniteSetsExt, SequencesExt

CONSTANTS
    Blocks,            \* block addresses, reused when deallocated
    Null,
    Kinds,             \* the allocators considered, see KindType
    CallbackDepth,     \* nesting of code run when a DelayedReleaseScope ends;
                       \* 0 where there is no CoreFoundation
    Asserts            \* whether tryAllocate's ASSERT(!isBusy()) is compiled in

(* An allocator: m_cellSize (0 for the large allocator), m_destructorType # *)
(* None, the cells of one of its blocks, the sizes asked of it, those that *)
(* code run at the end of a scope asks for and, a bound, the blocks it may *)
(* have.                                                                   *)
KindType ==
    [cellSize : Nat, destructor : BOOLEAN, cells : Nat \ {0}, requests : SUBSET (Nat \ {0}),
     callbacks : SUBSET (Nat \ {0}), maxBlocks : Nat]

ASSUME MarkedSpaceAssumption ==
    /\ \A k \in Kinds :
          /\ k \in KindType /\ k.maxBlocks <= Cardinality(Blocks)
          /\ k.cellSize # 0 => \A n \in k.requests : n <= k.cellSize
          /\ k.callbacks \subseteq k.requests
    /\ Asserts \in BOOLEAN /\ CallbackDepth \in Nat
    /\ Null \notin Blocks

VARIABLES
    block,             \* of each address: a record of the fields of the MarkedBlock there
    blockList,         \* m_blockList, and as a set m_blocks
    freeList, currentBlock, lastActiveBlock, blocksToSweep,   \* of the allocator
    sweepQueue,        \* the sweeper's m_blocksToSweep from its index on
    timerArmed,        \* the sweeper's timer is scheduled
    isIterating,
    reachable,         \* cells <<b, c>> of objects the program still uses
    operationInProgress,
    stack,             \* the current operation, on top of those it interrupts
    finalized,         \* lastChanceToFinalize has run
    kind               \* the allocator

allocatorVars == <<freeList, currentBlock, lastActiveBlock, blocksToSweep>>
sweeperVars == <<sweepQueue, timerArmed>>
vars == <<block, blockList, allocatorVars, sweeperVars, isIterating, reachable,
          operationInProgress, stack, finalized, kind>>

FixedCellSize == kind.cellSize
HasDestructor == kind.destructor
NumCells == kind.cells
Cells == 1 .. NumCells
InUse == ToSet(blockList)

(* content: what the first word of a cell says.                            *)
(*   object: a constructed object     zapped: the word is 0                *)
(*   link: a FreeCell with a next     corrupt: a link was destroyed        *)
(* need: the bytes asked for the object, 0 if the cell holds none.         *)
BlockType ==
    [state : {"New", "FreeListed", "Allocated", "Marked"},
     marks : SUBSET Cells, newly : SUBSET Cells \cup {Null}, size : Nat,
     content : [Cells -> {"object", "zapped", "link", "corrupt"}], need : [Cells -> Nat]]

(* MarkedBlock::MarkedBlock; the memory may hold anything.                 *)
NewBlock(bytes) ==
    [state |-> "New", marks |-> {}, newly |-> Null, size |-> bytes,
     content |-> [c \in Cells |-> "zapped"], need |-> [c \in Cells |-> 0]]

Init ==
    /\ kind \in Kinds
    /\ block = [b \in Blocks |-> NewBlock(0)]
    /\ blockList = <<>>
    /\ freeList = {}
    /\ currentBlock = Null /\ lastActiveBlock = Null /\ blocksToSweep = Null
    /\ sweepQueue = <<>> /\ timerArmed = FALSE
    /\ isIterating = FALSE
    /\ reachable = {}
    /\ operationInProgress = "NoOperation"
    /\ stack = <<>>
    /\ finalized = FALSE
-----------------------------------------------------------------------------
(* What the functions of MarkedBlock do to a block k.                      *)
NewlyAllocated(k) == IF k.newly = Null THEN {} ELSE k.newly
(* Cells of a Marked block that sweeping frees.                            *)
Dead(k) == Cells \ (k.marks \cup NewlyAllocated(k))
(* MarkedBlock::isLive, for a block it is defined for.                     *)
IsLive(k, c) == k.state = "Allocated" \/ c \notin Dead(k)

(* callDestructor on the cells F, which zaps them.                         *)
CallDestructors(k, F) ==
    IF ~ HasDestructor \/ k.state = "New" THEN k
    ELSE [k EXCEPT !.content = [c \in Cells |->
                                  IF c \notin F THEN @[c]
                                  ELSE IF @[c] = "link" THEN "corrupt" ELSE "zapped"],
                   !.need = [c \in Cells |-> IF c \in F THEN 0 ELSE @[c]]]

(* sweep(SweepToFreeList) of a block that is not Allocated returns the     *)
(* free list Freed(k), threaded from the lowest cell on: that one is the   *)
(* last and holds a null link.                                             *)
Freed(k) == CASE k.state = "New" -> Cells [] k.state = "Marked" -> Dead(k) [] OTHER -> {}
SweptToFreeList(k) ==
    IF k.state = "FreeListed" THEN k
    ELSE LET F == Freed(k)
             d == CallDestructors(k, F)
         IN  [d EXCEPT !.state = "FreeListed", !.newly = Null,
                       !.content = [c \in Cells |->
                                      IF c \notin F \/ @[c] = "corrupt" THEN @[c]
                                      ELSE IF c = Min(F) THEN "zapped" ELSE "link"],
                       !.need = [c \in Cells |-> IF c \in F THEN 0 ELSE @[c]]]

(* sweep(SweepOnly).                                                       *)
SweptOnly(k) ==
    IF ~ HasDestructor THEN k ELSE [CallDestructors(k, Dead(k)) EXCEPT !.state = "Marked"]

(* Mutant: nothing records which cells were allocated.                     *)
StoppedUnrecorded(k, F) ==
    IF k.state = "Marked" THEN k
    ELSE [k EXCEPT !.state = "Marked",
                   !.content = [c \in Cells |-> IF c \in F THEN "zapped" ELSE @[c]]]
(* Mutant: the rest of the free list is not zapped.                        *)
StoppedUnzapped(k, F) ==
    IF k.state = "Marked" THEN k ELSE [k EXCEPT !.state = "Marked", !.newly = Cells \ F]

(* stopAllocating(F): what is left of the free list is zapped, the other   *)
(* cells are newly allocated.                                              *)
Stopped(k, F) ==
    IF k.state = "Marked" THEN k
    ELSE [k EXCEPT !.state = "Marked", !.newly = Cells \ F,
                   !.content = [c \in Cells |-> IF c \in F THEN "zapped" ELSE @[c]]]

(* MarkedBlock::isEmpty; weak handles are not part of this module.         *)
IsEmpty(k) == k.marks = {} /\ NewlyAllocated(k) = {}
-----------------------------------------------------------------------------
(* Frames.  An allocation in allocateSlowCase is on its attempt-th call of *)
(* tryAllocate; a scope is the end of any other DelayedReleaseScope.       *)
Allocation(bytes, attempt, pc) == [op |-> "allocate", bytes |-> bytes, attempt |-> attempt, pc |-> pc]
Scope(resuming) == [op |-> "scope", pc |-> "released", resuming |-> resuming]
Iteration == [op |-> "iterate", pc |-> "iterate"]
Top == Last(stack)
At(op, pc) == stack # <<>> /\ Top.op = op /\ Top.pc = pc
Becomes(frame) == stack' = Append(Front(stack), frame)

(* The objects queued in a scope are released in these states, with the    *)
(* API lock dropped: any code may run.                                     *)
InCallback == Top.pc \in {"released", "again", "failed", "added"}
Runs ==
    /\ ~ finalized
    /\ stack # <<>> => InCallback /\ Len(stack) <= CallbackDepth
Allocates(bytes) == Runs /\ (stack # <<>> => bytes \in kind.callbacks)

NextBlock(b) ==
    LET i == CHOOSE j \in DOMAIN blockList : blockList[j] = b
    IN  IF i < Len(blockList) THEN blockList[i + 1] ELSE Null

(* An object of the given size in the first cell of the free list.         *)
TakeHead(bytes) ==
    LET c == Max(freeList)
    IN  /\ freeList' = freeList \ {c}
        /\ block' = [block EXCEPT ![currentBlock].content[c] = "object",
                                  ![currentBlock].need[c] = bytes]
        /\ reachable' = reachable \cup {<<currentBlock, c>>}

(* MarkedAllocator::allocate, the fast path.                               *)
Allocate(bytes) ==
    /\ Allocates(bytes) /\ freeList # {}
    /\ TakeHead(bytes)
    /\ UNCHANGED <<blockList, currentBlock, lastActiveBlock, blocksToSweep, sweeperVars,
                   isIterating, operationInProgress, stack, finalized, kind>>

(* allocateSlowCase, up to its first tryAllocate, where an ASSERT stops a  *)
(* debug build if another one is in progress.  Bound: there is an address  *)
(* for every block the allocations under way may need.                     *)
AllocateSlowCase(bytes) ==
    /\ Allocates(bytes) /\ freeList = {}
    /\ kind.maxBlocks
          > Cardinality(InUse) + Cardinality({i \in DOMAIN stack : stack[i].op = "allocate"})
    /\ Asserts => operationInProgress = "NoOperation"
    /\ stack' = Append(stack, Allocation(bytes, 1, "loop"))
    /\ operationInProgress' = "Allocation"
    /\ UNCHANGED <<block, blockList, allocatorVars, sweeperVars, isIterating, reachable,
                   finalized, kind>>

(* tryAllocateHelper finds the free list not empty, and all return.        *)
TakeFromFreeList ==
    /\ At("allocate", "loop") /\ freeList # {}
    /\ TakeHead(Top.bytes)
    /\ operationInProgress' = "NoOperation"
    /\ stack' = Front(stack)
    /\ UNCHANGED <<blockList, currentBlock, lastActiveBlock, blocksToSweep, sweeperVars,
                   isIterating, finalized, kind>>

(* The sweep loop of tryAllocateHelper leaves a block k behind: it has no  *)
(* free cell (didConsumeEmptyFreeList), or none that is large enough.      *)
PassedOver(k) ==
    IF Freed(k) = {} THEN [SweptToFreeList(k) EXCEPT !.state = "Marked"]
    ELSE Stopped(SweptToFreeList(k), Freed(k))

(* Large enough, and with a free cell.                                     *)
Suits(k, bytes) == Freed(k) # {} /\ bytes <= k.size

(* One round of tryAllocateHelper's loop, up to the end of its scope.  It  *)
(* sweeps no block that is Allocated (RELEASE_ASSERT_NOT_REACHED).         *)
TryAllocateHelper ==
    /\ At("allocate", "loop") /\ freeList = {}
    /\ LET consumed == IF currentBlock = Null THEN block
                       ELSE [block EXCEPT ![currentBlock].state = "Allocated"]
           from == IF currentBlock = Null THEN blocksToSweep ELSE NextBlock(currentBlock)
           ahead == IF from = Null THEN {}
                    ELSE {i \in DOMAIN blockList : \E j \in 1 .. i : blockList[j] = from}
           hits == {i \in ahead : Suits(consumed[blockList[i]], Top.bytes)}
           found == IF hits = {} THEN Null ELSE blockList[Min(hits)]
           passed == {blockList[i] : i \in {j \in ahead : \A h \in hits : j < h}}
       IN  /\ \A b \in passed \cup {found} : b # Null => consumed[b].state # "Allocated"
           /\ block' = [b \in Blocks |-> IF b = found THEN SweptToFreeList(consumed[b])
                                         ELSE IF b \in passed THEN PassedOver(consumed[b])
                                         ELSE consumed[b]]
           /\ freeList' = IF found = Null THEN {} ELSE Freed(consumed[found])
           /\ currentBlock' = found /\ blocksToSweep' = found
           /\ Becomes([Top EXCEPT !.pc = IF found = Null THEN "failed" ELSE "again"])
    /\ UNCHANGED <<blockList, lastActiveBlock, sweeperVars, isIterating, reachable,
                   operationInProgress, finalized, kind>>

(* The scope has ended, and the loop looks at the free list again.         *)
LoopAgain ==
    /\ stack # <<>> /\ Top.op = "allocate" /\ Top.pc \in {"again", "added"}
    /\ Becomes([Top EXCEPT !.pc = "loop"])
    /\ operationInProgress' = IF Top.pc = "added" THEN "Allocation" ELSE operationInProgress
    /\ UNCHANGED <<block, blockList, allocatorVars, sweeperVars, isIterating, reachable,
                   finalized, kind>>

(* The scope of a failed round has ended; tryAllocate returns 0.           *)
TryAllocateReturns ==
    /\ At("allocate", "failed")
    /\ Becomes([Top EXCEPT !.pc = "missed"])
    /\ operationInProgress' = "NoOperation"
    /\ UNCHANGED <<block, blockList, allocatorVars, sweeperVars, isIterating, reachable,
                   finalized, kind>>

(* allocateBlock and addBlock, up to the end of addBlock's scope.          *)
AddBlock ==
    /\ At("allocate", "missed") /\ Top.attempt < 3
    /\ LET b == CHOOSE x \in Blocks : x \notin InUse
           k == NewBlock(IF FixedCellSize = 0 THEN Top.bytes ELSE FixedCellSize)
       IN  /\ blockList' = Append(blockList, b)
           /\ block' = [block EXCEPT ![b] = SweptToFreeList(k)]
           /\ freeList' = Freed(k)
           /\ currentBlock' = b /\ blocksToSweep' = b
    /\ Becomes(Allocation(Top.bytes, 3, "added"))
    /\ UNCHANGED <<lastActiveBlock, sweeperVars, isIterating, reachable, operationInProgress,
                   finalized, kind>>

(* The third tryAllocate fails too, and allocateSlowCase returns 0.        *)
ReturnNull ==
    /\ At("allocate", "missed") /\ Top.attempt = 3
    /\ stack' = Front(stack)
    /\ UNCHANGED <<block, blockList, allocatorVars, sweeperVars, isIterating, reachable,
                   operationInProgress, finalized, kind>>

(* The program lets go of an object.                                       *)
Drop(x) ==
    /\ Runs /\ x \in reachable
    /\ reachable' = reachable \ {x}
    /\ UNCHANGED <<block, blockList, allocatorVars, sweeperVars, isIterating,
                   operationInProgress, stack, finalized, kind>>
-----------------------------------------------------------------------------
(* MarkedSpace::stopAllocating.                                            *)
StopAllocating ==
    IF currentBlock = Null THEN block
    ELSE [block EXCEPT ![currentBlock] = Stopped(@, freeList)]

(* MarkedSpace::clearNewlyAllocated looks at all blocks of the large       *)
(* allocator, elsewhere at the last active one only.                       *)
ClearsNewlyAllocated(b) ==
    FixedCellSize = 0 \/ b = (IF currentBlock = Null THEN lastActiveBlock ELSE currentBlock)

(* markRoots clears all mark bits and marks the cells m, which are the     *)
(* reachable ones and those that a word on the stack happens to point at.  *)
MarkRoots(f, m) ==
    [b \in Blocks |->
        IF b \notin InUse THEN f[b]
        ELSE [f[b] EXCEPT !.state = "Marked", !.marks = {c \in Cells : <<b, c>> \in m},
                          !.newly = IF ClearsNewlyAllocated(b) THEN Null ELSE @]]

(* Mutant: the sweeper gets the snapshot taken before the eager sweep.     *)
QueueOfSnapshot(sweepToggle) == blockList

(* The sweeper's queue after a collection: m_blocksToSweep is a reference  *)
(* to m_blockSnapshot, which an eager sweep (willFinishSweeping) clears.   *)
QueueAfter(sweepToggle) == IF sweepToggle = "DoSweep" THEN <<>> ELSE blockList

(* Heap::collect.                                                          *)
Collect(sweepToggle) ==
    /\ operationInProgress = "NoOperation"
    /\ LET stopped == StopAllocating
           live == {x \in InUse \X Cells : /\ stopped[x[1]].state \in {"Marked", "Allocated"}
                                           /\ IsLive(stopped[x[1]], x[2])}
       IN  \E held \in SUBSET (live \ reachable) :
             LET marked == MarkRoots(stopped, reachable \cup held)
                 after == IF sweepToggle = "DoSweep"
                          THEN [b \in Blocks |-> IF b \in InUse THEN SweptOnly(marked[b])
                                                 ELSE marked[b]]
                          ELSE marked
                 gone == IF sweepToggle = "DoSweep" THEN {b \in InUse : IsEmpty(after[b])} ELSE {}
             IN  /\ block' = [b \in Blocks |-> IF b \in gone THEN NewBlock(0) ELSE after[b]]
                 /\ blockList' = SelectSeq(blockList, LAMBDA b : b \notin gone)
                 /\ blocksToSweep' = IF InUse \subseteq gone THEN Null
                                     ELSE Head(SelectSeq(blockList, LAMBDA b : b \notin gone))
    /\ freeList' = {} /\ currentBlock' = Null /\ lastActiveBlock' = Null
    /\ sweepQueue' = QueueAfter(sweepToggle) /\ timerArmed' = TRUE
    /\ UNCHANGED <<isIterating, reachable, finalized, kind>>

(* Heap::collectAllGarbage, from the API or the activity callback.         *)
CollectAllGarbage ==
    /\ Runs
    /\ Collect("DoSweep")
    /\ stack' = Append(stack, Scope(FALSE))
    /\ UNCHANGED operationInProgress

(* collectIfNecessaryOrDefer, from other allocations.                      *)
CollectIfNecessary ==
    /\ Runs
    /\ Collect("DoNotSweep")
    /\ UNCHANGED <<operationInProgress, stack>>

(* collectIfNecessaryOrDefer in allocateSlowCase, and its second           *)
(* tryAllocate.                                                            *)
CollectAndRetry ==
    /\ At("allocate", "missed") /\ Top.attempt = 1
    /\ operationInProgress' = "Allocation"
    /\ Becomes(Allocation(Top.bytes, 2, "loop"))
    /\ Collect("DoNotSweep")
-----------------------------------------------------------------------------
(* IncrementalSweeper::doWork sweeps one block per time slice (a longer    *)
(* slice is several of these in a row) and frees it if it is empty.        *)
DoSweep ==
    /\ Runs /\ timerArmed
    /\ LET due == {i \in DOMAIN sweepQueue : block[sweepQueue[i]].state = "Marked"}
       IN  IF due = {}
           THEN /\ sweepQueue' = <<>> /\ timerArmed' = FALSE
                /\ UNCHANGED <<block, blockList, allocatorVars>>
           ELSE LET b == sweepQueue[Min(due)]
                    k == SweptOnly(block[b])
                    After(p) == IF p = b THEN NextBlock(b) ELSE p
                IN  /\ sweepQueue' = SubSeq(sweepQueue, Min(due) + 1, Len(sweepQueue))
                    /\ IF IsEmpty(k)
                       THEN /\ block' = [block EXCEPT ![b] = NewBlock(0)]
                            /\ blockList' = SelectSeq(blockList, LAMBDA x : x # b)
                            /\ currentBlock' = After(currentBlock)
                            /\ blocksToSweep' = After(blocksToSweep)
                            /\ freeList' = IF currentBlock = b THEN {} ELSE freeList
                       ELSE /\ block' = [block EXCEPT ![b] = k]
                            /\ UNCHANGED <<blockList, currentBlock, blocksToSweep, freeList>>
                    /\ UNCHANGED <<lastActiveBlock, timerArmed>>
    /\ stack' = Append(stack, Scope(FALSE))
    /\ UNCHANGED <<isIterating, reachable, operationInProgress, finalized, kind>>

(* MarkedSpace::willStartIterating; live cells are looked at until ...     *)
WillStartIterating ==
    /\ Runs
    /\ block' = StopAllocating
    /\ lastActiveBlock' = IF currentBlock = Null THEN lastActiveBlock ELSE currentBlock
    /\ currentBlock' = Null
    /\ freeList' = {}
    /\ isIterating' = TRUE
    /\ stack' = Append(stack, Iteration)
    /\ UNCHANGED <<blockList, blocksToSweep, sweeperVars, reachable, operationInProgress,
                   finalized, kind>>

(* ... didFinishIterating: resumeAllocating makes the free list again.     *)
DidFinishIterating ==
    /\ At("iterate", "iterate")
    /\ IF lastActiveBlock = Null
       THEN UNCHANGED <<block, freeList, currentBlock, lastActiveBlock>>
       ELSE LET k == block[lastActiveBlock]
            IN  /\ IF k.newly = Null
                   THEN freeList' = {} /\ UNCHANGED block
                   ELSE /\ freeList' = Freed(k)
                        /\ block' = [block EXCEPT ![lastActiveBlock] = SweptToFreeList(k)]
                /\ currentBlock' = lastActiveBlock
                /\ lastActiveBlock' = Null
    /\ Becomes(Scope(TRUE))
    /\ UNCHANGED <<blockList, blocksToSweep, sweeperVars, isIterating, reachable,
                   operationInProgress, finalized, kind>>

(* The end of a scope outside allocateSlowCase.                            *)
ScopeEnds ==
    /\ At("scope", "released")
    /\ stack' = Front(stack)
    /\ isIterating' = (isIterating /\ ~ Top.resuming)
    /\ UNCHANGED <<block, blockList, allocatorVars, sweeperVars, reachable,
                   operationInProgress, finalized, kind>>

(* MarkedSpace::lastChanceToFinalize, when the VM is destroyed.            *)
LastChanceToFinalize ==
    /\ stack = <<>> /\ ~ finalized
    /\ LET stopped == StopAllocating
       IN  block' = [b \in Blocks |->
                        IF b \in InUse
                        THEN SweptOnly([stopped[b] EXCEPT !.state = "Marked", !.marks = {}, !.newly = Null])
                        ELSE stopped[b]]
    /\ lastActiveBlock' = IF currentBlock = Null THEN lastActiveBlock ELSE currentBlock
    /\ currentBlock' = Null
    /\ freeList' = {}
    /\ reachable' = {}
    /\ finalized' = TRUE
    /\ UNCHANGED <<blockList, blocksToSweep, sweeperVars, isIterating, operationInProgress, stack, kind>>

Finished == finalized /\ UNCHANGED vars

Next ==
    \/ \E n \in kind.requests : Allocate(n) \/ AllocateSlowCase(n)
    \/ TakeFromFreeList \/ TryAllocateHelper \/ LoopAgain \/ TryAllocateReturns
    \/ AddBlock \/ ReturnNull
    \/ \E x \in reachable : Drop(x)
    \/ CollectAllGarbage \/ CollectIfNecessary \/ CollectAndRetry
    \/ DoSweep \/ WillStartIterating \/ DidFinishIterating \/ ScopeEnds
    \/ LastChanceToFinalize \/ Finished

Spec == Init /\ [][Next]_vars
-----------------------------------------------------------------------------
TypeOK ==
    /\ block \in [Blocks -> BlockType]
    /\ blockList \in Seq(Blocks) /\ sweepQueue \in Seq(Blocks)
    /\ freeList \subseteq Cells
    /\ {currentBlock, lastActiveBlock, blocksToSweep} \subseteq Blocks \cup {Null}
    /\ {timerArmed, isIterating, finalized} \subseteq BOOLEAN
    /\ reachable \subseteq Blocks \X Cells
    /\ operationInProgress \in {"NoOperation", "Allocation"}
    /\ kind \in Kinds

(* An object the program uses lies in a cell that is large enough for it,  *)
(* and is never destroyed, reused or unmapped, whatever allocation,        *)
(* iteration, collection and sweeping do in between.  Whenever a block is  *)
(* Marked or Allocated, so that iteration and the conservative scan may    *)
(* ask isLive, the answer is right: a used object is live, and a live cell *)
(* holds an object, not a remnant.                                         *)
ReachableIntact ==
    /\ \A x \in reachable :
          /\ x[1] \in InUse
          /\ block[x[1]].content[x[2]] = "object"
          /\ block[x[1]].need[x[2]] <= block[x[1]].size
    /\ \A b \in InUse, c \in Cells :
          LET k == block[b]
          IN  k.state \in {"Marked", "Allocated"} /\ ~ finalized =>
                /\ <<b, c>> \in reachable => IsLive(k, c)
                /\ IsLive(k, c) => k.content[c] = "object"

(* Destructors run on objects only, never on a link of a free list; and    *)
(* when the VM is gone, every object that needs one has had its destructor *)
(* run.                                                                    *)
DestructorsRight ==
    /\ \A b \in Blocks, c \in Cells : block[b].content[c] # "corrupt"
    /\ finalized /\ HasDestructor =>
         \A b \in InUse, c \in Cells : block[b].content[c] = "zapped"

(* Only the block being allocated from is in a state isLive and clearMarks *)
(* cannot deal with (RELEASE_ASSERT_NOT_REACHED), and its free list is     *)
(* exactly the cells without an object; the sweeper's queue names no block *)
(* that was deallocated; and the bitmap of newly allocated cells does not  *)
(* outlive its purpose, or it would keep garbage alive for ever.           *)
BlocksCoherent ==
    /\ TypeOK
    /\ \A b \in InUse : block[b].state \in {"New", "FreeListed"} => b = currentBlock
    /\ currentBlock # Null =>
         /\ currentBlock = blocksToSweep
         /\ block[currentBlock].state = "FreeListed"
         /\ freeList = {c \in Cells : block[currentBlock].content[c] # "object"}
    /\ ToSet(sweepQueue) \subseteq InUse
    /\ \A b \in InUse : block[b].newly # Null => b = lastActiveBlock \/ FixedCellSize = 0

(* ASSERT(!m_currentBlock) and ASSERT(!m_freeList.head) of addBlock: the   *)
(* allocation that found no free cell, and is about to add a block, still  *)
(* has no block and no free list.                                          *)
AddBlockAsserts ==
    At("allocate", "missed") /\ Top.attempt < 3 => currentBlock = Null /\ freeList = {}
=============================================================================
