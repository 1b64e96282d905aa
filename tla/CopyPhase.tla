----------------------------- MODULE CopyPhase -----------------------------
(***************************************************************************)
(* The copied space, which holds the backing stores of objects, through    *)
(* allocation, marking and the Copy phase: heap/CopiedSpace.cpp,           *)
(* CopiedSpaceInlines.h, CopiedBlock.h, CopyVisitor.cpp, and               *)
(* Heap::copyBackingStores, on top of the phases of GCPhases.              *)
(*                                                                         *)
(* An object stands for the backing store of one live cell: place is the   *)
(* block it is in, size the bytes it takes.  Of marking only copyLater is  *)
(* kept: every visitor reports live stores to the blocks they are in.      *)
(* The order of m_blocksToCopy, a hash table's, is left open.              *)
(***************************************************************************)
EXTENDS GCPhases, FiniteSetsExt

CONSTANTS
    MainThread,
    Objects,
    Blocks,            \* block addresses, reused when deallocated
    None,
    Sizes,             \* sizes a store may have
    Capacity,          \* payloadCapacity of a block, and s_maxAllocationSize
    EvacuationLimit,   \* most live bytes for which shouldEvacuate holds
    FragmentLength,    \* s_blockFragmentLength
    MaxBlocks          \* bound: blocks the mutator may fill

ASSUME CopyAssumption ==
    /\ MainThread \notin GCThreads
    /\ None \notin Blocks \cup Objects
    /\ Sizes \subseteq Nat \ {0}
    /\ {Capacity, FragmentLength, MaxBlocks} \subseteq Nat \ {0}
    /\ EvacuationLimit \in 0 .. Capacity

VARIABLES
    place, offset, size,   \* block, position and bytes of each store
    used,              \* payloadCapacity - m_remaining of each block
    liveBytes, workList, pinned,            \* of each block
    toSpace, fromSpace, oversize, blockSet, blockFilter,   \* of CopiedSpace
    allocator,         \* the mutator's current block
    request,           \* the mutator's allocation in its slow path
    stage,             \* where the main thread is outside the Copy phase
    reporting,         \* the store each visitor is about to report
    unreported,        \* live stores copyLater has yet to be called for
    shouldDoCopyPhase,
    loanedBlocks,      \* m_numberOfLoanedBlocks
    blocksToCopy,      \* m_blocksToCopy from m_copyIndex on
    copyPc, fragment, evacuating, items, current, giving   \* of each CopyVisitor

mutatorVars == <<place, offset, size, used, allocator, request>>
blockVars == <<liveBytes, workList, pinned>>
spaceVars == <<toSpace, fromSpace, oversize, blockSet, blockFilter>>
markVars == <<reporting, unreported>>
copyVars == <<loanedBlocks, blocksToCopy, copyPc, fragment, evacuating, items, current, giving>>
vars == <<phaseVars, mutatorVars, blockVars, spaceVars, stage, markVars,
          shouldDoCopyPhase, copyVars>>

Visitors == GCThreads \cup {MainThread}
Live == {o \in Objects : place[o] # None}
Held == UNION {{current[v], giving[v]} : v \in Visitors} \ {None}
FreeBlocks == Blocks \ (blockSet \cup fromSpace \cup Held)
(* BlockAllocator::allocate: all free blocks are alike.                    *)
NewBlock == CHOOSE b \in FreeBlocks : TRUE
IsOversize(bytes) == bytes > Capacity
Stages == {"mutator", "marking", "started", "copying", "claim", "ending"}
CopyPcs == {"out", "start", "fetch", "block", "items", "return", "repay",
            "done", "asleep", "woken"}
NoRequest == [object |-> None]

CopyInit ==
    /\ PhaseInit
    /\ allocator = CHOOSE b \in Blocks : TRUE
    /\ toSpace = {allocator}
    /\ place = [o \in Objects |-> None]
    /\ offset = [o \in Objects |-> 0]
    /\ size = [o \in Objects |-> 0]
    /\ used = [b \in Blocks |-> 0]
    /\ liveBytes = [b \in Blocks |-> 0]
    /\ workList = [b \in Blocks |-> {}]
    /\ pinned = {} /\ fromSpace = {} /\ oversize = {}
    /\ blockSet = toSpace /\ blockFilter = toSpace
    /\ request = NoRequest
    /\ stage = "mutator"
    /\ reporting = [v \in Visitors |-> None]
    /\ unreported = {}
    /\ shouldDoCopyPhase = FALSE
    /\ loanedBlocks = 0
    /\ blocksToCopy = {}
    /\ copyPc = [v \in Visitors |-> "out"]
    /\ fragment = [v \in Visitors |-> {}]
    /\ items = [v \in Visitors |-> {}]
    /\ evacuating = [v \in Visitors |-> None]
    /\ current = [v \in Visitors |-> None]
    /\ giving = [v \in Visitors |-> None]
-----------------------------------------------------------------------------
(* CopiedAllocator::tryAllocate: o gets n bytes of block b.                *)
Put(o, n, b) ==
    /\ place' = [place EXCEPT ![o] = b]
    /\ offset' = [offset EXCEPT ![o] = used[b]]
    /\ size' = [size EXCEPT ![o] = n]
    /\ used' = [used EXCEPT ![b] = @ + n]

(* The mutator runs, and is not inside an allocation.                      *)
MutatorRuns == stage = "mutator" /\ mainPc = "idle" /\ request = NoRequest
(* CopiedAllocator::tryReallocate: the store is the last of its block and  *)
(* can be extended.                                                        *)
Extends(o, n) ==
    /\ o \in Live /\ place[o] = allocator
    /\ offset[o] + size[o] = used[allocator]
    /\ used[allocator] + n - size[o] <= Capacity
(* A new store, or a larger one for a live object, of ordinary size.       *)
Wants(o, n) ==
    /\ MutatorRuns /\ ~ IsOversize(n)
    /\ o \in Live => n > size[o] /\ place[o] \notin oversize

(* CopiedSpace::tryAllocate in the current block; from tryReallocate the   *)
(* object moves.                                                           *)
TryAllocate(o, n) ==
    /\ Wants(o, n) /\ ~ Extends(o, n)
    /\ used[allocator] + n <= Capacity
    /\ Put(o, n, allocator)
    /\ UNCHANGED <<phaseVars, allocator, request, blockVars, spaceVars, stage,
                   markVars, shouldDoCopyPhase, copyVars>>

(* CopiedSpace::tryAllocateOversize, for a new object or, from             *)
(* tryReallocateOversize, for one whose old oversize block is deallocated. *)
TryAllocateOversize(o, n) ==
    /\ MutatorRuns /\ IsOversize(n) /\ (o \in Live => n > size[o])
    /\ Cardinality(blockSet) < MaxBlocks
    /\ LET b == NewBlock
           gone == {place[o]} \cap oversize
       IN  /\ place' = [place EXCEPT ![o] = b]
           /\ offset' = [offset EXCEPT ![o] = 0]
           /\ size' = [size EXCEPT ![o] = n]
           /\ used' = [x \in Blocks |-> IF x = b THEN n ELSE IF x \in gone THEN 0 ELSE used[x]]
           /\ oversize' = (oversize \ gone) \cup {b}
           /\ blockSet' = (blockSet \ gone) \cup {b}
           /\ blockFilter' = blockFilter \cup {b}
    /\ UNCHANGED <<phaseVars, allocator, request, blockVars, toSpace, fromSpace,
                   stage, markVars, shouldDoCopyPhase, copyVars>>

(* CopiedSpace::tryReallocate in place.                                    *)
TryReallocate(o, n) ==
    /\ Wants(o, n) /\ Extends(o, n)
    /\ size' = [size EXCEPT ![o] = n]
    /\ used' = [used EXCEPT ![allocator] = @ + n - size[o]]
    /\ UNCHANGED <<phaseVars, place, offset, allocator, request, blockVars, spaceVars,
                   stage, markVars, shouldDoCopyPhase, copyVars>>

(* tryAllocateSlowCase, for a new object or from tryReallocate, up to      *)
(* collectIfNecessaryOrDefer in allocateBlock; the old store of a          *)
(* reallocation is kept as a raw pointer in a local variable.              *)
StartSlowCase(o, n) ==
    /\ Wants(o, n) /\ ~ Extends(o, n)
    /\ used[allocator] + n > Capacity
    /\ Cardinality(blockSet) < MaxBlocks
    /\ request' = [object |-> o, bytes |-> n, old |-> place[o]]
    /\ UNCHANGED <<phaseVars, place, offset, size, used, allocator, blockVars, spaceVars, stage,
                   markVars, shouldDoCopyPhase, copyVars>>

(* The rest of the slow case: a new current block, the store, the memcpy.  *)
FinishSlowCase ==
    /\ stage = "mutator" /\ mainPc = "idle" /\ request # NoRequest
    /\ LET b == NewBlock
       IN  /\ toSpace' = toSpace \cup {b}
           /\ blockSet' = blockSet \cup {b}
           /\ blockFilter' = blockFilter \cup {b}
           /\ allocator' = b
           /\ Put(request.object, request.bytes, b)
    /\ request' = NoRequest
    /\ UNCHANGED <<phaseVars, blockVars, fromSpace, oversize, stage, markVars,
                   shouldDoCopyPhase, copyVars>>

(* The cell that owns the store becomes garbage.                           *)
Die(o) ==
    /\ MutatorRuns /\ o \in Live
    /\ place' = [place EXCEPT ![o] = None]
    /\ offset' = [offset EXCEPT ![o] = 0]
    /\ size' = [size EXCEPT ![o] = 0]
    /\ UNCHANGED <<phaseVars, used, allocator, request, blockVars, spaceVars,
                   stage, markVars, shouldDoCopyPhase, copyVars>>
-----------------------------------------------------------------------------
(* CopiedSpace::contains.                                                  *)
Contains(b) == b \in blockFilter /\ b \in blockSet

(* Heap::collect up to marking: conservative roots pin the blocks they     *)
(* point into (pinIfNecessary), at least that of a raw pointer the         *)
(* interrupted allocation holds, and any other word may look like one.     *)
BeginCollection ==
    /\ stage = "mutator" /\ mainPc = "idle"
    /\ \E words \in SUBSET blockSet :
         /\ request # NoRequest /\ request.old # None => request.old \in words
         /\ pinned' = pinned \cup {b \in words : Contains(b)}
    /\ unreported' = Live
    /\ stage' = "marking"
    /\ UNCHANGED <<phaseVars, mutatorVars, liveBytes, workList, spaceVars, reporting,
                   shouldDoCopyPhase, copyVars>>

(* SlotVisitor::copyLater: oversize blocks are pinned; whether another     *)
(* block is pinned is looked at outside the block's lock.                  *)
CopyLater(v) ==
    /\ stage = "marking" /\ reporting[v] = None
    /\ \E o \in unreported :
         /\ unreported' = unreported \ {o}
         /\ pinned' = IF place[o] \in oversize THEN pinned \cup {place[o]} ELSE pinned
         /\ reporting' = IF place[o] \in oversize \cup pinned THEN reporting
                         ELSE [reporting EXCEPT ![v] = o]
    /\ UNCHANGED <<phaseVars, mutatorVars, liveBytes, workList, spaceVars, stage,
                   shouldDoCopyPhase, copyVars>>

(* Mutant: pin leaves the items that were added before it.                 *)
ReportKeepingWorkList(v) ==
    /\ stage = "marking" /\ reporting[v] # None
    /\ LET o == reporting[v]
           b == place[o]
           bytes == liveBytes[b] + size[o]
       IN  /\ liveBytes' = [liveBytes EXCEPT ![b] = bytes]
           /\ IF bytes <= EvacuationLimit
              THEN /\ workList' = [workList EXCEPT ![b] = @ \cup {o}]
                   /\ UNCHANGED pinned
              ELSE /\ pinned' = pinned \cup {b}
                   /\ UNCHANGED workList
    /\ reporting' = [reporting EXCEPT ![v] = None]
    /\ UNCHANGED <<phaseVars, mutatorVars, spaceVars, stage, unreported,
                   shouldDoCopyPhase, copyVars>>

(* CopiedBlock::reportLiveBytes, under m_workListLock: a block that is too *)
(* full to be evacuated is pinned, which drops its work list.              *)
ReportLiveBytes(v) ==
    /\ stage = "marking" /\ reporting[v] # None
    /\ LET o == reporting[v]
           b == place[o]
           bytes == liveBytes[b] + size[o]
       IN  /\ liveBytes' = [liveBytes EXCEPT ![b] = bytes]
           /\ IF bytes <= EvacuationLimit
              THEN /\ workList' = [workList EXCEPT ![b] = @ \cup {o}]
                   /\ UNCHANGED pinned
              ELSE /\ workList' = [workList EXCEPT ![b] = {}]
                   /\ pinned' = pinned \cup {b}
    /\ reporting' = [reporting EXCEPT ![v] = None]
    /\ UNCHANGED <<phaseVars, mutatorVars, spaceVars, stage, unreported,
                   shouldDoCopyPhase, copyVars>>

(* Mutant: a pinned block that nobody reported is recycled.                *)
DeadBlocksPinnedToo == {b \in toSpace : liveBytes[b] = 0}

(* Blocks startedCopying recycles at once.                                 *)
DeadBlocks == {b \in toSpace : b \notin pinned /\ liveBytes[b] = 0}

(* CopiedSpace::startedCopying; whether the space is fragmented enough     *)
(* depends on the rest of the heap too.                                    *)
StartedCopying ==
    /\ stage = "marking" /\ unreported = {} /\ \A v \in Visitors : reporting[v] = None
    /\ LET dead == DeadBlocks
           gone == dead \cup (oversize \ pinned)
           kept == oversize \cap pinned
       IN  /\ fromSpace' = toSpace \ dead
           /\ toSpace' = fromSpace
           /\ oversize' = kept
           /\ blockSet' = blockSet \ gone
           /\ blockFilter' = kept
           /\ liveBytes' = [b \in Blocks |-> IF b \in kept THEN 0 ELSE liveBytes[b]]
           /\ workList' = [b \in Blocks |-> IF b \in kept \cup gone THEN {} ELSE workList[b]]
           /\ pinned' = pinned \ kept
           /\ used' = [b \in Blocks |-> IF b \in gone THEN 0 ELSE used[b]]
    /\ allocator' = None
    /\ shouldDoCopyPhase' \in BOOLEAN
    /\ stage' = IF shouldDoCopyPhase' THEN "started" ELSE "claim"
    /\ UNCHANGED <<phaseVars, place, offset, size, request, markVars, copyVars>>

(* CopiedSpace::doneCopying once no block is on loan, and the end of       *)
(* Heap::copyBackingStores: from-space survivors join to-space.            *)
ClaimBlocks ==
    /\ stage = "claim" /\ mainPc \in {"idle", "Copy"}
    /\ \E b \in IF toSpace \cup fromSpace # {} THEN toSpace \cup fromSpace ELSE {NewBlock} :
         /\ allocator' = b
         /\ toSpace' = toSpace \cup fromSpace \cup {b}
         /\ blockSet' = blockSet \cup {b}
         /\ blockFilter' = blockFilter \cup fromSpace \cup {b}
    /\ fromSpace' = {}
    /\ liveBytes' = [b \in Blocks |-> IF b \in fromSpace THEN 0 ELSE liveBytes[b]]
    /\ workList' = [b \in Blocks |-> IF b \in fromSpace THEN {} ELSE workList[b]]
    /\ pinned' = pinned \ fromSpace
    /\ shouldDoCopyPhase' = FALSE
    /\ stage' = IF mainPc = "Copy" THEN "ending" ELSE "mutator"
    /\ UNCHANGED <<phaseVars, place, offset, size, used, request, oversize, markVars, copyVars>>

(* GCThreadSharedData::didFinishCopying.                                   *)
DidFinishCopying ==
    /\ stage = "ending"
    /\ EndCurrentPhase
    /\ stage' = "mutator"
    /\ UNCHANGED <<mutatorVars, blockVars, spaceVars, markVars, shouldDoCopyPhase, copyVars>>
-----------------------------------------------------------------------------
Goes(v, pc) == copyPc' = [copyPc EXCEPT ![v] = pc]

(* GCThreadSharedData::didStartCopying: the main thread calls startCopying *)
(* for every GC thread, so that each has a block on loan.                  *)
DidStartCopying ==
    /\ stage = "started"
    /\ StartNextPhase("Copy")
    /\ LET loan == CHOOSE f \in Injection(GCThreads, FreeBlocks) : TRUE
       IN  current' = [v \in Visitors |-> IF v \in GCThreads THEN loan[v] ELSE None]
    /\ loanedBlocks' = loanedBlocks + Cardinality(GCThreads)
    /\ blocksToCopy' = blockSet
    /\ Goes(MainThread, "start")
    /\ stage' = "copying"
    /\ UNCHANGED <<mutatorVars, blockVars, spaceVars, markVars, shouldDoCopyPhase,
                   fragment, evacuating, items, giving>>

(* GCThread::gcThreadMain in the Copy phase calls copyFromShared.          *)
JoinCopying(t) ==
    /\ JoinPhase(t)
    /\ Goes(t, "fetch")
    /\ UNCHANGED <<mutatorVars, blockVars, spaceVars, stage, markVars, shouldDoCopyPhase,
                   loanedBlocks, blocksToCopy, fragment, evacuating, items, current, giving>>

(* CopiedSpace::allocateBlockForCopyingPhase, called by doneFillingBlock:  *)
(* the main visitor's first block ...                                      *)
MainStartCopying ==
    /\ copyPc[MainThread] = "start"
    /\ current' = [current EXCEPT ![MainThread] = NewBlock]
    /\ loanedBlocks' = loanedBlocks + 1
    /\ Goes(MainThread, "fetch")
    /\ UNCHANGED <<phaseVars, mutatorVars, blockVars, spaceVars, stage, markVars,
                   shouldDoCopyPhase, blocksToCopy, fragment, evacuating, items, giving>>

(* GCThreadSharedData::getNextBlocksToCopy, under m_copyLock.              *)
GetNextBlocksToCopy(v) ==
    /\ copyPc[v] = "fetch" /\ blocksToCopy # {}
    /\ \E f \in SUBSET blocksToCopy :
         /\ Cardinality(f) = Min({FragmentLength, Cardinality(blocksToCopy)})
         /\ fragment' = [fragment EXCEPT ![v] = f]
         /\ blocksToCopy' = blocksToCopy \ f
    /\ Goes(v, "block")
    /\ UNCHANGED <<phaseVars, mutatorVars, blockVars, spaceVars, stage, markVars,
                   shouldDoCopyPhase, loanedBlocks, evacuating, items, current, giving>>

(* CopyVisitor::copyFromShared takes up the next block of its fragment     *)
(* that has a work list, or comes to its end.                              *)
NextBlock(v) ==
    /\ copyPc[v] = "block"
    /\ LET listed == {b \in fragment[v] : workList[b] # {}}
       IN  IF listed = {}
           THEN /\ fragment' = [fragment EXCEPT ![v] = {}]
                /\ Goes(v, "fetch")
                /\ UNCHANGED <<evacuating, items>>
           ELSE \E b \in listed :
                  /\ fragment' = [fragment EXCEPT ![v] = @ \ {b}]
                  /\ evacuating' = [evacuating EXCEPT ![v] = b]
                  /\ items' = [items EXCEPT ![v] = workList[b]]
                  /\ Goes(v, "items")
    /\ UNCHANGED <<phaseVars, mutatorVars, blockVars, spaceVars, stage, markVars,
                   shouldDoCopyPhase, loanedBlocks, blocksToCopy, current, giving>>

(* visitItem: copyBackingStore allocates new space, copies and tells the   *)
(* old block (didEvacuateBytes), unless checkIfShouldCopy says no.         *)
CopyBackingStore(v) ==
    /\ copyPc[v] = "items"
    /\ \E o \in items[v] :
         /\ items' = [items EXCEPT ![v] = @ \ {o}]
         /\ IF place[o] \in oversize \cup pinned
            THEN UNCHANGED <<place, offset, size, used, liveBytes>>
            ELSE /\ used[current[v]] + size[o] <= Capacity
                 /\ Put(o, size[o], current[v])
                 /\ liveBytes' = [liveBytes EXCEPT ![place[o]] = @ - size[o]]
    /\ UNCHANGED <<phaseVars, allocator, request, workList, pinned, spaceVars, stage, markVars,
                   shouldDoCopyPhase, loanedBlocks, blocksToCopy, copyPc, fragment,
                   evacuating, current, giving>>

(* CopyVisitor::allocateNewSpaceSlow: a fresh block is borrowed, the full  *)
(* one is to be given back ...                                             *)
AllocateNewSpaceSlow(v) ==
    /\ copyPc[v] = "items"
    /\ \E o \in items[v] : /\ place[o] \notin oversize \cup pinned
                          /\ used[current[v]] + size[o] > Capacity
    /\ giving' = [giving EXCEPT ![v] = current[v]]
    /\ current' = [current EXCEPT ![v] = NewBlock]
    /\ loanedBlocks' = loanedBlocks + 1
    /\ Goes(v, "return")
    /\ UNCHANGED <<phaseVars, mutatorVars, blockVars, spaceVars, stage, markVars,
                   shouldDoCopyPhase, blocksToCopy, fragment, evacuating, items>>

(* ... CopiedSpace::recycleEvacuatedBlock, when all items are done ...     *)
RecycleEvacuatedBlock(v) ==
    /\ copyPc[v] = "items" /\ items[v] = {}
    /\ LET b == evacuating[v]
       IN  /\ blockSet' = blockSet \ {b}
           /\ fromSpace' = fromSpace \ {b}
           /\ workList' = [workList EXCEPT ![b] = {}]
           /\ used' = [used EXCEPT ![b] = 0]
    /\ evacuating' = [evacuating EXCEPT ![v] = None]
    /\ Goes(v, "block")
    /\ UNCHANGED <<phaseVars, place, offset, size, allocator, request, liveBytes, pinned,
                   toSpace, oversize, blockFilter, stage, markVars, shouldDoCopyPhase,
                   loanedBlocks, blocksToCopy, fragment, items, current, giving>>

(* ... and CopyVisitor::doneCopying, when no blocks are left.              *)
VisitorDoneCopying(v) ==
    /\ copyPc[v] = "fetch" /\ blocksToCopy = {}
    /\ giving' = [giving EXCEPT ![v] = current[v]]
    /\ current' = [current EXCEPT ![v] = None]
    /\ Goes(v, IF current[v] = None THEN "done" ELSE "return")
    /\ UNCHANGED <<phaseVars, mutatorVars, blockVars, spaceVars, stage, markVars,
                   shouldDoCopyPhase, loanedBlocks, blocksToCopy, fragment, evacuating, items>>

(* CopiedSpace::doneFillingBlock: a block with data goes to to-space,      *)
(* under m_toSpaceLock; recycleBorrowedBlock deallocates an empty one ...  *)
ReturnBlock(v) ==
    /\ copyPc[v] = "return"
    /\ LET b == giving[v]
           kept == IF used[b] = 0 THEN {} ELSE {b}
       IN  /\ toSpace' = toSpace \cup kept
           /\ blockSet' = blockSet \cup kept
           /\ blockFilter' = blockFilter \cup kept
    /\ giving' = [giving EXCEPT ![v] = None]
    /\ Goes(v, "repay")
    /\ UNCHANGED <<phaseVars, mutatorVars, blockVars, fromSpace, oversize, stage, markVars,
                   shouldDoCopyPhase, loanedBlocks, blocksToCopy, fragment, evacuating, items,
                   current>>

(* Mutant: the main thread is not signalled.                               *)
RepaySilently(v) ==
    /\ copyPc[v] = "repay"
    /\ loanedBlocks' = loanedBlocks - 1
    /\ Goes(v, IF current[v] = None THEN "done" ELSE "items")
    /\ UNCHANGED <<phaseVars, mutatorVars, blockVars, spaceVars, stage, markVars,
                   shouldDoCopyPhase, blocksToCopy, fragment, evacuating, items, current, giving>>

(* ... and then the loan ends, under m_loanedBlocksLock; the last one      *)
(* signals m_loanedBlocksCondition.                                        *)
RepayLoan(v) ==
    /\ copyPc[v] = "repay"
    /\ loanedBlocks' = loanedBlocks - 1
    /\ copyPc' = [u \in Visitors |->
                     IF u = v THEN IF current[v] = None THEN "done" ELSE "items"
                     ELSE IF loanedBlocks' = 0 /\ copyPc[u] = "asleep" THEN "woken"
                     ELSE copyPc[u]]
    /\ UNCHANGED <<phaseVars, mutatorVars, blockVars, spaceVars, stage, markVars,
                   shouldDoCopyPhase, blocksToCopy, fragment, evacuating, items, current, giving>>

(* gcThreadMain goes back to waitForNextPhase.                             *)
LeaveCopying(t) ==
    /\ copyPc[t] = "done"
    /\ LeaveCopy(t)
    /\ Goes(t, "out")
    /\ UNCHANGED <<mutatorVars, blockVars, spaceVars, stage, markVars, shouldDoCopyPhase,
                   loanedBlocks, blocksToCopy, fragment, evacuating, items, current, giving>>

(* CopiedSpace::doneCopying, the wait loop of the main thread.             *)
AwaitLoans ==
    /\ copyPc[MainThread] \in {"done", "woken"}
    /\ IF loanedBlocks = 0 THEN Goes(MainThread, "out") /\ stage' = "claim"
                           ELSE Goes(MainThread, "asleep") /\ UNCHANGED stage
    /\ UNCHANGED <<phaseVars, mutatorVars, blockVars, spaceVars, markVars, shouldDoCopyPhase,
                   loanedBlocks, blocksToCopy, fragment, evacuating, items, current, giving>>
-----------------------------------------------------------------------------
CopyStep(v) ==
    \/ GetNextBlocksToCopy(v) \/ NextBlock(v) \/ CopyBackingStore(v)
    \/ AllocateNewSpaceSlow(v) \/ RecycleEvacuatedBlock(v) \/ VisitorDoneCopying(v)
    \/ ReturnBlock(v) \/ RepayLoan(v)

MutatorStep ==
    \/ \E o \in Objects, n \in Sizes : \/ TryAllocate(o, n) \/ TryAllocateOversize(o, n)
                                      \/ TryReallocate(o, n) \/ StartSlowCase(o, n)
    \/ \E o \in Objects : Die(o)

CollectorStep ==
    \/ StartedCopying \/ DidStartCopying \/ MainStartCopying \/ CopyStep(MainThread)
    \/ AwaitLoans \/ ClaimBlocks \/ DidFinishCopying
    \/ CopyLater(MainThread) \/ ReportLiveBytes(MainThread)

(* Steps of GCPhases outside the copying code; the Mark phase itself and   *)
(* destruction are not part of this module.                                *)
MainPhaseStep ==
    Construct \/ CheckInactivity
ThreadPhaseStep(t) ==
    AwaitPhaseEnd(t) \/ BecomeInactive(t) \/ AwaitNextPhase(t)
restVars == <<mutatorVars, blockVars, spaceVars, stage, markVars, shouldDoCopyPhase, copyVars>>

CopyNext ==
    \/ MutatorStep \/ FinishSlowCase \/ BeginCollection \/ CollectorStep
    \/ MainPhaseStep /\ UNCHANGED restVars
    \/ \E t \in GCThreads :
         \/ CopyLater(t) \/ ReportLiveBytes(t)
         \/ JoinCopying(t) \/ CopyStep(t) \/ LeaveCopying(t)
         \/ (ThreadPhaseStep(t) \/ SpuriousWake(t)) /\ UNCHANGED restVars

CopySpec == CopyInit /\ [][CopyNext]_vars

(* Every thread runs; when the mutator collects is its own business.       *)
CopyFairness ==
    /\ WF_vars(CollectorStep \/ (MainPhaseStep /\ UNCHANGED restVars))
    /\ \A t \in GCThreads :
         /\ WF_vars(\/ JoinCopying(t) \/ CopyStep(t) \/ LeaveCopying(t)
                    \/ ThreadPhaseStep(t) /\ UNCHANGED restVars)
         /\ WF_vars(ReportLiveBytes(t))   \* runs in the Mark phase, left out here
FairCopySpec == CopySpec /\ CopyFairness
-----------------------------------------------------------------------------
CopyTypeOK ==
    /\ place \in [Objects -> Blocks \cup {None}]
    /\ offset \in [Objects -> Nat] /\ size \in [Objects -> Sizes \cup {0}]
    /\ used \in [Blocks -> Nat] /\ liveBytes \in [Blocks -> Nat]
    /\ workList \in [Blocks -> SUBSET Objects]
    /\ {pinned, toSpace, fromSpace, oversize, blockSet, blockFilter, blocksToCopy} \subseteq SUBSET Blocks
    /\ allocator \in Blocks \cup {None}
    /\ stage \in Stages
    /\ reporting \in [Visitors -> Objects \cup {None}] /\ unreported \subseteq Objects
    /\ shouldDoCopyPhase \in BOOLEAN
    /\ loanedBlocks \in Nat
    /\ copyPc \in [Visitors -> CopyPcs]
    /\ fragment \in [Visitors -> SUBSET Blocks] /\ items \in [Visitors -> SUBSET Objects]
    /\ {current, giving, evacuating} \subseteq [Visitors -> Blocks \cup {None}]

(* Every live store lies within a block that is still allocated, apart     *)
(* from every other live store: nothing is overwritten or lost, whether    *)
(* it was allocated, extended, moved by the mutator or by a GC thread.     *)
(* And the old store a reallocation holds a raw pointer to is not moved or *)
(* freed by a collection in the middle of it: tryReallocate's memcpy reads *)
(* what it means to.                                                       *)
StoresIntact ==
    /\ \A o \in Live :
          /\ place[o] \in blockSet \cup Held
          /\ offset[o] + size[o] <= used[place[o]]
          /\ place[o] \notin oversize => used[place[o]] <= Capacity
          /\ \A p \in Live \ {o} :
                place[o] = place[p] => \/ offset[o] + size[o] <= offset[p]
                                       \/ offset[p] + size[p] <= offset[o]
    /\ request # NoRequest => request.old = place[request.object]

(* "All non-pinned blocks in from-space should have been reclaimed as they *)
(* were evacuated" (doneCopying): loans are counted, so that when the main *)
(* thread takes the spaces over nobody holds a block or an item; and each  *)
(* evacuated block is found empty.  For the mutator the block set is then  *)
(* to-space and the oversize blocks, all of them in the filter, where the  *)
(* conservative scan looks for them, and no block carries marking data     *)
(* over to the next collection.                                            *)
SpaceConsistent ==
    /\ CopyTypeOK
    /\ loanedBlocks = Cardinality({v \in Visitors : current[v] # None})
                      + Cardinality({v \in Visitors : copyPc[v] \in {"return", "repay"}})
    /\ stage = "claim" =>
         /\ shouldDoCopyPhase => fromSpace \subseteq pinned
         /\ \A v \in Visitors : items[v] = {} /\ evacuating[v] = None
    /\ \A v \in Visitors :
         copyPc[v] = "items" /\ items[v] = {} => liveBytes[evacuating[v]] = 0
    /\ stage = "mutator" =>
         /\ blockSet = toSpace \cup oversize /\ fromSpace = {}
         /\ blockSet \subseteq blockFilter
         /\ allocator \in toSpace
         /\ pinned \cap blockSet = {}
         /\ \A b \in blockSet : liveBytes[b] = 0 /\ workList[b] = {}

(* A collection ends.                                                      *)
CollectionEnds == stage = "marking" ~> stage = "mutator" /\ mainPc = "idle"
=============================================================================
