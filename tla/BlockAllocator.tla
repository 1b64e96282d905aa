--------------------------- MODULE BlockAllocator ---------------------------
(***************************************************************************)
(* The supply of heap blocks (heap/BlockAllocator.h and .cpp, Region.h):   *)
(* regions of memory cut into blocks of one size, shared by the mutator    *)
(* and the GC threads, and the thread that gives empty regions back to the *)
(* system.                                                                 *)
(*                                                                         *)
(* m_regionLock is a spin lock around short sections; each section is one  *)
(* action.  m_emptyRegionConditionLock is held across sections, and is a   *)
(* variable.                                                               *)
(***************************************************************************)
EXTENDS Naturals, Sequences, FiniteSets, SequencesExt

CONSTANTS
    Regions,        \* addresses of regions, natural numbers
    RegionSets,     \* the region sets, one for each size of block
    TotalBlocks,    \* m_totalBlocks of a region of each set
    Clients,        \* threads that allocate and deallocate blocks
    MainClient,     \* the one that destroys the allocator
    Custom,         \* in place of a set: a region of one custom-size block
    Null

ASSUME BlockAllocatorAssumption ==
    /\ Regions \subseteq Nat /\ IsFiniteSet(Regions)
    /\ TotalBlocks \in [RegionSets -> Nat \ {0}]
    /\ MainClient \in Clients
    /\ Null \notin Regions \cup RegionSets \cup Clients \cup {Custom}
    /\ Custom \notin RegionSets
    /\ "freer" \notin Clients

VARIABLES
    setOf,          \* the set a region was last reset for; Null: no such region
    blocksInUse,    \* m_blocksInUse of a region
    dead,           \* m_deadBlocks of a region: indices of blocks
    allocated,      \* the blocks <<region, index>> clients hold
    fullRegions, partialRegions, numberOfPartialRegions,   \* of each set
    emptyRegions, numberOfEmptyRegions,
    isCurrentlyAllocating,
    shouldQuit,     \* m_blockFreeingThreadShouldQuit
    conditionLock,  \* holder of m_emptyRegionConditionLock
    pc,             \* of each client
    newRegion,      \* the region a client has created and not yet listed
    freerPc,        \* of the block freeing thread; Null: there is none
    desired         \* its local desiredNumberOfEmptyRegions

listVars == <<fullRegions, partialRegions, numberOfPartialRegions, emptyRegions,
              numberOfEmptyRegions>>
regionVars == <<setOf, blocksInUse, dead, allocated, listVars>>
clientVars == <<pc, newRegion>>
freerVars == <<freerPc, desired>>
vars == <<regionVars, isCurrentlyAllocating, shouldQuit, conditionLock, clientVars, freerVars>>

-----------------------------------------------------------------------------
(* initializeBlockList: the blocks of a region of s, all dead.              *)
BlockList(s) == [i \in 1 .. TotalBlocks[s] |-> i]

IsFull(r) == blocksInUse[r] = TotalBlocks[setOf[r]]
Without(list, r) == SelectSeq(list, LAMBDA x : x # r)
Unmapped == {r \in Regions : setOf[r] = Null}
NewRegion == CHOOSE r \in Unmapped : \A x \in Unmapped : r <= x

ClientPcs == {"idle", "create", "signal", "release", "drain", "quit", "join", "gone"}
FreerPcs ==
    {"top", "doze", "awake", "clear", "test", "toWait", "waiting", "release", "exited", Null}

(* The heap destroys its allocator once no other thread uses it.           *)
InUse == pc[MainClient] \notin {"drain", "quit", "join", "gone"}

TypeOK ==
    /\ setOf \in [Regions -> RegionSets \cup {Custom, Null}]
    /\ blocksInUse \in [Regions -> Nat]
    /\ dead \in [Regions -> Seq(Nat)]
    /\ allocated \subseteq Regions \X Nat
    /\ {fullRegions, partialRegions} \subseteq [RegionSets -> Seq(Regions)]
    /\ numberOfPartialRegions \in [RegionSets -> Nat]
    /\ emptyRegions \in Seq(Regions) /\ numberOfEmptyRegions \in Nat
    /\ {isCurrentlyAllocating, shouldQuit} \subseteq BOOLEAN
    /\ conditionLock \in Clients \cup {Null, "freer"}
    /\ pc \in [Clients -> ClientPcs]
    /\ newRegion \in [Clients -> Regions \cup {Null}]
    /\ freerPc \in FreerPcs
    /\ desired \in Nat

Init ==
    /\ setOf = [r \in Regions |-> Null]
    /\ blocksInUse = [r \in Regions |-> 0]
    /\ dead = [r \in Regions |-> <<>>]
    /\ allocated = {}
    /\ fullRegions = [s \in RegionSets |-> <<>>]
    /\ partialRegions = [s \in RegionSets |-> <<>>]
    /\ numberOfPartialRegions = [s \in RegionSets |-> 0]
    /\ emptyRegions = <<>> /\ numberOfEmptyRegions = 0
    /\ isCurrentlyAllocating = FALSE /\ shouldQuit = FALSE
    /\ conditionLock = Null
    /\ pc = [c \in Clients |-> "idle"]
    /\ newRegion = [c \in Clients |-> Null]
    /\ freerPc \in {"top", Null}
    /\ desired = 0

-----------------------------------------------------------------------------
(* Allocation                                                              *)

(* Region::allocate on r, n of whose blocks are in use and d dead.          *)
TakeBlock(r, n, d) ==
    /\ blocksInUse' = [blocksInUse EXCEPT ![r] = n + 1]
    /\ dead' = [dead EXCEPT ![r] = Tail(d)]
    /\ allocated' = allocated \cup {<<r, Head(d)>>}

(* tryAllocateFromRegion on the partial regions of s, when there are any.  *)
AllocateFromPartial(s) ==
    LET r == Head(partialRegions[s])
        fills == blocksInUse[r] + 1 = TotalBlocks[s]
    IN  /\ numberOfPartialRegions[s] # 0
        /\ TakeBlock(r, blocksInUse[r], dead[r])
        /\ IF fills
           THEN /\ numberOfPartialRegions' = [numberOfPartialRegions EXCEPT ![s] = @ - 1]
                /\ partialRegions' = [partialRegions EXCEPT ![s] = Tail(@)]
                /\ fullRegions' = [fullRegions EXCEPT ![s] = <<r>> \o @]
           ELSE UNCHANGED <<numberOfPartialRegions, partialRegions, fullRegions>>
        /\ UNCHANGED <<setOf, emptyRegions, numberOfEmptyRegions>>

(* tryAllocateFromRegion on the empty regions "list": the first is reset    *)
(* for s, becomes partial and, if it has but one block, full.              *)
AllocateFromEmpty(s, list, number) ==
    LET r == Head(list)
    IN  /\ number # 0
        /\ emptyRegions' = Tail(list) /\ numberOfEmptyRegions' = number - 1
        /\ setOf' = [setOf EXCEPT ![r] = s]
        /\ TakeBlock(r, 0, BlockList(s))
        /\ IF TotalBlocks[s] = 1
           THEN /\ fullRegions' = [fullRegions EXCEPT ![s] = <<r>> \o @]
                /\ UNCHANGED <<partialRegions, numberOfPartialRegions>>
           ELSE /\ partialRegions' = [partialRegions EXCEPT ![s] = <<r>> \o @]
                /\ numberOfPartialRegions' = [numberOfPartialRegions EXCEPT ![s] = @ + 1]
                /\ UNCHANGED fullRegions

(* allocate<T>, its first section: a partial region, or else an empty one, *)
(* or else (outside the lock) a new region.                                *)
Allocate(c, s) ==
    /\ pc[c] = "idle" /\ InUse
    /\ isCurrentlyAllocating' = TRUE
    /\ \/ AllocateFromPartial(s) /\ UNCHANGED clientVars
       \/ /\ numberOfPartialRegions[s] = 0
          /\ AllocateFromEmpty(s, emptyRegions, numberOfEmptyRegions)
          /\ UNCHANGED clientVars
       \/ /\ numberOfPartialRegions[s] = 0 /\ numberOfEmptyRegions = 0
          /\ Unmapped # {}           \* bound: Regions
          /\ setOf' = [setOf EXCEPT ![NewRegion] = s]
          /\ newRegion' = [newRegion EXCEPT ![c] = NewRegion]
          /\ pc' = [pc EXCEPT ![c] = "create"]
          /\ dead' = [dead EXCEPT ![NewRegion] = BlockList(s)]
          /\ UNCHANGED <<blocksInUse, allocated, listVars>>
    /\ UNCHANGED <<shouldQuit, conditionLock, freerVars>>

(* Its second section: the new region is pushed and taken at once.         *)
AllocateFromNew(c) ==
    /\ pc[c] = "create"
    /\ AllocateFromEmpty(setOf[newRegion[c]], <<newRegion[c]>> \o emptyRegions,
                         numberOfEmptyRegions + 1)
    /\ pc' = [pc EXCEPT ![c] = "idle"]
    /\ newRegion' = [newRegion EXCEPT ![c] = Null]
    /\ UNCHANGED <<isCurrentlyAllocating, shouldQuit, conditionLock, freerVars>>

-----------------------------------------------------------------------------
(* Deallocation                                                            *)

(* Mutant: the region is removed from its list after the block has gone back, *)
(* so that a full region is looked for among the partial ones.             *)
GiveBackLate(r, i) ==
    LET s == setOf[r]
        partial == Without(partialRegions[s], r)
    IN  /\ blocksInUse' = [blocksInUse EXCEPT ![r] = @ - 1]
        /\ dead' = [dead EXCEPT ![r] = <<i>> \o @]
        /\ allocated' = allocated \ {<<r, i>>}
        /\ IF blocksInUse[r] = 1
           THEN /\ emptyRegions' = <<r>> \o emptyRegions
                /\ numberOfEmptyRegions' = numberOfEmptyRegions + 1
                /\ partialRegions' = [partialRegions EXCEPT ![s] = partial]
           ELSE /\ partialRegions' = [partialRegions EXCEPT ![s] = <<r>> \o partial]
                /\ UNCHANGED <<emptyRegions, numberOfEmptyRegions>>
        /\ numberOfPartialRegions' = [numberOfPartialRegions EXCEPT ![s] = Len(partialRegions'[s])]
        /\ UNCHANGED <<setOf, fullRegions>>

(* deallocate's locked section, on block i of r.                           *)
GiveBack(r, i) ==
    LET s == setOf[r]
        partial == IF IsFull(r) THEN partialRegions[s] ELSE Without(partialRegions[s], r)
        number == IF IsFull(r) THEN numberOfPartialRegions[s] ELSE numberOfPartialRegions[s] - 1
    IN  /\ fullRegions' = [fullRegions EXCEPT ![s] = IF IsFull(r) THEN Without(@, r) ELSE @]
        /\ blocksInUse' = [blocksInUse EXCEPT ![r] = @ - 1]
        /\ dead' = [dead EXCEPT ![r] = <<i>> \o @]
        /\ allocated' = allocated \ {<<r, i>>}
        /\ IF blocksInUse[r] = 1
           THEN /\ emptyRegions' = <<r>> \o emptyRegions
                /\ numberOfEmptyRegions' = numberOfEmptyRegions + 1
                /\ partialRegions' = [partialRegions EXCEPT ![s] = partial]
                /\ numberOfPartialRegions' = [numberOfPartialRegions EXCEPT ![s] = number]
           ELSE /\ partialRegions' = [partialRegions EXCEPT ![s] = <<r>> \o partial]
                /\ numberOfPartialRegions' = [numberOfPartialRegions EXCEPT ![s] = number + 1]
                /\ UNCHANGED <<emptyRegions, numberOfEmptyRegions>>
        /\ UNCHANGED setOf

ShouldWake(r) == blocksInUse[r] = 1 /\ numberOfEmptyRegions = 0

(* What follows deallocate's locked section for a client.                  *)
AfterSignal == IF freerPc = Null THEN "release" ELSE "idle"

Deallocate(c, x) ==
    /\ pc[c] = "idle" /\ x \in allocated /\ setOf[x[1]] # Custom
    /\ GiveBack(x[1], x[2])
    /\ pc' = [pc EXCEPT ![c] = IF ShouldWake(x[1]) THEN "signal" ELSE AfterSignal]
    /\ UNCHANGED <<isCurrentlyAllocating, shouldQuit, conditionLock, newRegion, freerVars>>

(* The block freeing thread, when the condition is signalled.              *)
Signalled ==
    CASE freerPc = "waiting" -> "test"
      [] freerPc = "doze" -> "awake"
      [] OTHER -> freerPc

Signal(c) ==
    /\ pc[c] = "signal"
    /\ conditionLock = Null
    /\ freerPc' = Signalled
    /\ pc' = [pc EXCEPT ![c] = AfterSignal]
    /\ UNCHANGED <<regionVars, isCurrentlyAllocating, shouldQuit, conditionLock, newRegion,
                   desired>>

(* Removing the head of the empty regions and destroying it.               *)
DestroyHead ==
    /\ setOf' = [setOf EXCEPT ![Head(emptyRegions)] = Null]
    /\ dead' = [dead EXCEPT ![Head(emptyRegions)] = <<>>]
    /\ emptyRegions' = Tail(emptyRegions)
    /\ numberOfEmptyRegions' = numberOfEmptyRegions - 1
    /\ UNCHANGED <<blocksInUse, allocated, fullRegions, partialRegions,
                   numberOfPartialRegions>>

(* One turn of releaseFreeRegions, called by deallocate where there is no  *)
(* block freeing thread, and by the destructor.                            *)
ReleaseFreeRegions(c) ==
    /\ pc[c] \in {"release", "drain"}
    /\ IF numberOfEmptyRegions = 0
       THEN /\ pc' = [pc EXCEPT ![c] = IF @ = "drain" THEN "quit" ELSE "idle"]
            /\ UNCHANGED regionVars
       ELSE DestroyHead /\ UNCHANGED pc
    /\ UNCHANGED <<isCurrentlyAllocating, shouldQuit, conditionLock, newRegion, freerVars>>

(* allocateCustomSize and deallocateCustomSize: a region no list holds.    *)
AllocateCustomSize(c) ==
    /\ pc[c] = "idle" /\ InUse
    /\ Unmapped # {}                 \* bound: Regions
    /\ setOf' = [setOf EXCEPT ![NewRegion] = Custom]
    /\ TakeBlock(NewRegion, 0, <<1>>)
    /\ UNCHANGED <<listVars, isCurrentlyAllocating, shouldQuit, conditionLock, clientVars,
                   freerVars>>

DeallocateCustomSize(c, x) ==
    /\ pc[c] = "idle" /\ x \in allocated /\ setOf[x[1]] = Custom
    /\ setOf' = [setOf EXCEPT ![x[1]] = Null]
    /\ blocksInUse' = [blocksInUse EXCEPT ![x[1]] = @ - 1]
    /\ allocated' = allocated \ {x}
    /\ UNCHANGED <<dead, listVars, isCurrentlyAllocating, shouldQuit, conditionLock, clientVars,
                   freerVars>>

-----------------------------------------------------------------------------
(* The destructor                                                          *)

Destroy ==
    /\ \A c \in Clients : pc[c] = "idle"
    /\ allocated = {}
    /\ pc' = [pc EXCEPT ![MainClient] = "drain"]
    /\ UNCHANGED <<regionVars, isCurrentlyAllocating, shouldQuit, conditionLock, newRegion,
                   freerVars>>

(* Mutant: the condition lock is not taken.                                *)
QuitUnlocked ==
    /\ pc[MainClient] = "quit"
    /\ shouldQuit' = TRUE
    /\ freerPc' = Signalled
    /\ pc' = [pc EXCEPT ![MainClient] = "join"]
    /\ UNCHANGED <<regionVars, isCurrentlyAllocating, conditionLock, newRegion, desired>>

Quit ==
    /\ pc[MainClient] = "quit" /\ conditionLock = Null
    /\ shouldQuit' = TRUE
    /\ freerPc' = Signalled
    /\ pc' = [pc EXCEPT ![MainClient] = "join"]
    /\ UNCHANGED <<regionVars, isCurrentlyAllocating, conditionLock, newRegion, desired>>

Join ==
    /\ pc[MainClient] = "join" /\ freerPc \in {"exited", Null}
    /\ pc' = [pc EXCEPT ![MainClient] = "gone"]
    /\ UNCHANGED <<regionVars, isCurrentlyAllocating, shouldQuit, conditionLock, newRegion,
                   freerVars>>

-----------------------------------------------------------------------------
(* blockFreeingThreadMain                                                  *)

FreerStep(from, to) ==
    /\ freerPc = from /\ freerPc' = to
    /\ UNCHANGED <<shouldQuit, clientVars>>

FreerTop ==
    /\ FreerStep("top", IF shouldQuit THEN "exited" ELSE "doze")
    /\ UNCHANGED <<regionVars, isCurrentlyAllocating, conditionLock, desired>>

(* waitForRelativeTime(1.0) returns: on a signal, on time, or at once.     *)
FreerDozed ==
    /\ FreerStep("doze", "awake")
    /\ UNCHANGED <<regionVars, isCurrentlyAllocating, conditionLock, desired>>

FreerAwake ==
    /\ FreerStep("awake", IF shouldQuit THEN "exited"
                          ELSE IF isCurrentlyAllocating THEN "clear" ELSE "test")
    /\ UNCHANGED <<regionVars, isCurrentlyAllocating, conditionLock, desired>>

FreerClear ==
    /\ FreerStep("clear", "top")
    /\ isCurrentlyAllocating' = FALSE
    /\ UNCHANGED <<regionVars, conditionLock, desired>>

(* Mutant: the condition lock is not held from the test to the wait.       *)
FreerTestUnlocked ==
    /\ \/ /\ numberOfEmptyRegions = 0 /\ ~ shouldQuit
          /\ FreerStep("test", "toWait")
          /\ UNCHANGED desired
       \/ /\ numberOfEmptyRegions # 0 \/ shouldQuit
          /\ FreerStep("test", "release")
          /\ desired' = numberOfEmptyRegions \div 2
    /\ UNCHANGED <<regionVars, isCurrentlyAllocating, conditionLock>>

(* The test of the inner wait loop, under both locks.  A thread that is to  *)
(* wait keeps the condition lock until it waits.                           *)
FreerTest ==
    /\ conditionLock = Null
    /\ \/ /\ numberOfEmptyRegions = 0 /\ ~ shouldQuit
          /\ FreerStep("test", "toWait")
          /\ conditionLock' = "freer"
          /\ UNCHANGED desired
       \/ /\ numberOfEmptyRegions # 0 \/ shouldQuit
          /\ FreerStep("test", "release")
          /\ desired' = numberOfEmptyRegions \div 2
          /\ UNCHANGED conditionLock
    /\ UNCHANGED <<regionVars, isCurrentlyAllocating>>

FreerWait ==
    /\ FreerStep("toWait", "waiting")
    /\ conditionLock' = Null
    /\ UNCHANGED <<regionVars, isCurrentlyAllocating, desired>>

(* pthread_cond_wait may return with no signal.                            *)
FreerSpurious ==
    /\ FreerStep("waiting", "test")
    /\ UNCHANGED <<regionVars, isCurrentlyAllocating, conditionLock, desired>>

(* One turn of the releasing loop.                                         *)
FreerRelease ==
    /\ \/ /\ ~ shouldQuit /\ numberOfEmptyRegions > desired
          /\ FreerStep("release", "release")
          /\ DestroyHead
          /\ UNCHANGED desired
       \/ /\ shouldQuit \/ numberOfEmptyRegions <= desired
          /\ FreerStep("release", "top")
          /\ desired' = 0
          /\ UNCHANGED regionVars
    /\ UNCHANGED <<isCurrentlyAllocating, conditionLock>>

-----------------------------------------------------------------------------
Call(c) ==
    \/ \E s \in RegionSets : Allocate(c, s)
    \/ AllocateCustomSize(c)
    \/ \E x \in allocated : Deallocate(c, x) \/ DeallocateCustomSize(c, x)

Finish(c) == AllocateFromNew(c) \/ Signal(c) \/ ReleaseFreeRegions(c)

Destructor == Quit \/ Join

Freer ==
    \/ FreerTop \/ FreerDozed \/ FreerAwake \/ FreerClear
    \/ FreerTest \/ FreerWait \/ FreerRelease

Done == pc[MainClient] = "gone" /\ UNCHANGED vars

Next ==
    \/ \E c \in Clients : Call(c) \/ Finish(c)
    \/ Destroy \/ Destructor
    \/ Freer \/ FreerSpurious
    \/ Done

Spec == Init /\ [][Next]_vars

(* Threads that are running keep running; nothing makes a client call, and  *)
(* nothing has to wake a waiting thread but a signal.  A thread that takes  *)
(* the condition lock gets it, though others take it again and again.      *)
FairSpec ==
    /\ Spec
    /\ WF_vars(Freer)
    /\ SF_vars(Destructor)
    /\ \A c \in Clients : SF_vars(Finish(c))

-----------------------------------------------------------------------------
Listed(s) == Range(fullRegions[s]) \cup Range(partialRegions[s])

(* The lists agree with the regions: every region is in one list, once, the *)
(* list its number of blocks in use calls for, each list's count is its     *)
(* length, and the blocks of a region are either dead or with a client.    *)
(* What tryAllocateFromRegion and deallocate assert of the lists they use,  *)
(* and the destructor of the lists it leaves, follows.                     *)
RegionsConsistent ==
    /\ TypeOK
    /\ IsInjective(emptyRegions) /\ numberOfEmptyRegions = Len(emptyRegions)
    /\ \A s \in RegionSets :
          /\ numberOfPartialRegions[s] = Len(partialRegions[s])
          /\ IsInjective(fullRegions[s]) /\ IsInjective(partialRegions[s])
          /\ \A r \in Listed(s) : setOf[r] = s
    /\ \A r \in Regions :
          LET s == setOf[r]
              used == {x[2] : x \in {y \in allocated : y[1] = r}}
          IN  /\ blocksInUse[r] = Cardinality(used)
              /\ r \in Range(emptyRegions) <=>
                    s \in RegionSets /\ used = {} /\ r \notin Range(newRegion)
              /\ s \in RegionSets =>
                    /\ r \in Range(fullRegions[s]) <=> used = 1 .. TotalBlocks[s]
                    /\ r \in Range(partialRegions[s]) <=>
                          used # {} /\ used # 1 .. TotalBlocks[s]
                    /\ IsInjective(dead[r])
                    /\ Range(dead[r]) = (1 .. TotalBlocks[s]) \ used
    /\ pc[MainClient] = "gone" => \A r \in Regions : setOf[r] = Null

(* Memory goes back: unless threads keep calling the allocator, its empty   *)
(* regions are all released in the end, although each pass of the freeing  *)
(* thread only halves their number and it sleeps until it is signalled.    *)
EmptyRegionsReleased ==
    \/ []<><<\E c \in Clients : Call(c)>>_vars
    \/ <>[](numberOfEmptyRegions = 0)

(* The destructor ends: the freeing thread notices that it is to quit,     *)
(* wherever it is, and is joined.                                          *)
DestructionEnds == pc[MainClient] = "drain" ~> pc[MainClient] = "gone"
=============================================================================
