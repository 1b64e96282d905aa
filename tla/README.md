# JavaScriptCore-iOS: a TLA+ verification project

JavaScriptCore is a JavaScript engine: about a million lines, most of them a
compiler and a library of built-in objects. What is hard to test in it is not
there but underneath: one lock and one JS stack shared by all threads of a
context, a collector with helper threads that marks, sweeps lazily and moves
backing stores, a thread that gives memory back, and compilation threads whose
code rests on assumptions the program may break at any time. This project
models that core, checks it with TLC on small instances and proves the safety
properties of five of its specifications (`JSLock`, `GCPhases`, `ParallelMarking`,
`HeapScheduling` and `DFGWorklist`) with TLAPS for every instance.

The build modelled is the iOS release build (`PLATFORM(IOS)`, assertions off,
`RELEASE_ASSERT` on, `ENABLE(PARALLEL_GC)`, JIT, DFG and LLInt on, FTL and
generational collection off, `fastMalloc` in use and without its scavenger
thread), with two exceptions. `DFGWorklist` and the compiler thread of
`ArrayBuffers` model `ENABLE(CONCURRENT_JIT)`, which `WTF/wtf/Platform.h:755`
switches on for 64-bit Macs only. The run `marked_space` has one assertion compiled in,
because without it the properties do not hold (section 6).

## 1. The parts of the system

| Part (source) | State | Operations | Interacts with | What is hard |
|---|---|---|---|---|
| API lock and JS stack (`runtime/JSLock`, `interpreter/JSStack*`) | owner, lock count, drop depth; frames of all threads on one stack | lock, unlock, dropAllLocks, grabAllLocks, push and pop of frames | every thread that uses the context | threads that leave through callbacks must come back in reverse order |
| GC phases (`heap/GCThreadSharedData`, `GCThread`) | phase, active count, two conditions | start and end of a phase, a GC thread's wait and work, exit | marking, copying | lost and spurious wakeups, late threads |
| Marking (`heap/SlotVisitor*`, `Heap::markRoots`, `WeakMapData`, `WeakBlock`) | mark bits, shared and private mark stacks, opaque roots | drain, donate, steal, terminate, weak rounds | GC phases, weak handles | termination detection, fixpoint of weak rounds |
| Copied space (`heap/CopiedSpace*`, `CopyVisitor*`) | from- and to-space, pinned and oversize blocks, loans | allocate, reallocate, report, evacuate, reclaim | GC phases, block allocator, `MapData` | raw pointers across collections, counting of loans |
| Marked space and incremental sweeper (`heap/MarkedBlock`, `MarkedAllocator`, `MarkedSpace`, `IncrementalSweeper`) | block states, free lists, mark and newly-allocated bits, sweep queue | allocate, stop and resume, collect, three kinds of sweep, shrink | weak handles, release scopes | liveness recorded in three ways, code run in the middle of an allocation |
| Weak handles (`heap/WeakSet`, `WeakBlock`, `Weak`; `runtime/RegExpCache`) | impl states, free lists, sweep results | allocate, clear, visit, reap, sweep, shrink | marked space, finalizers | stale sweep results, finalizers against replaced entries |
| Block allocator (`heap/BlockAllocator`, `Region`) | region lists and counts, condition lock | allocate, deallocate, free empty regions, destroy | both spaces, GC threads | unlocked flags, a thread asleep when memory becomes free |
| Tier-up (`dfg/DFGWorklist`, `DFGPlan`, `DFGDesiredWatchpoints`, `bytecode/Watchpoint`, `jit/JITOperations`) | queue, plans, ready plans, watchpoint sets, installed code | optimize, compile, finalize, jettison, collect, discard, die | several VMs on one worklist | assumptions read by one thread and broken by another |
| Map and Set (`runtime/MapData`, `JSMapIterator`) | entries, three hash tables, iterators | set, get, has, delete, clear, size, iterate, forEach | copied space | packing moves entries under tables and iterators |
| Collection scheduling and the end of a VM (`heap/Heap`, `HeapTimer`, `DeferGC`, `MarkedAllocator`'s slow path, `runtime/GCActivityCallback`, `API/APIShims`, `~VM`) | bytes allocated and abandoned, deferral depth, operation in progress, two timers, references to the VM | collect if necessary, defer, report memory, fire, collect on request, release, destroy | all spaces, the API lock | release scopes drop the lock in the middle of it, timers race the destruction |
| fastMalloc (`WTF/wtf/FastMalloc`, `TCPackedCache`) | spans, page map, central lists and transfer slots, thread caches | malloc, free, realloc's size lookup, populate, evict, coalesce, scavenge, thread exit | everything | locks given up in the middle, unlocked caches |
| Handles, stack scanning, code block sets (`heap/HandleSet`, `MachineStackMarker`, `CodeBlockSet`) | lists and registries of roots | add, remove, gather | marking | registry against exiting threads |
| Array buffers and typed arrays (`runtime/ArrayBuffer*`, `JSArrayBufferView*`, `JSGenericTypedArrayView*`, `heap/GCIncomingRefCounted*`, `DFGStrengthReductionPhase`) | storage, counts, incoming references, modes of views, finalizers | create, slow down, transfer, neuter, collect, finalize, fold into code | marked space, watchpoints, compiler thread | storage that changes owners, views of transferred contents, constants in code |
| Objects (`runtime/Structure`, `PropertyMapHashTable`, `JSArray`, `jit/Repatch`) | structures, tables, butterflies, inline caches | transitions, caching | watchpoints | stale caches |
| Promises, watchdog, code cache, debugger | queues, timers, breakpoints | resolve, arm, prune, step | interpreter | ordering of callbacks |
| Parser, bytecode, interpreter, JITs, assembler, Yarr, built-ins, inspector, API conversions, WTF | | | | sequential; see section 8 |

`PROJECT.json` has the full list with sources and status, and the hazards with
the line at which each bites.

## 2. Modules

Every module that models code has an `MC` module and a `.cfg` beside it, except
those that another one extends (`GCPhases`, `PageHeap`) or instantiates (`OrderedMap`).

| Module | Models | Composition |
|---|---|---|
| `JSLock` | the lock, its scopes and the shared stack | |
| `GCPhases` | phases and the life of GC threads | |
| `ParallelMarking` | what happens inside the Mark phase | extends `GCPhases` |
| `CopyPhase` | the copied space and what happens inside the Copy phase | extends `GCPhases` |
| `MarkedSpace` | cells, blocks, allocators, sweepers | |
| `WeakSet` | the weak handles of one marked block | |
| `BlockAllocator` | regions and the block freeing thread | |
| `DFGWorklist` | plans, compilation threads, watchpoints, VMs | |
| `PageHeap` | fastMalloc's page heap, as functions on a record | |
| `FastMalloc` | thread caches, central lists, and every critical section | extends `PageHeap` |
| `HeapScheduling` | when a collection happens, and how a VM ends | |
| `ArrayBuffers` | storage, buffers, views, and code compiled against them | |
| `OrderedMap` | what a Map promises | abstract specification |
| `MapData` | entries, hash tables, iterators | implements `OrderedMap` |
| `JSLockProofs`, `GCPhasesProofs`, `HeapSchedulingProofs`, `DFGWorklistProofs` | theorems | extend their subject |
| `ParallelMarkingProofs` | theorems | extends `ParallelMarking` and `GCPhasesProofs` |

Variables carry the name of the field they stand for without `m_`; an action
carries the name of the function or of the part of it it models. A few
conventions hold throughout.

* A stretch of code under a lock is one step if it makes no call that waits;
  places between such stretches are values of a `pc`. Waiting on a condition is
  a `pc` of its own, left by a signal, a broadcast or spuriously.
* Code the program chooses to run (scripts, callbacks, finalizers, release of
  Objective-C objects) is nondeterministic, restricted to what the API allows.
* Data races that the code has (an unlocked look at a mark stack, at a flag)
  are choices, or separate steps for the read and its use.
* Variables and fields called history in their comment (`ran`, `seen`, `missed`) record what a
  property refers to; no guard reads them.

**JSLock.** `lockCount`, `ownerThread`, `lockDropDepth` and the mutex; `frames[t]`
is the sequence of scopes thread `t` has open (a `JSLockHolder`, a JS frame, a
`DropAllLocks`), `stack` and `topCallFrame` the JS stack. `lock()` and
`grabAllLocks()` leave the spin lock to take the mutex: two steps.

**GCPhases.** One program counter for the main thread and one for each GC thread;
`sleepA`/`sleepB` are the two loops of `waitForNextPhase`. `ParallelMarking` and
`CopyPhase` take its actions and add what is done inside a phase.

**ParallelMarking.** A heap is a constant: root sets in the order of
`markRoots`, references, opaque roots, weak handles and WeakMap entries. How
many cells are donated or stolen and how long a visitor drains before it looks
for work is left open, so the result covers every option setting.

**CopyPhase.** An object is a store: a block and a number of bytes. Marking is
reduced to `copyLater`; the reports of live bytes, pinning, evacuation, the
exchange of borrowed blocks and the three ways a block is reclaimed are modelled in full.

**MarkedSpace.** One allocator, of one of the kinds of the constant `Kinds`: with
destructors or without, of a fixed cell size or for large cells. The end of a
`DelayedReleaseScope` lets foreign code push a frame on top of the operation
that was interrupted; that code may use, drop and allocate objects, collect and iterate.
`Asserts` says whether `tryAllocate`'s `ASSERT(!m_heap->isBusy())` is compiled in. If so it
ends the process when foreign code reaches the slow path in the middle of another one,
and the model has no such step; if not, the slow paths nest. A kind also says which sizes foreign code
asks for (see section 6 for the large allocator).

**WeakSet.** The marked block is reduced to its cells. Finalizers are those the
repository has: none, one that removes a cache entry by key, and one that
deallocates its own handle and then runs foreign code.

**BlockAllocator.** Regions of one and of two blocks and of one custom-size
block; each section under the region lock is a step.

**FastMalloc.** A heap of pages is a record with the fields of
`TCMalloc_PageHeap`; its operations, all under `pageheap_lock`, are functions from
record to record (`PageHeap`). `FastMalloc` applies them: every stretch between
taking and giving up a spin lock is an action, and a thread's `pc` names the lock it
wants next, so the places where a central list's lock is given up (`Populate`,
`ReleaseToSpans`, `LockInverter`) are points at which other threads run. Blocks
are byte ranges. `realloc` looks a block's class up in an unlocked
cache, and puts it there if it was missing; `BlocksIntact` says that what it would find is
never another class. An entry of the cache is one word, so a read sees a whole entry.
`fastMallocSize` is not modelled: it walks a span's free objects without a lock, and its
only caller here is an assertion (`WTF/wtf/ValueCheck.h:45`).

**HeapScheduling.** `heap` has the members of `Heap` and of the activity callback
that decide when to collect. `frames[t]` are the scopes thread `t` has open: API calls,
deferrals, and *windows*, which are the ends of `DelayedReleaseScope`s that drop the
lock and run callbacks. Marking and sweeping in a collection are one step: they are under the
lock without a break. A failing `RELEASE_ASSERT` in `Heap::collect` sets `crashed` and
stops the model. Time is a countdown to the date of the timer. The delay that an amount of garbage asks
for depends on the length of the last collection, which each collection chooses from
`Lengths`: `NewDelay[length][bytes]`. It is 0 before the first collection, when no length is known, and
may be so long that `scheduleTimer` does not take it. The timer's first date is any up to a decade.

**ArrayBuffers.** A view has the mode, vector, length and buffer it has in the
code; a fast array's vector is in copied space (see `CopyPhase`) and is named by
its cell. Buffers have a count, the deferred flag and the set of incoming references; a
collection marks any subset of the cells the program may have let go of, filters the
references and leaves finalizers for later. A view on a buffer is created in three steps: its
`ConstructionContext` reads the data pointer, the allocation of the cell may collect and run other
code, and `finishCreation` registers the view with the buffer. A wrapper is made by `toJS`, which notes it in
the buffer's `m_wrapper`, or by the `ArrayBuffer` constructor, which does not: a buffer may have
two. `slowDownAndWasteMemory` is two steps
to the compiler thread, in the order of its stores (the concurrent compiler is built for x86-64
only, where stores are seen in their order); the compiler's reads
of length, mode and vector are a step each. Finalizing a plan is two steps: the check that its watchpoints are
still valid, and the installation, which allocates the watchpoint's cell. Sizes are 0 and 1.

**DFGWorklist.** A plan and its code are one number. Compiling is reading the
watchpoint sets the function depends on, one read per step; finalizing is
`isStillValid`, adding the watchpoints and installing.

**MapData.** Keys are what the tables tell apart: numbers (with the doubles that
equal an int), strings (compared by content) and other cells. The entry array,
the three tables, the capacity and both counts are as in the code; reading or
writing through an index beyond the entries, which the code can do for cell
keys, gives any value and changes no entry.

## 3. Runs

| Run | Instance | Shows |
|---|---|---|
| `jslock` | 3 threads, 4 scopes, 3 frames, symmetric | `LocksMatchScopes`: each thread gets back exactly the locks it dropped, and only one is inside; `NoSelfDeadlock`; `StackIntact`: no thread's frames are overwritten or cut off while it is out in a callback |
| `parallel_marking` | main and 2 GC threads, 5 heaps of 6 cells | `ExactlyLiveCellsMarked`: the cells of the least fixpoint are marked, no others, and each is visited once; `WeakPhaseIsExclusive`: termination is detected rightly; `LiveKeyCountExact`; `QuiescentBetweenPhases`; `MarkingEnds` and `DestructionCompletes`: no wakeup of a phase or of a marker is lost |
| `copy_phase` | main and 1 GC thread, 2 stores, 5 blocks | `StoresIntact`: no store is lost or overlaps another, and the raw pointer held across a collection stays good; `SpaceConsistent`: a block has a work list exactly while it is to be evacuated, evacuated blocks hold nothing live when they are reclaimed, filters and loans are exact; `CollectionEnds` |
| `marked_space` | 4 kinds of allocator, up to 2 blocks and 3 cells, foreign code one deep that uses this allocator, assertion of `tryAllocate` on | `ReachableIntact`: used cells are neither freed nor handed out again, and a scan tells objects from free cells; `DestructorsRight`; `BlocksCoherent` |
| `weak_set` | 2 cells, 2 weak blocks of 2 impls, 2 slots, symmetric | `NoDeadCellSeen`, `FinalizedBeforeFreed`, `HandlesCoherent` |
| `block_allocator` | 3 regions, 2 sizes, 2 clients, with and without the freeing thread | `RegionsConsistent`, `EmptyRegionsReleased`, `DestructionEnds` |
| `fast_malloc` | 2 threads, 2 pages of 4 bytes, 2 size classes, symmetric | `SpansConsistent`: page map, free lists and descriptors agree and no two free neighbours with the same state of commitment are left apart; `BlocksIntact`: blocks do not overlap, are committed, and `realloc` finds their size; `ObjectsConserved`: every object of a span is in one place; `SlotsShared`: slots of transfer caches are neither lost nor made; `NoLockCycle` |
| `heap_scheduling` | the run-loop thread and another, scopes 3 deep | `DeferralsRespected`: no garbage is collected while a deferral is open on any thread; `TimerArmed`: garbage has its timer set, in time; `VMOutlivesUsers` |
| `array_buffers` | 3 cells, 1 buffer at a time, 2 pieces of storage | `StorageOwnedOnce`: storage is freed once and in time; `BuffersKept`: a buffer lives exactly as long as its users, and its wrapper is one of them; `ViewsCoherent`: no view shows storage that was transferred; `FoldedConstantsCurrent`: nor does code. The last two exempt a view or a code block that a transfer overtook while it was made (section 6) |
| `dfg_worklist` | 2 VMs, 1 compilation thread (the default number), 2 watchpoint sets, 2 plans | `WorklistConsistent`, `NoStaleSpeculation`, `QuietWhenDiscarding`, `WaitersReleased` |
| `map_data` | number and string keys, 2 values, capacity 2 then 4, 1 iterator at a time | `ImplementsOrderedMap`: every answer and the order of entries are those of `OrderedMap`; `TablesExact`; `NeverTwice` |
| `marked_space_release` | the same kinds, assertion of `tryAllocate` off | violation of `AddBlockAsserts` |

Every property of a passing run has a mutant in `PROJECT.json`: a change to one
definition of the kind a slip in the code would make, under which TLC finds the
property violated.

### Bounds and why they are enough

* `MaxScopes` = 4 lets two threads be out in a callback each, having entered
  again from the callback, while a third waits; `StackSize` = 3 lets a frame of
  each be on the stack and makes `grow` fail.
* The five heaps contain each shape that matters: a cell reached along two
  paths, a weak handle behind an opaque root found late, a chain of WeakMap
  entries in which each value is the next key, dead weak handles, and enough
  width to donate. Two GC threads are needed for a steal to race a donation; for the
  phases alone the theorems cover any number.
* `Sizes` = {2, 3, 5} with `Capacity` = 4: two stores that fit in one block, a pair
  that does not, an oversize store. `EvacuationLimit` = 3: a block with one live store is
  evacuated, one with two is too full and keeps its stores, and gives up the work list it had begun.
  `MaxBlocks` bounds what the mutator fills; five addresses leave room for both spaces.
* Two blocks of an allocator are the least with a current block and another in
  every state. The kind with one block has three cells, so that a free list is half used when
  it is stopped. The large allocator's block has one cell and comes in two sizes.
* Three regions: one in use, one partial or empty, one more to release, so
  that halving takes two passes.
* Two pages: a span is cut in two and coalesces with the one before or after it, in either
  state of commitment. Objects of class 1 fill a page and those of class 2 share one, so
  that a span is deleted by its only object or by the last of two. A thread cache of 7 bytes
  and free lists of one make every free a candidate for scavenging, and with a transfer slot per
  class, and no more in all, slots must be stolen, by force as well. `MaxHeld` = 1 is the block the
  program holds beside what the caches hold. Two pages do not have a span
  that comes free between two others; an instance with three pages and class 2 on spans of two pages does,
  and passes as well (15,859,000 states, too long for a run).
* `Limit` = 1 and `MaxBytes` = 2: below, at and beyond the limit. `MaxFrames` = 3 is an
  API call, a deferral or allocation in it, and a call from the callbacks of that. `Lengths` = {0, 1}:
  no collection was timed yet, when every delay is 0, and one was. The delays are then 3, 2 and 1 with
  `Decade` = 4: `scheduleTimer` ignores the first, which is more than half a decade, and takes the others.
* Three cells are two views of a buffer and the watchpoint of code compiled for
  one, or a view, its wrapper and an array that is waiting for its finalizer. One buffer and two
  pieces of storage: a transfer by copying, or storage that is on its way while a new array is
  made. Cells and pieces of storage are symmetric: no operator chooses among them. One
  thread at a time is in the slow path of allocating a view. `SpareCells` keeps a cell for the
  watchpoint of a plan that has begun.
* `MaxPlans` = 2: an installed compilation and its successor, or a plan of each
  VM. The safety properties also hold with two compilation threads (743,000 states,
  not part of the runs).
* `MinimumMapSize` (8 in the code) = 2 and `MaxCapacity` = 4 give the first
  allocation, one growth and, beyond, failing allocations. `MaxIterations` bounds
  how far `m_iteratorCount` falls: 0 and below 0 are what the code
  distinguishes. Three distinct keys with `MaxIterations` = 1 pass as well (229,000 states).

Symmetry is used in the safety runs `jslock`, `weak_set`, `fast_malloc` and `array_buffers` only; the
threads, cells, weak blocks, slots and pieces of storage permuted are interchangeable in the specification.

### Deadlock

TLC checks it in every run but two. In `dfg_worklist` all VMs may have died and all
plans been used up; in `heap_scheduling` the VM may have been destroyed, or an assertion
have ended the process. `NoLockCycle` is stated for any number of threads in `fast_malloc`,
where two that block each other would not be a deadlock of the whole.

## 4. Fairness

Fairness is stated for threads that the operating system runs and that the code
makes go on by themselves, never for the program.

* `GCPhases`, `ParallelMarking`, `CopyPhase`: weak fairness of each GC thread and of the
  main thread once it is in a collection. Sleeping threads have no enabled step
  until a signal, so a lost wakeup is a violation. Donating is not fair:
  a marker may never share.
* `CopyPhase` also assumes that each report of live bytes is made, which happens
  in the Mark phase, whose end `ParallelMarking` shows.
* `BlockAllocator`: weak fairness of the freeing thread; strong fairness of the
  destructor and of calls in progress, which compete for the condition lock: a
  mutex that starves nobody for ever. `EmptyRegionsReleased` is conditional on
  clients not calling for ever.
* `DFGWorklist`: weak fairness of compilation threads and of a VM that has
  begun to wait.

## 5. Theorems

`GCPhasesProofs`, for any finite set of GC threads.

* `PhaseInvariance`: `PhaseInv` is inductive. Beside the type it says that
  `m_numberOfActiveGCThreads` is the number of threads that are not in the
  second loop of `waitForNextPhase`; that the phase and `m_gcThreadsShouldWait` are
  what the main thread's place calls for; and that a thread that ran in the phase
  is still counted. The count alone is not inductive: that a thread cannot
  join twice needs that it stays in the first loop while the flag is set.
* `PhasesQuiesce`: `[]QuiescentBetweenPhases`.
* `PhasesJoinedOnce`: `OncePerPhase`, an action property, from the same invariant.

`JSLockProofs`, for any set of threads, any bounds.

* `LockInvariance`: `LockInv` is inductive: the mutex is held by the thread that
  believes so, and the number of locks of each prefix of a thread's scopes is what
  will be restored when the scopes above it close.
* `LocksRestored` (`[]LocksMatchScopes`) and `NeverSelfDeadlocked`
  (`[]NoSelfDeadlock`), with either tag of `DropAllLocks`.
* `StackNeverDamaged` (`[]StackIntact`), assuming that no client passes
  `AlwaysDropLocks`. The strengthening is `DepthInv` (at most one scope of one
  thread has dropped locks, and `m_lockDropDepth` says whether) and `StackInv`
  (frames fill the stack without gaps, each thread's in its order, those of the
  thread that is out below all others). `StackIntact` says nothing of the order of
  frames of different threads; popping needs it.

`HeapSchedulingProofs`, for any set of threads, any delays, limits and bounds that
satisfy `SchedulingAssumption`.

* `TimerStaysArmed` (`[]TimerArmed`). The assumption on delays is that they do not grow with the
  garbage; they may be 0 or longer than half a decade. The inductive invariant `TimerInv` has two
  halves. `HeapOK`: the record is typed, and `m_delay` is at most twice the delay that the last byte
  found asked for (`Prompt`), since `scheduleTimer` ignores a delay that is not shorter by half.
  `Settled`: the date of the timer is no later than `m_delay`, which must
  hold for an empty heap too: an allocation moves the date by a difference of delays, not to a date.
* `VMKeptForUsers` (`[]VMOutlivesUsers`). `VMInv` adds that a VM is dead only when the
  embedder has released it: without that a new call could still begin.
* `DeferralsAreRespected` (`DeferralsRespected`, an action property). `Heap::collect` looks at
  `m_deferralDepth` alone; what the property speaks of are the `DeferGC` scopes open in all
  threads. `CountInv` connects the two: the depth is the number of open deferrals, also while a release
  scope has dropped the lock in the middle of them. Then every operation on the heap is shown to be `Quiet`:
  with a depth other than 0 it takes no garbage away.

`ParallelMarkingProofs`, for any finite number of GC threads and finite set of cells, any set of
heaps and any threshold (`MarkingAssumption`).

* `MarkInvariance`: `MarkInv` is inductive. Its parts are those of the argument for a tri-colour
  marker. `Placed`: where the visitors are, against the phase their thread is in. `Quiet`: a visitor
  that is not draining has no work, `m_numberOfActiveParallelMarkers` counts the visitors that may
  have some, and in the weak rounds only the main thread has. `Colours`: a marked cell is on one
  mark stack or was visited (`Stacked`, `Traced`), root sets were appended or are still to be
  (`Rooted`), and every closed set contains what is marked or pending (`Needed`). `Rounds`: what the
  handles and entries already looked at in this round say holds still, or a cell is on
  the stack and there will be another round.
* `WeakPhasesAreExclusive` (`[]WeakPhaseIsExclusive`), from `Quiet`.
* `LiveCellsAreMarked` (`[]ExactlyLiveCellsMarked`): `Traced`, `Rooted` and `Rounds` make the marked
  set closed when marking is over, `Needed` makes it the least closed set.
* `LiveKeysAreCounted` (`[]LiveKeyCountExact`).
* `MarkingImplementsPhases` (`MarkSpec => PhaseSpec /\ []QuiescentBetweenPhases`): every step of
  marking is a step of `GCPhases` or leaves the phases alone, so their theorems carry over.

`DFGWorklistProofs`, for any number of VMs, functions, watchpoint sets, compilation threads (finitely
many) and plans. The inductive invariant `IInv` has the type and four parts. `PlansInv`:
a plan is in one of the places and in no two, known by its function, which has no other code.
`InstalledInv`: code is valid exactly if it is installed. `SetsInv`: what the state of a set says of
its location. `AssumedInv`: what code or a plan assumes of a set is true *unless the set was
invalidated* (which a plan learns only when it is finalized), and valid code is among the watchers
of every set it assumes something of.

* `WorklistIsConsistent` (`[]WorklistConsistent`), `DiscardingIsQuiet` (`[]QuietWhenDiscarding`).
* `SpeculationIsNeverStale` (`[]NoStaleSpeculation`): a statement about valid code only; it is not
  inductive without what `AssumedInv` says of plans that are still being compiled.

The assumptions on constants are the named `ASSUME`s of the modules; TLC evaluates them in the
runs. Each inductive invariant was checked by TLC on the instance of its run before it was
proved. `PhasesJoinedOnce` is proved and not part of a run: the runs use larger
specifications that extend `GCPhases`.

Only model-checked:

* all liveness properties: fairness and `ENABLED` are beyond the prover;
* `MapData`, whose refinement and tables rest on what `SelectSeq` computes on the entries, and
  `FastMalloc`, which moves chains of objects by folds over sequences: both need induction over
  sequences;
* `CopyPhase`, `MarkedSpace`, `WeakSet`, `BlockAllocator` and `ArrayBuffers`: no obstacle of principle, the inductive
  strengthening of their invariants has not been written.

## 6. Where the code and its own statements differ

* **`marked_space_release`.** `MarkedAllocator::tryAllocateHelper` sets `m_currentBlock` to 0 and ends a
  `DelayedReleaseScope`, which runs foreign code without the API lock. If that code allocates
  from the same allocator, the interrupted allocation, having found nothing, goes on to add a block while
  another is current, against `addBlock`'s `ASSERT(!m_currentBlock)` and
  `ASSERT(!m_freeList.head)` (`MarkedAllocator.cpp:135`). The loop around the helper looks again only
  where it found a free list. Where assertions are on, the one in `tryAllocate` stops
  the foreign code first; the run `marked_space` has it, and its three properties hold.

Not runs, but met while modelling:

* In the same place foreign code may ask the *large* allocator for more than the free list has that the
  interrupted allocation just found: the fast path (`MarkedAllocator.h:87`) takes its head without
  comparing sizes. In the runs foreign code asks the large allocator for the smallest size only.
* `MapData::replaceAndPackBackingStore` announces that the hash
  tables are fixed up and does so for two of three (`MapData.cpp:169`). `MapData::clear` also leaves the
  cell-keyed table as it is. With `Objects` = {object1, object2} in `MapData.cfg` TLC finds
  `TablesExact` violated; the run is therefore about keys that are not
  cells other than strings.
* While a release scope has dropped the lock another thread, or a timer, can enter the VM and collect while
  `m_operationInProgress` is `Allocation`, or inside a `DeferGC` of the interrupted thread:
  `Heap::collect` asserts the contrary (`Heap.cpp:751, 757`), and so the process ends.
  `DeferralsRespected` says that nothing is collected then, not that the process goes on.
* Allocating a cell may end a release scope and run foreign code, which can transfer a buffer.
  A view reads the data pointer of its buffer, allocates its cell and then registers with the buffer;
  if the buffer is transferred meanwhile the view is not told and keeps the pointer. `Plan` checks that its
  watchpoints are valid and then allocates the cell of an array's watchpoint; a transfer in between
  leaves code with the old constants. `missed` records both, and `ViewsCoherent` and
  `FoldedConstantsCurrent` leave them out.
* `constructArrayBuffer` makes a wrapper that the buffer's `m_wrapper` does not name, so `toJS` makes
  another one for the same buffer when asked (`SimpleTypedArrayController.cpp:38`).
* `fastMallocSize` walks the free objects of a span without the lock that other threads change them under
  (`FastMalloc.cpp:4755`).
* A timer of the activity callback that fires while it is disabled leaves `m_delay` as it
  was; the next allocation then finds the timer set, which it is, for a decade on. Only a
  collection resets it (`missed` in `HeapScheduling`).
* A comment in `JSFunction`'s constructor (`JSFunction.cpp:91`) says that once the optimizer
  kicks in, the watchpoint of the allocation profile is watched and any change
  deoptimizes. With a concurrent compiler the set is still clear between the compiler's
  read of the profile (`DFGByteCodeParser.cpp:1972`) and the installation of its code, and
  `fireAll` on a clear set does nothing (`Watchpoint.h:104`).
* `ArrayBuffer::transfer` of a pinned buffer copies the contents and still neuters the
  views of script, whose buffer keeps its data.
* `GCIncomingRefCountedSet` adds a buffer's size to its sum when the buffer is registered and
  subtracts the size it has when it is unregistered: bytes transferred in between stay in the sum.
* The constructor of `MapData::const_iterator` does not raise
  `m_iteratorCount`, its destructor lowers it: maps are packed under live
  iterators, which then skip entries, and never again once an iterator has died.
* `DropAllLocks` with `AlwaysDropLocks` defeats the policy described above
  `JSLock::dropAllLocks`: with that tag in `DropTags` TLC finds `StackIntact` violated.
  Nothing in this repository passes it.
* `BlockAllocator` starts its thread in the initialiser list, before its
  constructor initialises the region lock. The thread's first step is a timed wait of a
  second; the model starts after construction.
* `forceOptimizationSlowPathConcurrently` writes the execution counter from a
  compilation thread, unlocked. `DFGWorklist` lets the slow path be entered at any
  time, with or without that write.

## 7. Plan

In the order in which each step makes the next one worth more.

1. *Handles and stack scanning*: `HandleSet`'s lists as a set of strong roots
   (refinement), the registry of threads in `MachineStackMarker` against threads that exit.
2. *Compositions*: `MarkedSpace` with `WeakSet` (one sweep does both);
   `HeapScheduling` with `JSLock` in place of its abstract lock.
3. *Objects*: structure transitions and inline caches, array storage against an
   abstract array, promises and their queue, `MetaAllocator` against a set of free intervals.
4. *Proofs*: `RegionsConsistent` of `BlockAllocator`, `HandlesCoherent` and `NoDeadCellSeen` of
   `WeakSet`, `SpaceConsistent` of `CopyPhase` (whose specification extends `GCPhases` as that of
   marking does), `BlocksCoherent` of `MarkedSpace`, `StorageOwnedOnce` of `ArrayBuffers`.

## 8. Not modelled

* Sequential translation and semantics: parser, bytecode generator, interpreter,
  LLInt, the compilers' phases, assemblers, Yarr, the built-in library, JSON, dates.
  Their specification is ECMAScript or an instruction set, and what can go wrong in them is
  found by tests rather than by interleavings.
* FTL, generational collection, the profilers and the inspector: not in this build, or
  diagnostics.
* Inside the modelled parts: in `JSLock` `GlobalJSLock`; in
  `ParallelMarking` hash-consing of strings and byte counts; in `CopyPhase`
  `freeAllBlocks` and statistics; in `MarkedSpace` zombies, statistics and the choice
  among size classes; in `RegExpCache` the ring of strong entries; in `DFGWorklist`
  the compiler itself beyond the watchpoint sets it consults, execution counters, structure
  transition watchpoints; in `BlockAllocator` super regions (off); in
  `FastMalloc` the enumeration for malloc zones, validation, hardening of list pointers,
  `Split` (used by code that is not compiled), `fastMallocSize` and the size-class table; in `HeapScheduling` the
  changes of the limit and full against eden collections
  (off); in `ArrayBuffers` element types, offsets and the folding of offsets, `set`, failing allocations, the byte count of the set, and the teardown of a VM.
* Libraries: mutexes, conditions and memory barriers have their documented meaning
  (a condition may wake spuriously); hash tables, vectors and lists of WTF are functions, sets
  and sequences; the system supplies memory, or the process ends, except where the code
  handles failure.
