-------------------------- MODULE ParallelMarking --------------------------
(***************************************************************************)
(* The Mark phase: Heap::markRoots with the SlotVisitors of the main       *)
(* thread and of the GC threads (heap/SlotVisitor.cpp, SlotVisitorInlines  *)
(* .h, WeakBlock.cpp, runtime/WeakMapData.cpp), on top of the phases of    *)
(* GCPhases.                                                               *)
(*                                                                         *)
(* A heap is what the collector finds: the root sets in the order in which *)
(* markRoots appends them, the cells a cell refers to and the opaque roots *)
(* it adds when visited, the weak handles whose owner keeps the cell while *)
(* an opaque root was seen, and the entries of the WeakMaps.  A mark stack *)
(* is a set of cells: how many of them a visitor donates or steals (whole  *)
(* segments, or a fraction of one) is left open.  So is the number of      *)
(* cells, at least one, scanned before a donation; and since a donor looks *)
(* at the shared stack unlocked and gives up when m_markingLock is taken,  *)
(* it may always choose not to donate.  A section under m_markingLock is a *)
(* step.  markPc is "drain" at the head of the loop of SlotVisitor::drain  *)
(* and "scan" where the visitor may donate.                                *)
(***************************************************************************)
EXTENDS GCPhases, Sequences

CONSTANTS
    MainThread,        \* the visitor of the collecting thread
    Cells, OpaqueRoots,
    Heaps,             \* the heaps a collection may meet
    MergeThreshold     \* Options::opaqueRootMergeThreshold

WeakHandle == [cell : Cells, root : OpaqueRoots]
Entry == [map : Cells, key : Cells, value : Cells]
HeapType ==
    [roots : Seq(SUBSET Cells), children : [Cells -> SUBSET Cells],
     opaque : [Cells -> SUBSET OpaqueRoots], weak : SUBSET WeakHandle,
     entries : SUBSET Entry]

ASSUME MarkingAssumption ==
    /\ MainThread \notin GCThreads
    /\ IsFiniteSet(Cells)
    /\ Heaps \subseteq HeapType /\ Heaps # {}
    /\ MergeThreshold \in Nat

VARIABLES
    heap,              \* the heap being marked
    marked,            \* the mark bits
    stack,             \* m_stack of each visitor
    pending,           \* what a visitor has yet to append
    opaqueRoots,       \* m_opaqueRoots of each visitor
    sharedMarkStack,   \* m_sharedMarkStack
    sharedOpaqueRoots, \* m_shared.m_opaqueRoots
    harvesters,        \* m_weakReferenceHarvesters: the WeakMaps visited
    activeMarkers,     \* m_numberOfActiveParallelMarkers
    sharing,           \* history: visitors in drainFromShared
    markPc,            \* where each visitor is
    batches,           \* the root sets yet to be appended
    todo,              \* handles, then entries, this weak round has yet to see
    liveKeyCount       \* m_liveKeyCount of each WeakMap

markVars == <<heap, marked, stack, pending, opaqueRoots, sharedMarkStack,
              sharedOpaqueRoots, harvesters, activeMarkers, sharing, markPc,
              batches, todo, liveKeyCount>>
workVars == <<stack, pending, opaqueRoots>>
sharedVars == <<sharedMarkStack, sharedOpaqueRoots, harvesters>>
weakVars == <<todo, liveKeyCount>>
vars == <<phaseVars, markVars>>

Visitors == GCThreads \cup {MainThread}
NumberOfGCMarkers == Cardinality(Visitors)
MarkPcs == {"out", "drain", "scan", "enter", "recheck", "wait", "woken", "weak",
            "harvest", "finished", "ended"}

MarkInit ==
    /\ PhaseInit
    /\ heap \in Heaps
    /\ marked = {}
    /\ stack = [v \in Visitors |-> {}]
    /\ pending = [v \in Visitors |-> {}]
    /\ opaqueRoots = [v \in Visitors |-> {}]
    /\ sharedMarkStack = {}
    /\ sharedOpaqueRoots = {}
    /\ harvesters = {}
    /\ activeMarkers = 0
    /\ sharing = {}
    /\ markPc = [v \in Visitors |-> "out"]
    /\ batches = <<>>
    /\ todo = {}
    /\ liveKeyCount = [c \in Cells |-> 0]

Draining(v) == markPc[v] \in {"drain", "scan"}

Go(v, pc) == markPc' = [markPc EXCEPT ![v] = pc]
(* m_markingCondition.broadcast(), and the step of v itself to pc.         *)
BroadcastAndGo(v, pc) ==
    markPc' = [u \in Visitors |-> IF u = v THEN pc
                                  ELSE IF markPc[u] = "wait" THEN "woken" ELSE markPc[u]]
-----------------------------------------------------------------------------
(* Heap::markRoots up to the first root set: the mark bits are cleared and *)
(* the phase starts.  Between collections the mutator may have changed     *)
(* everything.                                                             *)
StartMarking ==
    /\ markPc[MainThread] = "out"
    /\ StartNextPhase("Mark")
    /\ heap' \in Heaps
    /\ marked' = {}
    /\ batches' = heap'.roots
    /\ Go(MainThread, "drain")
    /\ UNCHANGED <<workVars, sharedVars, activeMarkers, sharing, weakVars>>

(* SlotVisitor::internalAppend: testAndSetMarked is atomic, the visitor    *)
(* that sets the bit has the cell to visit.                                *)
InternalAppend(v) ==
    /\ Draining(v)
    /\ \E c \in pending[v] :
         /\ pending' = [pending EXCEPT ![v] = @ \ {c}]
         /\ marked' = marked \cup {c}
         /\ stack' = [stack EXCEPT ![v] = IF c \in marked THEN @ ELSE @ \cup {c}]
    /\ UNCHANGED <<phaseVars, heap, opaqueRoots, sharedVars, activeMarkers,
                   sharing, markPc, batches, weakVars>>

(* SlotVisitor::drain: removeLast and visitChildren, which adds opaque     *)
(* roots (merging the ones before once they are many) and registers the    *)
(* harvester of a WeakMap.                                                 *)
VisitChildren(v) ==
    /\ Draining(v) /\ pending[v] = {}
    /\ Go(v, "scan")
    /\ \E c \in stack[v] :
         LET added == heap.opaque[c]
             profitable == added # {} /\ Cardinality(opaqueRoots[v]) >= MergeThreshold
         IN  /\ stack' = [stack EXCEPT ![v] = @ \ {c}]
             /\ pending' = [pending EXCEPT ![v] = heap.children[c]]
             /\ opaqueRoots' = [opaqueRoots EXCEPT ![v] =
                                    IF profitable THEN added ELSE @ \cup added]
             /\ sharedOpaqueRoots' = IF profitable THEN sharedOpaqueRoots \cup opaqueRoots[v]
                                                   ELSE sharedOpaqueRoots
             /\ harvesters' = harvesters \cup {e.map : e \in {x \in heap.entries : x.map = c}}
    /\ UNCHANGED <<phaseVars, heap, marked, sharedMarkStack, activeMarkers,
                   sharing, batches, weakVars>>

(* SlotVisitor::donateKnownParallel, when it does donate.                  *)
DonateKnownParallel(v) ==
    /\ markPc[v] = "scan" /\ pending[v] = {}
    /\ Cardinality(stack[v]) >= 2
    /\ \E some \in SUBSET stack[v] \ {{}} :
         /\ stack' = [stack EXCEPT ![v] = @ \ some]
         /\ sharedMarkStack' = sharedMarkStack \cup some
    /\ IF activeMarkers < NumberOfGCMarkers THEN BroadcastAndGo(v, "drain")
                                            ELSE Go(v, "drain")
    /\ UNCHANGED <<phaseVars, heap, marked, pending, opaqueRoots,
                   sharedOpaqueRoots, harvesters, activeMarkers, sharing, batches, weakVars>>

(* The end of SlotVisitor::drain: mergeOpaqueRootsIfNecessary.             *)
MergeOpaqueRoots(v) ==
    /\ Draining(v) /\ stack[v] = {} /\ pending[v] = {}
    /\ sharedOpaqueRoots' = sharedOpaqueRoots \cup opaqueRoots[v]
    /\ opaqueRoots' = [opaqueRoots EXCEPT ![v] = {}]
    /\ UNCHANGED <<phaseVars, heap, marked, stack, sharedMarkStack, harvesters,
                   activeMarkers, sharing, weakVars>>

(* Heap::markRoots appends the next root set and drains again ...          *)
NextRoots ==
    /\ MainThread \notin sharing /\ batches # <<>>
    /\ MergeOpaqueRoots(MainThread)
    /\ pending' = [pending EXCEPT ![MainThread] = Head(batches)]
    /\ batches' = Tail(batches)
    /\ Go(MainThread, "scan")

(* ... or has none left; inside drainFromShared the loop goes round.       *)
FinishDrain(v) ==
    /\ v = MainThread /\ v \notin sharing => batches = <<>>
    /\ MergeOpaqueRoots(v)
    /\ Go(v, IF v \in sharing THEN "recheck" ELSE "enter")
    /\ UNCHANGED <<pending, batches>>
-----------------------------------------------------------------------------
(* SlotVisitor::drainFromShared, its first critical section.               *)
EnterShared(v) ==
    /\ markPc[v] = "enter"
    /\ activeMarkers' = activeMarkers + 1
    /\ sharing' = sharing \cup {v}
    /\ Go(v, "recheck")
    /\ UNCHANGED <<phaseVars, heap, marked, workVars, sharedVars, batches, weakVars>>

(* MarkStackArray::stealSomeCellsFrom, and v is active again; active is    *)
(* the number of active markers without v.                                 *)
Steal(v, active) ==
    /\ \E some \in SUBSET sharedMarkStack \ {{}} :
         /\ stack' = [stack EXCEPT ![v] = @ \cup some]
         /\ sharedMarkStack' = sharedMarkStack \ some
    /\ activeMarkers' = active + 1
    /\ Go(v, "drain")
    /\ UNCHANGED <<phaseVars, heap, marked, pending, opaqueRoots, sharedOpaqueRoots,
                   harvesters, sharing, batches, weakVars>>

Wait(v, active) ==
    /\ activeMarkers' = active
    /\ Go(v, "wait")
    /\ UNCHANGED <<phaseVars, heap, marked, workVars, sharedVars, sharing, batches, weakVars>>

(* MasterDrain: termination is reached when nobody is active and nothing   *)
(* is shared; the weak handles come next.                                  *)
MasterReturn(active) ==
    /\ activeMarkers' = active
    /\ BroadcastAndGo(MainThread, "weak")
    /\ sharing' = sharing \ {MainThread}
    /\ todo' = heap.weak
    /\ UNCHANGED <<phaseVars, heap, marked, workVars, sharedVars, batches, liveKeyCount>>

(* Mutant: an empty shared stack is taken for the end.                     *)
NothingShared(active) == sharedMarkStack = {}

(* Nobody can produce work any more.                                       *)
Terminated(active) == active = 0 /\ sharedMarkStack = {}

MasterEvaluates(active) ==
    \/ Terminated(active) /\ MasterReturn(active)
    \/ sharedMarkStack # {} /\ Steal(MainThread, active)
    \/ sharedMarkStack = {} /\ active # 0 /\ Wait(MainThread, active)

(* SlaveDrain: only m_parallelMarkersShouldExit makes it return.           *)
SlaveReturn(t, active) ==
    /\ LeaveMark(t)
    /\ activeMarkers' = active
    /\ Go(t, "out")
    /\ sharing' = sharing \ {t}
    /\ UNCHANGED <<heap, marked, workVars, sharedVars, batches, weakVars>>

(* The slave's wait loop and what follows it.                              *)
SlaveEvaluates(t, active) ==
    \/ parallelMarkersShouldExit /\ SlaveReturn(t, active)
    \/ /\ ~ parallelMarkersShouldExit
       /\ \/ sharedMarkStack # {} /\ Steal(t, active)
          \/ sharedMarkStack = {} /\ Wait(t, active)

(* The second critical section of drainFromShared, entered by a visitor    *)
(* that was active ...                                                     *)
MasterRecheck == markPc[MainThread] = "recheck" /\ MasterEvaluates(activeMarkers - 1)

(* ... where a slave that finds termination tells the master first ...     *)
SlaveRecheck(t) ==
    /\ markPc[t] = "recheck"
    /\ ~ Terminated(activeMarkers - 1)
    /\ SlaveEvaluates(t, activeMarkers - 1)

(* Mutant: the slave that finds termination tells nobody.                  *)
SlaveTerminatesSilently(t) ==
    /\ markPc[t] = "recheck"
    /\ Terminated(activeMarkers - 1)
    /\ SlaveEvaluates(t, activeMarkers - 1)

SlaveTerminates(t) ==
    /\ markPc[t] = "recheck"
    /\ Terminated(activeMarkers - 1)
    /\ IF parallelMarkersShouldExit
       THEN /\ LeaveMark(t)
            /\ sharing' = sharing \ {t}
            /\ BroadcastAndGo(t, "out")
       ELSE /\ UNCHANGED <<phaseVars, sharing>>
            /\ BroadcastAndGo(t, "wait")
    /\ activeMarkers' = activeMarkers - 1
    /\ UNCHANGED <<heap, marked, workVars, sharedVars, batches, weakVars>>

(* ... and by one that was woken in m_markingCondition.wait.               *)
MasterWoken == markPc[MainThread] = "woken" /\ MasterEvaluates(activeMarkers)
SlaveWoken(t) == markPc[t] = "woken" /\ SlaveEvaluates(t, activeMarkers)

SpuriousMarkerWake(v) ==
    /\ markPc[v] = "wait"
    /\ Go(v, "woken")
    /\ UNCHANGED <<phaseVars, heap, marked, workVars, sharedVars, activeMarkers,
                   sharing, batches, weakVars>>
-----------------------------------------------------------------------------
(* Heap::markRoots, the weak rounds.  WeakBlock::visit looks at one handle *)
(* whose cell is not marked; its owner asks containsOpaqueRoot.            *)
VisitWeakHandle ==
    /\ markPc[MainThread] = "weak"
    /\ \E w \in todo :
         /\ todo' = todo \ {w}
         /\ IF w.root \in sharedOpaqueRoots /\ w.cell \notin marked
            THEN /\ marked' = marked \cup {w.cell}
                 /\ stack' = [stack EXCEPT ![MainThread] = @ \cup {w.cell}]
            ELSE UNCHANGED <<marked, stack>>
    /\ UNCHANGED <<phaseVars, heap, pending, opaqueRoots, sharedVars, activeMarkers,
                   sharing, markPc, batches, liveKeyCount>>

(* Mutant: m_liveKeyCount is not reset for a new round.                    *)
HarvestWithoutReset ==
    /\ markPc[MainThread] = "weak" /\ todo = {}
    /\ todo' = {e \in heap.entries : e.map \in harvesters}
    /\ Go(MainThread, "harvest")
    /\ UNCHANGED <<phaseVars, heap, marked, workVars, sharedVars, activeMarkers,
                   sharing, batches, liveKeyCount>>

(* SlotVisitor::harvestWeakReferences: every harvester starts from zero    *)
(* keys ...                                                                *)
StartHarvest ==
    /\ markPc[MainThread] = "weak" /\ todo = {}
    /\ todo' = {e \in heap.entries : e.map \in harvesters}
    /\ liveKeyCount' = [m \in Cells |-> IF m \in harvesters THEN 0 ELSE liveKeyCount[m]]
    /\ Go(MainThread, "harvest")
    /\ UNCHANGED <<phaseVars, heap, marked, workVars, sharedVars, activeMarkers,
                   sharing, batches>>

(* ... and DeadKeyCleaner::visitWeakReferences looks at one entry.         *)
VisitWeakReference ==
    /\ markPc[MainThread] = "harvest"
    /\ \E e \in todo :
         /\ todo' = todo \ {e}
         /\ IF e.key \in marked
            THEN /\ liveKeyCount' = [liveKeyCount EXCEPT ![e.map] = @ + 1]
                 /\ marked' = marked \cup {e.value}
                 /\ stack' = [stack EXCEPT ![MainThread] =
                                  IF e.value \in marked THEN @ ELSE @ \cup {e.value}]
            ELSE UNCHANGED <<marked, stack, liveKeyCount>>
    /\ UNCHANGED <<phaseVars, heap, pending, opaqueRoots, sharedVars, activeMarkers,
                   sharing, markPc, batches>>

(* Mutant: one weak round is taken to be enough.                           *)
OneWeakRound ==
    /\ markPc[MainThread] = "harvest" /\ todo = {}
    /\ Go(MainThread, "finished")
    /\ UNCHANGED <<phaseVars, heap, marked, workVars, sharedVars, activeMarkers,
                   sharing, batches, weakVars>>

(* visitor.isEmpty() ends the rounds; else donateAndDrain and MasterDrain. *)
EndWeakRound ==
    /\ markPc[MainThread] = "harvest" /\ todo = {}
    /\ Go(MainThread, IF stack[MainThread] = {} THEN "finished" ELSE "scan")
    /\ UNCHANGED <<phaseVars, heap, marked, workVars, sharedVars, activeMarkers,
                   sharing, batches, weakVars>>

(* GCThreadSharedData::didFinishMarking ...                                *)
DidFinishMarking ==
    /\ markPc[MainThread] = "finished"
    /\ StopMarkers
    /\ BroadcastAndGo(MainThread, "ended")
    /\ UNCHANGED <<heap, marked, workVars, sharedVars, activeMarkers, sharing, batches, weakVars>>

(* ... and, after endCurrentPhase, SlotVisitor::reset, resetChildren and   *)
(* GCThreadSharedData::reset.                                              *)
ResetMarking ==
    /\ mainPc = "idle" /\ markPc[MainThread] = "ended"
    /\ sharedOpaqueRoots' = {}
    /\ harvesters' = {}
    /\ Go(MainThread, "out")
    /\ UNCHANGED <<phaseVars, heap, marked, workVars, sharedMarkStack, activeMarkers,
                   sharing, batches, weakVars>>

(* GCThread::gcThreadMain starts drainFromShared in the Mark phase.        *)
JoinMarking(t) ==
    /\ currentPhase = "Mark" /\ JoinPhase(t)
    /\ Go(t, "enter")
    /\ UNCHANGED <<heap, marked, workVars, sharedVars, activeMarkers, sharing, batches, weakVars>>

(* The steps of GCPhases outside marking; copying is not part of this      *)
(* module.                                                                 *)
MainPhaseStep == Construct \/ CheckInactivity \/ EndCurrentPhase \/ Join
ThreadPhaseStep(t) ==
    \/ AwaitPhaseEnd(t) \/ BecomeInactive(t) \/ AwaitNextPhase(t)
    \/ currentPhase = "Exit" /\ JoinPhase(t)
PhaseStep ==
    /\ \/ MainPhaseStep \/ SpuriousMainWake
       \/ markPc[MainThread] = "out" /\ Destroy
       \/ Destroyed
       \/ \E t \in GCThreads : ThreadPhaseStep(t) \/ SpuriousWake(t)
    /\ UNCHANGED markVars
-----------------------------------------------------------------------------
DrainStep(v) ==
    InternalAppend(v) \/ VisitChildren(v) \/ FinishDrain(v) \/ EnterShared(v)
SlaveStep(t) ==
    \/ DrainStep(t) \/ SlaveRecheck(t) \/ SlaveTerminates(t) \/ SlaveWoken(t)
    \/ JoinMarking(t)
MasterStep ==
    \/ DrainStep(MainThread) \/ NextRoots \/ MasterRecheck \/ MasterWoken
    \/ VisitWeakHandle \/ StartHarvest \/ VisitWeakReference \/ EndWeakRound
    \/ DidFinishMarking \/ ResetMarking

MarkNext ==
    \/ StartMarking
    \/ MasterStep
    \/ \E t \in GCThreads : SlaveStep(t)
    \/ \E v \in Visitors : DonateKnownParallel(v) \/ SpuriousMarkerWake(v)
    \/ PhaseStep

MarkSpec == MarkInit /\ [][MarkNext]_vars

(* Every thread runs.  A marker need not donate.                           *)
MarkFairness ==
    /\ WF_vars(MasterStep)
    /\ WF_vars(MainPhaseStep /\ UNCHANGED markVars)
    /\ \A t \in GCThreads :
         WF_vars(SlaveStep(t) \/ (ThreadPhaseStep(t) /\ UNCHANGED markVars))

FairMarkSpec == MarkSpec /\ MarkFairness
-----------------------------------------------------------------------------
MarkTypeOK ==
    /\ heap \in Heaps
    /\ marked \in SUBSET Cells
    /\ stack \in [Visitors -> SUBSET Cells]
    /\ pending \in [Visitors -> SUBSET Cells]
    /\ opaqueRoots \in [Visitors -> SUBSET OpaqueRoots]
    /\ sharedMarkStack \in SUBSET Cells
    /\ sharedOpaqueRoots \in SUBSET OpaqueRoots
    /\ harvesters \in SUBSET Cells
    /\ activeMarkers \in Nat
    /\ sharing \in SUBSET Visitors
    /\ markPc \in [Visitors -> MarkPcs]
    /\ batches \in Seq(SUBSET Cells)
    /\ todo \in SUBSET (WeakHandle \cup Entry)
    /\ liveKeyCount \in [Cells -> Nat]

(* A set of cells that keeps everything the heap says must be kept.        *)
Closed(S) ==
    /\ \A i \in 1 .. Len(heap.roots) : heap.roots[i] \subseteq S
    /\ \A c \in S : heap.children[c] \subseteq S
    /\ \A w \in heap.weak : (\E c \in S : w.root \in heap.opaque[c]) => w.cell \in S
    /\ \A e \in heap.entries : {e.map, e.key} \subseteq S => e.value \in S

MarkingOver == markPc[MainThread] \in {"finished", "ended"}

(* When markRoots is done, every cell that is reachable, strongly, through *)
(* an opaque root or through a WeakMap with a live key, is marked: nothing *)
(* live is swept, however the markers interleaved.  No marker ever marks a *)
(* cell that some closed set does without.  And no cell is on two mark     *)
(* stacks, and those on one are marked: each is visited once.              *)
ExactlyLiveCellsMarked ==
    /\ MarkTypeOK
    /\ MarkingOver => Closed(marked)
    /\ markPc[MainThread] # "out" => \A S \in SUBSET Cells : Closed(S) => marked \subseteq S
    /\ \A v \in Visitors :
         /\ \A u \in Visitors \ {v} : stack[u] \cap stack[v] = {}
         /\ stack[v] \cap sharedMarkStack = {}
         /\ stack[v] \cup sharedMarkStack \subseteq marked

(* While the main thread deals with weak references, outside parallel      *)
(* mode, no marker holds work or opaque roots: MasterDrain has detected    *)
(* termination correctly, and containsOpaqueRoot misses no root.           *)
WeakPhaseIsExclusive ==
    markPc[MainThread] \in {"weak", "harvest", "finished", "ended"} =>
        /\ sharedMarkStack = {}
        /\ \A v \in Visitors : pending[v] = {} /\ opaqueRoots[v] = {}
        /\ \A t \in GCThreads : stack[t] = {}
        /\ \A c \in marked \ stack[MainThread] : heap.opaque[c] \subseteq sharedOpaqueRoots

(* finalizeUnconditionally, which reserves room for exactly the dead keys, *)
(* finds m_liveKeyCount to be the number of marked keys of the WeakMap.    *)
LiveKeyCountExact ==
    MarkingOver =>
        \A m \in marked :
            LET entries == {e \in heap.entries : e.map = m}
            IN  entries # {} =>
                    liveKeyCount[m] = Cardinality({e \in entries : e.key \in marked})

(* The constructor, marking and endCurrentPhase come to an end: no wakeup  *)
(* of m_markingCondition, m_phaseCondition or m_activityCondition is lost. *)
MarkingEnds == mainPc \in {"ctor", "Mark", "marked", "sleep", "check"} ~> mainPc = "idle"
=============================================================================
