----------------------- MODULE ParallelMarkingProofs -----------------------
(***************************************************************************)
(* What module ParallelMarking promises, for every finite number of GC     *)
(* threads and all heaps: ExactlyLiveCellsMarked, WeakPhaseIsExclusive and *)
(* LiveKeyCountExact, and QuiescentBetweenPhases of GCPhases.              *)
(*                                                                         *)
(* The argument is that of a tri-colour marker.  A cell that is marked and *)
(* on no mark stack has been visited: what it refers to is marked or about *)
(* to be appended (Traced), and what a visitor marks, every closed set has *)
(* (Needed).  A visitor that is not draining has no work, and the count of *)
(* active markers is that of the visitors that may have some (Quiet), so   *)
(* that the master which finds nobody active and nothing shared has all    *)
(* the work; the weak rounds are its own (Weakly, Harvested).              *)
(***************************************************************************)
EXTENDS ParallelMarking, GCPhasesProofs

(* The places of a GC thread, those where a visitor is counted active, and *)
(* those of the main thread at which it is the only one with work.         *)
SlavePcs == {"out", "drain", "scan", "enter", "recheck", "wait", "woken"}
ActiveMarkPcs == {"drain", "scan", "recheck"}
AlonePcs == {"out", "weak", "harvest", "finished", "ended"}

Marking == markPc[MainThread] # "out"
CountedMarkers == {v \in sharing : markPc[v] \in ActiveMarkPcs}

(* Where the visitors are, and who is in drainFromShared.                  *)
SlaveAt(t) ==
    /\ markPc[t] \in SlavePcs
    /\ threadPc[t] = "Mark" <=> markPc[t] # "out"
    /\ t \in sharing <=> markPc[t] \notin {"out", "enter"}
MasterAt ==
    /\ MainThread \in sharing => markPc[MainThread] \in {"drain", "scan", "recheck", "wait", "woken"}
    /\ markPc[MainThread] \in {"recheck", "wait", "woken"} => MainThread \in sharing
    /\ batches # <<>> => Draining(MainThread) /\ MainThread \notin sharing
Placed == MasterAt /\ \A t \in GCThreads : SlaveAt(t)

(* Who may have work.                                                      *)
QuietAt(v) ==
    ~Draining(v) => /\ pending[v] = {} /\ opaqueRoots[v] = {}
                    /\ markPc[v] \notin {"weak", "harvest"} => stack[v] = {}
Alone ==
    /\ markPc[MainThread] \in AlonePcs =>
          sharedMarkStack = {} /\ \A t \in GCThreads : ~Draining(t)
    /\ ~Marking => sharedOpaqueRoots = {} /\ harvesters = {}
Counted == activeMarkers = Cardinality(CountedMarkers)
Quiet == Counted /\ Alone /\ \A v \in Visitors : QuietAt(v)

(* A marked cell is on at most one mark stack, and no other is on any.     *)
Stacked ==
    /\ \A c \in sharedMarkStack : c \in marked
    /\ \A v \in Visitors : \A c \in stack[v] :
          c \in marked /\ c \notin sharedMarkStack /\ \A u \in Visitors : c \in stack[u] => u = v

(* A marked cell that is on no mark stack was visited.                     *)
Waiting(c) == c \in sharedMarkStack \/ \E v \in Visitors : c \in stack[v]
Visited(c) ==
    /\ \A d \in heap.children[c] : d \in marked \/ \E v \in Visitors : d \in pending[v]
    /\ \A o \in heap.opaque[c] : o \in sharedOpaqueRoots \/ \E v \in Visitors : o \in opaqueRoots[v]
    /\ \A x \in heap.entries : x.map = c => c \in harvesters
Traced == \A c \in marked : Waiting(c) \/ Visited(c)

(* A root set was appended, or will be.                                    *)
Rooted ==
    /\ \A i \in 1..Len(heap.roots) :
          \/ \A c \in heap.roots[i] : c \in marked \/ c \in pending[MainThread]
          \/ \E j \in 1..Len(batches) : batches[j] = heap.roots[i]
    /\ \A j \in 1..Len(batches) : \E i \in 1..Len(heap.roots) : batches[j] = heap.roots[i]

(* Nothing is marked without need, nor an opaque root or a WeakMap made up.*)
Needed ==
    /\ \A S \in SUBSET Cells : Closed(S) =>
          marked \subseteq S /\ \A v \in Visitors : pending[v] \subseteq S
    /\ \A o \in sharedOpaqueRoots : \E c \in marked : o \in heap.opaque[c]
    /\ \A v \in Visitors : \A o \in opaqueRoots[v] : \E c \in marked : o \in heap.opaque[c]
    /\ \A c \in harvesters : c \in marked

(* The weak handles seen in this round, and the entries of the WeakMaps.   *)
Kept(w) == w.root \in sharedOpaqueRoots => w.cell \in marked
LiveEntries(m) == {x \in heap.entries : x.map = m /\ x \notin todo /\ x.key \in marked}
Weakly ==
    /\ markPc[MainThread] = "weak" =>
          todo \subseteq heap.weak /\ \A w \in heap.weak : w \notin todo => Kept(w)
    /\ markPc[MainThread] \in {"harvest", "finished", "ended"} => \A w \in heap.weak : Kept(w)
Harvested ==
    /\ markPc[MainThread] \in {"harvest", "finished", "ended"} =>
          /\ todo \subseteq {x \in heap.entries : x.map \in harvesters}
          /\ \A x \in heap.entries : x.map \in harvesters /\ x \notin todo /\ x.key \in marked =>
                x.value \in marked \/ x.key \in stack[MainThread]
          /\ stack[MainThread] = {} =>
                \A m \in harvesters : liveKeyCount[m] = Cardinality(LiveEntries(m))
    /\ markPc[MainThread] \in {"finished", "ended"} => todo = {}

(* What is known of the cells, and of the weak rounds.                     *)
Colours == Stacked /\ (Marking => Traced /\ Rooted /\ Needed)
Rounds == Weakly /\ Harvested

MarkInv == MarkTypeOK /\ PhaseInv /\ Placed /\ Quiet /\ Colours /\ Rounds

-----------------------------------------------------------------------------
(* What a heap is made of.                                                 *)
HeapFacts(h) ==
    /\ h.roots \in Seq(SUBSET Cells)
    /\ \A c \in Cells : h.children[c] \in SUBSET Cells /\ h.opaque[c] \in SUBSET OpaqueRoots
    /\ h.weak \in SUBSET WeakHandle /\ h.entries \in SUBSET Entry

(* Every heap of Heaps has the fields of HeapType.                         *)
LEMMA HeapTyped == \A h \in Heaps : HeapFacts(h)
BY MarkingAssumption, Zenon DEF HeapFacts, HeapType

(* The fields of a weak handle and of an entry of a WeakMap.               *)
LEMMA WeakTyped ==
    /\ \A w \in WeakHandle : w.cell \in Cells /\ w.root \in OpaqueRoots
    /\ \A x \in Entry : x.map \in Cells /\ x.key \in Cells /\ x.value \in Cells
BY Zenon DEF WeakHandle, Entry

(* The main thread is a visitor, and not a GC thread.                      *)
LEMMA VisitorFacts ==
    /\ MainThread \in Visitors /\ MainThread \notin GCThreads
    /\ \A t \in GCThreads : t \in Visitors /\ t # MainThread
    /\ \A v \in Visitors : v # MainThread => v \in GCThreads
    /\ IsFiniteSet(Visitors)
<1>1. IsFiniteSet(Visitors)
  BY GCThreadsAssumption, FS_AddElement, Zenon DEF Visitors
<1>. QED
  BY <1>1, MarkingAssumption, Zenon DEF Visitors

-----------------------------------------------------------------------------
(* The step of one visitor: v comes to pc, and the others stay where they  *)
(* are or are woken.                                                       *)
Stays(u) ==
    /\ u \in sharing' <=> u \in sharing
    /\ markPc'[u] # markPc[u] => markPc[u] = "wait" /\ markPc'[u] = "woken"
Moved(v, pc) ==
    /\ markPc' \in [Visitors -> MarkPcs] /\ sharing' \in SUBSET Visitors
    /\ markPc'[v] = pc
    /\ \A u \in Visitors : u # v => Stays(u)

(* A visitor that goes elsewhere, with or without a broadcast, while it    *)
(* enters or leaves drainFromShared or does neither.                       *)
LEMMA GoMoves ==
    ASSUME MarkTypeOK, NEW v \in Visitors, NEW pc \in MarkPcs,
           Go(v, pc) \/ BroadcastAndGo(v, pc),
           sharing' = sharing \/ sharing' = sharing \cup {v} \/ sharing' = sharing \ {v}
    PROVE  Moved(v, pc)
<1>1. markPc \in [Visitors -> MarkPcs] /\ sharing \in SUBSET Visitors /\ "woken" \in MarkPcs
  BY Zenon DEF MarkTypeOK, MarkPcs
<1>2. sharing' \in SUBSET Visitors /\ \A u \in Visitors : u # v => (u \in sharing' <=> u \in sharing)
  BY <1>1, Zenon
<1>3. CASE Go(v, pc)
  BY <1>1, <1>2, <1>3, Zenon DEF Go, Moved, Stays
<1>4. CASE BroadcastAndGo(v, pc)
  BY <1>1, <1>2, <1>4, Zenon DEF BroadcastAndGo, Moved, Stays
<1>. QED
  BY <1>3, <1>4, Zenon

(* The markers that are counted.                                           *)
LEMMA CountedFinite ==
    ASSUME MarkTypeOK
    PROVE  CountedMarkers \subseteq Visitors /\ IsFiniteSet(CountedMarkers)
BY VisitorFacts, FS_Subset, Zenon DEF CountedMarkers, MarkTypeOK

(* A step of v changes them by v.                                          *)
LEMMA CountedMove ==
    ASSUME MarkTypeOK, NEW v \in Visitors, NEW pc, Moved(v, pc)
    PROVE  /\ v \in sharing' /\ pc \in ActiveMarkPcs => CountedMarkers' = CountedMarkers \cup {v}
           /\ ~(v \in sharing' /\ pc \in ActiveMarkPcs) => CountedMarkers' = CountedMarkers \ {v}
<1>1. sharing \subseteq Visitors /\ sharing' \subseteq Visitors
  BY Zenon DEF MarkTypeOK, Moved
<1>2. \A u \in Visitors : u # v => (u \in CountedMarkers' <=> u \in CountedMarkers)
  BY Zenon DEF Moved, Stays, CountedMarkers, ActiveMarkPcs
<1>3. v \in CountedMarkers' <=> v \in sharing' /\ pc \in ActiveMarkPcs
  BY Zenon DEF Moved, CountedMarkers
<1>4. CountedMarkers \subseteq Visitors /\ CountedMarkers' \subseteq Visitors
  BY <1>1, Zenon DEF CountedMarkers
<1>. QED
  BY <1>2, <1>3, <1>4, Zenon

(* The number of active markers without v, as the second critical section  *)
(* of drainFromShared knows it.                                            *)
Others(v, active) == active \in Nat /\ active = Cardinality(CountedMarkers \ {v})

(* What a visitor reads of the count of active markers is the number of    *)
(* the others.                                                             *)
LEMMA OthersKnown ==
    ASSUME MarkTypeOK, Placed, Counted, NEW v \in Visitors
    PROVE  /\ v \in CountedMarkers => Others(v, activeMarkers - 1)
           /\ v \notin CountedMarkers => Others(v, activeMarkers)
           /\ markPc[v] = "recheck" => Others(v, activeMarkers - 1)
           /\ markPc[v] = "woken" => Others(v, activeMarkers)
<1>1. CountedMarkers \subseteq Visitors /\ IsFiniteSet(CountedMarkers)
  BY CountedFinite, Zenon
<1>2. activeMarkers = Cardinality(CountedMarkers) /\ activeMarkers \in Nat
  BY Zenon DEF Counted, MarkTypeOK
<1>3. ASSUME v \in CountedMarkers
      PROVE  Others(v, activeMarkers - 1)
  <2>1. Cardinality(CountedMarkers \ {v}) = activeMarkers - 1 /\ IsFiniteSet(CountedMarkers \ {v})
    BY <1>1, <1>2, <1>3, FS_RemoveElement, Zenon
  <2>2. Cardinality(CountedMarkers \ {v}) \in Nat
    BY <2>1, FS_CardinalityType, Zenon
  <2>. QED
    BY <2>1, <2>2, Zenon DEF Others
<1>4. ASSUME v \notin CountedMarkers
      PROVE  Others(v, activeMarkers)
  <2>1. CountedMarkers \ {v} = CountedMarkers
    BY <1>4, Zenon
  <2>. QED
    BY <1>2, <2>1, Zenon DEF Others
<1>5. markPc[v] = "recheck" => v \in CountedMarkers
  BY VisitorFacts, Zenon DEF Placed, SlaveAt, MasterAt, CountedMarkers, ActiveMarkPcs
<1>6. markPc[v] = "woken" => v \notin CountedMarkers
  BY Zenon DEF CountedMarkers, ActiveMarkPcs
<1>. QED
  BY <1>3, <1>4, <1>5, <1>6

(* The count after a step of v that was counted, or not, before.           *)
LEMMA CountedAfter ==
    ASSUME MarkTypeOK, NEW v \in Visitors, NEW pc, Moved(v, pc), NEW active, Others(v, active)
    PROVE  /\ v \in sharing' /\ pc \in ActiveMarkPcs => Cardinality(CountedMarkers') = active + 1
           /\ ~(v \in sharing' /\ pc \in ActiveMarkPcs) => Cardinality(CountedMarkers') = active
<1>1. IsFiniteSet(CountedMarkers) /\ active \in Nat /\ active = Cardinality(CountedMarkers \ {v})
  BY CountedFinite, Zenon DEF Others
<1>2. IsFiniteSet(CountedMarkers \ {v}) /\ v \notin CountedMarkers \ {v}
  BY <1>1, FS_Subset, Zenon
<1>3. Cardinality((CountedMarkers \ {v}) \cup {v}) = active + 1
  BY <1>1, <1>2, FS_AddElement, Zenon
<1>4. (CountedMarkers \ {v}) \cup {v} = CountedMarkers \cup {v}
  BY Zenon
<1>. QED
  BY <1>1, <1>3, <1>4, CountedMove, Zenon

-----------------------------------------------------------------------------
coreVars == <<heap, marked, stack, pending, opaqueRoots, sharedMarkStack, sharedOpaqueRoots,
              harvesters, batches>>

(* A step that moves no work keeps what is said of the cells.              *)
LEMMA ColoursKept ==
    ASSUME Colours, UNCHANGED coreVars, Marking' => Marking
    PROVE  Colours'
<1>1. Stacked'
  BY Zenon DEF Colours, coreVars, Stacked
<1>2. ASSUME Marking'
      PROVE  Traced' /\ Rooted' /\ Needed'
  <2>1. Traced /\ Rooted /\ Needed
    BY <1>2, Zenon DEF Colours
  <2>2. Traced'
    BY <2>1, Zenon DEF coreVars, Traced, Waiting, Visited
  <2>3. Rooted'
    BY <2>1, Zenon DEF coreVars, Rooted
  <2>4. \A S \in SUBSET Cells : Closed(S)' <=> Closed(S)
    BY Zenon DEF coreVars, Closed
  <2>5. Needed'
    BY <2>1, <2>4, Zenon DEF coreVars, Needed
  <2>. QED
    BY <2>2, <2>3, <2>5, Zenon
<1>. QED
  BY <1>1, <1>2, Zenon DEF Colours

WeakPcs == {"weak", "harvest", "finished", "ended"}
roundVars == <<heap, marked, stack, sharedOpaqueRoots, harvesters, todo, liveKeyCount>>

(* What is said of the weak rounds is kept while the main thread is where  *)
(* it was, and there is nothing to say outside them.                       *)
LEMMA RoundsKept ==
    ASSUME Rounds, UNCHANGED roundVars,
           markPc'[MainThread] \in WeakPcs => markPc'[MainThread] = markPc[MainThread]
    PROVE  Rounds'
<1>1. CASE markPc'[MainThread] \in WeakPcs
  <2>1. \A m : LiveEntries(m)' = LiveEntries(m)
    BY Zenon DEF LiveEntries, roundVars
  <2>2. \A w : Kept(w)' <=> Kept(w)
    BY Zenon DEF Kept, roundVars
  <2>3. Weakly'
    BY <1>1, <2>2, Zenon DEF Rounds, Weakly, roundVars
  <2>4. Harvested'
    BY <1>1, <2>1, Zenon DEF Rounds, Harvested, roundVars
  <2>. QED
    BY <2>3, <2>4, Zenon DEF Rounds
<1>2. CASE markPc'[MainThread] \notin WeakPcs
  BY <1>2, Zenon DEF Rounds, Weakly, Harvested, WeakPcs
<1>. QED
  BY <1>1, <1>2, Zenon

(* Outside the weak rounds.                                                *)
LEMMA NoRound ==
    ASSUME markPc'[MainThread] \notin WeakPcs
    PROVE  Rounds'
BY Zenon DEF Rounds, Weakly, Harvested, WeakPcs

(* The visitors that do not move are where they were.                      *)
LEMMA PlacedMove ==
    ASSUME MarkTypeOK, Placed, NEW v \in Visitors, NEW pc, Moved(v, pc),
           \A t \in GCThreads : t # v => (threadPc'[t] = "Mark" <=> threadPc[t] = "Mark"),
           v \in GCThreads => SlaveAt(v)' /\ UNCHANGED batches,
           v = MainThread => MasterAt'
    PROVE  Placed'
<1>1. ASSUME NEW t \in GCThreads, t # v
      PROVE  SlaveAt(t)'
  <2>1. SlaveAt(t) /\ Stays(t)
    BY <1>1, VisitorFacts, Zenon DEF Placed, Moved
  <2>. QED
    BY <1>1, <2>1, Zenon DEF SlaveAt, Stays, SlavePcs
<1>2. ASSUME v # MainThread
      PROVE  MasterAt'
  <2>1. MasterAt /\ Stays(MainThread) /\ UNCHANGED batches
    BY <1>2, VisitorFacts, Zenon DEF Placed, Moved
  <2>. QED
    BY <2>1, Zenon DEF MasterAt, Stays, Draining
<1>. QED
  BY <1>1, <1>2, VisitorFacts, Zenon DEF Placed

(* The visitors whose work stays have none if they had none.               *)
LEMMA QuietMove ==
    ASSUME MarkTypeOK, \A u \in Visitors : QuietAt(u), NEW v \in Visitors, NEW pc, Moved(v, pc),
           \A u \in Visitors : u # v =>
              pending'[u] = pending[u] /\ opaqueRoots'[u] = opaqueRoots[u] /\ stack'[u] = stack[u],
           QuietAt(v)'
    PROVE  \A u \in Visitors : QuietAt(u)'
<1>1. ASSUME NEW u \in Visitors, u # v
      PROVE  QuietAt(u)'
  <2>1. QuietAt(u) /\ Stays(u)
    BY <1>1, Zenon DEF Moved
  <2>. QED
    BY <1>1, <2>1, Zenon DEF QuietAt, Stays, Draining
<1>. QED
  BY <1>1, Zenon

(* A slave that moves without work to do and gets none leaves the main     *)
(* thread as alone as it was.                                              *)
LEMMA AloneMove ==
    ASSUME MarkTypeOK, Alone, NEW v \in GCThreads, NEW pc, Moved(v, pc), pc \notin {"drain", "scan"},
           UNCHANGED <<sharedMarkStack, sharedOpaqueRoots, harvesters>>
    PROVE  Alone'
<1>1. Stays(MainThread)
  BY VisitorFacts, Zenon DEF Moved
<1>2. markPc'[MainThread] \in AlonePcs => markPc[MainThread] = markPc'[MainThread]
  BY <1>1, Zenon DEF Stays, AlonePcs
<1>3. \A t \in GCThreads : ~Draining(t) => ~Draining(t)'
  BY VisitorFacts, Zenon DEF Moved, Stays, Draining
<1>. QED
  BY <1>2, <1>3, Zenon DEF Alone, Marking, AlonePcs

-----------------------------------------------------------------------------
(* Steps that move no work.                                                *)
(* The types after such a step.                                            *)
LEMMA TypeMove ==
    ASSUME MarkTypeOK, NEW v \in Visitors, NEW pc, Moved(v, pc), UNCHANGED coreVars,
           todo' \in SUBSET (WeakHandle \cup Entry), liveKeyCount' \in [Cells -> Nat],
           activeMarkers' \in Nat
    PROVE  MarkTypeOK'
BY Zenon DEF MarkTypeOK, Moved, coreVars

(* A slave goes where it has no work.                                      *)
LEMMA SlaveIdle ==
    ASSUME MarkInv, PhaseInv', NEW t \in GCThreads, NEW pc \in SlavePcs, Moved(t, pc),
           ~Draining(t), pc \notin {"drain", "scan"},
           UNCHANGED coreVars, UNCHANGED weakVars,
           activeMarkers' \in Nat, Counted', SlaveAt(t)',
           \A u \in GCThreads : u # t => (threadPc'[u] = "Mark" <=> threadPc[u] = "Mark")
    PROVE  MarkInv'
<1>1. t \in Visitors /\ MarkTypeOK /\ Placed /\ Quiet /\ Colours /\ Rounds
  BY VisitorFacts, Zenon DEF MarkInv
<1>2. MarkTypeOK'
  <2>1. todo \in SUBSET (WeakHandle \cup Entry) /\ liveKeyCount \in [Cells -> Nat]
    BY <1>1, Zenon DEF MarkTypeOK
  <2>. QED
    BY <1>1, <2>1, TypeMove, Zenon DEF weakVars
<1>3. Placed'
  <2>1. UNCHANGED batches /\ t # MainThread
    BY VisitorFacts, Zenon DEF coreVars
  <2>. QED
    BY <1>1, <2>1, PlacedMove, Zenon
<1>4. Quiet'
  <2>1. QuietAt(t)'
    <3>1. QuietAt(t) /\ stack[t] = {}
      BY <1>1, Zenon DEF Quiet, QuietAt, Placed, SlaveAt, SlavePcs
    <3>. QED
      BY <3>1, Zenon DEF QuietAt, coreVars
  <2>2. \A u \in Visitors : QuietAt(u)'
    BY <1>1, <2>1, QuietMove, Zenon DEF Quiet, coreVars
  <2>3. Alone'
    BY <1>1, AloneMove, Zenon DEF Quiet, coreVars
  <2>. QED
    BY <2>2, <2>3, Zenon DEF Quiet
<1>5. Stays(MainThread)
  BY VisitorFacts, Zenon DEF Moved
<1>6. Colours'
  <2>1. Marking' => Marking
    BY <1>5, Zenon DEF Marking, Stays
  <2>. QED
    BY <1>1, <2>1, ColoursKept, Zenon
<1>7. Rounds'
  <2>1. markPc'[MainThread] \in WeakPcs => markPc'[MainThread] = markPc[MainThread]
    BY <1>5, Zenon DEF Stays, WeakPcs
  <2>. QED
    BY <1>1, <2>1, RoundsKept, Zenon DEF coreVars, weakVars, roundVars
<1>. QED
  BY <1>2, <1>3, <1>4, <1>6, <1>7, Zenon DEF MarkInv

(* The main thread goes from one place of marking to another.              *)
LEMMA MasterMoves ==
    ASSUME MarkInv, PhaseInv', NEW pc \in MarkPcs, Moved(MainThread, pc), UNCHANGED coreVars,
           Marking, pc # "out", MarkTypeOK', MasterAt', UNCHANGED threadPc, Counted',
           QuietAt(MainThread)', pc \in AlonePcs => Alone', Rounds'
    PROVE  MarkInv'
<1>1. MainThread \in Visitors /\ MarkTypeOK /\ Placed /\ Quiet /\ Colours
  BY VisitorFacts, Zenon DEF MarkInv
<1>2. Placed'
  BY <1>1, VisitorFacts, PlacedMove, Zenon
<1>3. Alone'
  <2>1. markPc'[MainThread] = pc
    BY Zenon DEF Moved
  <2>. QED
    BY <2>1, Zenon DEF Alone, Marking
<1>4. Quiet'
  <2>1. \A u \in Visitors : QuietAt(u)'
    BY <1>1, QuietMove, Zenon DEF Quiet, coreVars
  <2>. QED
    BY <1>3, <2>1, Zenon DEF Quiet
<1>5. Colours'
  BY <1>1, ColoursKept, Zenon
<1>. QED
  BY <1>2, <1>4, <1>5, Zenon DEF MarkInv

-----------------------------------------------------------------------------
(* The steps of the threads that only come and go.                         *)
(* drainFromShared is entered.                                             *)
LEMMA EnterSharedKept ==
    ASSUME MarkInv, PhaseInv', NEW v \in Visitors, EnterShared(v)
    PROVE  MarkInv'
<1>1. MarkTypeOK /\ Placed /\ Quiet /\ Rounds
  BY Zenon DEF MarkInv
<1>2. Moved(v, "recheck")
  BY <1>1, GoMoves, Zenon DEF EnterShared, MarkPcs
<1>3. v \notin CountedMarkers /\ ~Draining(v)
  BY Zenon DEF EnterShared, CountedMarkers, ActiveMarkPcs, Draining
<1>4. activeMarkers \in Nat /\ Cardinality(CountedMarkers') = activeMarkers + 1
  <2>1. Others(v, activeMarkers)
    BY <1>1, <1>3, OthersKnown, Zenon DEF Quiet
  <2>. QED
    BY <1>1, <1>2, <2>1, CountedAfter, Zenon DEF EnterShared, ActiveMarkPcs, Others
<1>5. activeMarkers' \in Nat /\ Counted'
  BY <1>4 DEF EnterShared, Counted
<1>6. UNCHANGED coreVars /\ UNCHANGED weakVars /\ UNCHANGED threadPc
  BY Zenon DEF EnterShared, workVars, sharedVars, coreVars, weakVars, phaseVars
<1>7. CASE v \in GCThreads
  <2>1. SlaveAt(v)'
    BY <1>1, <1>2, <1>6, <1>7, Zenon DEF Placed, SlaveAt, EnterShared, Moved, SlavePcs
  <2>. QED
    BY <1>2, <1>3, <1>5, <1>6, <1>7, <2>1, SlaveIdle DEF SlavePcs
<1>8. CASE v = MainThread
  <2>1. QuietAt(v)'
    BY <1>1, <1>3, <1>6, Zenon DEF Quiet, QuietAt, coreVars, EnterShared
  <2>2. MasterAt'
    BY <1>1, <1>2, <1>6, <1>8 DEF Placed, MasterAt, EnterShared, Moved, coreVars, Draining
  <2>3. MarkTypeOK'
    BY <1>1, <1>2, <1>5, <1>6, TypeMove, Zenon DEF MarkTypeOK, weakVars
  <2>4. Rounds'
    BY <1>2, <1>8, NoRound, Zenon DEF Moved, WeakPcs
  <2>. QED
    BY <1>2, <1>5, <1>6, <1>8, <2>1, <2>2, <2>3, <2>4, MasterMoves
    DEF Marking, EnterShared, MarkPcs, AlonePcs
<1>. QED
  BY <1>7, <1>8, VisitorFacts, Zenon

(* A visitor waits for work.                                               *)
LEMMA WaitKept ==
    ASSUME MarkInv, PhaseInv', NEW v \in Visitors, NEW active, Wait(v, active), Others(v, active),
           markPc[v] \in {"recheck", "woken"}
    PROVE  MarkInv'
<1>1. MarkTypeOK /\ Placed /\ Quiet /\ Rounds
  BY Zenon DEF MarkInv
<1>2. Moved(v, "wait")
  BY <1>1, GoMoves DEF Wait, MarkPcs
<1>3. activeMarkers' \in Nat /\ Counted'
  <2>1. Cardinality(CountedMarkers') = active
    BY <1>1, <1>2, CountedAfter DEF ActiveMarkPcs
  <2>. QED
    BY <2>1, Zenon DEF Wait, Others, Counted
<1>4. UNCHANGED coreVars /\ UNCHANGED weakVars /\ UNCHANGED threadPc
  BY Zenon DEF Wait, workVars, sharedVars, coreVars, weakVars, phaseVars
<1>5. ~Draining(v)
  BY Zenon DEF Draining
<1>6. CASE v \in GCThreads
  <2>1. SlaveAt(v)'
    BY <1>1, <1>2, <1>4, <1>6, Zenon DEF Placed, SlaveAt, Wait, Moved, SlavePcs
  <2>. QED
    BY <1>2, <1>3, <1>4, <1>5, <1>6, <2>1, SlaveIdle DEF SlavePcs
<1>7. CASE v = MainThread
  <2>1. QuietAt(v)'
    BY <1>1, <1>4, <1>5, Zenon DEF Quiet, QuietAt, coreVars
  <2>2. MasterAt'
    BY <1>1, <1>2, <1>4, <1>7, Zenon DEF Placed, MasterAt, Wait, Moved, coreVars, Draining
  <2>3. MarkTypeOK'
    BY <1>1, <1>2, <1>3, <1>4, TypeMove DEF MarkTypeOK, weakVars
  <2>4. Rounds'
    BY <1>2, <1>7, NoRound DEF Moved, WeakPcs
  <2>. QED
    BY <1>2, <1>3, <1>4, <1>7, <2>1, <2>2, <2>3, <2>4, MasterMoves
    DEF Marking, MarkPcs, AlonePcs
<1>. QED
  BY <1>6, <1>7, VisitorFacts, Zenon

(* A visitor wakes up for no reason.                                       *)
LEMMA WakeKept ==
    ASSUME MarkInv, PhaseInv', NEW v \in Visitors, SpuriousMarkerWake(v)
    PROVE  MarkInv'
<1>1. MarkTypeOK /\ Placed /\ Quiet /\ Rounds
  BY Zenon DEF MarkInv
<1>2. Moved(v, "woken")
  BY <1>1, GoMoves, Zenon DEF SpuriousMarkerWake, MarkPcs
<1>3. activeMarkers' \in Nat /\ Counted'
  <2>1. v \notin CountedMarkers
    BY Zenon DEF SpuriousMarkerWake, CountedMarkers, ActiveMarkPcs
  <2>2. Others(v, activeMarkers)
    BY <1>1, <2>1, OthersKnown, Zenon DEF Quiet
  <2>3. Cardinality(CountedMarkers') = activeMarkers
    BY <1>1, <1>2, <2>2, CountedAfter DEF ActiveMarkPcs
  <2>. QED
    BY <1>1, <2>3, Zenon DEF SpuriousMarkerWake, MarkTypeOK, Counted
<1>4. UNCHANGED coreVars /\ UNCHANGED weakVars /\ UNCHANGED threadPc
  BY Zenon DEF SpuriousMarkerWake, workVars, sharedVars, coreVars, weakVars, phaseVars
<1>5. ~Draining(v) /\ markPc[v] = "wait"
  BY Zenon DEF Draining, SpuriousMarkerWake
<1>6. CASE v \in GCThreads
  <2>1. SlaveAt(v)'
    BY <1>1, <1>2, <1>4, <1>5, <1>6, Zenon DEF Placed, SlaveAt, SpuriousMarkerWake, Moved, SlavePcs
  <2>. QED
    BY <1>2, <1>3, <1>4, <1>5, <1>6, <2>1, SlaveIdle, Zenon DEF SlavePcs
<1>7. CASE v = MainThread
  <2>1. QuietAt(v)'
    BY <1>1, <1>4, <1>5, Zenon DEF Quiet, QuietAt, coreVars
  <2>2. MasterAt'
    BY <1>1, <1>2, <1>4, <1>5, <1>7, Zenon DEF Placed, MasterAt, SpuriousMarkerWake, Moved, coreVars, Draining
  <2>3. MarkTypeOK'
    BY <1>1, <1>2, <1>3, <1>4, TypeMove DEF MarkTypeOK, weakVars
  <2>4. Rounds'
    BY <1>2, <1>7, NoRound, Zenon DEF Moved, WeakPcs
  <2>. QED
    BY <1>2, <1>3, <1>4, <1>5, <1>7, <2>1, <2>2, <2>3, <2>4, MasterMoves
    DEF Marking, MarkPcs, AlonePcs
<1>. QED
  BY <1>6, <1>7, VisitorFacts, Zenon

(* A GC thread takes part in marking ...                                   *)
LEMMA JoinKept ==
    ASSUME MarkInv, PhaseInv', NEW t \in GCThreads, JoinMarking(t)
    PROVE  MarkInv'
<1>1. MarkTypeOK /\ PhaseTypeOK /\ Placed /\ Quiet /\ t \in Visitors
  BY VisitorFacts, Zenon DEF MarkInv, PhaseInv
<1>2. Moved(t, "enter")
  BY <1>1, GoMoves, Zenon DEF JoinMarking, MarkPcs
<1>3. /\ threadPc[t] = "wokenB" /\ threadPc'[t] = "Mark"
      /\ \A u \in GCThreads : u # t => threadPc'[u] = threadPc[u]
  BY <1>1, Zenon DEF JoinMarking, JoinPhase, PhaseTypeOK
<1>4. markPc[t] = "out" /\ t \notin sharing
  BY <1>1, <1>3, Zenon DEF Placed, SlaveAt
<1>5. activeMarkers' \in Nat /\ Counted'
  <2>1. t \notin CountedMarkers
    BY <1>4, Zenon DEF CountedMarkers
  <2>2. Others(t, activeMarkers)
    BY <1>1, <2>1, OthersKnown, Zenon DEF Quiet
  <2>3. Cardinality(CountedMarkers') = activeMarkers
    BY <1>1, <1>2, <2>2, CountedAfter DEF ActiveMarkPcs
  <2>. QED
    BY <1>1, <2>3, Zenon DEF JoinMarking, MarkTypeOK, Counted
<1>6. UNCHANGED coreVars /\ UNCHANGED weakVars
  BY Zenon DEF JoinMarking, workVars, sharedVars, coreVars, weakVars
<1>7. ~Draining(t)
  BY <1>4, Zenon DEF Draining
<1>8. SlaveAt(t)'
  BY <1>2, <1>3, <1>4, Zenon DEF SlaveAt, JoinMarking, Moved, SlavePcs
<1>. QED
  BY <1>2, <1>3, <1>5, <1>6, <1>7, <1>8, SlaveIdle DEF SlavePcs

(* ... and leaves it, or waits, once it is told to exit or nothing is left.*)
LEMMA SlaveLeaves ==
    ASSUME MarkInv, PhaseInv', NEW t \in GCThreads, NEW active, Others(t, active),
           markPc[t] \in {"recheck", "woken"},
           LeaveMark(t) /\ sharing' = sharing \ {t}, Go(t, "out") \/ BroadcastAndGo(t, "out"),
           activeMarkers' = active, UNCHANGED coreVars, UNCHANGED weakVars
    PROVE  MarkInv'
<1>1. MarkTypeOK /\ PhaseTypeOK /\ t \in Visitors
  BY VisitorFacts, Zenon DEF MarkInv, PhaseInv
<1>2. Moved(t, "out")
  BY <1>1, GoMoves DEF MarkPcs
<1>3. threadPc'[t] = "enter" /\ \A u \in GCThreads : u # t => threadPc'[u] = threadPc[u]
  BY <1>1, Zenon DEF LeaveMark, PhaseTypeOK
<1>4. activeMarkers' \in Nat /\ Counted'
  <2>1. Cardinality(CountedMarkers') = active
    BY <1>1, <1>2, CountedAfter, Zenon DEF ActiveMarkPcs
  <2>. QED
    BY <2>1, Zenon DEF Others, Counted
<1>5. ~Draining(t)
  BY Zenon DEF Draining
<1>6. SlaveAt(t)'
  BY <1>2, <1>3, Zenon DEF SlaveAt, Moved, SlavePcs
<1>. QED
  BY <1>2, <1>3, <1>4, <1>5, <1>6, SlaveIdle, Zenon DEF SlavePcs

(* A slave that finds termination tells the others.                        *)
LEMMA SlaveTerminatesKept ==
    ASSUME MarkInv, PhaseInv', NEW t \in GCThreads, SlaveTerminates(t)
    PROVE  MarkInv'
<1>1. MarkTypeOK /\ Placed /\ Quiet /\ t \in Visitors
  BY VisitorFacts, Zenon DEF MarkInv
<1>2. markPc[t] = "recheck" /\ Others(t, activeMarkers - 1)
  BY <1>1, OthersKnown, Zenon DEF SlaveTerminates, Quiet
<1>3. UNCHANGED coreVars /\ UNCHANGED weakVars /\ activeMarkers' = activeMarkers - 1
  BY Zenon DEF SlaveTerminates, workVars, sharedVars, coreVars, weakVars
<1>4. CASE parallelMarkersShouldExit
  BY <1>2, <1>3, <1>4, SlaveLeaves, Zenon DEF SlaveTerminates
<1>5. CASE ~parallelMarkersShouldExit
  <2>1. UNCHANGED threadPc /\ UNCHANGED sharing /\ BroadcastAndGo(t, "wait")
    BY <1>5, Zenon DEF SlaveTerminates, phaseVars
  <2>2. Moved(t, "wait")
    BY <1>1, <2>1, GoMoves, Zenon DEF MarkPcs
  <2>3. activeMarkers' \in Nat /\ Counted'
    <3>1. Cardinality(CountedMarkers') = activeMarkers - 1
      BY <1>1, <1>2, <2>2, CountedAfter DEF ActiveMarkPcs
    <3>. QED
      BY <1>2, <1>3, <3>1, Zenon DEF Others, Counted
  <2>4. SlaveAt(t)'
    BY <1>1, <1>2, <2>1, <2>2, Zenon DEF Placed, SlaveAt, Moved, SlavePcs
  <2>5. ~Draining(t)
    BY <1>2, Zenon DEF Draining
  <2>. QED
    BY <1>3, <2>1, <2>2, <2>3, <2>4, <2>5, SlaveIdle DEF SlavePcs
<1>. QED
  BY <1>4, <1>5, Zenon

-----------------------------------------------------------------------------
(* The main thread, when nobody has work to share: no marker drains.       *)
LEMMA NobodyDrains ==
    ASSUME MarkTypeOK, Placed, Others(MainThread, 0), NEW t \in GCThreads
    PROVE  ~Draining(t) /\ markPc[t] # "recheck"
<1>1. IsFiniteSet(CountedMarkers \ {MainThread}) /\ Cardinality(CountedMarkers \ {MainThread}) = 0
  BY CountedFinite, FS_Subset, Zenon DEF Others
<1>2. CountedMarkers \ {MainThread} = {}
  BY <1>1, FS_EmptySet, Zenon
<1>3. t \notin CountedMarkers
  BY <1>2, VisitorFacts, Zenon
<1>. QED
  BY <1>3, Zenon DEF CountedMarkers, ActiveMarkPcs, Draining, Placed, SlaveAt

(* drainFromShared, master: the master finds the work done and returns to  *)
(* its weak round.                                                         *)
LEMMA MasterReturnKept ==
    ASSUME MarkInv, PhaseInv', NEW active, Others(MainThread, active), Terminated(active),
           markPc[MainThread] \in {"recheck", "woken"}, MasterReturn(active)
    PROVE  MarkInv'
<1>1. MarkTypeOK /\ Placed /\ Quiet /\ MainThread \in Visitors
  BY VisitorFacts, Zenon DEF MarkInv
<1>2. Moved(MainThread, "weak")
  BY <1>1, GoMoves, Zenon DEF MasterReturn, MarkPcs
<1>3. markPc'[MainThread] = "weak" /\ MainThread \notin sharing'
  BY <1>2, Zenon DEF Moved, MasterReturn
<1>4. activeMarkers' \in Nat /\ Counted'
  <2>1. Cardinality(CountedMarkers') = active
    BY <1>1, <1>2, CountedAfter DEF ActiveMarkPcs
  <2>. QED
    BY <2>1, Zenon DEF Others, Counted, MasterReturn
<1>5. UNCHANGED coreVars /\ UNCHANGED liveKeyCount /\ UNCHANGED threadPc /\ todo' = heap.weak
  BY Zenon DEF MasterReturn, workVars, sharedVars, coreVars, phaseVars
<1>6. heap.weak \in SUBSET WeakHandle
  BY <1>1, HeapTyped, Zenon DEF MarkTypeOK, HeapFacts
<1>7. MarkTypeOK'
  BY <1>1, <1>2, <1>4, <1>5, <1>6, TypeMove, SMTT(30) DEF MarkTypeOK
<1>8. MasterAt'
  BY <1>1, <1>3, <1>5, Zenon DEF Placed, MasterAt, coreVars, Draining
<1>9. QuietAt(MainThread)'
  BY <1>1, <1>5, Zenon DEF Quiet, QuietAt, coreVars, Draining
<1>10. Alone'
  <2>1. \A t \in GCThreads : ~Draining(t)
    BY <1>1, NobodyDrains, Zenon DEF Terminated
  <2>2. \A t \in GCThreads : ~Draining(t)'
    BY <1>2, <2>1, VisitorFacts, Zenon DEF Moved, Stays, Draining
  <2>. QED
    BY <1>3, <1>5, <2>2, Zenon DEF Alone, Marking, Terminated, coreVars
<1>11. Rounds'
  BY <1>3, <1>5, Zenon DEF Rounds, Weakly, Harvested, coreVars
<1>. QED
  BY <1>2, <1>4, <1>5, <1>7, <1>8, <1>9, <1>10, <1>11, MasterMoves DEF Marking, MarkPcs

(* The steps of the weak rounds that move no work: the main thread is not  *)
(* in drainFromShared before and after.                                    *)
LEMMA RoundStep ==
    ASSUME MarkInv, PhaseInv', NEW pc \in MarkPcs, Go(MainThread, pc) \/ BroadcastAndGo(MainThread, pc),
           markPc[MainThread] \in {"weak", "harvest", "finished"}, pc \in WeakPcs \cup {"scan"},
           pc \in {"finished", "ended"} => stack[MainThread] = {},
           UNCHANGED coreVars, UNCHANGED <<activeMarkers, sharing, threadPc>>,
           todo' \in SUBSET Entry, liveKeyCount' \in [Cells -> Nat],
           pc \in WeakPcs => Rounds'
    PROVE  MarkInv'
<1>1. MarkTypeOK /\ Placed /\ Quiet /\ MainThread \in Visitors
  BY VisitorFacts, Zenon DEF MarkInv
<1>2. Moved(MainThread, pc)
  BY <1>1, GoMoves, Zenon
<1>3. markPc'[MainThread] = pc /\ MainThread \notin sharing /\ MainThread \notin sharing'
  BY <1>1, <1>2, Zenon DEF Moved, Placed, MasterAt
<1>4. activeMarkers' \in Nat /\ Counted'
  <2>1. Others(MainThread, activeMarkers)
    BY <1>1, <1>3, OthersKnown DEF Quiet, CountedMarkers
  <2>2. Cardinality(CountedMarkers') = activeMarkers
    BY <1>1, <1>2, <1>3, <2>1, CountedAfter, ZenonT(40)
  <2>. QED
    BY <1>1, <2>2, Zenon DEF Counted, MarkTypeOK
<1>5. MarkTypeOK'
  BY <1>1, <1>2, <1>4, TypeMove DEF MarkTypeOK
<1>6. batches = <<>> /\ UNCHANGED batches
  BY <1>1, Zenon DEF Placed, MasterAt, Draining, coreVars
<1>7. MasterAt'
  BY <1>3, <1>6, Zenon DEF MasterAt, Draining, WeakPcs
<1>8. QuietAt(MainThread)'
  BY <1>1, <1>3, Zenon DEF Quiet, QuietAt, coreVars, Draining, WeakPcs
<1>9. pc \in AlonePcs => Alone'
  <2>1. \A t \in GCThreads : ~Draining(t) /\ sharedMarkStack = {}
    BY <1>1, Zenon DEF Quiet, Alone, AlonePcs
  <2>2. sharedMarkStack = {}
    BY <1>1, Zenon DEF Quiet, Alone, AlonePcs
  <2>3. \A t \in GCThreads : ~Draining(t)'
    BY <1>2, <2>1, VisitorFacts, Zenon DEF Moved, Stays, Draining
  <2>. QED
    BY <1>3, <2>2, <2>3, Zenon DEF Alone, Marking, coreVars, AlonePcs, WeakPcs
<1>10. Rounds'
  BY <1>3, NoRound, ZenonT(40) DEF WeakPcs
<1>. QED
  BY <1>2, <1>4, <1>5, <1>7, <1>8, <1>9, <1>10, MasterMoves DEF Marking, WeakPcs

(* The weak references are harvested after the weak handles.               *)
LEMMA StartHarvestKept ==
    ASSUME MarkInv, PhaseInv', StartHarvest
    PROVE  MarkInv'
<1>1. MarkTypeOK /\ Rounds
  BY Zenon DEF MarkInv
<1>2. HeapFacts(heap)
  BY <1>1, HeapTyped, Zenon DEF MarkTypeOK
<1>3. UNCHANGED coreVars /\ UNCHANGED <<activeMarkers, sharing, threadPc>>
  BY Zenon DEF StartHarvest, workVars, sharedVars, coreVars, phaseVars
<1>4. todo' = {x \in heap.entries : x.map \in harvesters} /\ todo' \in SUBSET Entry
  BY <1>2, Zenon DEF StartHarvest, HeapFacts
<1>5. /\ liveKeyCount' \in [Cells -> Nat]
      /\ \A m \in Cells : m \in harvesters => liveKeyCount'[m] = 0
  BY <1>1, Zenon DEF StartHarvest, MarkTypeOK
<1>6. markPc'[MainThread] = "harvest"
  BY <1>1, VisitorFacts, Zenon DEF StartHarvest, Go, MarkTypeOK
<1>7. Weakly'
  BY <1>1, <1>3, <1>6, Zenon DEF Rounds, Weakly, StartHarvest, coreVars, Kept
<1>8. Harvested'
  <2>1. ASSUME NEW m \in harvesters
        PROVE  liveKeyCount'[m] = Cardinality(LiveEntries(m)')
    <3>1. LiveEntries(m)' = {}
      BY <1>3, <1>4, Zenon DEF LiveEntries, coreVars
    <3>2. liveKeyCount'[m] = 0
      BY <1>1, <1>5, Zenon DEF MarkTypeOK
    <3>. QED
      BY <3>1, <3>2, FS_EmptySet, Zenon
  <2>2. harvesters' = harvesters /\ heap' = heap
    BY <1>3, Zenon DEF coreVars
  <2>. QED
    BY <1>4, <1>6, <2>1, <2>2, Zenon DEF Harvested
<1>. QED
  BY <1>3, <1>4, <1>5, <1>7, <1>8, RoundStep DEF StartHarvest, MarkPcs, WeakPcs, Rounds

(* The round ends: more marking if it marked a cell, or the end of         *)
(* marking.                                                                *)
LEMMA EndWeakRoundKept ==
    ASSUME MarkInv, PhaseInv', EndWeakRound
    PROVE  MarkInv'
<1>1. MarkTypeOK /\ Rounds /\ markPc[MainThread] = "harvest" /\ todo = {}
  BY Zenon DEF MarkInv, EndWeakRound
<1>2. UNCHANGED coreVars /\ UNCHANGED weakVars /\ UNCHANGED <<activeMarkers, sharing, threadPc>>
  BY Zenon DEF EndWeakRound, workVars, sharedVars, coreVars, weakVars, phaseVars
<1>3. todo' \in SUBSET Entry /\ liveKeyCount' \in [Cells -> Nat]
  BY <1>1, <1>2, Zenon DEF weakVars, MarkTypeOK
<1>4. CASE stack[MainThread] = {}
  <2>1. Go(MainThread, "finished")
    BY <1>4, Zenon DEF EndWeakRound
  <2>2. markPc'[MainThread] = "finished"
    BY <1>1, <2>1, VisitorFacts, Zenon DEF Go, MarkTypeOK
  <2>3. \A m : LiveEntries(m)' = LiveEntries(m)
    BY <1>2, Zenon DEF LiveEntries, coreVars, weakVars
  <2>4. Weakly'
    BY <1>1, <1>2, <2>2, Zenon DEF Rounds, Weakly, Kept, coreVars
  <2>5. Harvested'
    BY <1>1, <1>2, <2>2, <2>3, Zenon DEF Rounds, Harvested, coreVars, weakVars
  <2>. QED
    BY <1>1, <1>2, <1>3, <1>4, <2>1, <2>4, <2>5, RoundStep DEF MarkPcs, WeakPcs, Rounds
<1>5. CASE stack[MainThread] # {}
  <2>1. Go(MainThread, "scan")
    BY <1>5, Zenon DEF EndWeakRound
  <2>. QED
    BY <1>1, <1>2, <1>3, <2>1, RoundStep, Zenon DEF MarkPcs, WeakPcs
<1>. QED
  BY <1>4, <1>5, Zenon

(* didFinishMarking, after the last round.                                 *)
LEMMA DidFinishKept ==
    ASSUME MarkInv, PhaseInv', DidFinishMarking
    PROVE  MarkInv'
<1>1. MarkTypeOK /\ Quiet /\ Rounds /\ markPc[MainThread] = "finished"
  BY Zenon DEF MarkInv, DidFinishMarking
<1>2. UNCHANGED coreVars /\ UNCHANGED weakVars /\ UNCHANGED <<activeMarkers, sharing, threadPc>>
  BY Zenon DEF DidFinishMarking, StopMarkers, workVars, sharedVars, coreVars, weakVars
<1>3. stack[MainThread] = {} /\ todo = {}
  BY <1>1, VisitorFacts, Zenon DEF Quiet, QuietAt, Draining, Rounds, Harvested
<1>4. todo' \in SUBSET Entry /\ liveKeyCount' \in [Cells -> Nat]
  BY <1>1, <1>2, <1>3, Zenon DEF weakVars, MarkTypeOK
<1>5. BroadcastAndGo(MainThread, "ended") /\ markPc'[MainThread] = "ended"
  BY <1>1, VisitorFacts, Zenon DEF DidFinishMarking, BroadcastAndGo, MarkTypeOK
<1>6. \A m : LiveEntries(m)' = LiveEntries(m)
  BY <1>2, Zenon DEF LiveEntries, coreVars, weakVars
<1>7. Weakly'
  BY <1>1, <1>2, <1>5, Zenon DEF Rounds, Weakly, Kept, coreVars
<1>8. Harvested'
  BY <1>1, <1>2, <1>5, <1>6, Zenon DEF Rounds, Harvested, coreVars, weakVars
<1>. QED
  BY <1>1, <1>2, <1>3, <1>4, <1>5, <1>7, <1>8, RoundStep DEF MarkPcs, WeakPcs, Rounds

(* Marking is over and the visitors are reset.                             *)
LEMMA ResetKept ==
    ASSUME MarkInv, PhaseInv', ResetMarking
    PROVE  MarkInv'
<1>1. MarkTypeOK /\ Placed /\ Quiet /\ Colours /\ MainThread \in Visitors
  BY VisitorFacts, Zenon DEF MarkInv
<1>2. markPc[MainThread] = "ended" /\ MainThread \notin sharing /\ ~Draining(MainThread)
  BY <1>1, Zenon DEF ResetMarking, Placed, MasterAt, Draining
<1>3. /\ UNCHANGED <<heap, marked, stack, pending, opaqueRoots, sharedMarkStack, activeMarkers,
                     sharing, batches, todo, liveKeyCount, threadPc>>
      /\ sharedOpaqueRoots' = {} /\ harvesters' = {}
  BY Zenon DEF ResetMarking, workVars, weakVars, phaseVars
<1>4. Moved(MainThread, "out")
  BY <1>1, <1>3, GoMoves, Zenon DEF ResetMarking, MarkPcs
<1>5. markPc'[MainThread] = "out"
  BY <1>4, Zenon DEF Moved
<1>6. MarkTypeOK'
  BY <1>1, <1>3, <1>4 DEF MarkTypeOK, Moved
<1>7. Placed'
  <2>1. MasterAt'
    BY <1>1, <1>2, <1>3, <1>5, Zenon DEF Placed, MasterAt
  <2>. QED
    BY <1>1, <1>3, <1>4, <2>1, VisitorFacts, PlacedMove, Zenon
<1>8. Quiet'
  <2>1. Counted'
    <3>1. Others(MainThread, activeMarkers)
      BY <1>1, <1>2, OthersKnown, Zenon DEF Quiet, CountedMarkers
    <3>. QED
      BY <1>1, <1>2, <1>3, <1>4, <3>1, CountedAfter, Zenon DEF Counted
  <2>2. QuietAt(MainThread)'
    BY <1>1, <1>2, <1>3, Zenon DEF Quiet, QuietAt
  <2>3. \A u \in Visitors : QuietAt(u)'
    BY <1>1, <1>3, <1>4, <2>2, QuietMove, Zenon DEF Quiet
  <2>4. \A t \in GCThreads : ~Draining(t)'
    BY <1>1, <1>2, <1>4, VisitorFacts, Zenon DEF Quiet, Alone, AlonePcs, Moved, Stays, Draining
  <2>5. sharedMarkStack' = {}
    BY <1>1, <1>2, <1>3, Zenon DEF Quiet, Alone, AlonePcs
  <2>. QED
    BY <1>3, <2>1, <2>3, <2>4, <2>5, Zenon DEF Quiet, Alone
<1>9. Colours'
  BY <1>1, <1>3, <1>5, Zenon DEF Colours, Stacked, Marking
<1>10. Rounds'
  BY <1>5, NoRound DEF WeakPcs
<1>. QED
  BY <1>6, <1>7, <1>8, <1>9, <1>10, Zenon DEF MarkInv

(* A collection starts: nobody has any work left from the one before.      *)
LEMMA StartKept ==
    ASSUME MarkInv, PhaseInv', StartMarking
    PROVE  MarkInv'
<1>1. MarkTypeOK /\ PhaseTypeOK /\ Placed /\ Quiet /\ Colours /\ MainThread \in Visitors
  BY VisitorFacts, Zenon DEF MarkInv, PhaseInv
<1>2. markPc[MainThread] = "out" /\ MainThread \notin sharing /\ ~Draining(MainThread)
  BY <1>1, Zenon DEF StartMarking, Placed, MasterAt, Draining
<1>3. /\ UNCHANGED <<stack, pending, opaqueRoots, sharedMarkStack, sharedOpaqueRoots, harvesters,
                     activeMarkers, sharing, todo, liveKeyCount>>
      /\ heap' \in Heaps /\ marked' = {} /\ batches' = heap'.roots
  BY Zenon DEF StartMarking, workVars, sharedVars, weakVars
<1>4. \A t \in GCThreads : threadPc'[t] = "Mark" <=> threadPc[t] = "Mark"
  BY <1>1, ActiveBroadcast, Zenon DEF StartMarking, StartNextPhase
<1>5. Moved(MainThread, "drain")
  BY <1>1, <1>3, GoMoves, Zenon DEF StartMarking, MarkPcs
<1>6. markPc'[MainThread] = "drain"
  BY <1>5, Zenon DEF Moved
<1>7. /\ \A v \in Visitors : stack[v] = {} /\ pending[v] = {} /\ opaqueRoots[v] = {}
      /\ sharedMarkStack = {} /\ sharedOpaqueRoots = {} /\ harvesters = {}
  <2>1. \A v \in Visitors : ~Draining(v) /\ markPc[v] \notin {"weak", "harvest"}
    BY <1>1, <1>2, VisitorFacts, Zenon DEF Quiet, Alone, AlonePcs, Placed, SlaveAt, SlavePcs
  <2>. QED
    BY <1>1, <1>2, <2>1, Zenon DEF Quiet, QuietAt, Alone, AlonePcs, Marking
<1>8. MarkTypeOK'
  <2>1. heap'.roots \in Seq(SUBSET Cells)
    BY <1>3, HeapTyped, Zenon DEF HeapFacts
  <2>. QED
    BY <1>1, <1>3, <1>5, <2>1, Zenon DEF MarkTypeOK, Moved
<1>9. Placed'
  <2>1. MasterAt'
    BY <1>2, <1>3, <1>6, Zenon DEF MasterAt, Draining
  <2>. QED
    BY <1>1, <1>4, <1>5, <2>1, VisitorFacts, PlacedMove, Zenon
<1>10. Quiet'
  <2>1. Counted'
    <3>1. Others(MainThread, activeMarkers)
      BY <1>1, <1>2, OthersKnown, Zenon DEF Quiet, CountedMarkers
    <3>. QED
      BY <1>1, <1>2, <1>3, <1>5, <3>1, CountedAfter, Zenon DEF Counted
  <2>2. \A u \in Visitors : QuietAt(u)'
    BY <1>3, <1>7, Zenon DEF QuietAt
  <2>3. Alone'
    BY <1>6, Zenon DEF Alone, AlonePcs, Marking
  <2>. QED
    BY <2>1, <2>2, <2>3, Zenon DEF Quiet
<1>11. Colours'
  <2>1. Stacked' /\ Traced'
    BY <1>3, <1>7, Zenon DEF Stacked, Traced
  <2>2. Rooted'
    BY <1>3, Zenon DEF Rooted
  <2>3. Needed'
    BY <1>3, <1>7, Zenon DEF Needed
  <2>. QED
    BY <2>1, <2>2, <2>3, Zenon DEF Colours
<1>12. Rounds'
  BY <1>6, NoRound, Zenon DEF WeakPcs
<1>. QED
  BY <1>8, <1>9, <1>10, <1>11, <1>12, Zenon DEF MarkInv

(* What the phases do outside marking.                                     *)
LEMMA PhaseStepKept ==
    ASSUME MarkInv, PhaseInv', UNCHANGED markVars,
           \A t \in GCThreads : threadPc'[t] = "Mark" <=> threadPc[t] = "Mark"
    PROVE  MarkInv'
<1>1. MarkTypeOK /\ Placed /\ Quiet /\ Colours /\ Rounds
  BY Zenon DEF MarkInv
<1>2. UNCHANGED coreVars /\ UNCHANGED roundVars /\ UNCHANGED <<markPc, sharing, activeMarkers>>
  BY Zenon DEF markVars, coreVars, roundVars
<1>3. MarkTypeOK'
  BY <1>1, Zenon DEF MarkTypeOK, markVars
<1>4. Placed'
  BY <1>1, <1>2, Zenon DEF Placed, SlaveAt, MasterAt, Draining, coreVars
<1>5. Quiet'
  <2>1. CountedMarkers' = CountedMarkers
    BY <1>2, Zenon DEF CountedMarkers
  <2>2. Counted' /\ Alone'
    BY <1>1, <1>2, <2>1, Zenon DEF Quiet, Counted, Alone, Marking, Draining, coreVars
  <2>3. \A v \in Visitors : QuietAt(v)'
    BY <1>1, <1>2, Zenon DEF Quiet, QuietAt, Draining, coreVars
  <2>. QED
    BY <2>2, <2>3, Zenon DEF Quiet
<1>6. Colours'
  BY <1>1, <1>2, ColoursKept, Zenon DEF Marking
<1>7. Rounds'
  BY <1>1, <1>2, RoundsKept, Zenon
<1>. QED
  BY <1>3, <1>4, <1>5, <1>6, <1>7 DEF MarkInv

(* They start no marking and end none.                                     *)
LEMMA PhaseStepThreads ==
    ASSUME PhaseInv, PhaseStep
    PROVE  \A t \in GCThreads : threadPc'[t] = "Mark" <=> threadPc[t] = "Mark"
<1>1. PhaseTypeOK
  BY Zenon DEF PhaseInv
<1>2. CASE Construct
  BY <1>2, Zenon DEF Construct, PhaseInv, PhaseOfMain
<1>3. CASE PhaseBroadcast
  BY <1>1, <1>3, ActiveBroadcast, Zenon
<1>4. CASE UNCHANGED threadPc
  BY <1>4, Zenon
<1>5. ASSUME NEW t \in GCThreads, ThreadPhaseStep(t) \/ SpuriousWake(t)
      PROVE  \A u \in GCThreads : threadPc'[u] = "Mark" <=> threadPc[u] = "Mark"
  <2>1. PICK p : threadPc' = [threadPc EXCEPT ![t] = p] /\ p # "Mark"
    BY <1>5 DEF ThreadPhaseStep, SpuriousWake, AwaitPhaseEnd, BecomeInactive, AwaitNextPhase,
       JoinPhase, Woken
  <2>2. threadPc[t] # "Mark"
    BY <1>5, Zenon DEF ThreadPhaseStep, SpuriousWake, AwaitPhaseEnd, BecomeInactive, AwaitNextPhase, JoinPhase
  <2>. QED
    BY <1>1, <2>1, <2>2, Zenon DEF PhaseTypeOK
<1>6. \/ Construct \/ PhaseBroadcast \/ UNCHANGED threadPc
      \/ \E t \in GCThreads : ThreadPhaseStep(t) \/ SpuriousWake(t)
  BY Zenon DEF PhaseStep, MainPhaseStep, CheckInactivity, EndCurrentPhase, Join, SpuriousMainWake,
     Destroy, Destroyed, phaseVars
<1>. QED
  BY <1>2, <1>3, <1>4, <1>5, <1>6

-----------------------------------------------------------------------------
(* Steps that move work.                                                   *)
(* While any visitor drains, the main thread is not alone, and in no weak  *)
(* round.                                                                  *)
LEMMA DrainingNotAlone ==
    ASSUME Alone, NEW v \in Visitors, Draining(v)
    PROVE  markPc[MainThread] \notin AlonePcs /\ markPc[MainThread] \notin WeakPcs /\ Marking
BY VisitorFacts, Zenon DEF Alone, AlonePcs, WeakPcs, Draining, Marking

(* Visitor v marks cell c, and is to visit it if it was not marked before. *)
Greys(v, c) ==
    /\ UNCHANGED <<heap, sharedMarkStack, sharedOpaqueRoots, harvesters, opaqueRoots, batches>>
    /\ marked' = marked \cup {c}
    /\ \A u \in Visitors : u # v => stack'[u] = stack[u]
    /\ \A d : d \in stack'[v] <=> d \in stack[v] \/ (d = c /\ c \notin marked)
    /\ \A u \in Visitors : \A d :
          (d \in pending'[u] => d \in pending[u]) /\ (d \in pending[u] => d \in pending'[u] \/ d = c)

(* A cell that is reached is marked and put on a stack: the colours are    *)
(* kept.                                                                   *)
LEMMA Greyed ==
    ASSUME Stacked, Traced, Rooted, Needed, MainThread \in Visitors,
           NEW v \in Visitors, NEW c, Greys(v, c),
           \A S \in SUBSET Cells : Closed(S) => c \in S
    PROVE  Stacked' /\ Traced' /\ Rooted' /\ Needed'
<1>0. \A d : d \in marked' <=> d \in marked \/ d = c
  BY Zenon DEF Greys
<1>1. Stacked'
  <2>1. ASSUME NEW u \in Visitors, NEW d \in stack'[u]
        PROVE  d \in marked' /\ d \notin sharedMarkStack' /\ \A w \in Visitors : d \in stack'[w] => w = u
    <3>1. CASE d \in stack[u]
      <4>1. d \in marked /\ d \notin sharedMarkStack /\ \A w \in Visitors : d \in stack[w] => w = u
        BY <3>1, Zenon DEF Stacked
      <4>2. \A w \in Visitors : d \in stack'[w] => d \in stack[w]
        BY <4>1 DEF Greys
      <4>. QED
        BY <1>0, <4>1, <4>2, Zenon DEF Greys
    <3>2. CASE d \notin stack[u]
      <4>1. u = v /\ d = c /\ c \notin marked
        BY <2>1, <3>2, Zenon DEF Greys
      <4>2. d \notin sharedMarkStack /\ \A w \in Visitors : d \notin stack[w]
        BY <4>1, Zenon DEF Stacked
      <4>3. \A w \in Visitors : d \in stack'[w] => w = u
        BY <4>1, <4>2, Zenon DEF Greys
      <4>. QED
        BY <1>0, <4>1, <4>2, <4>3, Zenon DEF Greys
    <3>. QED
      BY <3>1, <3>2, Zenon
  <2>2. \A d \in sharedMarkStack' : d \in marked'
    BY <1>0, Zenon DEF Stacked, Greys
  <2>. QED
    BY <2>1, <2>2, Zenon DEF Stacked
<1>2. Traced'
  <2>1. ASSUME NEW x \in marked, Waiting(x)
        PROVE  Waiting(x)'
    BY <2>1, Zenon DEF Waiting, Greys
  <2>2. ASSUME NEW x \in marked, Visited(x)
        PROVE  Visited(x)'
    <3>1. \A d \in heap.children[x] : d \in marked' \/ \E u \in Visitors : d \in pending'[u]
      BY <1>0, <2>2, Zenon DEF Visited, Greys
    <3>. QED
      BY <2>2, <3>1, Zenon DEF Visited, Greys
  <2>3. c \notin marked => Waiting(c)'
    BY Zenon DEF Waiting, Greys
  <2>. QED
    BY <1>0, <2>1, <2>2, <2>3, Zenon DEF Traced
<1>3. Rooted'
  <2>1. UNCHANGED <<heap, batches>>
    BY Zenon DEF Greys
  <2>2. \A d : d \in marked \/ d \in pending[MainThread] => d \in marked' \/ d \in pending'[MainThread]
    BY <1>0, Zenon DEF Greys
  <2>. QED
    BY <2>1, <2>2, Zenon DEF Rooted
<1>4. Needed'
  <2>1. \A S \in SUBSET Cells : Closed(S)' <=> Closed(S)
    BY Zenon DEF Closed, Greys
  <2>2. ASSUME NEW S \in SUBSET Cells, Closed(S)
        PROVE  marked' \subseteq S /\ \A u \in Visitors : pending'[u] \subseteq S
    <3>1. marked \subseteq S /\ (\A u \in Visitors : pending[u] \subseteq S) /\ c \in S
      BY <2>2, Zenon DEF Needed
    <3>. QED
      BY <1>0, <3>1, Zenon DEF Greys
  <2>3. \A o \in sharedOpaqueRoots : \E x \in marked' : o \in heap.opaque[x]
    BY <1>0, Zenon DEF Needed
  <2>4. \A u \in Visitors : \A o \in opaqueRoots[u] : \E x \in marked' : o \in heap.opaque[x]
    BY <1>0, Zenon DEF Needed
  <2>5. \A x \in harvesters : x \in marked'
    BY <1>0, Zenon DEF Needed
  <2>6. UNCHANGED <<heap, sharedOpaqueRoots, opaqueRoots, harvesters>>
    BY Zenon DEF Greys
  <2>. QED
    BY <2>1, <2>2, <2>3, <2>4, <2>5, <2>6 DEF Needed
<1>. QED
  BY <1>1, <1>2, <1>3, <1>4, Zenon

(* Steps during which every visitor stays where it is.                     *)
LEMMA PlacedKept ==
    ASSUME Placed, Quiet, UNCHANGED <<markPc, sharing, threadPc, batches, activeMarkers>>
    PROVE  Placed' /\ Counted'
<1>1. CountedMarkers' = CountedMarkers
  BY Zenon DEF CountedMarkers
<1>. QED
  BY <1>1, Zenon DEF Placed, SlaveAt, MasterAt, Draining, Quiet, Counted

(* internalAppend, of a child of the cell that is visited.                 *)
LEMMA InternalAppendKept ==
    ASSUME MarkInv, PhaseInv', NEW v \in Visitors, InternalAppend(v)
    PROVE  MarkInv'
<1>1. MarkTypeOK /\ Placed /\ Quiet /\ Colours /\ MainThread \in Visitors /\ Draining(v)
  BY VisitorFacts, Zenon DEF MarkInv, InternalAppend
<1>2. /\ UNCHANGED <<heap, opaqueRoots, sharedMarkStack, sharedOpaqueRoots, harvesters, activeMarkers,
                     sharing, markPc, batches, todo, liveKeyCount, threadPc>>
  BY Zenon DEF InternalAppend, sharedVars, weakVars, phaseVars
<1>3. PICK c \in pending[v] :
         /\ pending' = [pending EXCEPT ![v] = @ \ {c}]
         /\ marked' = marked \cup {c}
         /\ stack' = [stack EXCEPT ![v] = IF c \in marked THEN @ ELSE @ \cup {c}]
  BY Zenon DEF InternalAppend
<1>4. c \in Cells /\ pending \in [Visitors -> SUBSET Cells] /\ stack \in [Visitors -> SUBSET Cells]
  BY <1>1, <1>3, Zenon DEF MarkTypeOK
<1>5. markPc[MainThread] \notin AlonePcs /\ markPc[MainThread] \notin WeakPcs /\ Marking
  BY <1>1, DrainingNotAlone, Zenon DEF Quiet
<1>6. MarkTypeOK'
  BY <1>1, <1>2, <1>3, <1>4 DEF MarkTypeOK
<1>7. Placed' /\ Counted'
  BY <1>1, <1>2, PlacedKept, Zenon
<1>8. Quiet'
  <2>1. \A u \in Visitors : u # v => stack'[u] = stack[u] /\ pending'[u] = pending[u]
    BY <1>3, <1>4, Zenon
  <2>2. \A u \in Visitors : QuietAt(u)'
    BY <1>1, <1>2, <2>1, Zenon DEF Quiet, QuietAt, Draining
  <2>3. Alone'
    BY <1>2, <1>5, Zenon DEF Alone, Marking
  <2>. QED
    BY <1>7, <2>2, <2>3, Zenon DEF Quiet
<1>9. Colours'
  <2>1. Greys(v, c)
    <3>1. \A u \in Visitors : u # v => stack'[u] = stack[u]
      BY <1>3, <1>4, Zenon
    <3>2. \A d : d \in stack'[v] <=> d \in stack[v] \/ (d = c /\ c \notin marked)
      BY <1>3, <1>4, Zenon
    <3>3. \A u \in Visitors : \A d :
            (d \in pending'[u] => d \in pending[u]) /\ (d \in pending[u] => d \in pending'[u] \/ d = c)
      BY <1>3, <1>4, Zenon
    <3>. QED
      BY <1>2, <1>3, <3>1, <3>2, <3>3, Zenon DEF Greys
  <2>2. Stacked /\ Traced /\ Rooted /\ Needed
    BY <1>1, <1>5, Zenon DEF Colours
  <2>3. \A S \in SUBSET Cells : Closed(S) => c \in S
    BY <1>3, <2>2, Zenon DEF Needed
  <2>. QED
    BY <1>1, <2>1, <2>2, <2>3, Greyed, Zenon DEF Colours
<1>10. Rounds'
  BY <1>2, <1>5, NoRound, Zenon
<1>. QED
  BY <1>6, <1>7, <1>8, <1>9, <1>10, ZenonT(40) DEF MarkInv

(* Visitor v visits cell c: what it refers to is to be appended, and what  *)
(* it adds to the opaque roots and to the harvesters is known.             *)
Blackens(v, c) ==
    /\ UNCHANGED <<heap, marked, sharedMarkStack, batches>>
    /\ c \in stack[v] /\ pending[v] = {}
    /\ \A u \in Visitors : u # v => /\ stack'[u] = stack[u] /\ pending'[u] = pending[u]
                                   /\ opaqueRoots'[u] = opaqueRoots[u]
    /\ \A d : d \in stack'[v] <=> d \in stack[v] /\ d # c
    /\ pending'[v] = heap.children[c]
    /\ \A o : o \in opaqueRoots[v] \/ o \in heap.opaque[c] =>
              o \in opaqueRoots'[v] \/ o \in sharedOpaqueRoots'
    /\ \A o : o \in opaqueRoots'[v] => o \in opaqueRoots[v] \/ o \in heap.opaque[c]
    /\ \A o : o \in sharedOpaqueRoots => o \in sharedOpaqueRoots'
    /\ \A o : o \in sharedOpaqueRoots' => o \in sharedOpaqueRoots \/ o \in opaqueRoots[v]
    /\ \A x \in heap.entries : x.map = c => c \in harvesters'
    /\ \A d : d \in harvesters => d \in harvesters'
    /\ \A d : d \in harvesters' => d \in harvesters \/ d = c

(* A cell is taken from a stack and its children become pending: the       *)
(* colours are kept.                                                       *)
LEMMA Blackened ==
    ASSUME Stacked, Traced, Rooted, Needed, MainThread \in Visitors,
           NEW v \in Visitors, NEW c, Blackens(v, c)
    PROVE  Stacked' /\ Traced' /\ Rooted' /\ Needed'
<1>0. c \in marked /\ UNCHANGED <<heap, marked, sharedMarkStack, batches>>
  BY Zenon DEF Stacked, Blackens
<1>1. \A u \in Visitors : \A d : d \in stack'[u] => d \in stack[u]
  BY Zenon DEF Blackens
<1>2. \A u \in Visitors : \A d : d \in pending[u] => d \in pending'[u]
  BY Zenon DEF Blackens
<1>3. Stacked'
  BY <1>0, <1>1, Zenon DEF Stacked
<1>4. Traced'
  <2>1. ASSUME NEW x \in marked, x # c, Waiting(x)
        PROVE  Waiting(x)'
    BY <1>0, <2>1, Zenon DEF Waiting, Blackens
  <2>2. \A o : (\E u \in Visitors : o \in opaqueRoots[u]) =>
           o \in sharedOpaqueRoots' \/ \E u \in Visitors : o \in opaqueRoots'[u]
    BY Zenon DEF Blackens
  <2>3. ASSUME NEW x \in marked, Visited(x)
        PROVE  Visited(x)'
    <3>1. \A d \in heap.children[x] : d \in marked \/ \E u \in Visitors : d \in pending'[u]
      BY <1>2, <2>3, Zenon DEF Visited
    <3>2. \A o \in heap.opaque[x] : o \in sharedOpaqueRoots' \/ \E u \in Visitors : o \in opaqueRoots'[u]
      <4>1. \A o : o \in sharedOpaqueRoots => o \in sharedOpaqueRoots'
        BY Zenon DEF Blackens
      <4>. QED
        BY <2>2, <2>3, <4>1, Zenon DEF Visited
    <3>3. \A e \in heap.entries : e.map = x => x \in harvesters'
      BY <2>3, Zenon DEF Visited, Blackens
    <3>. QED
      BY <1>0, <3>1, <3>2, <3>3, Zenon DEF Visited
  <2>4. Visited(c)'
    <3>1. \A d \in heap.children[c] : \E u \in Visitors : d \in pending'[u]
      BY Zenon DEF Blackens
    <3>2. \A o \in heap.opaque[c] : o \in sharedOpaqueRoots' \/ \E u \in Visitors : o \in opaqueRoots'[u]
      BY Zenon DEF Blackens
    <3>3. \A e \in heap.entries : e.map = c => c \in harvesters'
      BY Zenon DEF Blackens
    <3>. QED
      BY <1>0, <3>1, <3>2, <3>3, Zenon DEF Visited
  <2>. QED
    BY <1>0, <2>1, <2>3, <2>4, Zenon DEF Traced
<1>5. Rooted'
  BY <1>0, <1>2, Zenon DEF Rooted
<1>6. Needed'
  <2>1. \A S \in SUBSET Cells : Closed(S)' <=> Closed(S)
    BY <1>0, Zenon DEF Closed
  <2>2. ASSUME NEW S \in SUBSET Cells, Closed(S)
        PROVE  marked \subseteq S /\ \A u \in Visitors : pending'[u] \subseteq S
    <3>1. marked \subseteq S /\ \A u \in Visitors : pending[u] \subseteq S
      BY <2>2, Zenon DEF Needed
    <3>2. heap.children[c] \subseteq S
      BY <1>0, <2>2, <3>1, Zenon DEF Closed
    <3>. QED
      BY <3>1, <3>2, Zenon DEF Blackens
  <2>3. \A o \in sharedOpaqueRoots' : \E x \in marked : o \in heap.opaque[x]
    BY Zenon DEF Needed, Blackens
  <2>4. \A u \in Visitors : \A o \in opaqueRoots'[u] : \E x \in marked : o \in heap.opaque[x]
    <3>1. \A u \in Visitors : \A o \in opaqueRoots'[u] :
             o \in opaqueRoots[u] \/ (o \in heap.opaque[c])
      BY Zenon DEF Blackens
    <3>. QED
      BY <1>0, <3>1, Zenon DEF Needed
  <2>5. \A x \in harvesters' : x \in marked
    BY <1>0, Zenon DEF Needed, Blackens
  <2>. QED
    BY <1>0, <2>1, <2>2, <2>3, <2>4, <2>5 DEF Needed
<1>. QED
  BY <1>3, <1>4, <1>5, <1>6, Zenon

(* A draining visitor goes on draining: it stays counted, or not.          *)
LEMMA DrainGoesOn ==
    ASSUME MarkInv, NEW v \in Visitors, Draining(v), NEW pc \in {"drain", "scan"}, Moved(v, pc),
           UNCHANGED <<sharing, threadPc, activeMarkers>>,
           v = MainThread => (batches' # <<>> => batches # <<>>),
           v # MainThread => UNCHANGED batches,
           \A u \in Visitors : u # v =>
              pending'[u] = pending[u] /\ opaqueRoots'[u] = opaqueRoots[u] /\ stack'[u] = stack[u]
    PROVE  /\ Placed' /\ Quiet' /\ Rounds' /\ Marking /\ Marking'
           /\ markPc'[MainThread] \notin AlonePcs
<1>1. MarkTypeOK /\ Placed /\ Quiet
  BY Zenon DEF MarkInv
<1>2. Draining(v)' /\ markPc'[v] = pc
  BY Zenon DEF Moved, Draining
<1>3. markPc[MainThread] \notin AlonePcs /\ markPc[MainThread] \notin WeakPcs /\ Marking
  BY <1>1, DrainingNotAlone, Zenon DEF Quiet
<1>4. markPc'[MainThread] \notin AlonePcs /\ markPc'[MainThread] \notin WeakPcs
  BY <1>2, <1>3, VisitorFacts, Zenon DEF Moved, Stays, AlonePcs, WeakPcs
<1>5. Placed'
  <2>1. v \in GCThreads => SlaveAt(v)' /\ UNCHANGED batches
    BY <1>1, <1>2, VisitorFacts, Zenon DEF Placed, SlaveAt, SlavePcs, Draining
  <2>2. v = MainThread => MasterAt'
    BY <1>1, <1>2, Zenon DEF Placed, MasterAt, Draining
  <2>. QED
    BY <1>1, <2>1, <2>2, PlacedMove, Zenon
<1>6. Counted'
  <2>1. CASE v \in sharing
    <3>1. v \in CountedMarkers
      BY <2>1, Zenon DEF CountedMarkers, ActiveMarkPcs, Draining
    <3>2. Others(v, activeMarkers - 1) /\ activeMarkers \in Nat
      BY <1>1, <3>1, OthersKnown, Zenon DEF Quiet, MarkTypeOK
    <3>3. Cardinality(CountedMarkers') = (activeMarkers - 1) + 1
      BY <1>1, <2>1, <3>2, CountedAfter, Zenon DEF ActiveMarkPcs
    <3>. QED
      BY <3>2, <3>3 DEF Counted
  <2>2. CASE v \notin sharing
    <3>1. Others(v, activeMarkers)
      BY <1>1, <2>2, OthersKnown, Zenon DEF Quiet, CountedMarkers
    <3>. QED
      BY <1>1, <2>2, <3>1, CountedAfter, Zenon DEF Counted
  <2>. QED
    BY <2>1, <2>2, Zenon
<1>7. Quiet'
  <2>1. QuietAt(v)'
    BY <1>2, Zenon DEF QuietAt
  <2>2. \A u \in Visitors : QuietAt(u)'
    BY <1>1, <2>1, QuietMove, Zenon DEF Quiet
  <2>3. Alone'
    BY <1>4, Zenon DEF Alone, AlonePcs, Marking
  <2>. QED
    BY <1>6, <2>2, <2>3, Zenon DEF Quiet
<1>. QED
  BY <1>3, <1>4, <1>5, <1>7, NoRound DEF Marking, AlonePcs

(* visitChildren, of the next cell of a visitor's stack.                   *)
LEMMA VisitChildrenKept ==
    ASSUME MarkInv, PhaseInv', NEW v \in Visitors, VisitChildren(v)
    PROVE  MarkInv'
<1>1. MarkTypeOK /\ Colours /\ MainThread \in Visitors /\ Draining(v) /\ pending[v] = {}
  BY VisitorFacts, Zenon DEF MarkInv, VisitChildren
<1>2. UNCHANGED <<heap, marked, sharedMarkStack, activeMarkers, sharing, batches, todo,
                  liveKeyCount, threadPc>>
  BY Zenon DEF VisitChildren, weakVars, phaseVars
<1>3. PICK c \in stack[v] : \E profitable \in BOOLEAN :
         /\ stack' = [stack EXCEPT ![v] = @ \ {c}]
         /\ pending' = [pending EXCEPT ![v] = heap.children[c]]
         /\ opaqueRoots' = [opaqueRoots EXCEPT ![v] =
                                IF profitable THEN heap.opaque[c] ELSE @ \cup heap.opaque[c]]
         /\ sharedOpaqueRoots' = IF profitable THEN sharedOpaqueRoots \cup opaqueRoots[v]
                                               ELSE sharedOpaqueRoots
         /\ harvesters' = harvesters \cup {e.map : e \in {x \in heap.entries : x.map = c}}
  BY Zenon DEF VisitChildren
<1>4. /\ stack \in [Visitors -> SUBSET Cells] /\ pending \in [Visitors -> SUBSET Cells]
      /\ opaqueRoots \in [Visitors -> SUBSET OpaqueRoots]
      /\ c \in Cells /\ heap.children[c] \in SUBSET Cells /\ heap.opaque[c] \in SUBSET OpaqueRoots
  BY <1>1, <1>3, HeapTyped DEF MarkTypeOK, HeapFacts
<1>5. Moved(v, "scan")
  BY <1>1, <1>2, GoMoves, ZenonT(40) DEF VisitChildren, MarkPcs
<1>6. \A d : d \in harvesters' <=> d \in harvesters \/ (d = c /\ \E x \in heap.entries : x.map = c)
  BY <1>3
<1>7. \A u \in Visitors : u # v =>
         pending'[u] = pending[u] /\ opaqueRoots'[u] = opaqueRoots[u] /\ stack'[u] = stack[u]
  BY <1>3, <1>4, Zenon
<1>8. MarkTypeOK'
  <2>1. harvesters' \in SUBSET Cells
    BY <1>1, <1>4, <1>6, ZenonT(40) DEF MarkTypeOK
  <2>2. sharedOpaqueRoots' \in SUBSET OpaqueRoots /\ opaqueRoots' \in [Visitors -> SUBSET OpaqueRoots]
    BY <1>1, <1>3, <1>4, SMTT(30) DEF MarkTypeOK
  <2>3. stack' \in [Visitors -> SUBSET Cells] /\ pending' \in [Visitors -> SUBSET Cells]
    BY <1>3, <1>4
  <2>. QED
    BY <1>1, <1>2, <1>5, <2>1, <2>2, <2>3, SMTT(30) DEF MarkTypeOK, Moved
<1>9. Placed' /\ Quiet' /\ Rounds' /\ Marking
  BY <1>1, <1>2, <1>5, <1>7, DrainGoesOn, ZenonT(40)
<1>10. Blackens(v, c)
  <2>1. \A d : d \in stack'[v] <=> d \in stack[v] /\ d # c
    BY <1>3, <1>4
  <2>2. pending'[v] = heap.children[c]
    BY <1>3, <1>4, Zenon
  <2>3. /\ \A o : o \in opaqueRoots[v] \/ o \in heap.opaque[c] =>
                  o \in opaqueRoots'[v] \/ o \in sharedOpaqueRoots'
        /\ \A o : o \in opaqueRoots'[v] => o \in opaqueRoots[v] \/ o \in heap.opaque[c]
        /\ \A o : o \in sharedOpaqueRoots => o \in sharedOpaqueRoots'
        /\ \A o : o \in sharedOpaqueRoots' => o \in sharedOpaqueRoots \/ o \in opaqueRoots[v]
    BY <1>3, <1>4
  <2>. QED
    BY <1>1, <1>2, <1>3, <1>6, <1>7, <2>1, <2>2, <2>3, SMTT(30) DEF Blackens
<1>11. Colours'
  BY <1>1, <1>9, <1>10, Blackened, Zenon DEF Colours
<1>. QED
  BY <1>8, <1>9, <1>11, Zenon DEF MarkInv

(* Cells go from the mark stack of v to the shared one, or back.           *)
Shifts(v) ==
    /\ UNCHANGED <<heap, marked, pending, opaqueRoots, sharedOpaqueRoots, harvesters, batches>>
    /\ \A u \in Visitors : u # v => stack'[u] = stack[u]
    /\ \A d : d \in stack'[v] \/ d \in sharedMarkStack' <=> d \in stack[v] \/ d \in sharedMarkStack
    /\ \A d : ~(d \in stack'[v] /\ d \in sharedMarkStack')

(* Cells move between a visitor's stack and the shared one: the colours    *)
(* are kept.                                                               *)
LEMMA Shifted ==
    ASSUME Stacked, Traced, Rooted, Needed, NEW v \in Visitors, Shifts(v)
    PROVE  Stacked' /\ Traced' /\ Rooted' /\ Needed'
<1>1. \A d : Waiting(d)' <=> Waiting(d)
  BY Zenon DEF Waiting, Shifts
<1>2. Stacked'
  <2>1. \A d \in sharedMarkStack' : d \in marked
    BY Zenon DEF Stacked, Shifts
  <2>2. ASSUME NEW u \in Visitors, NEW d \in stack'[u]
        PROVE  d \in marked /\ d \notin sharedMarkStack' /\ \A w \in Visitors : d \in stack'[w] => w = u
    <3>1. CASE u = v
      <4>1. d \in stack[v] \/ d \in sharedMarkStack
        BY <2>2, <3>1, Zenon DEF Shifts
      <4>2. \A w \in Visitors : w # v => d \notin stack[w]
        BY <4>1, Zenon DEF Stacked
      <4>. QED
        BY <2>2, <3>1, <4>1, <4>2, Zenon DEF Stacked, Shifts
    <3>2. CASE u # v
      <4>1. d \in stack[u] /\ d \notin stack[v] /\ d \notin sharedMarkStack
        BY <2>2, <3>2, Zenon DEF Stacked, Shifts
      <4>2. d \notin stack'[v] /\ d \notin sharedMarkStack'
        BY <4>1, Zenon DEF Shifts
      <4>. QED
        BY <3>2, <4>1, <4>2, Zenon DEF Stacked, Shifts
    <3>. QED
      BY <3>1, <3>2, Zenon
  <2>. QED
    BY <2>1, <2>2, Zenon DEF Stacked, Shifts
<1>3. \A d : Visited(d)' <=> Visited(d)
  BY Zenon DEF Visited, Shifts
<1>4. Traced'
  BY <1>1, <1>3, Zenon DEF Traced, Shifts
<1>5. Rooted'
  BY Zenon DEF Rooted, Shifts
<1>6. \A S \in SUBSET Cells : Closed(S)' <=> Closed(S)
  BY Zenon DEF Closed, Shifts
<1>7. Needed'
  BY <1>6, Zenon DEF Needed, Shifts
<1>. QED
  BY <1>2, <1>4, <1>5, <1>7, Zenon

(* donateKnownParallel, of part of a visitor's stack.                      *)
LEMMA DonateKept ==
    ASSUME MarkInv, PhaseInv', NEW v \in Visitors, DonateKnownParallel(v)
    PROVE  MarkInv'
<1>1. MarkTypeOK /\ Colours /\ Draining(v)
  BY Zenon DEF MarkInv, DonateKnownParallel, Draining
<1>2. UNCHANGED <<heap, marked, pending, opaqueRoots, sharedOpaqueRoots, harvesters, activeMarkers,
                  sharing, batches, todo, liveKeyCount, threadPc>>
  BY Zenon DEF DonateKnownParallel, weakVars, phaseVars
<1>3. PICK some \in SUBSET stack[v] :
         /\ stack' = [stack EXCEPT ![v] = @ \ some]
         /\ sharedMarkStack' = sharedMarkStack \cup some
  BY Zenon DEF DonateKnownParallel
<1>4. stack \in [Visitors -> SUBSET Cells] /\ some \in SUBSET Cells /\ sharedMarkStack \in SUBSET Cells
  BY <1>1, <1>3, Zenon DEF MarkTypeOK
<1>5. Moved(v, "drain")
  <2>1. Go(v, "drain") \/ BroadcastAndGo(v, "drain")
    BY Zenon DEF DonateKnownParallel
  <2>. QED
    BY <1>1, <1>2, <2>1, GoMoves, Zenon DEF MarkPcs
<1>6. \A u \in Visitors : u # v => stack'[u] = stack[u]
  BY <1>3, <1>4, Zenon
<1>7. MarkTypeOK'
  <2>1. stack' \in [Visitors -> SUBSET Cells] /\ sharedMarkStack' \in SUBSET Cells
    BY <1>3, <1>4, Zenon
  <2>. QED
    BY <1>1, <1>2, <1>5, <2>1 DEF MarkTypeOK, Moved
<1>8. Placed' /\ Quiet' /\ Rounds' /\ Marking
  BY <1>1, <1>2, <1>5, <1>6, DrainGoesOn, ZenonT(40)
<1>9. Shifts(v)
  <2>1. \A d : d \in stack'[v] <=> d \in stack[v] /\ d \notin some
    BY <1>3, <1>4, Zenon
  <2>2. \A d : d \in stack[v] => d \notin sharedMarkStack
    BY <1>1, Zenon DEF Colours, Stacked
  <2>. QED
    BY <1>2, <1>3, <1>6, <2>1, <2>2, Zenon DEF Shifts
<1>10. Colours'
  BY <1>1, <1>8, <1>9, Shifted, Zenon DEF Colours
<1>. QED
  BY <1>7, <1>8, <1>10, Zenon DEF MarkInv

(* A visitor that waits in drainFromShared takes shared work.              *)
LEMMA StealKept ==
    ASSUME MarkInv, PhaseInv', NEW v \in Visitors, NEW active, Others(v, active),
           markPc[v] \in {"recheck", "woken"}, sharedMarkStack # {}, Steal(v, active)
    PROVE  MarkInv'
<1>1. MarkTypeOK /\ Placed /\ Quiet /\ Colours
  BY Zenon DEF MarkInv
<1>2. UNCHANGED <<heap, marked, pending, opaqueRoots, sharedOpaqueRoots, harvesters,
                  sharing, batches, todo, liveKeyCount, threadPc>>
  BY Zenon DEF Steal, weakVars, phaseVars
<1>3. PICK some \in SUBSET sharedMarkStack :
         /\ stack' = [stack EXCEPT ![v] = @ \cup some]
         /\ sharedMarkStack' = sharedMarkStack \ some
  BY Zenon DEF Steal
<1>4. stack \in [Visitors -> SUBSET Cells] /\ some \in SUBSET Cells /\ sharedMarkStack \in SUBSET Cells
  BY <1>1, <1>3, Zenon DEF MarkTypeOK
<1>5. Moved(v, "drain")
  BY <1>1, <1>2, GoMoves, ZenonT(40) DEF Steal, MarkPcs
<1>6. markPc'[v] = "drain" /\ Draining(v)' /\ v \in sharing
  BY <1>1, <1>5, VisitorFacts DEF Moved, Draining, Placed, SlaveAt, MasterAt
<1>7. \A u \in Visitors : u # v => stack'[u] = stack[u]
  BY <1>3, <1>4, ZenonT(40)
<1>8. activeMarkers' \in Nat /\ Counted'
  <2>1. Cardinality(CountedMarkers') = active + 1
    BY <1>1, <1>2, <1>5, <1>6, CountedAfter, Zenon DEF ActiveMarkPcs
  <2>. QED
    BY <2>1 DEF Others, Counted, Steal
<1>9. MarkTypeOK'
  <2>1. stack' \in [Visitors -> SUBSET Cells] /\ sharedMarkStack' \in SUBSET Cells
    BY <1>3, <1>4, Zenon
  <2>. QED
    BY <1>1, <1>2, <1>5, <1>8, <2>1, ZenonT(40) DEF MarkTypeOK, Moved
<1>10. markPc[MainThread] \notin AlonePcs /\ Marking
  BY <1>1, Zenon DEF Quiet, Alone, Marking, AlonePcs
<1>11. markPc'[MainThread] \notin AlonePcs
  BY <1>5, <1>10, VisitorFacts, ZenonT(40) DEF Moved, Stays, AlonePcs
<1>12. Placed'
  <2>1. v \in GCThreads => SlaveAt(v)' /\ UNCHANGED batches
    BY <1>1, <1>2, <1>6, Zenon DEF Placed, SlaveAt, SlavePcs
  <2>2. v = MainThread => MasterAt'
    BY <1>1, <1>2, <1>6, Zenon DEF Placed, MasterAt, Draining
  <2>. QED
    BY <1>1, <1>2, <1>5, <2>1, <2>2, PlacedMove, SMTT(30)
<1>13. Quiet'
  <2>1. QuietAt(v)'
    BY <1>6, Zenon DEF QuietAt
  <2>2. \A u \in Visitors : QuietAt(u)'
    BY <1>1, <1>2, <1>5, <1>7, <2>1, QuietMove DEF Quiet
  <2>3. Alone'
    BY <1>11, Zenon DEF Alone, AlonePcs, Marking
  <2>. QED
    BY <1>8, <2>2, <2>3, Zenon DEF Quiet
<1>14. Colours'
  <2>1. \A d : d \in stack'[v] <=> d \in stack[v] \/ d \in some
    BY <1>3, <1>4, Zenon
  <2>2. \A d : d \in stack[v] => d \notin sharedMarkStack
    BY <1>1, Zenon DEF Colours, Stacked
  <2>3. Shifts(v)
    BY <1>2, <1>3, <1>7, <2>1, <2>2 DEF Shifts
  <2>. QED
    BY <1>1, <1>10, <2>3, Shifted, Zenon DEF Colours
<1>15. Rounds'
  BY <1>11, NoRound, Zenon DEF AlonePcs, WeakPcs
<1>. QED
  BY <1>9, <1>12, <1>13, <1>14, <1>15 DEF MarkInv

(* The opaque roots of v are merged with the shared ones.                  *)
Merges(v) ==
    /\ UNCHANGED <<heap, marked, stack, sharedMarkStack, harvesters>>
    /\ opaqueRoots'[v] = {} /\ \A u \in Visitors : u # v => opaqueRoots'[u] = opaqueRoots[u]
    /\ \A o : o \in sharedOpaqueRoots' <=> o \in sharedOpaqueRoots \/ o \in opaqueRoots[v]
    /\ \A u \in Visitors : \A d : d \in pending[u] => d \in pending'[u]

(* The opaque roots of a visitor are merged with the shared ones: the      *)
(* colours are kept.                                                       *)
LEMMA Merged ==
    ASSUME Stacked, Traced, Needed, NEW v \in Visitors, Merges(v), Rooted',
           \A S \in SUBSET Cells : Closed(S) => \A u \in Visitors : pending'[u] \subseteq S
    PROVE  Stacked' /\ Traced' /\ Rooted' /\ Needed'
<1>0. UNCHANGED <<heap, marked, stack, sharedMarkStack, harvesters>>
  BY Zenon DEF Merges
<1>1. Stacked'
  BY <1>0, Zenon DEF Stacked
<1>2. \A o : o \in sharedOpaqueRoots \/ (\E u \in Visitors : o \in opaqueRoots[u]) =>
           o \in sharedOpaqueRoots' \/ \E u \in Visitors : o \in opaqueRoots'[u]
  BY Zenon DEF Merges
<1>3. ASSUME NEW x, Visited(x)
      PROVE  Visited(x)'
  <2>1. \A d \in heap.children[x] : d \in marked \/ \E u \in Visitors : d \in pending'[u]
    BY <1>3, Zenon DEF Visited, Merges
  <2>2. \A o \in heap.opaque[x] : o \in sharedOpaqueRoots' \/ \E u \in Visitors : o \in opaqueRoots'[u]
    BY <1>2, <1>3, Zenon DEF Visited
  <2>. QED
    BY <1>0, <1>3, <2>1, <2>2, Zenon DEF Visited
<1>4. Traced'
  BY <1>0, <1>3, Zenon DEF Traced, Waiting
<1>5. Needed'
  <2>1. \A S \in SUBSET Cells : Closed(S)' <=> Closed(S)
    BY <1>0, Zenon DEF Closed
  <2>2. \A o \in sharedOpaqueRoots' : \E x \in marked : o \in heap.opaque[x]
    BY Zenon DEF Needed, Merges
  <2>3. \A u \in Visitors : \A o \in opaqueRoots'[u] : \E x \in marked : o \in heap.opaque[x]
    BY DEF Needed, Merges
  <2>. QED
    BY <1>0, <2>1, <2>2, <2>3 DEF Needed
<1>. QED
  BY <1>1, <1>4, <1>5, Zenon

(* What MergeOpaqueRoots is, with the pending cells kept.                  *)
LEMMA MergeIs ==
    ASSUME MarkTypeOK, NEW v \in Visitors, MergeOpaqueRoots(v),
           \A u \in Visitors : \A d : d \in pending[u] => d \in pending'[u]
    PROVE  /\ Merges(v) /\ opaqueRoots' \in [Visitors -> SUBSET OpaqueRoots]
           /\ sharedOpaqueRoots' \in SUBSET OpaqueRoots
<1>1. opaqueRoots \in [Visitors -> SUBSET OpaqueRoots] /\ sharedOpaqueRoots \in SUBSET OpaqueRoots
  BY Zenon DEF MarkTypeOK
<1>2. opaqueRoots'[v] = {} /\ \A u \in Visitors : u # v => opaqueRoots'[u] = opaqueRoots[u]
  BY <1>1, Zenon DEF MergeOpaqueRoots
<1>3. /\ UNCHANGED <<heap, marked, stack, sharedMarkStack, harvesters>>
      /\ sharedOpaqueRoots' = sharedOpaqueRoots \cup opaqueRoots[v]
  BY Zenon DEF MergeOpaqueRoots
<1>4. opaqueRoots' \in [Visitors -> SUBSET OpaqueRoots] /\ sharedOpaqueRoots' \in SUBSET OpaqueRoots
  BY <1>1, Zenon DEF MergeOpaqueRoots
<1>. QED
  BY <1>2, <1>3, <1>4, Zenon DEF Merges

(* The next root set.                                                      *)
LEMMA NextRootsKept ==
    ASSUME MarkInv, PhaseInv', NextRoots
    PROVE  MarkInv'
<1>1. MarkTypeOK /\ Colours /\ MainThread \in Visitors
  BY VisitorFacts, Zenon DEF MarkInv
<1>2. /\ Draining(MainThread) /\ batches # <<>> /\ pending[MainThread] = {}
      /\ UNCHANGED <<heap, marked, stack, sharedMarkStack, harvesters, activeMarkers, sharing,
                     todo, liveKeyCount, threadPc>>
  BY Zenon DEF NextRoots, MergeOpaqueRoots, weakVars, phaseVars
<1>3. batches \in Seq(SUBSET Cells) /\ pending \in [Visitors -> SUBSET Cells]
  BY <1>1, Zenon DEF MarkTypeOK
<1>4. /\ Head(batches) \in SUBSET Cells /\ Head(batches) = batches[1] /\ Len(batches) \in Nat
      /\ Len(batches) > 0 /\ Tail(batches) \in Seq(SUBSET Cells)
      /\ Len(Tail(batches)) = Len(batches) - 1
      /\ \A j \in 1..Len(Tail(batches)) : Tail(batches)[j] = batches[j + 1]
  BY <1>2, <1>3
<1>5. pending'[MainThread] = Head(batches) /\ \A u \in Visitors : u # MainThread => pending'[u] = pending[u]
  BY <1>1, <1>3, Zenon DEF NextRoots
<1>6. \A u \in Visitors : \A d : d \in pending[u] => d \in pending'[u]
  BY <1>2, <1>5, Zenon
<1>7. /\ Merges(MainThread) /\ opaqueRoots' \in [Visitors -> SUBSET OpaqueRoots]
      /\ sharedOpaqueRoots' \in SUBSET OpaqueRoots
  BY <1>1, <1>6, MergeIs DEF NextRoots
<1>8. Moved(MainThread, "scan")
  BY <1>1, <1>2, GoMoves, ZenonT(40) DEF NextRoots, MarkPcs
<1>9. MarkTypeOK'
  <2>1. batches' \in Seq(SUBSET Cells) /\ pending' \in [Visitors -> SUBSET Cells]
    BY <1>1, <1>3, <1>4 DEF NextRoots
  <2>. QED
    BY <1>1, <1>2, <1>7, <1>8, <2>1, SMTT(30) DEF MarkTypeOK, Moved
<1>10. Placed' /\ Quiet' /\ Rounds' /\ Marking
  <2>1. \A u \in Visitors : u # MainThread => opaqueRoots'[u] = opaqueRoots[u]
    BY <1>7, Zenon DEF Merges
  <2>. QED
    BY <1>1, <1>2, <1>5, <1>8, <2>1, DrainGoesOn, SMTT(30)
<1>11. Rooted /\ Stacked /\ Traced /\ Needed
  BY <1>1, <1>10, Zenon DEF Colours
<1>12. batches' = Tail(batches)
  BY Zenon DEF NextRoots
<1>13. Rooted'
  <2>1. ASSUME NEW i \in 1..Len(heap.roots)
        PROVE  \/ \A c \in heap.roots[i] : c \in marked \/ c \in pending'[MainThread]
               \/ \E j \in 1..Len(batches') : batches'[j] = heap.roots[i]
    <3>1. CASE \A c \in heap.roots[i] : c \in marked \/ c \in pending[MainThread]
      BY <1>6, <3>1, VisitorFacts, Zenon
    <3>2. ASSUME NEW j \in 1..Len(batches), batches[j] = heap.roots[i]
          PROVE  \/ \A c \in heap.roots[i] : c \in marked \/ c \in pending'[MainThread]
                 \/ \E k \in 1..Len(batches') : batches'[k] = heap.roots[i]
      <4>1. CASE j = 1
        BY <1>4, <1>5, <3>2, <4>1
      <4>2. CASE j # 1
        <5>1. j - 1 \in 1..Len(Tail(batches)) /\ Tail(batches)[j - 1] = batches[j]
          BY <1>4, <4>2
        <5>. QED
          BY <1>12, <3>2, <5>1, Zenon
      <4>. QED
        BY <4>1, <4>2, Zenon
    <3>. QED
      BY <1>11, <3>1, <3>2, Zenon DEF Rooted
  <2>2. ASSUME NEW j \in 1..Len(batches')
        PROVE  \E i \in 1..Len(heap.roots) : batches'[j] = heap.roots[i]
    <3>1. j + 1 \in 1..Len(batches) /\ batches'[j] = batches[j + 1]
      BY <1>4, <1>12
    <3>. QED
      BY <1>11, <3>1 DEF Rooted
  <2>. QED
    BY <1>2, <2>1, <2>2, Zenon DEF Rooted
<1>14. ASSUME NEW S \in SUBSET Cells, Closed(S), NEW u \in Visitors
       PROVE  pending'[u] \subseteq S
  <2>1. 1 \in 1..Len(batches)
    BY <1>4
  <2>2. PICK i \in 1..Len(heap.roots) : batches[1] = heap.roots[i]
    BY <1>11, <2>1, Zenon DEF Rooted
  <2>3. Head(batches) \subseteq S
    BY <1>4, <1>14, <2>2, ZenonT(40) DEF Closed
  <2>. QED
    BY <1>5, <1>11, <1>14, <2>3, ZenonT(40) DEF Needed
<1>15. Colours'
  BY <1>1, <1>7, <1>11, <1>13, <1>14, Merged, SMTT(30) DEF Colours
<1>. QED
  BY <1>9, <1>10, <1>15, Zenon DEF MarkInv

(* A visitor that has no work left stops draining.                         *)
LEMMA FinishDrainKept ==
    ASSUME MarkInv, PhaseInv', NEW v \in Visitors, FinishDrain(v)
    PROVE  MarkInv'
<1>1. MarkTypeOK /\ Placed /\ Quiet /\ Colours /\ MainThread \in Visitors
  BY VisitorFacts, Zenon DEF MarkInv
<1>2. /\ Draining(v) /\ stack[v] = {} /\ pending[v] = {}
      /\ UNCHANGED <<heap, marked, stack, pending, sharedMarkStack, harvesters, activeMarkers, sharing,
                     batches, todo, liveKeyCount, threadPc>>
  BY Zenon DEF FinishDrain, MergeOpaqueRoots, weakVars, phaseVars
<1>3. /\ Merges(v) /\ opaqueRoots' \in [Visitors -> SUBSET OpaqueRoots]
      /\ sharedOpaqueRoots' \in SUBSET OpaqueRoots
  BY <1>1, <1>2, MergeIs DEF FinishDrain
<1>4. PICK pc \in {"recheck", "enter"} : Go(v, pc) /\ (pc = "recheck" <=> v \in sharing)
  BY Zenon DEF FinishDrain
<1>5. Moved(v, pc)
  BY <1>1, <1>2, <1>4, GoMoves DEF MarkPcs
<1>6. markPc'[v] = pc /\ ~Draining(v)'
  BY <1>5, Zenon DEF Moved, Draining
<1>7. markPc[MainThread] \notin AlonePcs /\ Marking
  BY <1>1, <1>2, DrainingNotAlone, Zenon DEF Quiet
<1>8. markPc'[MainThread] \notin AlonePcs
  BY <1>5, <1>7, VisitorFacts, ZenonT(40) DEF Moved, Stays, AlonePcs
<1>9. MarkTypeOK'
  BY <1>1, <1>2, <1>3, <1>5, SMTT(30) DEF MarkTypeOK, Moved
<1>10. Placed'
  <2>1. v \in GCThreads => SlaveAt(v)'
    BY <1>1, <1>2, <1>4, <1>6, ZenonT(40) DEF Placed, SlaveAt, SlavePcs, Draining
  <2>2. v = MainThread => MasterAt'
    <3>1. v = MainThread => batches = <<>>
      BY <1>1, Zenon DEF FinishDrain, Placed, MasterAt
    <3>. QED
      BY <1>2, <1>4, <1>6, <3>1 DEF MasterAt
  <2>. QED
    BY <1>1, <1>2, <1>5, <2>1, <2>2, PlacedMove
<1>11. Counted'
  <2>1. CASE v \in sharing
    <3>1. v \in CountedMarkers
      BY <1>2, <2>1, Zenon DEF CountedMarkers, ActiveMarkPcs, Draining
    <3>2. Others(v, activeMarkers - 1) /\ activeMarkers \in Nat
      BY <1>1, <3>1, OthersKnown, ZenonT(40) DEF Quiet, MarkTypeOK
    <3>3. Cardinality(CountedMarkers') = (activeMarkers - 1) + 1
      BY <1>1, <1>2, <1>4, <1>5, <2>1, <3>2, CountedAfter, SMTT(30) DEF ActiveMarkPcs
    <3>. QED
      BY <1>2, <3>2, <3>3 DEF Counted
  <2>2. CASE v \notin sharing
    <3>1. Others(v, activeMarkers)
      BY <1>1, <2>2, OthersKnown, Zenon DEF Quiet, CountedMarkers
    <3>. QED
      BY <1>1, <1>2, <1>5, <2>2, <3>1, CountedAfter, SMTT(30) DEF Counted
  <2>. QED
    BY <2>1, <2>2, ZenonT(40)
<1>12. Quiet'
  <2>1. QuietAt(v)'
    BY <1>2, <1>3, ZenonT(40) DEF QuietAt, Merges
  <2>2. \A u \in Visitors : QuietAt(u)'
    BY <1>1, <1>2, <1>3, <1>5, <2>1, QuietMove DEF Quiet, Merges
  <2>3. Alone'
    BY <1>8, Zenon DEF Alone, AlonePcs, Marking
  <2>. QED
    BY <1>11, <2>2, <2>3, Zenon DEF Quiet
<1>13. Colours'
  <2>1. Stacked /\ Traced /\ Rooted /\ Needed
    BY <1>1, <1>7, Zenon DEF Colours
  <2>2. Rooted'
    BY <1>2, <2>1, Zenon DEF Rooted
  <2>3. \A S \in SUBSET Cells : Closed(S) => \A u \in Visitors : pending'[u] \subseteq S
    BY <1>2, <2>1, Zenon DEF Needed
  <2>. QED
    BY <1>3, <2>1, <2>2, <2>3, Merged, Zenon DEF Colours
<1>14. Rounds'
  BY <1>8, NoRound, Zenon DEF AlonePcs, WeakPcs
<1>. QED
  BY <1>9, <1>10, <1>12, <1>13, <1>14 DEF MarkInv

-----------------------------------------------------------------------------
(* The weak rounds.                                                        *)
(* What the main thread does alone.                                        *)
LEMMA AloneStep ==
    ASSUME MarkInv, markPc[MainThread] \in {"weak", "harvest"},
           UNCHANGED <<markPc, sharing, threadPc, batches, activeMarkers, pending, opaqueRoots,
                       sharedMarkStack, sharedOpaqueRoots, harvesters>>,
           \A u \in Visitors : u # MainThread => stack'[u] = stack[u]
    PROVE  Placed' /\ Quiet' /\ Marking /\ Marking'
<1>1. Placed /\ Quiet
  BY Zenon DEF MarkInv
<1>2. Placed' /\ Counted'
  BY <1>1, PlacedKept, Zenon
<1>3. Alone'
  BY <1>1, Zenon DEF Quiet, Alone, Marking, Draining
<1>4. \A u \in Visitors : QuietAt(u)'
  BY <1>1, Zenon DEF Quiet, QuietAt, Draining
<1>. QED
  BY <1>2, <1>3, <1>4, Zenon DEF Quiet, Marking

(* A weak handle is visited: its cell is marked if an opaque root keeps    *)
(* it.                                                                     *)
LEMMA VisitWeakHandleKept ==
    ASSUME MarkInv, PhaseInv', VisitWeakHandle
    PROVE  MarkInv'
<1>1. MarkTypeOK /\ Colours /\ Rounds /\ MainThread \in Visitors /\ markPc[MainThread] = "weak"
  BY VisitorFacts, Zenon DEF MarkInv, VisitWeakHandle
<1>2. UNCHANGED <<heap, pending, opaqueRoots, sharedMarkStack, sharedOpaqueRoots, harvesters,
                  activeMarkers, sharing, markPc, batches, liveKeyCount, threadPc>>
  BY Zenon DEF VisitWeakHandle, sharedVars, phaseVars
<1>3. PICK w \in todo :
         /\ todo' = todo \ {w}
         /\ IF w.root \in sharedOpaqueRoots /\ w.cell \notin marked
            THEN /\ marked' = marked \cup {w.cell}
                 /\ stack' = [stack EXCEPT ![MainThread] = @ \cup {w.cell}]
            ELSE UNCHANGED <<marked, stack>>
  BY Zenon DEF VisitWeakHandle
<1>4. todo \subseteq heap.weak /\ \A x \in heap.weak : x \notin todo => Kept(x)
  BY <1>1, ZenonT(40) DEF Rounds, Weakly
<1>5. w \in heap.weak /\ w.cell \in Cells /\ stack \in [Visitors -> SUBSET Cells]
  BY <1>1, <1>3, <1>4, HeapTyped, WeakTyped, SMTT(30) DEF MarkTypeOK, HeapFacts
<1>6. \A u \in Visitors : u # MainThread => stack'[u] = stack[u]
  BY <1>3, <1>5, Zenon
<1>7. Placed' /\ Quiet' /\ Marking /\ Marking'
  BY <1>1, <1>2, <1>6, AloneStep, ZenonT(40)
<1>8. MarkTypeOK'
  <2>1. stack' \in [Visitors -> SUBSET Cells] /\ marked' \in SUBSET Cells
    BY <1>1, <1>3, <1>5 DEF MarkTypeOK
  <2>2. todo' \in SUBSET (WeakHandle \cup Entry)
    BY <1>1, <1>3, Zenon DEF MarkTypeOK
  <2>. QED
    BY <1>1, <1>2, <2>1, <2>2, SMTT(30) DEF MarkTypeOK
<1>9. Stacked /\ Traced /\ Rooted /\ Needed
  BY <1>1, <1>7, Zenon DEF Colours
<1>10. Colours'
  <2>1. CASE w.root \in sharedOpaqueRoots /\ w.cell \notin marked
    <3>1. marked' = marked \cup {w.cell} /\ stack' = [stack EXCEPT ![MainThread] = @ \cup {w.cell}]
      BY <1>3, <2>1, Zenon
    <3>2. \A d : d \in stack'[MainThread] <=> d \in stack[MainThread] \/ (d = w.cell /\ w.cell \notin marked)
      BY <1>1, <1>5, <2>1, <3>1
    <3>3. Greys(MainThread, w.cell)
      BY <1>2, <1>6, <3>1, <3>2, ZenonT(40) DEF Greys
    <3>4. ASSUME NEW S \in SUBSET Cells, Closed(S)
          PROVE  w.cell \in S
      <4>1. PICK x \in marked : w.root \in heap.opaque[x]
        BY <1>9, <2>1, Zenon DEF Needed
      <4>2. x \in S
        BY <1>9, <3>4, Zenon DEF Needed
      <4>. QED
        BY <1>5, <3>4, <4>1, <4>2 DEF Closed
    <3>. QED
      BY <1>1, <1>9, <3>3, <3>4, Greyed, ZenonT(40) DEF Colours
  <2>2. CASE ~(w.root \in sharedOpaqueRoots /\ w.cell \notin marked)
    <3>1. UNCHANGED coreVars
      BY <1>2, <1>3, <2>2, Zenon DEF coreVars
    <3>. QED
      BY <1>1, <1>7, <3>1, ColoursKept
  <2>. QED
    BY <2>1, <2>2, Zenon
<1>11. Rounds'
  <2>1. \A c : c \in marked => c \in marked'
    BY <1>3, Zenon
  <2>2. Kept(w)'
    BY <1>2, <1>3, Zenon DEF Kept
  <2>3. \A x : Kept(x) => Kept(x)'
    BY <1>2, <2>1, ZenonT(40) DEF Kept
  <2>4. Weakly'
    BY <1>1, <1>2, <1>3, <1>4, <2>2, <2>3, SMTT(30) DEF Weakly
  <2>5. Harvested'
    BY <1>1, <1>2, Zenon DEF Harvested
  <2>. QED
    BY <2>4, <2>5, Zenon DEF Rounds
<1>. QED
  BY <1>7, <1>8, <1>10, <1>11 DEF MarkInv

(* There are finitely many entries.                                        *)
LEMMA EntriesFinite == IsFiniteSet(Entry)
<1> DEFINE f == [x \in Entry |-> <<x.map, <<x.key, x.value>>>>]
           T == Cells \X (Cells \X Cells)
<1>1. IsFiniteSet(T)
  BY MarkingAssumption, FS_Product, Zenon
<1>2. f \in [Entry -> T]
  BY WeakTyped, Zenon
<1>3. ASSUME NEW x \in Entry, NEW y \in Entry, f[x] = f[y]
      PROVE  x = y
  BY <1>3 DEF Entry
<1>4. f \in Injection(Entry, T)
  BY <1>2, <1>3, Zenon DEF Injection, IsInjective
<1>. QED
  BY <1>1, <1>4, FS_Injection, Zenon

(* A weak reference is harvested: its value is marked if its key is.       *)
LEMMA VisitWeakReferenceKept ==
    ASSUME MarkInv, PhaseInv', VisitWeakReference
    PROVE  MarkInv'
<1>1. /\ MarkTypeOK /\ Colours /\ Rounds /\ MainThread \in Visitors
      /\ markPc[MainThread] = "harvest"
  BY VisitorFacts, Zenon DEF MarkInv, VisitWeakReference
<1>2. UNCHANGED <<heap, pending, opaqueRoots, sharedMarkStack, sharedOpaqueRoots, harvesters,
                  activeMarkers, sharing, markPc, batches, threadPc>>
  BY Zenon DEF VisitWeakReference, sharedVars, phaseVars
<1>3. PICK e \in todo :
         /\ todo' = todo \ {e}
         /\ IF e.key \in marked
            THEN /\ liveKeyCount' = [liveKeyCount EXCEPT ![e.map] = @ + 1]
                 /\ marked' = marked \cup {e.value}
                 /\ stack' = [stack EXCEPT ![MainThread] =
                                  IF e.value \in marked THEN @ ELSE @ \cup {e.value}]
            ELSE UNCHANGED <<marked, stack, liveKeyCount>>
  BY Zenon DEF VisitWeakReference
<1>4. /\ todo \subseteq {x \in heap.entries : x.map \in harvesters}
      /\ \A x \in heap.entries : x.map \in harvesters /\ x \notin todo /\ x.key \in marked =>
            x.value \in marked \/ x.key \in stack[MainThread]
      /\ stack[MainThread] = {} =>
            \A m \in harvesters : liveKeyCount[m] = Cardinality(LiveEntries(m))
      /\ \A w \in heap.weak : Kept(w)
  BY <1>1, ZenonT(40) DEF Rounds, Harvested, Weakly
<1>5. /\ e \in heap.entries /\ e.map \in harvesters /\ heap.entries \in SUBSET Entry
      /\ e.map \in Cells /\ e.key \in Cells /\ e.value \in Cells
      /\ stack \in [Visitors -> SUBSET Cells] /\ liveKeyCount \in [Cells -> Nat]
      /\ harvesters \in SUBSET Cells
  BY <1>1, <1>3, <1>4, HeapTyped, WeakTyped, SMTT(30) DEF MarkTypeOK, HeapFacts
<1>6. \A u \in Visitors : u # MainThread => stack'[u] = stack[u]
  BY <1>3, <1>5, Zenon
<1>7. Placed' /\ Quiet' /\ Marking /\ Marking'
  BY <1>1, <1>2, <1>6, AloneStep, SMTT(30)
<1>8. MarkTypeOK'
  <2>1. stack' \in [Visitors -> SUBSET Cells] /\ marked' \in SUBSET Cells /\ liveKeyCount' \in [Cells -> Nat]
    <3>1. marked \in SUBSET Cells
      BY <1>1, ZenonT(40) DEF MarkTypeOK
    <3>2. CASE e.key \in marked
      <4>1. stack' \in [Visitors -> SUBSET Cells]
        BY <1>1, <1>3, <1>5, <3>2, SMTT(30)
      <4>2. liveKeyCount' \in [Cells -> Nat]
        BY <1>3, <1>5, <3>2, SMTT(30)
      <4>. QED
        BY <1>3, <1>5, <3>1, <3>2, <4>1, <4>2, SMTT(30)
    <3>3. CASE e.key \notin marked
      BY <1>3, <1>5, <3>1, <3>3, SMTT(30)
    <3>. QED
      BY <3>2, <3>3, Zenon
  <2>2. todo' \in SUBSET (WeakHandle \cup Entry)
    BY <1>1, <1>3, Zenon DEF MarkTypeOK
  <2>. QED
    BY <1>1, <1>2, <2>1, <2>2, SMTT(30) DEF MarkTypeOK
<1>9. Stacked /\ Traced /\ Rooted /\ Needed
  BY <1>1, <1>7, ZenonT(40) DEF Colours
<1>10. e.key \in marked =>
          \A d : d \in stack'[MainThread] <=> d \in stack[MainThread] \/ (d = e.value /\ e.value \notin marked)
  BY <1>1, <1>3, <1>5
<1>11. Colours'
  <2>1. CASE e.key \in marked
    <3>1. Greys(MainThread, e.value)
      BY <1>2, <1>3, <1>6, <1>10, <2>1, ZenonT(40) DEF Greys
    <3>2. ASSUME NEW S \in SUBSET Cells, Closed(S)
          PROVE  e.value \in S
      <4>1. e.map \in S /\ e.key \in S
        BY <1>5, <1>9, <2>1, <3>2, ZenonT(40) DEF Needed
      <4>. QED
        BY <1>5, <3>2, <4>1, Zenon DEF Closed
    <3>. QED
      BY <1>1, <1>9, <3>1, <3>2, Greyed, ZenonT(40) DEF Colours
  <2>2. CASE e.key \notin marked
    <3>1. UNCHANGED coreVars
      BY <1>2, <1>3, <2>2, ZenonT(40) DEF coreVars
    <3>. QED
      BY <1>1, <1>7, <3>1, ColoursKept
  <2>. QED
    BY <2>1, <2>2, Zenon
<1>12. Weakly'
  <2>1. \A c : c \in marked => c \in marked'
    BY <1>3, Zenon
  <2>. QED
    BY <1>1, <1>2, <1>4, <2>1 DEF Weakly, Kept
<1>13. ASSUME NEW x \in heap.entries, x.map \in harvesters, x \notin todo', x.key \in marked'
       PROVE  x.value \in marked' \/ x.key \in stack'[MainThread]
  <2>1. CASE x = e
    BY <1>3, <1>13, <2>1, Zenon
  <2>2. CASE x # e
    <3>1. x \notin todo
      BY <1>3, <1>13, <2>2, ZenonT(40)
    <3>2. CASE x.key \in marked
      <4>1. x.value \in marked \/ x.key \in stack[MainThread]
        BY <1>4, <1>13, <3>1, <3>2
      <4>. QED
        BY <1>3, <1>10, <4>1, ZenonT(40)
    <3>3. CASE x.key \notin marked
      <4>1. x.key = e.value /\ e.key \in marked
        BY <1>3, <1>13, <3>3, Zenon
      <4>. QED
        BY <1>10, <3>3, <4>1, Zenon
    <3>. QED
      BY <3>2, <3>3, Zenon
  <2>. QED
    BY <2>1, <2>2, Zenon
<1>14. ASSUME stack'[MainThread] = {}, NEW m \in harvesters
       PROVE  liveKeyCount'[m] = Cardinality(LiveEntries(m)')
  <2>1. stack[MainThread] = {} /\ marked' = marked
    BY <1>3, <1>10, <1>14, ZenonT(40)
  <2>2. /\ liveKeyCount[m] = Cardinality(LiveEntries(m)) /\ liveKeyCount[m] \in Nat
        /\ IsFiniteSet(LiveEntries(m)) /\ m \in Cells
    <3>1. LiveEntries(m) \subseteq Entry
      BY <1>5, ZenonT(40) DEF LiveEntries
    <3>. QED
      BY <1>4, <1>5, <1>14, <2>1, <3>1, EntriesFinite, FS_Subset, SMTT(30)
  <2>3. CASE e.key \in marked /\ m = e.map
    <3>1. LiveEntries(m)' = LiveEntries(m) \cup {e} /\ e \notin LiveEntries(m)
      BY <1>2, <1>3, <1>5, <2>1, <2>3 DEF LiveEntries
    <3>2. liveKeyCount'[m] = liveKeyCount[m] + 1
      BY <1>3, <1>5, <2>3, Zenon
    <3>. QED
      BY <2>2, <3>1, <3>2, FS_AddElement, ZenonT(40)
  <2>4. CASE ~(e.key \in marked /\ m = e.map)
    <3>1. LiveEntries(m)' = LiveEntries(m)
      BY <1>2, <1>3, <2>1, <2>4, SMTT(30) DEF LiveEntries
    <3>2. liveKeyCount'[m] = liveKeyCount[m]
      BY <1>3, <1>5, <2>2, <2>4, SMTT(30)
    <3>. QED
      BY <2>2, <3>1, <3>2, ZenonT(40)
  <2>. QED
    BY <2>3, <2>4, Zenon
<1>15. Harvested'
  <2>1. todo' \subseteq {x \in heap.entries : x.map \in harvesters}
    BY <1>3, <1>4, Zenon
  <2>. QED
    BY <1>1, <1>2, <1>13, <1>14, <2>1, SMTT(30) DEF Harvested
<1>. QED
  BY <1>7, <1>8, <1>11, <1>12, <1>15, SMTT(30) DEF MarkInv, Rounds

-----------------------------------------------------------------------------
(* The second critical section of drainFromShared, for the main thread ... *)
LEMMA MasterEvaluatesKept ==
    ASSUME MarkInv, PhaseInv', NEW active, Others(MainThread, active),
           markPc[MainThread] \in {"recheck", "woken"}, MasterEvaluates(active)
    PROVE  MarkInv'
<1>1. CASE Terminated(active) /\ MasterReturn(active)
  BY <1>1, MasterReturnKept, Zenon
<1>2. CASE sharedMarkStack # {} /\ Steal(MainThread, active)
  BY <1>2, VisitorFacts, StealKept, Zenon
<1>3. CASE Wait(MainThread, active)
  BY <1>3, VisitorFacts, WaitKept, Zenon
<1>. QED
  BY <1>1, <1>2, <1>3, Zenon DEF MasterEvaluates

(* ... and for a slave.                                                    *)
LEMMA SlaveEvaluatesKept ==
    ASSUME MarkInv, PhaseInv', NEW t \in GCThreads, NEW active, Others(t, active),
           markPc[t] \in {"recheck", "woken"}, SlaveEvaluates(t, active)
    PROVE  MarkInv'
<1>0. t \in Visitors
  BY VisitorFacts, Zenon
<1>1. CASE SlaveReturn(t, active)
  BY <1>1, SlaveLeaves, Zenon DEF SlaveReturn, workVars, sharedVars, weakVars, coreVars
<1>2. CASE sharedMarkStack # {} /\ Steal(t, active)
  BY <1>0, <1>2, StealKept, Zenon
<1>3. CASE Wait(t, active)
  BY <1>0, <1>3, WaitKept, Zenon
<1>. QED
  BY <1>1, <1>2, <1>3, Zenon DEF SlaveEvaluates

(* Marking goes on in the phases of GCPhases, and each of its steps is one *)
(* of them or leaves them alone.                                           *)
LEMMA MarkingIsAPhase == [MarkNext]_vars => [PhaseNext]_phaseVars
<1> SUFFICES ASSUME [MarkNext]_vars
             PROVE  [PhaseNext]_phaseVars
  BY Zenon
<1>1. CASE StartMarking
  BY <1>1, Zenon DEF StartMarking, PhaseNext
<1>2. ASSUME NEW v \in Visitors, DrainStep(v) \/ DonateKnownParallel(v) \/ SpuriousMarkerWake(v)
      PROVE  UNCHANGED phaseVars
  BY <1>2, Zenon DEF DrainStep, InternalAppend, VisitChildren, FinishDrain, MergeOpaqueRoots, EnterShared,
     DonateKnownParallel, SpuriousMarkerWake
<1>3. ASSUME NEW active, MasterEvaluates(active)
      PROVE  UNCHANGED phaseVars
  BY <1>3, Zenon DEF MasterEvaluates, MasterReturn, Steal, Wait
<1>4. ASSUME NEW t \in GCThreads, NEW active, SlaveEvaluates(t, active)
      PROVE  LeaveMark(t) \/ UNCHANGED phaseVars
  BY <1>4, Zenon DEF SlaveEvaluates, SlaveReturn, Steal, Wait
<1>5. CASE MasterStep
  <2>1. StopMarkers \/ UNCHANGED phaseVars
    BY <1>2, <1>3, <1>5, VisitorFacts, SMTT(30)
    DEF MasterStep, NextRoots, MergeOpaqueRoots, MasterRecheck, MasterWoken, VisitWeakHandle,
        StartHarvest, VisitWeakReference, EndWeakRound, DidFinishMarking, ResetMarking
  <2>. QED
    BY <2>1, ZenonT(40) DEF PhaseNext, MainStep
<1>6. ASSUME NEW t \in GCThreads, SlaveStep(t)
      PROVE  [PhaseNext]_phaseVars
  <2>1. CASE DrainStep(t)
    BY <1>2, <2>1, VisitorFacts, Zenon
  <2>2. LeaveMark(t) \/ JoinPhase(t) => PhaseNext
    BY Zenon DEF PhaseNext, ThreadStep
  <2>3. CASE SlaveRecheck(t) \/ SlaveWoken(t)
    BY <1>4, <2>2, <2>3, Zenon DEF SlaveRecheck, SlaveWoken
  <2>4. CASE SlaveTerminates(t)
    BY <2>2, <2>4, Zenon DEF SlaveTerminates, phaseVars
  <2>5. CASE JoinMarking(t)
    BY <2>2, <2>5, Zenon DEF JoinMarking
  <2>. QED
    BY <1>6, <2>1, <2>3, <2>4, <2>5, SMTT(30) DEF SlaveStep
<1>7. CASE PhaseStep
  BY <1>7, Zenon DEF PhaseStep, MainPhaseStep, ThreadPhaseStep, PhaseNext, MainStep, ThreadStep
<1>8. CASE UNCHANGED vars
  BY <1>8, Zenon DEF vars
<1>. QED
  BY <1>1, <1>2, <1>5, <1>6, <1>7, <1>8, SMTT(30) DEF MarkNext

(* The invariant holds before the GC threads are created.                  *)
LEMMA MarkInvInit == MarkInit => MarkInv
<1> SUFFICES ASSUME MarkInit
             PROVE  MarkInv
  BY Zenon
<1>1. PhaseInv
  BY PhaseInvInit, Zenon DEF MarkInit
<1>2. \A v \in Visitors : /\ markPc[v] = "out" /\ stack[v] = {} /\ pending[v] = {}
                          /\ opaqueRoots[v] = {} /\ ~Draining(v)
  BY Zenon DEF MarkInit, Draining
<1>3. \A t \in GCThreads : threadPc[t] = "none"
  BY Zenon DEF MarkInit, PhaseInit
<1>4. MarkTypeOK
  BY DEF MarkInit, MarkTypeOK, MarkPcs
<1>5. markPc[MainThread] = "out" /\ ~Marking
  BY <1>2, VisitorFacts, Zenon DEF Marking
<1>6. Placed
  BY <1>2, <1>3, <1>5, VisitorFacts, Zenon DEF MarkInit, Placed, SlaveAt, MasterAt, SlavePcs
<1>7. Quiet
  <2>1. CountedMarkers = {}
    BY Zenon DEF MarkInit, CountedMarkers
  <2>2. Counted
    BY <2>1, FS_EmptySet, Zenon DEF MarkInit, Counted
  <2>3. Alone
    BY <1>2, VisitorFacts, Zenon DEF MarkInit, Alone
  <2>. QED
    BY <1>2, <2>2, <2>3, Zenon DEF Quiet, QuietAt
<1>8. Colours
  BY <1>2, <1>5, Zenon DEF MarkInit, Colours, Stacked
<1>9. Rounds
  BY <1>5, Zenon DEF Rounds, Weakly, Harvested
<1>. QED
  BY <1>1, <1>4, <1>6, <1>7, <1>8, <1>9, SMTT(30) DEF MarkInv

(* Every step keeps it.                                                    *)
LEMMA MarkInvStep == MarkInv /\ [MarkNext]_vars => MarkInv'
<1> SUFFICES ASSUME MarkInv, [MarkNext]_vars
             PROVE  MarkInv'
  BY Zenon
<1>1. PhaseInv'
  BY MarkingIsAPhase, PhaseInvStep, Zenon DEF MarkInv
<1>2. \A v \in Visitors : /\ markPc[v] = "recheck" => Others(v, activeMarkers - 1)
                          /\ markPc[v] = "woken" => Others(v, activeMarkers)
  BY OthersKnown, Zenon DEF MarkInv, Quiet
<1>3. ASSUME NEW v \in Visitors, DrainStep(v) \/ DonateKnownParallel(v) \/ SpuriousMarkerWake(v)
      PROVE  MarkInv'
  BY <1>1, <1>3, InternalAppendKept, VisitChildrenKept, FinishDrainKept, EnterSharedKept,
     DonateKept, WakeKept, SMTT(30) DEF DrainStep
<1>4. CASE MasterStep
  <2>1. CASE DrainStep(MainThread)
    BY <1>3, <2>1, VisitorFacts, ZenonT(40)
  <2>2. CASE MasterRecheck \/ MasterWoken
    BY <1>1, <1>2, <2>2, VisitorFacts, MasterEvaluatesKept, SMTT(30) DEF MasterRecheck, MasterWoken
  <2>. QED
    BY <1>1, <1>4, <2>1, <2>2, NextRootsKept, VisitWeakHandleKept, StartHarvestKept,
       VisitWeakReferenceKept, EndWeakRoundKept, DidFinishKept, ResetKept, SMTT(30) DEF MasterStep
<1>5. ASSUME NEW t \in GCThreads, SlaveStep(t)
      PROVE  MarkInv'
  <2>1. CASE DrainStep(t)
    BY <1>3, <2>1, VisitorFacts, ZenonT(40)
  <2>2. CASE SlaveRecheck(t) \/ SlaveWoken(t)
    BY <1>1, <1>2, <2>2, VisitorFacts, SlaveEvaluatesKept, SMTT(30) DEF SlaveRecheck, SlaveWoken
  <2>. QED
    BY <1>1, <1>5, <2>1, <2>2, SlaveTerminatesKept, JoinKept, SMTT(30) DEF SlaveStep
<1>6. CASE PhaseStep
  <2>1. UNCHANGED markVars
    BY <1>6, Zenon DEF PhaseStep
  <2>2. \A t \in GCThreads : threadPc'[t] = "Mark" <=> threadPc[t] = "Mark"
    BY <1>6, PhaseStepThreads, Zenon DEF MarkInv
  <2>. QED
    BY <1>1, <2>1, <2>2, PhaseStepKept, Zenon
<1>7. CASE UNCHANGED vars
  BY <1>1, <1>7, PhaseStepKept, Zenon DEF vars, phaseVars
<1>. QED
  BY <1>1, <1>3, <1>4, <1>5, <1>6, <1>7, StartKept, SMTT(30) DEF MarkNext

(* The invariant holds in every reachable state.                           *)
THEOREM MarkInvariance == MarkSpec => []MarkInv
BY MarkInvInit, MarkInvStep, PTL DEF MarkSpec

-----------------------------------------------------------------------------
(* In the weak rounds a marked cell is visited, or the main thread is to   *)
(* visit it.                                                               *)
LEMMA RoundsAreAlone ==
    ASSUME MarkInv, markPc[MainThread] \in WeakPcs
    PROVE  /\ Marking /\ sharedMarkStack = {}
           /\ \A v \in Visitors : pending[v] = {} /\ opaqueRoots[v] = {}
           /\ \A t \in GCThreads : stack[t] = {}
           /\ \A c \in marked : c \notin stack[MainThread] => Visited(c)
<1>1. Placed /\ Quiet /\ Colours /\ Marking /\ markPc[MainThread] \in AlonePcs
  BY Zenon DEF MarkInv, Marking, WeakPcs, AlonePcs
<1>2. sharedMarkStack = {} /\ \A v \in Visitors : ~Draining(v)
  BY <1>1, VisitorFacts, Zenon DEF Quiet, Alone, Draining, WeakPcs
<1>3. \A v \in Visitors : pending[v] = {} /\ opaqueRoots[v] = {}
  BY <1>1, <1>2, Zenon DEF Quiet, QuietAt
<1>4. \A t \in GCThreads : stack[t] = {}
  BY <1>1, <1>2, VisitorFacts, Zenon DEF Quiet, QuietAt, Placed, SlaveAt, SlavePcs
<1>5. \A c \in marked : c \notin stack[MainThread] => ~Waiting(c)
  BY <1>2, <1>4, VisitorFacts, Zenon DEF Waiting
<1>. QED
  BY <1>1, <1>2, <1>3, <1>4, <1>5, SMTT(30) DEF Colours, Traced

(* With any number of GC threads and on every heap, MasterDrain detects    *)
(* termination correctly: in the weak rounds nobody but the main thread    *)
(* has work, and no opaque root is missing from the shared set.            *)
THEOREM WeakPhasesAreExclusive == MarkSpec => []WeakPhaseIsExclusive
<1>1. ASSUME MarkInv
      PROVE  WeakPhaseIsExclusive
  <2> SUFFICES ASSUME markPc[MainThread] \in {"weak", "harvest", "finished", "ended"}
               PROVE  /\ sharedMarkStack = {}
                      /\ \A v \in Visitors : pending[v] = {} /\ opaqueRoots[v] = {}
                      /\ \A t \in GCThreads : stack[t] = {}
                      /\ \A c \in marked \ stack[MainThread] : heap.opaque[c] \subseteq sharedOpaqueRoots
    BY Zenon DEF WeakPhaseIsExclusive
  <2>1. /\ sharedMarkStack = {}
        /\ \A v \in Visitors : pending[v] = {} /\ opaqueRoots[v] = {}
        /\ \A t \in GCThreads : stack[t] = {}
        /\ \A c \in marked : c \notin stack[MainThread] => Visited(c)
    BY <1>1, RoundsAreAlone, ZenonT(40) DEF WeakPcs
  <2>2. ASSUME NEW c \in marked, c \notin stack[MainThread], NEW o \in heap.opaque[c]
        PROVE  o \in sharedOpaqueRoots
    BY <2>1, <2>2 DEF Visited
  <2>. QED
    BY <2>1, <2>2, Zenon
<1>. QED
  BY <1>1, MarkInvariance, PTL

(* When marking is over the main thread's mark stack is empty too.         *)
LEMMA OverIsVisited ==
    ASSUME MarkInv, MarkingOver
    PROVE  /\ markPc[MainThread] \in WeakPcs /\ Marking /\ todo = {} /\ stack[MainThread] = {}
           /\ \A c \in marked : Visited(c)
<1>1. markPc[MainThread] \in WeakPcs /\ markPc[MainThread] \in {"finished", "ended"}
  BY Zenon DEF MarkingOver, WeakPcs
<1>2. stack[MainThread] = {}
  BY <1>1, VisitorFacts, Zenon DEF MarkInv, Quiet, QuietAt, Draining
<1>3. todo = {}
  BY <1>1, ZenonT(40) DEF MarkInv, Rounds, Harvested
<1>. QED
  BY <1>1, <1>2, <1>3, RoundsAreAlone, ZenonT(40)

(* With any number of GC threads and on every heap, however the markers    *)
(* interleave, marking ends with the least set of cells that keeps what    *)
(* the heap says must be kept, and no cell is ever on two mark stacks.     *)
THEOREM LiveCellsAreMarked == MarkSpec => []ExactlyLiveCellsMarked
<1>1. ASSUME MarkInv, MarkingOver
      PROVE  Closed(marked)
  <2>1. /\ markPc[MainThread] \in WeakPcs /\ Marking /\ todo = {} /\ stack[MainThread] = {}
        /\ \A c \in marked : Visited(c)
    BY <1>1, OverIsVisited, Zenon
  <2>2. \A v \in Visitors : pending[v] = {} /\ opaqueRoots[v] = {}
    BY <1>1, <2>1, RoundsAreAlone, SMTT(30)
  <2>3. MarkTypeOK /\ Placed /\ Rooted /\ Rounds
    BY <1>1, <2>1 DEF MarkInv, Colours
  <2>4. batches = <<>>
    BY <2>1, <2>3, ZenonT(40) DEF Placed, MasterAt, Draining, WeakPcs
  <2>5. \A i \in 1 .. Len(heap.roots) : heap.roots[i] \subseteq marked
    <3>1. pending[MainThread] = {} /\ Len(batches) = 0
      BY <2>2, <2>4, VisitorFacts, Zenon
    <3>. QED
      BY <2>3, <3>1 DEF Rooted
  <2>6. \A c \in marked : heap.children[c] \subseteq marked
    BY <2>1, <2>2, Zenon DEF Visited
  <2>7. \A c \in marked : \A o \in heap.opaque[c] : o \in sharedOpaqueRoots
    BY <2>1, <2>2, Zenon DEF Visited
  <2>8. \A w \in heap.weak : (\E c \in marked : w.root \in heap.opaque[c]) => w.cell \in marked
    BY <1>1, <2>3, <2>7, Zenon DEF Rounds, Weakly, Kept, MarkingOver
  <2>9. \A x \in heap.entries : {x.map, x.key} \subseteq marked => x.value \in marked
    <3>1. \A x \in heap.entries : x.map \in harvesters /\ x.key \in marked => x.value \in marked
      BY <1>1, <2>1, <2>3 DEF Rounds, Harvested, MarkingOver
    <3>2. \A x \in heap.entries : x.map \in marked => x.map \in harvesters
      BY <2>1, ZenonT(40) DEF Visited
    <3>. QED
      BY <3>1, <3>2, ZenonT(40)
  <2>. QED
    BY <2>5, <2>6, <2>8, <2>9 DEF Closed
<1>2. ASSUME MarkInv
      PROVE  ExactlyLiveCellsMarked
  <2>1. MarkTypeOK /\ Stacked
    BY <1>2, Zenon DEF MarkInv, Colours
  <2>2. markPc[MainThread] # "out" => \A S \in SUBSET Cells : Closed(S) => marked \subseteq S
    BY <1>2, Zenon DEF MarkInv, Colours, Marking, Needed
  <2>3. \A v \in Visitors :
          /\ \A u \in Visitors \ {v} : stack[u] \cap stack[v] = {}
          /\ stack[v] \cap sharedMarkStack = {}
          /\ stack[v] \cup sharedMarkStack \subseteq marked
    BY <2>1, Zenon DEF Stacked
  <2>. QED
    BY <1>1, <1>2, <2>1, <2>2, <2>3 DEF ExactlyLiveCellsMarked
<1>. QED
  BY <1>2, MarkInvariance, PTL

(* With any number of GC threads and on every heap, m_liveKeyCount is the  *)
(* number of marked keys of each marked WeakMap when marking is over,      *)
(* however many weak rounds there were.                                    *)
THEOREM LiveKeysAreCounted == MarkSpec => []LiveKeyCountExact
<1>1. ASSUME MarkInv, MarkingOver, NEW m \in marked, {x \in heap.entries : x.map = m} # {}
      PROVE  liveKeyCount[m] = Cardinality({x \in {y \in heap.entries : y.map = m} : x.key \in marked})
  <2>1. /\ markPc[MainThread] \in WeakPcs /\ todo = {} /\ stack[MainThread] = {}
        /\ \A c \in marked : Visited(c)
    BY <1>1, OverIsVisited, ZenonT(40)
  <2>2. m \in harvesters
    BY <1>1, <2>1 DEF Visited
  <2>3. liveKeyCount[m] = Cardinality(LiveEntries(m))
    BY <1>1, <2>1, <2>2, SMTT(30) DEF MarkInv, Rounds, Harvested, MarkingOver
  <2>4. LiveEntries(m) = {x \in {y \in heap.entries : y.map = m} : x.key \in marked}
    BY <2>1 DEF LiveEntries
  <2>. QED
    BY <2>3, <2>4, Zenon
<1>2. MarkInv => LiveKeyCountExact
  BY <1>1, Zenon DEF LiveKeyCountExact
<1>. QED
  BY <1>2, MarkInvariance, PTL

(* Marking implements the phases of GCPhases, and so keeps what they       *)
(* promise: between phases no GC thread is at work, and the visitors may   *)
(* be reset unlocked.                                                      *)
THEOREM MarkingImplementsPhases == MarkSpec => PhaseSpec /\ []QuiescentBetweenPhases
<1>1. MarkInit => PhaseInit
  BY Zenon DEF MarkInit
<1>2. MarkInv => QuiescentBetweenPhases
  BY Zenon DEF MarkInv, PhaseInv
<1>. QED
  BY <1>1, <1>2, MarkingIsAPhase, MarkInvariance, PTL DEF MarkSpec, PhaseSpec
=============================================================================
