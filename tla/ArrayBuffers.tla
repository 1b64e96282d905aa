---------------------------- MODULE ArrayBuffers ----------------------------
(***************************************************************************)
(* Array buffers and typed arrays: runtime/ArrayBuffer.h, .cpp,            *)
(* ArrayBufferView.h, .cpp, JSArrayBufferView.h, .cpp, JSArrayBuffer.cpp,  *)
(* SimpleTypedArrayController.cpp, JSGenericTypedArrayViewInlines.h,       *)
(* heap/GCIncomingRefCounted*.h, WTF/wtf/DeferrableRefCounted.h, and the   *)
(* constants the DFG compiler takes from a typed array                     *)
(* (DFGStrengthReductionPhase.cpp, DFGDesiredWatchpoints.h, .cpp).         *)
(*                                                                         *)
(* A buffer is kept by counted references of native code and by the cells  *)
(* of the heap that use it, which it knows (its incoming references).  The *)
(* storage of a typed array is in copied space, or its own, or a buffer's; *)
(* it changes hands when script asks for the buffer, and when native code  *)
(* transfers the contents of the buffer elsewhere.                         *)
(*                                                                         *)
(* The mutator and one compiler thread interleave.  The slow path of the   *)
(* allocation of a cell drops the API lock (DelayedReleaseScope), so that  *)
(* what another thread does comes between what was read for the new cell   *)
(* and its registration with the buffer.  A collection finds no plan under *)
(* way (VM::prepareToDiscardCode) and is deferred while one is finalized   *)
(* (DeferGC).  Element types, offsets and values are left out: a view has  *)
(* all of the buffer, or nothing (length 0).                               *)
(***************************************************************************)
EXTENDS Integers, FiniteSets

CONSTANTS
    Cells,      \* cells of the heap, of views, wrappers and watchpoints
    Buffers,    \* ArrayBuffer objects
    Storages,   \* storage that malloc gives
    NULL,
    MaxRefs     \* bound: references native code takes to a buffer

ASSUME ArrayBuffersAssumption ==
    /\ IsFiniteSet(Cells) /\ IsFiniteSet(Buffers)
    /\ NULL \notin Cells \cup Buffers \cup Storages
    /\ Cells \cap Storages = {}
    /\ MaxRefs \in Nat \ {0}

VARIABLES
    heap,       \* cells, buffers, allocated storage
    native,     \* an ArrayBufferView of native code, or NoNative
    contents,   \* the ArrayBufferContents native code got from a transfer
    slowing,    \* the view the mutator is in slowDownAndWasteMemory of, or NULL
    creating,   \* what a thread in the slow path of allocateCell is to create
    plan,       \* the compiler thread's
    code        \* the optimized code that is installed

vars == <<heap, native, contents, slowing, creating, plan, code>>

CopiedVector(c) == c    \* the vector of a fast array, wherever it was copied to

(* kind: "view", "wrapper" (a JSArrayBuffer) or "watchpoint" (an           *)
(* ArrayBufferNeuteringWatchpoint).                                        *)
(* dead: not marked by a collection, and not swept yet.  finalizer:        *)
(* JSArrayBufferView::finalize is to be called.  missed, which the code    *)
(* does not have: while the view was being created, its vector was taken   *)
(* away by a transfer.                                                     *)
FreeCell == [kind |-> "free", dead |-> FALSE, mode |-> "none", vector |-> NULL, length |-> 0,
             buffer |-> NULL, finalizer |-> FALSE, missed |-> FALSE]

(* data, size: m_contents.  deferred: the flag in m_refCount.              *)
NoBuffer == [alive |-> FALSE, data |-> NULL, size |-> 0, refs |-> 0, deferred |-> FALSE,
             incoming |-> {}, pins |-> 0, wrapper |-> NULL]
NoContents == [data |-> NULL, size |-> 0]
NoNative == [buffer |-> NULL, base |-> NULL, neuterable |-> TRUE]
Unfolded == -1
(* missed: the view was neutered while the plan was being finalized.       *)
NoPlan == [pc |-> "idle", view |-> NULL, length |-> 0, vector |-> Unfolded, missed |-> FALSE]
NoCode == [view |-> NULL, length |-> 0, vector |-> Unfolded, watchpoint |-> NULL, missed |-> FALSE]
(* named: the new wrapper is to be the buffer's m_wrapper (toJS).          *)
NoCreation == [cell |-> FreeCell, named |-> FALSE]

Init ==
    /\ heap = [cells |-> [c \in Cells |-> FreeCell], buffers |-> [b \in Buffers |-> NoBuffer],
               memory |-> {}]
    /\ native = NoNative
    /\ contents = NoContents
    /\ slowing = NULL
    /\ creating = NoCreation
    /\ plan = NoPlan
    /\ code = NoCode

-----------------------------------------------------------------------------
(* Reference counts and incoming references                                *)

hasArrayBuffer(mode) == mode \in {"Wasteful", "DataView"}

FreeCells(h) == {c \in Cells : h.cells[c].kind = "free"}
(* Bound: one is left for the watchpoint of a plan.                        *)
SpareCells(h) ==
    IF plan.pc = "idle" \/ Cardinality(FreeCells(h)) > 1 THEN FreeCells(h) ELSE {}
FreeBuffers(h) == {b \in Buffers : ~h.buffers[b].alive}
FreeStorages(h) == Storages \ h.memory
Live(h, c) == c # NULL /\ h.cells[c].kind # "free" /\ ~h.cells[c].dead

(* ~ArrayBuffer when neither a reference nor the flag is left.             *)
DeleteIfUnused(h, b) ==
    IF h.buffers[b].refs = 0 /\ ~h.buffers[b].deferred
    THEN [h EXCEPT !.buffers[b] = NoBuffer, !.memory = @ \ {h.buffers[b].data}]
    ELSE h

Ref(h, b) == [h EXCEPT !.buffers[b].refs = @ + 1]
Deref(h, b) == DeleteIfUnused([h EXCEPT !.buffers[b].refs = @ - 1], b)

(* Heap::addReference: a buffer's first reference registers it in the set. *)
addReference(h, c, b) ==
    [h EXCEPT !.buffers[b].incoming = @ \cup {c}, !.buffers[b].deferred = TRUE]

(* A filter that leaves the flag of a buffer without references.           *)
FilterKeepingFlag(h, b, keep) ==
    [h EXCEPT !.buffers[b].incoming = @ \cap keep]

(* filterIncomingReferences: a buffer left without any is unregistered.    *)
filterIncomingReferences(h, b, keep) ==
    IF h.buffers[b].incoming = {} \/ h.buffers[b].incoming \cap keep # {}
    THEN [h EXCEPT !.buffers[b].incoming = @ \cap keep]
    ELSE DeleteIfUnused([h EXCEPT !.buffers[b].incoming = {}, !.buffers[b].deferred = FALSE], b)

(* GCIncomingRefCountedSet::sweep.                                         *)
SweepBuffers(h, keep) ==
    [h EXCEPT !.buffers = [b \in Buffers |-> filterIncomingReferences(h, b, keep).buffers[b]],
              !.memory = {s \in @ : \A b \in Buffers : s \in filterIncomingReferences(h, b, keep).memory}]

(* A buffer of new storage, one reference.                                 *)
NewBuffer(h, b, data, size) ==
    [h EXCEPT !.buffers[b] = [NoBuffer EXCEPT !.alive = TRUE, !.data = data, !.size = size, !.refs = 1],
              !.memory = @ \cup {data}]

-----------------------------------------------------------------------------
(* Typed arrays                                                            *)

Idle == slowing = NULL
View(c) == heap.cells[c].kind = "view" /\ Live(heap, c)

(* Native code, or script that has a wrapper, has the buffer.              *)
Reachable(b) ==
    /\ heap.buffers[b].alive
    /\ \/ heap.buffers[b].refs > 0
       \/ \E c \in heap.buffers[b].incoming : heap.cells[c].kind = "wrapper"

NewView(mode, vector, length, b) ==
    [FreeCell EXCEPT !.kind = "view", !.mode = mode, !.vector = vector,
                     !.length = length, !.buffer = b, !.finalizer = mode = "Oversize"]

(* JSGenericTypedArrayView::create: a small one in copied space, no vector *)
(* if it is empty.                                                         *)
CreateFast(c, length) ==
    /\ Idle /\ c \in SpareCells(heap)
    /\ heap' = [heap EXCEPT !.cells[c] =
                    NewView("Fast", IF length = 0 THEN NULL ELSE CopiedVector(c), length, NULL)]
    /\ UNCHANGED <<native, contents, slowing, creating, plan, code>>

(* One too large for that, whose finalizer is to free its vector.          *)
CreateOversize(c) ==
    /\ Idle /\ c \in SpareCells(heap)
    /\ \E vector \in FreeStorages(heap) :
          heap' = [heap EXCEPT !.cells[c] = NewView("Oversize", vector, 1, NULL),
                               !.memory = @ \cup {vector}]
    /\ UNCHANGED <<native, contents, slowing, creating, plan, code>>

(* The cell is there: it is registered with its buffer (finishCreation),   *)
(* a wrapper is named, and the RefPtr of its creator is gone.              *)
Created(h, c, new) ==
    LET b == new.cell.buffer
        named == IF new.named THEN c ELSE h.buffers[b].wrapper
    IN  Deref(addReference([h EXCEPT !.cells[c] = new.cell, !.buffers[b].wrapper = named], c, b), b)

(* allocateCell for a cell that is to refer to a buffer its creator has a  *)
(* RefPtr of: at once, or by the slow path, in which the API lock is       *)
(* dropped.  Bound: one thread is in the slow path.                        *)
AllocateCell(h, new) ==
    \/ /\ \E c \in SpareCells(h) : heap' = Created(h, c, new)
       /\ UNCHANGED creating
    \/ /\ creating = NoCreation
       /\ heap' = h
       /\ creating' = new

FinishCreation ==
    /\ Idle /\ creating # NoCreation
    /\ \E c \in SpareCells(heap) : heap' = Created(heap, c, creating)
    /\ creating' = NoCreation
    /\ UNCHANGED <<native, contents, slowing, plan, code>>

(* A typed array or a DataView of a buffer, whose vector and length are    *)
(* those the buffer has before the cell is allocated (ConstructionContext).*)
CreateOnBuffer(b, mode) ==
    /\ Idle /\ Reachable(b)
    /\ \E length \in {0, heap.buffers[b].size} :
          AllocateCell(Ref(heap, b), [NoCreation EXCEPT !.cell = NewView(mode, heap.buffers[b].data, length, b)])
    /\ UNCHANGED <<native, contents, slowing, plan, code>>

(* slowDownAndWasteMemory: the storage of an oversize array is adopted,    *)
(* that of a fast one copied; then the view has the buffer's storage, and  *)
(* then the mode of a view of a buffer.  The compiler sees the stores in   *)
(* this order: it is a thread of its own only in builds for x86-64, which  *)
(* does not reorder them (ENABLE_CONCURRENT_JIT, Platform.h).              *)
BufferForView(h, c, b, data) ==
    [NewBuffer(h, b, data, h.cells[c].length) EXCEPT !.cells[c].vector = data, !.cells[c].buffer = b]

StorageForView(h, c) ==
    IF h.cells[c].mode = "Oversize" THEN {h.cells[c].vector} ELSE FreeStorages(h)

WasteMemory(h, c) ==
    Deref(addReference([h EXCEPT !.cells[c].mode = "Wasteful"], c, h.cells[c].buffer), h.cells[c].buffer)

SlowDown(c) ==
    /\ Idle /\ View(c) /\ ~hasArrayBuffer(heap.cells[c].mode)
    /\ \E b \in FreeBuffers(heap), data \in StorageForView(heap, c) :
          heap' = BufferForView(heap, c, b, data)
    /\ slowing' = c
    /\ UNCHANGED <<native, contents, creating, plan, code>>

AndWasteMemory(c) ==
    /\ slowing = c
    /\ heap' = WasteMemory(heap, c)
    /\ slowing' = NULL
    /\ UNCHANGED <<native, contents, creating, plan, code>>

Wrapper(b) == [FreeCell EXCEPT !.kind = "wrapper", !.buffer = b]

(* SimpleTypedArrayController::toJS, of the buffer of a view or of one     *)
(* that native code has: a new wrapper, if its last one is not live.       *)
toJS(b) ==
    /\ Idle
    /\ Reachable(b) \/ \E c \in Cells : View(c) /\ heap.cells[c].buffer = b
    /\ ~Live(heap, heap.buffers[b].wrapper)
    /\ AllocateCell(Ref(heap, b), [cell |-> Wrapper(b), named |-> TRUE])
    /\ UNCHANGED <<native, contents, slowing, plan, code>>

(* constructArrayBuffer, slice and CreateArrayBuffer of the API: a buffer  *)
(* of new storage with a wrapper that it does not know as m_wrapper.       *)
ConstructArrayBuffer(b) ==
    /\ Idle /\ b \in FreeBuffers(heap)
    /\ \E data \in FreeStorages(heap) :
          AllocateCell(NewBuffer(heap, b, data, 1), [cell |-> Wrapper(b), named |-> FALSE])
    /\ UNCHANGED <<native, contents, slowing, plan, code>>

-----------------------------------------------------------------------------
(* Native code                                                             *)

(* ArrayBuffer::create, of new storage or of contents transferred before.  *)
CreateBuffer(b) ==
    /\ Idle /\ b \in FreeBuffers(heap)
    /\ \/ /\ contents # NoContents
          /\ heap' = NewBuffer(heap, b, contents.data, contents.size)
          /\ contents' = NoContents
       \/ /\ \E data \in FreeStorages(heap) : heap' = NewBuffer(heap, b, data, 1)
          /\ UNCHANGED contents
    /\ UNCHANGED <<native, slowing, creating, plan, code>>

(* References that are neither the native view's nor a creator's.          *)
References(b) ==
    heap.buffers[b].refs - Cardinality({x \in {<<"native", native.buffer>>, <<"creating", creating.cell.buffer>>} :
                                           x[2] = b})

TakeReference(b) ==
    /\ Idle /\ References(b) < MaxRefs
    /\ Reachable(b) \/ \E c \in Cells : View(c) /\ heap.cells[c].buffer = b
    /\ heap' = Ref(heap, b)
    /\ UNCHANGED <<native, contents, slowing, creating, plan, code>>

DropReference(b) ==
    /\ Idle /\ References(b) > 0
    /\ heap' = Deref(heap, b)
    /\ UNCHANGED <<native, contents, slowing, creating, plan, code>>

(* JSArrayBufferView::impl of a view that has a buffer.                    *)
CreateNative(c) ==
    /\ Idle /\ View(c) /\ hasArrayBuffer(heap.cells[c].mode) /\ native = NoNative
    /\ LET b == heap.cells[c].buffer
       IN  /\ heap' = Ref(heap, b)
           /\ native' = [buffer |-> b, base |-> heap.buffers[b].data, neuterable |-> TRUE]
    /\ UNCHANGED <<contents, slowing, creating, plan, code>>

(* ArrayBufferView::setNeuterable.                                         *)
SetNeuterable(flag) ==
    /\ Idle /\ native # NoNative /\ flag # native.neuterable
    /\ native' = [native EXCEPT !.neuterable = flag]
    /\ heap' = [heap EXCEPT !.buffers[native.buffer].pins = @ + IF flag THEN -1 ELSE 1]
    /\ UNCHANGED <<contents, slowing, creating, plan, code>>

(* ~ArrayBufferView.                                                       *)
ReleaseNative ==
    /\ Idle /\ native # NoNative
    /\ heap' = Deref([heap EXCEPT !.buffers[native.buffer].pins = @ - IF native.neuterable THEN 0 ELSE 1],
                     native.buffer)
    /\ native' = NoNative
    /\ UNCHANGED <<contents, slowing, creating, plan, code>>

(* ~ArrayBufferContents.                                                   *)
DropContents ==
    /\ Idle /\ contents # NoContents
    /\ heap' = [heap EXCEPT !.memory = @ \ {contents.data}]
    /\ contents' = NoContents
    /\ UNCHANGED <<native, slowing, creating, plan, code>>

(* A neutered view that keeps its vector.                                  *)
NeuteredLength(h, b) ==
    [h EXCEPT !.cells = [c \in Cells |->
        IF c \in h.buffers[b].incoming /\ h.cells[c].kind = "view"
        THEN [h.cells[c] EXCEPT !.length = 0]
        ELSE h.cells[c]]]

(* JSArrayBufferView::neuter.                                              *)
Neutered(h, b) ==
    [h EXCEPT !.cells = [c \in Cells |->
        IF c \in h.buffers[b].incoming /\ h.cells[c].kind = "view"
        THEN [h.cells[c] EXCEPT !.length = 0, !.vector = NULL]
        ELSE h.cells[c]]]

(* What the cells that use a buffer are told of its transfer.  A view that *)
(* is being created, and code that is being installed, are not told.       *)
Notify(h, b) ==
    /\ heap' = Neutered(h, b)
    /\ code' = IF code.watchpoint \in h.buffers[b].incoming THEN NoCode ELSE code
    /\ plan' = [plan EXCEPT !.missed = @ \/ (plan.pc = "install" /\ plan.view \in h.buffers[b].incoming)]
    /\ creating' = [creating EXCEPT !.cell.missed =
                        @ \/ /\ creating.cell.kind = "view" /\ creating.cell.buffer = b
                             /\ h.buffers[b].data = NULL]

(* ArrayBuffer::transfer: the storage moves, or is copied if it is pinned, *)
(* which may fail.  Either way the views are neutered.  One of a neutered  *)
(* buffer fails, and changes nothing.                                      *)
Transfer(b) ==
    /\ Idle /\ Reachable(b) /\ heap.buffers[b].data # NULL /\ contents = NoContents
    /\ \/ /\ heap.buffers[b].pins = 0
          /\ contents' = [data |-> heap.buffers[b].data, size |-> heap.buffers[b].size]
          /\ Notify([heap EXCEPT !.buffers[b].data = NULL, !.buffers[b].size = 0], b)
       \/ /\ heap.buffers[b].pins > 0
          /\ \E copy \in FreeStorages(heap) :
                /\ contents' = [data |-> copy, size |-> heap.buffers[b].size]
                /\ Notify([heap EXCEPT !.memory = @ \cup {copy}], b)
    /\ UNCHANGED <<native, slowing>>

-----------------------------------------------------------------------------
(* Collection                                                              *)

(* A dead cell is swept some time later, which matters if it has a         *)
(* finalizer to call.                                                      *)
Dead(cell) ==
    IF cell.finalizer THEN [cell EXCEPT !.dead = TRUE, !.length = 0, !.buffer = NULL]
    ELSE FreeCell

(* Heap::collect: marking, weak wrappers of dead cells, the array buffers. *)
(* The mutator has no use any more for the views and wrappers that are not *)
(* marked.  Optimized code is not live when a view it has constants of is  *)
(* not, and a watchpoint cell is marked as a constant of live code.        *)
Collect ==
    /\ Idle /\ plan.pc = "idle"
    /\ \E used \in SUBSET {c \in Cells : Live(heap, c) /\ heap.cells[c].kind # "watchpoint"} :
          LET marked == used \cup IF code.view \in used THEN {code.watchpoint} ELSE {}
              dying == [c \in Cells |-> IF c \in marked THEN heap.cells[c] ELSE Dead(heap.cells[c])]
              reaped == [b \in Buffers |->
                            [heap.buffers[b] EXCEPT !.wrapper = IF @ \in marked THEN @ ELSE NULL]]
          IN  /\ heap' = SweepBuffers([heap EXCEPT !.cells = dying, !.buffers = reaped], marked)
              /\ code' = IF code.view \in used THEN code ELSE NoCode
    /\ UNCHANGED <<native, contents, slowing, creating, plan>>

(* A finalizer that does not look at the mode.                             *)
FinalizeAlways(h, c) ==
    [h EXCEPT !.cells[c] = FreeCell,
              !.memory = IF h.cells[c].finalizer THEN @ \ {h.cells[c].vector} ELSE @]

(* A dead cell is swept, with JSArrayBufferView::finalize.                 *)
Finalize(h, c) ==
    [h EXCEPT !.cells[c] = FreeCell,
              !.memory = IF h.cells[c].finalizer /\ h.cells[c].mode = "Oversize"
                         THEN @ \ {h.cells[c].vector} ELSE @]

SweepCell(c) ==
    /\ Idle /\ heap.cells[c].dead
    /\ heap' = Finalize(heap, c)
    /\ UNCHANGED <<native, contents, slowing, creating, plan, code>>

-----------------------------------------------------------------------------
(* The compiler thread                                                     *)

(* A compilation of code with the view as a constant; the first step tests *)
(* that it is not neutered (tryGetFoldableView).                           *)
StartPlan(c) ==
    /\ plan.pc = "idle" /\ code = NoCode /\ View(c) /\ heap.cells[c].mode # "DataView"
    /\ heap.cells[c].length # 0 /\ FreeCells(heap) # {}
    /\ plan' = [NoPlan EXCEPT !.pc = "length", !.view = c]
    /\ UNCHANGED <<heap, native, contents, slowing, creating, code>>

FoldLength ==
    /\ plan.pc = "length"
    /\ plan' = [plan EXCEPT !.pc = "mode", !.length = heap.cells[plan.view].length]
    /\ UNCHANGED <<heap, native, contents, slowing, creating, code>>

(* A compiler that folds the storage of fast arrays too.                   *)
TestNoMode ==
    /\ plan.pc = "mode"
    /\ plan' = [plan EXCEPT !.pc = IF heap.cells[plan.view].length = 0 THEN "ready" ELSE "vector"]
    /\ UNCHANGED <<heap, native, contents, slowing, creating, code>>

(* GetIndexedPropertyStorage is left alone for a neutered or a fast array. *)
TestMode ==
    /\ plan.pc = "mode"
    /\ LET view == heap.cells[plan.view]
       IN  plan' = [plan EXCEPT !.pc = IF view.length = 0 \/ view.mode = "Fast" THEN "ready" ELSE "vector"]
    /\ UNCHANGED <<heap, native, contents, slowing, creating, code>>

FoldStorage ==
    /\ plan.pc = "vector"
    /\ plan' = [plan EXCEPT !.pc = "ready", !.vector = heap.cells[plan.view].vector]
    /\ UNCHANGED <<heap, native, contents, slowing, creating, code>>

(* A watchpoint cell that refers to the buffer.                            *)
Watch(h, c, b) ==
    addReference([h EXCEPT !.cells[c] = [FreeCell EXCEPT !.kind = "watchpoint", !.buffer = b]], c, b)

(* Plan::finalizeWithoutNotifyingCallback, in the mutator: the plan is     *)
(* dropped if the view was neutered (DesiredWatchpoints::areStillValid).   *)
CheckPlan ==
    /\ Idle /\ plan.pc = "ready"
    /\ plan' = IF heap.cells[plan.view].length = 0 THEN NoPlan ELSE [plan EXCEPT !.pc = "install"]
    /\ UNCHANGED <<heap, native, contents, slowing, creating, code>>

(* Else a watchpoint cell is allocated, which may drop the API lock; it    *)
(* then refers to the buffer, which the view gets if it has none, and the  *)
(* code is installed (ArrayBufferViewWatchpointAdaptor::add).              *)
InstallPlan ==
    /\ Idle /\ plan.pc = "install"
    /\ \E c \in FreeCells(heap) :
          /\ \/ /\ hasArrayBuffer(heap.cells[plan.view].mode)
                /\ heap' = Watch(heap, c, heap.cells[plan.view].buffer)
             \/ /\ ~hasArrayBuffer(heap.cells[plan.view].mode)
                /\ \E b \in FreeBuffers(heap), data \in StorageForView(heap, plan.view) :
                      heap' = Watch(WasteMemory(BufferForView(heap, plan.view, b, data), plan.view), c, b)
          /\ code' = [view |-> plan.view, length |-> plan.length, vector |-> plan.vector,
                      watchpoint |-> c, missed |-> plan.missed]
    /\ plan' = NoPlan
    /\ UNCHANGED <<native, contents, slowing, creating>>

(* The code is thrown away for another reason.                             *)
JettisonCode ==
    /\ Idle /\ code # NoCode
    /\ code' = NoCode
    /\ UNCHANGED <<heap, native, contents, slowing, creating, plan>>

-----------------------------------------------------------------------------
Next ==
    \/ \E c \in Cells :
          \/ \E length \in {0, 1} : CreateFast(c, length)
          \/ CreateOversize(c)
          \/ SlowDown(c) \/ AndWasteMemory(c) \/ SweepCell(c)
          \/ CreateNative(c) \/ StartPlan(c)
    \/ \E b \in Buffers :
          \/ \E mode \in {"Wasteful", "DataView"} : CreateOnBuffer(b, mode)
          \/ toJS(b) \/ ConstructArrayBuffer(b) \/ CreateBuffer(b)
          \/ TakeReference(b) \/ DropReference(b) \/ Transfer(b)
    \/ \E flag \in BOOLEAN : SetNeuterable(flag)
    \/ FinishCreation \/ ReleaseNative \/ DropContents \/ Collect
    \/ FoldLength \/ TestMode \/ FoldStorage \/ CheckPlan \/ InstallPlan \/ JettisonCode

Spec == Init /\ [][Next]_vars

-----------------------------------------------------------------------------
(* Properties                                                              *)

(* The storage that a buffer, an oversize array that is not swept yet, or  *)
(* contents on their way have to free.                                     *)
Owners(s) ==
    {<<"buffer", b>> : b \in {b \in Buffers : heap.buffers[b].data = s}}
    \cup {<<"view", c>> : c \in {c \in Cells : /\ heap.cells[c].mode = "Oversize" /\ c # slowing
                                               /\ heap.cells[c].vector = s}}
    \cup (IF contents.data = s THEN {<<"contents", 0>>} ELSE {})

(* Storage is freed once, and not before its time: through slow-downs,     *)
(* transfers, late finalizers and the deletion of buffers, what is         *)
(* allocated has one owner, and what is not has none.                      *)
StorageOwnedOnce ==
    \A s \in Storages : Cardinality(Owners(s)) = IF s \in heap.memory THEN 1 ELSE 0

(* A buffer lives exactly as long as counted references or incoming ones,  *)
(* and through the allocation of a cell that is to refer to it; every cell *)
(* that uses it and is not dead is among those it knows; and its m_wrapper *)
(* is a live wrapper of this buffer, or null, so that toJS returns no dead *)
(* one and no other buffer's.                                              *)
BuffersKept ==
    \A b \in Buffers :
        LET buffer == heap.buffers[b]
        IN  /\ buffer.alive <=> buffer.refs > 0 \/ buffer.incoming # {}
            /\ buffer.deferred <=> buffer.incoming # {}
            /\ References(b) >= 0
            /\ buffer.pins = IF native.buffer = b /\ ~native.neuterable THEN 1 ELSE 0
            /\ buffer.incoming = {c \in Cells : /\ Live(heap, c) /\ c # slowing
                                                /\ heap.cells[c].buffer = b}
            /\ buffer.wrapper # NULL =>
                  buffer.wrapper \in buffer.incoming /\ heap.cells[buffer.wrapper].kind = "wrapper"

(* A view of a buffer has the buffer's storage, within its size, or it is  *)
(* neutered: no view, of script or native, is left with storage that a     *)
(* transfer took away, save one whose vector was read before the transfer  *)
(* and which was registered after it, a thread having dropped the API lock *)
(* to allocate the cell.  That one has the whole of a buffer that has no   *)
(* storage left.  An array without a buffer has storage its own.           *)
ViewsCoherent ==
    /\ \A c \in Cells : Live(heap, c) /\ heap.cells[c].kind = "view" /\ c # slowing =>
          LET view == heap.cells[c]
              buffer == heap.buffers[view.buffer]
          IN  CASE view.mode = "Fast" -> view.vector = IF view.length = 0 THEN NULL ELSE CopiedVector(c)
                [] view.mode = "Oversize" -> view.vector \in heap.memory
                [] OTHER -> \/ view.vector = buffer.data /\ view.length <= buffer.size
                            \/ view.vector = NULL /\ view.length = 0
                            \/ view.missed /\ buffer.data = NULL
    /\ native # NoNative => heap.buffers[native.buffer].data \in {NULL, native.base}

(* Optimized code that has the length and the storage of a typed array as  *)
(* constants is valid only while they are what the array has: whatever     *)
(* happened between the compiler's reads, and since they were made; save   *)
(* that the array was neutered after the last test of it, a thread having  *)
(* dropped the API lock to allocate the watchpoint's cell.                 *)
FoldedConstantsCurrent ==
    code # NoCode /\ ~code.missed =>
        /\ Live(heap, code.view)
        /\ code.length = heap.cells[code.view].length
        /\ code.vector \in {Unfolded, heap.cells[code.view].vector}
=============================================================================
