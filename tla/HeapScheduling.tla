--------------------------- MODULE HeapScheduling ---------------------------
(***************************************************************************)
(* When the heap of a VM is collected (heap/Heap.cpp, HeapTimer.cpp,       *)
(* DeferGC.h, runtime/GCActivityCallback.cpp, the slow path of             *)
(* heap/MarkedAllocator.cpp): by an allocation beyond the limit, at the    *)
(* end of a deferral, by a timer of the run loop the VM was created on, or *)
(* on request; and how the VM goes away (VM::~VM) while timers and other   *)
(* threads may still be about to use it.                                   *)
(*                                                                         *)
(* Several threads share the VM.  The API lock is abstract here (JSLock    *)
(* models it): owner is the thread inside, and the scopes a thread has     *)
(* open are frames[t].  A ~DelayedReleaseScope drops the lock and runs     *)
(* callbacks, which may come back into the VM; it is a frame too.  A       *)
(* collection runs under the lock without a break, and is one step.        *)
(***************************************************************************)
EXTENDS Integers, Sequences, FiniteSets

CONSTANTS
    Threads,
    MainThread,     \* the thread whose run loop has the timers
    NoThread,
    Limit,          \* m_bytesAllocatedLimit
    Lengths,        \* how long collections take; before the first one, 0
    NewDelay,       \* of a last collection that long: bytes so far -> delay wanted
    Decade,         \* s_decade
    MaxBytes,       \* bound: bytes allocated or abandoned between collections
    MaxFrames       \* bound: scopes a thread has open

ASSUME SchedulingAssumption ==
    /\ MainThread \in Threads /\ NoThread \notin Threads
    /\ {Limit, Decade, MaxBytes, MaxFrames} \subseteq Nat
    /\ 0 \in Lengths
    /\ \A l \in Lengths, b \in 0 .. 2 * MaxBytes :
          /\ NewDelay[l][b] \in Nat
          /\ \A c \in 0 .. b : NewDelay[l][b] <= NewDelay[l][c]
    /\ \A b \in 0 .. 2 * MaxBytes : NewDelay[0][b] = 0

VARIABLES
    owner,      \* the thread that holds the API lock
    dropDepth,  \* m_lockDropDepth
    frames,     \* thread -> the scopes it has open, innermost first
    waiting,    \* the threads about to enter, with a reference to the VM
    heap,       \* the members of Heap and of the activity callback
    enabled,    \* GCActivityCallback::m_enabled
    firing,     \* the timer whose callback waits for the lock, or "none"
    released,   \* the embedder has given up its references to the VM
    vm          \* "alive", or "dead" once ~VM ran

lockVars == <<owner, dropDepth, frames, waiting>>
vars == <<lockVars, heap, enabled, firing, released, vm>>

Deferrals == {"defer", "deferForAWhile"}
Windows == {"try", "tryAgain", "addBlock", "tryLast", "collect", "sweep"}

(* dropped: a window that did drop the lock.                               *)
Frame(kind, dropped) == [kind |-> kind, dropped |-> dropped]

(* length: m_lastGCLength.  delay: m_delay.  fireIn: time to the timer's   *)
(* next date, the first of which is a fixed one (s_decade, HeapTimer.cpp)  *)
(* that may be near, or past.  sweeping: the incremental sweeper's timer   *)
(* is set.  missed: the timer fired in vain since the last collection.     *)
(* crashed: a RELEASE_ASSERT failed.                                       *)
Init ==
    /\ owner = NoThread
    /\ dropDepth = 0
    /\ frames = [t \in Threads |-> <<>>]
    /\ waiting = {}
    /\ \E first \in 0 .. Decade :
          heap = [bytes |-> 0, abandoned |-> 0, depth |-> 0, op |-> "NoOperation", length |-> 0,
                  delay |-> Decade, fireIn |-> first, sweeping |-> FALSE, missed |-> FALSE,
                  crashed |-> FALSE]
    /\ enabled = TRUE
    /\ firing = "none"
    /\ released = FALSE
    /\ vm = "alive"

-----------------------------------------------------------------------------
(* The heap                                                                *)

(* A timer that moves its date by the whole delay.                         *)
ScheduleBackwards(h, newDelay) ==
    IF newDelay * 2 > h.delay THEN h
    ELSE [h EXCEPT !.delay = newDelay, !.fireIn = h.fireIn - newDelay]

(* DefaultGCActivityCallback::scheduleTimer.  A date in the past is due.   *)
scheduleTimer(h, newDelay) ==
    IF newDelay * 2 > h.delay THEN h
    ELSE [h EXCEPT !.delay = newDelay,
                   !.fireIn = IF @ > h.delay - newDelay THEN @ - (h.delay - newDelay) ELSE 0]

(* DefaultGCActivityCallback::didAllocate.                                 *)
setTimer(h) == scheduleTimer(h, NewDelay[h.length][h.bytes + h.abandoned])

didAllocate(h, n) == [setTimer(h) EXCEPT !.bytes = @ + n]
didAbandon(h, n) == [setTimer(h) EXCEPT !.abandoned = @ + n]

shouldCollect(h) == h.depth = 0 /\ h.bytes > Limit /\ h.op = "NoOperation"

(* willCollect cancels the timer, startSweeping sets that of the sweeper,  *)
(* and the collection took some time.                                      *)
Collected(h, length) ==
    [h EXCEPT !.bytes = 0, !.abandoned = 0, !.length = length, !.delay = Decade,
              !.fireIn = Decade, !.missed = FALSE, !.sweeping = TRUE]

(* A collection that does not look at the deferrals.                       *)
CollectDeferred(h, length) ==
    IF h.op # "NoOperation" THEN [h EXCEPT !.crashed = TRUE] ELSE Collected(h, length)

(* Heap::collect, with what it asserts first: no deferral, and no other    *)
(* operation (and, between the two, the VM's identifier table, which every *)
(* thread has that is inside the VM and not in a callback).                *)
collect(h, length) ==
    IF h.depth # 0 \/ h.op # "NoOperation" THEN [h EXCEPT !.crashed = TRUE]
    ELSE Collected(h, length)

collectIfNecessaryOrDefer(h, length) == IF shouldCollect(h) THEN collect(h, length) ELSE h

-----------------------------------------------------------------------------
(* Scopes and the API lock                                                 *)

Top(t) == Head(frames[t]).kind
Inside(t) == /\ ~heap.crashed /\ owner = t /\ frames[t] # <<>>
             /\ Top(t) \notin Windows /\ t \notin waiting
InWindow(t) == ~heap.crashed /\ frames[t] # <<>> /\ Top(t) \in Windows /\ t \notin waiting

Push(t, kind) == frames' = [frames EXCEPT ![t] = <<Frame(kind, FALSE)>> \o @]

(* A thread that has these scopes open holds the lock.                     *)
Holds(scopes) == \E i \in DOMAIN scopes :
    scopes[i].kind = "api" /\ \A j \in 1 .. i : ~scopes[j].dropped

(* An APIEntryShim takes a reference to the VM, then the lock.  A new call *)
(* needs a reference of the embedder's, one from a callback does not.      *)
Enter(t) ==
    /\ ~heap.crashed /\ t \notin waiting /\ Len(frames[t]) < MaxFrames
    /\ \/ frames[t] = <<>> /\ ~released /\ ~(t = MainThread /\ firing # "none")
       \/ InWindow(t)
    /\ waiting' = waiting \cup {t}
    /\ UNCHANGED <<owner, dropDepth, frames, heap, enabled, firing, released, vm>>

EnterLocked(t) ==
    /\ ~heap.crashed /\ t \in waiting /\ owner \in {NoThread, t}
    /\ owner' = t
    /\ waiting' = waiting \ {t}
    /\ Push(t, "api")
    /\ UNCHANGED <<dropDepth, heap, enabled, firing, released, vm>>

LastReference(t) ==
    /\ released /\ Len(frames[t]) = 1 /\ waiting = {}
    /\ \A x \in Threads \ {t} : frames[x] = <<>>

(* ~APIEntryShim: the last reference destroys the VM, under the lock.  ~VM *)
(* forbids collection, tells the lock, and removes the timers.             *)
Exit(t) ==
    /\ Inside(t) /\ Top(t) = "api"
    /\ frames' = [frames EXCEPT ![t] = Tail(@)]
    /\ owner' = IF Holds(Tail(frames[t])) THEN t ELSE NoThread
    /\ \/ /\ LastReference(t)
          /\ vm' = "dead"
          /\ heap' = [heap EXCEPT !.depth = @ + 1]
       \/ ~LastReference(t) /\ UNCHANGED <<vm, heap>>
    /\ UNCHANGED <<dropDepth, waiting, enabled, firing, released>>

(* The embedder's last reference: JSContextGroupRelease, or                *)
(* JSGlobalContextRelease, which abandons the global object first.         *)
Release(t) ==
    /\ Inside(t) /\ ~released
    /\ released' = TRUE
    /\ \/ UNCHANGED heap
       \/ heap.abandoned < MaxBytes /\ heap' = didAbandon(heap, 1)
    /\ UNCHANGED <<lockVars, enabled, firing, vm>>

(* A DelayedReleaseScope ends: APICallbackShim drops the lock, unless it   *)
(* is dropped already, and callbacks run.  h: the heap by then.            *)
OpenWindow(t, scopes, kind, h) ==
    /\ frames' = [frames EXCEPT ![t] = <<Frame(kind, dropDepth = 0)>> \o scopes]
    /\ owner' = IF dropDepth = 0 THEN NoThread ELSE t
    /\ dropDepth' = IF dropDepth = 0 THEN 1 ELSE dropDepth
    /\ heap' = h

(* The callbacks have returned, and the thread has its locks again.        *)
CanClose(t, kind) ==
    /\ InWindow(t) /\ Top(t) = kind
    /\ owner = IF Head(frames[t]).dropped THEN NoThread ELSE t

CloseWindow(t, h) ==
    /\ frames' = [frames EXCEPT ![t] = Tail(@)]
    /\ owner' = t
    /\ dropDepth' = IF Head(frames[t]).dropped THEN dropDepth - 1 ELSE dropDepth
    /\ heap' = h

(* The lock is taken back, and dropped again by the next such scope.       *)
NextWindow(t, kind, h) ==
    /\ frames' = [frames EXCEPT ![t] = <<Frame(kind, Head(@).dropped)>> \o Tail(@)]
    /\ heap' = h
    /\ UNCHANGED <<owner, dropDepth>>

-----------------------------------------------------------------------------
(* What a thread inside the VM does                                        *)

Rest == <<waiting, enabled, firing, released, vm>>

(* DeferGC and DeferGCForAWhile.                                           *)
Defer(t, kind) ==
    /\ Inside(t) /\ Len(frames[t]) < MaxFrames
    /\ Push(t, kind)
    /\ heap' = [heap EXCEPT !.depth = @ + 1]
    /\ UNCHANGED <<owner, dropDepth, Rest>>

EndDefer(t) ==
    /\ Inside(t) /\ Top(t) \in Deferrals
    /\ frames' = [frames EXCEPT ![t] = Tail(@)]
    /\ LET h == [heap EXCEPT !.depth = @ - 1]
       IN  \E length \in Lengths :
              heap' = IF Top(t) = "defer" THEN collectIfNecessaryOrDefer(h, length) ELSE h
    /\ UNCHANGED <<owner, dropDepth, Rest>>

(* MarkedAllocator::allocateSlowCase with an empty free list.  tryAllocate *)
(* sweeps in a DelayedReleaseScope, with m_operationInProgress Allocation. *)
(* n: the size of the free list that was used up, 0 if there was none.     *)
AllocateSlowCase(t) ==
    /\ Inside(t) /\ heap.bytes < MaxBytes /\ Len(frames[t]) < MaxFrames
    /\ \E n \in {0, 1} :
          OpenWindow(t, frames[t], "try", [didAllocate(heap, n) EXCEPT !.op = "Allocation"])
    /\ UNCHANGED Rest

(* The first tryAllocate found a cell, or collectIfNecessaryOrDefer leads  *)
(* to the second, or a block is added.  When callbacks took the cell it    *)
(* found, tryAllocate opens the same window again, which changes nothing.  *)
TryAllocateReturns(t) ==
    LET done == [heap EXCEPT !.op = "NoOperation"]
    IN  /\ CanClose(t, "try")
        /\ \/ CloseWindow(t, done)
           \/ /\ shouldCollect(done)
              /\ \E length \in Lengths :
                    NextWindow(t, "tryAgain", [collect(done, length) EXCEPT !.op = "Allocation"])
           \/ /\ ~shouldCollect(done)
              /\ NextWindow(t, "addBlock", done)
        /\ UNCHANGED Rest

TryAgainReturns(t) ==
    LET done == [heap EXCEPT !.op = "NoOperation"]
    IN  /\ CanClose(t, "tryAgain")
        /\ CloseWindow(t, done) \/ NextWindow(t, "addBlock", done)
        /\ UNCHANGED Rest

(* After addBlock the third tryAllocate finds a cell without sweeping,     *)
(* unless callbacks took all those of the new block.                       *)
AddBlockReturns(t) ==
    /\ CanClose(t, "addBlock")
    /\ \/ CloseWindow(t, [heap EXCEPT !.op = "NoOperation"])
       \/ NextWindow(t, "tryLast", [heap EXCEPT !.op = "Allocation"])
    /\ UNCHANGED Rest

TryLastReturns(t) ==
    /\ CanClose(t, "tryLast")
    /\ CloseWindow(t, [heap EXCEPT !.op = "NoOperation"])
    /\ UNCHANGED Rest

ReportExtraMemoryCost(t) ==
    /\ Inside(t) /\ heap.bytes < MaxBytes
    /\ \E length \in Lengths : heap' = collectIfNecessaryOrDefer(didAllocate(heap, 1), length)
    /\ UNCHANGED <<lockVars, enabled, firing, released, vm>>

(* Heap::addReference of a new array buffer.                               *)
AddReference(t) ==
    /\ Inside(t) /\ heap.bytes < MaxBytes
    /\ \E length \in Lengths : heap' = didAllocate(collectIfNecessaryOrDefer(heap, length), 1)
    /\ UNCHANGED <<lockVars, enabled, firing, released, vm>>

(* JSGarbageCollect.                                                       *)
ReportAbandonedObjectGraph(t) ==
    /\ Inside(t) /\ heap.abandoned < MaxBytes
    /\ heap' = didAbandon(heap, 1)
    /\ UNCHANGED <<lockVars, enabled, firing, released, vm>>

(* JSSynchronousGarbageCollectForDebugging, from the outermost scope of an *)
(* API call.  The sweep is part of the collection, so its timer is not set *)
(* to any effect; startSweeping sets it all the same.                      *)
CollectAllGarbage(t) ==
    /\ Inside(t) /\ Top(t) = "api" /\ Len(frames[t]) < MaxFrames
    /\ \E length \in Lengths :
          LET h == collect(heap, length)
          IN  IF h.crashed THEN heap' = h /\ UNCHANGED <<owner, dropDepth, frames>>
              ELSE OpenWindow(t, frames[t], "collect", h)
    /\ UNCHANGED Rest

CollectReturns(t) ==
    /\ CanClose(t, "collect")
    /\ CloseWindow(t, heap)
    /\ UNCHANGED Rest

SetGarbageCollectionTimerEnabled(t, enable) ==
    /\ Inside(t) /\ enabled # enable
    /\ enabled' = enable
    /\ UNCHANGED <<lockVars, heap, firing, released, vm>>

-----------------------------------------------------------------------------
(* The timers                                                              *)

Tick ==
    /\ ~heap.crashed /\ heap.fireIn > 0 /\ vm = "alive"
    /\ heap' = [heap EXCEPT !.fireIn = @ - 1]
    /\ UNCHANGED <<lockVars, enabled, firing, released, vm>>

(* The run loop of the main thread calls timerDidFire when the thread is   *)
(* not in a call; the timer repeats, a decade later.                       *)
RunLoopFires(timer) ==
    /\ ~heap.crashed /\ vm = "alive" /\ firing = "none"
    /\ frames[MainThread] = <<>> /\ MainThread \notin waiting
    /\ \/ timer = "gc" /\ heap.fireIn = 0 /\ heap' = [heap EXCEPT !.fireIn = Decade]
       \/ timer = "sweep" /\ heap.sweeping /\ heap' = [heap EXCEPT !.sweeping = FALSE]
    /\ firing' = timer
    /\ UNCHANGED <<lockVars, enabled, released, vm>>

(* A callback that trusts that the VM is still there.                      *)
TimerDidFireUnchecked ==
    /\ ~heap.crashed /\ firing # "none" /\ owner = NoThread
    /\ firing' = "none"
    /\ owner' = MainThread
    /\ Push(MainThread, "api")
    /\ \E length \in Lengths :
          heap' = IF firing = "gc" /\ enabled THEN collect(heap, length) ELSE heap
    /\ UNCHANGED <<dropDepth, waiting, enabled, released, vm>>

(* HeapTimer::timerDidFire, once it has the lock: give up if the VM is no  *)
(* more; else enter the VM, and DefaultGCActivityCallback::doWork collects *)
(* if enabled, and IncrementalSweeper::doWork sweeps for a while.          *)
TimerDidFire ==
    /\ ~heap.crashed /\ firing # "none" /\ owner = NoThread
    /\ firing' = "none"
    /\ \/ /\ vm = "dead"
          /\ UNCHANGED <<lockVars, heap>>
       \/ /\ vm = "alive" /\ firing = "gc"
          /\ owner' = MainThread
          /\ Push(MainThread, "api")
          /\ \E length \in Lengths :
                heap' = IF enabled THEN collect(heap, length) ELSE [heap EXCEPT !.missed = TRUE]
          /\ UNCHANGED <<dropDepth, waiting>>
       \/ /\ vm = "alive" /\ firing = "sweep"
          /\ \E unfinished \in BOOLEAN :
                OpenWindow(MainThread, <<Frame("api", FALSE)>>, "sweep",
                           [heap EXCEPT !.sweeping = unfinished])
          /\ UNCHANGED waiting
    /\ UNCHANGED <<enabled, released, vm>>

SweepReturns(t) ==
    /\ CanClose(t, "sweep")
    /\ CloseWindow(t, heap)
    /\ UNCHANGED Rest

-----------------------------------------------------------------------------
Next ==
    \/ \E t \in Threads :
          \/ Enter(t) \/ EnterLocked(t) \/ Exit(t) \/ Release(t)
          \/ \E kind \in Deferrals : Defer(t, kind)
          \/ EndDefer(t)
          \/ AllocateSlowCase(t) \/ TryAllocateReturns(t) \/ TryAgainReturns(t)
          \/ AddBlockReturns(t) \/ TryLastReturns(t)
          \/ ReportExtraMemoryCost(t) \/ AddReference(t) \/ ReportAbandonedObjectGraph(t)
          \/ CollectAllGarbage(t) \/ CollectReturns(t) \/ SweepReturns(t)
          \/ \E enable \in BOOLEAN : SetGarbageCollectionTimerEnabled(t, enable)
    \/ Tick
    \/ \E timer \in {"gc", "sweep"} : RunLoopFires(timer)
    \/ TimerDidFire

Spec == Init /\ [][Next]_vars

-----------------------------------------------------------------------------
(* Properties                                                              *)

(* The deferrals among a thread's scopes, each by the number of scopes     *)
(* around it, and those of all threads.                                    *)
DeferralsAmong(scopes) == {Len(scopes) - i : i \in {i \in DOMAIN scopes : scopes[i].kind \in Deferrals}}
OpenDeferrals == UNION {{t} \X DeferralsAmong(frames[t]) : t \in Threads}

(* Nothing is collected while a deferral is open, in any thread: not by    *)
(* the timer or by collectAllGarbage, which do not ask, when a release     *)
(* scope has dropped the lock in the middle of one.  m_deferralDepth is    *)
(* the number of open deferrals then too, and the first RELEASE_ASSERT of  *)
(* Heap::collect stops the process before it touches the heap.             *)
DeferralsRespected ==
    [][heap'.bytes + heap'.abandoned < heap.bytes + heap.abandoned => OpenDeferrals' = {}]_vars

(* The timer is set for no later than m_delay from the last collection,    *)
(* and m_delay is no more than twice what all garbage but the last piece   *)
(* asks for: a date is never lost to a callback that races with an         *)
(* allocation or another collection.  Only a timer that fired while        *)
(* disabled leaves m_delay as it was, and is lost.                         *)
TimerArmed ==
    vm = "alive" /\ firing # "gc" /\ ~heap.missed /\ ~heap.crashed =>
        /\ heap.fireIn <= heap.delay
        /\ heap.bytes + heap.abandoned > 0 =>
              heap.delay <= 2 * NewDelay[heap.length][(heap.bytes + heap.abandoned) - 1]

(* The VM outlives its users: it is not destroyed while a thread is in a   *)
(* call, in a callback or about to enter, and a timer that fires as it is  *)
(* destroyed finds out under the lock (HeapTimer::timerDidFire).           *)
VMOutlivesUsers ==
    vm = "dead" => waiting = {} /\ \A t \in Threads : frames[t] = <<>>
=============================================================================
