------------------------------- MODULE JSLock -------------------------------
(***************************************************************************)
(* The lock of a JavaScript context (runtime/JSLock.cpp, the PLATFORM(IOS) *)
(* branches) and the JS stack that every thread using the context shares   *)
(* (interpreter/JSStackInlines.h).                                         *)
(*                                                                         *)
(* A section of code run under m_spinLock is one step; m_lock, the mutex   *)
(* proper, is taken in a step of its own, with the spin lock free, as in   *)
(* lock() and grabAllLocks().  The scopes a thread has open (JSLockHolder, *)
(* a running JS frame, DropAllLocks) are the elements of frames[t],        *)
(* outermost first.                                                        *)
(***************************************************************************)
EXTENDS Integers, Sequences, FiniteSets

CONSTANTS
    Threads,      \* the threads that use the context
    NoThread,     \* a ThreadIdentifier of no thread (0)
    DropTags,     \* the AlwaysDropLocksTag values clients pass
    MaxScopes,    \* bound: scopes a thread has open at once
    StackSize     \* frames that fit in the JS stack before grow() fails

Tags == {"DontAlwaysDropLocks", "AlwaysDropLocks"}

ASSUME ThreadsAssumption == NoThread \notin Threads
ASSUME TagsAssumption == DropTags \subseteq Tags
ASSUME BoundsAssumption == MaxScopes \in Nat /\ StackSize \in Nat

VARIABLES
    mutex,          \* m_lock: the thread that holds it
    ownerThread,    \* m_ownerThread, never cleared
    lockCount,      \* m_lockCount
    lockDropDepth,  \* m_lockDropDepth
    pc,             \* where a thread is inside lock() or grabAllLocks()
    frames,         \* the scopes each thread has open
    stack,          \* JSStack memory: the thread whose frame fills a slot
    topCallFrame    \* vm.topCallFrame, as the number of its slot

vars == <<mutex, ownerThread, lockCount, lockDropDepth, pc, frames, stack,
          topCallFrame>>
lockVars == <<mutex, ownerThread, lockCount, lockDropDepth>>
stackVars == <<stack, topCallFrame>>

(* A scope: "lock" is a JSLockHolder, "js" a frame pushed on the JS stack  *)
(* over slot n, "drop" a DropAllLocks object whose m_lockCount is n.       *)
Kinds == {"lock", "js", "drop"}
Frame == [kind : Kinds, n : Nat]
Pcs == {"run", "lock", "locked", "grab", "grabbed"}

LockScope == [kind |-> "lock", n |-> 0]
JSFrame(base) == [kind |-> "js", n |-> base]
DropScope(count) == [kind |-> "drop", n |-> count]

Innermost(t) == frames[t][Len(frames[t])]
InnermostIs(t, k) == frames[t] # << >> /\ Innermost(t).kind = k
Open(t, f) == frames' = [frames EXCEPT ![t] = Append(@, f)]
Without(s, i) == [j \in 1..(Len(s) - 1) |-> IF j < i THEN s[j] ELSE s[j + 1]]
Close(t, i) == frames' = [frames EXCEPT ![t] = Without(@, i)]
Goto(t, p) == pc' = [pc EXCEPT ![t] = p]
Running(t) == pc[t] = "run"
CanOpen(t) == Running(t) /\ Len(frames[t]) < MaxScopes

(* Mutant: the recursion check compares the count with one.               *)
HoldingOnce(t) == lockCount = 1 /\ ownerThread = t

(* JSLock::currentThreadIsHoldingLock                                      *)
Holding(t) == lockCount # 0 /\ ownerThread = t

Init ==
    /\ mutex = NoThread
    /\ ownerThread = NoThread
    /\ lockCount = 0
    /\ lockDropDepth = 0
    /\ pc = [t \in Threads |-> "run"]
    /\ frames = [t \in Threads |-> << >>]
    /\ stack = [i \in 1..StackSize |-> NoThread]
    /\ topCallFrame = 0
-----------------------------------------------------------------------------
(* JSLock::lock, first spin section: the thread already holds the lock.    *)
LockAgain(t) ==
    /\ CanOpen(t)
    /\ Holding(t)
    /\ lockCount' = lockCount + 1
    /\ Open(t, LockScope)
    /\ UNCHANGED <<mutex, ownerThread, lockDropDepth, pc, stackVars>>

(* JSLock::lock, first spin section: it does not, and will wait for m_lock. *)
LockWait(t) ==
    /\ CanOpen(t)
    /\ ~ Holding(t)
    /\ Goto(t, "lock")
    /\ UNCHANGED <<lockVars, frames, stackVars>>

(* m_lock.lock() in lock() and in grabAllLocks(), with the spin lock free. *)
AcquireMutex(t, from, to) ==
    /\ pc[t] = from
    /\ mutex = NoThread
    /\ mutex' = t
    /\ Goto(t, to)
    /\ UNCHANGED <<ownerThread, lockCount, lockDropDepth, frames, stackVars>>

LockAcquire(t) == AcquireMutex(t, "lock", "locked")
GrabAcquire(t) == AcquireMutex(t, "grab", "grabbed")

(* JSLock::lock, second spin section.                                      *)
LockFirst(t) ==
    /\ pc[t] = "locked"
    /\ ownerThread' = t
    /\ lockCount' = 1
    /\ Goto(t, "run")
    /\ Open(t, LockScope)
    /\ UNCHANGED <<mutex, lockDropDepth, stackVars>>

(* ~JSLockHolder: JSLock::unlock.                                          *)
Unlock(t) ==
    /\ Running(t)
    /\ InnermostIs(t, "lock")
    /\ lockCount' = lockCount - 1
    /\ mutex' = IF lockCount' = 0 THEN NoThread ELSE mutex
    /\ Close(t, Len(frames[t]))
    /\ UNCHANGED <<ownerThread, lockDropDepth, pc, stackVars>>
-----------------------------------------------------------------------------
(* JSStack::pushFrame by a thread inside JSC: the new frame goes over the  *)
(* top one; when grow() fails no frame is pushed and nothing changes.      *)
PushFrame(t) ==
    /\ CanOpen(t)
    /\ InnermostIs(t, "lock") \/ InnermostIs(t, "js")
    /\ topCallFrame < StackSize
    /\ stack' = [stack EXCEPT ![topCallFrame + 1] = t]
    /\ topCallFrame' = topCallFrame + 1
    /\ Open(t, JSFrame(topCallFrame))
    /\ UNCHANGED <<lockVars, pc>>

(* JSStack::popFrame: back to the caller named in the frame's sentinel.    *)
PopFrame(t) ==
    /\ Running(t)
    /\ InnermostIs(t, "js")
    /\ topCallFrame' = Innermost(t).n
    /\ Close(t, Len(frames[t]))
    /\ UNCHANGED <<lockVars, pc, stack>>
-----------------------------------------------------------------------------
(* Mutant: the drop depth is not looked at.                                *)
DropsAtAnyDepth(t, tag) == Holding(t)

(* Whether DropAllLocks(tag) drops anything: dropAllLocks looks at the     *)
(* drop depth, dropAllLocksUnconditionally does not.                       *)
Drops(t, tag) ==
    /\ Holding(t)
    /\ tag = "DontAlwaysDropLocks" => lockDropDepth = 0

(* DropAllLocks::DropAllLocks when no lock is dropped.                     *)
DropNothing(t, tag) ==
    /\ CanOpen(t)
    /\ ~ Drops(t, tag)
    /\ Open(t, DropScope(0))
    /\ UNCHANGED <<lockVars, pc, stackVars>>

(* DropAllLocks::DropAllLocks when all the thread's locks are dropped.     *)
DropAll(t, tag) ==
    /\ CanOpen(t)
    /\ Drops(t, tag)
    /\ lockDropDepth' = lockDropDepth + 1
    /\ lockCount' = 0
    /\ mutex' = NoThread
    /\ Open(t, DropScope(lockCount))
    /\ UNCHANGED <<ownerThread, pc, stackVars>>

(* ~DropAllLocks runs when the DropAllLocks scope is innermost, or when    *)
(* the callback took one lock with JSLock::lock and returns holding it.    *)
IsInnermostDrop(t, i) ==
    /\ i \in 1..Len(frames[t])
    /\ frames[t][i].kind = "drop"
    /\ \/ i = Len(frames[t])
       \/ i = Len(frames[t]) - 1 /\ Innermost(t).kind = "lock"

(* grabAllLocks(0): no locks were dropped.                                 *)
GrabNothing(t, i) ==
    /\ Running(t)
    /\ IsInnermostDrop(t, i)
    /\ frames[t][i].n = 0
    /\ Close(t, i)
    /\ UNCHANGED <<lockVars, pc, stackVars>>

(* Mutant: the dropped count replaces the current one.                     *)
GrabAgainOverwrites(t, i) ==
    /\ Running(t)
    /\ IsInnermostDrop(t, i)
    /\ frames[t][i].n # 0
    /\ Holding(t)
    /\ lockCount' = frames[t][i].n
    /\ lockDropDepth' = lockDropDepth - 1
    /\ Close(t, i)
    /\ UNCHANGED <<mutex, ownerThread, pc, stackVars>>

(* grabAllLocks: the thread already holds the lock again.                  *)
GrabAgain(t, i) ==
    /\ Running(t)
    /\ IsInnermostDrop(t, i)
    /\ frames[t][i].n # 0
    /\ Holding(t)
    /\ lockCount' = lockCount + frames[t][i].n
    /\ lockDropDepth' = lockDropDepth - 1
    /\ Close(t, i)
    /\ UNCHANGED <<mutex, ownerThread, pc, stackVars>>

(* grabAllLocks: it does not, and will wait for m_lock.                    *)
GrabWait(t, i) ==
    /\ Running(t)
    /\ IsInnermostDrop(t, i)
    /\ frames[t][i].n # 0
    /\ ~ Holding(t)
    /\ Goto(t, "grab")
    /\ UNCHANGED <<lockVars, frames, stackVars>>

(* grabAllLocks once m_lock is held: take the dropped locks back.          *)
GrabAll(t) ==
    /\ pc[t] = "grabbed"
    /\ ownerThread' = t
    /\ lockCount' = Innermost(t).n
    /\ lockDropDepth' = lockDropDepth - 1
    /\ Goto(t, "run")
    /\ Close(t, Len(frames[t]))
    /\ UNCHANGED <<mutex, stackVars>>
-----------------------------------------------------------------------------
Next ==
    \E t \in Threads :
        \/ LockAgain(t)
        \/ LockWait(t)
        \/ LockAcquire(t)
        \/ LockFirst(t)
        \/ Unlock(t)
        \/ PushFrame(t)
        \/ PopFrame(t)
        \/ \E tag \in DropTags : DropNothing(t, tag) \/ DropAll(t, tag)
        \/ \E i \in 1..Len(frames[t]) :
               GrabNothing(t, i) \/ GrabAgain(t, i) \/ GrabWait(t, i)
        \/ GrabAcquire(t)
        \/ GrabAll(t)

Spec == Init /\ [][Next]_vars
-----------------------------------------------------------------------------
(* The shared state has its type; in particular m_lockCount never goes     *)
(* below zero.                                                             *)
TypeOK ==
    /\ mutex \in Threads \cup {NoThread}
    /\ ownerThread \in Threads \cup {NoThread}
    /\ lockCount \in Nat
    /\ lockDropDepth \in Int
    /\ pc \in [Threads -> Pcs]
    /\ frames \in [Threads -> Seq(Frame)]
    /\ stack \in [1..StackSize -> Threads \cup {NoThread}]
    /\ topCallFrame \in Nat

(* A DropAllLocks scope that did drop locks; what its thread opened below  *)
(* it runs again only after grabAllLocks.                                  *)
HasDropped(f) == f.kind = "drop" /\ f.n # 0

(* The lock scopes among the first j of s that no scope up to j dropped.   *)
LiveLocks(s, j) ==
    {i \in 1..j : s[i].kind = "lock" /\ \A k \in i..j : ~ HasDropped(s[k])}
LocksHeld(t) == Cardinality(LiveLocks(frames[t], Len(frames[t])))

(* JSLock.h: "you reacquire the right number of locks at the end".  A      *)
(* thread outside lock() and grabAllLocks() holds exactly the locks of the *)
(* JSLockHolders it has open since the last DropAllLocks that dropped any, *)
(* so no two threads are inside the context at once.                       *)
LocksMatchScopes ==
    \A t \in Threads :
        Running(t) => LocksHeld(t) = IF Holding(t) THEN lockCount ELSE 0

(* No thread blocks in lock() or grabAllLocks() on the non-recursive       *)
(* m_lock while it is itself the holder.                                   *)
NoSelfDeadlock ==
    \A t \in Threads : pc[t] \in {"lock", "grab"} => mutex # t

(* The frames a thread has on the shared JS stack are never written over   *)
(* or cut off by another thread, and the thread that is executing JS finds *)
(* its own frame on top (the comment above JSLock::dropAllLocks).          *)
StackIntact ==
    \A t \in Threads : \A i \in 1..Len(frames[t]) :
        frames[t][i].kind = "js" =>
            LET slot == frames[t][i].n + 1
            IN  /\ slot <= topCallFrame
                /\ stack[slot] = t
                /\ i = Len(frames[t]) => slot = topCallFrame

=============================================================================
