---------------------------- MODULE JSLockProofs ----------------------------
(***************************************************************************)
(* Proofs about JSLock for any set of threads: the lock stays consistent   *)
(* whatever tags DropAllLocks is given, and with conditional dropping the  *)
(* frames on the shared JS stack are never damaged.                        *)
(***************************************************************************)
EXTENDS JSLock, TLAPS, SequenceTheorems, FiniteSetTheorems

Held(s, j) == Cardinality(LiveLocks(s, j))

(* Each DropAllLocks scope that dropped locks remembers how many.          *)
DropsRemembered(s) ==
    \A j \in 1..Len(s) : HasDropped(s[j]) => s[j].n = Held(s, j - 1)

(* What the lock's fields, the mutex and the open scopes have to do with   *)
(* one another: LocksMatchScopes made inductive.                           *)
ScopesInv(t) ==
    /\ pc[t] \in {"locked", "grabbed"} => mutex = t
    /\ pc[t] \in {"grab", "grabbed"} => frames[t] # << >> /\ HasDropped(Innermost(t))
    /\ Held(frames[t], Len(frames[t])) = IF Holding(t) THEN lockCount ELSE 0
    /\ DropsRemembered(frames[t])
MutexInv ==
    /\ lockCount # 0 =>
           ownerThread \in Threads /\ mutex = ownerThread /\ pc[ownerThread] = "run"
    /\ mutex # NoThread => lockCount # 0 \/ pc[mutex] \in {"locked", "grabbed"}
LockInv == TypeOK /\ MutexInv /\ \A t \in Threads : ScopesInv(t)

(* The scopes that dropped locks, and the depth that counts them.          *)
DroppedAt(t, i) == i \in 1..Len(frames[t]) /\ HasDropped(frames[t][i])
DepthInv ==
    /\ lockDropDepth = 0 => \A t \in Threads : \A i \in Nat : ~ DroppedAt(t, i)
    /\ lockDropDepth # 0 =>
           /\ lockDropDepth = 1
           /\ \E t \in Threads : \E i \in Nat :
                  /\ DroppedAt(t, i)
                  /\ \A u \in Threads : \A j \in Nat :
                         DroppedAt(u, j) => u = t /\ j = i

(* The JS frames of the threads fill the stack from slot 1 to the top one, *)
(* in the order in which they may still be returned to: the frames of a    *)
(* thread in the order it pushed them, frames under a DropAllLocks that    *)
(* dropped locks below the others.                                         *)
JSAt(t, i) == i \in 1..Len(frames[t]) /\ frames[t][i].kind = "js"
Parked(t, i) == \E k \in Nat : k >= i /\ DroppedAt(t, k)
StackInv ==
    /\ \A t \in Threads : \A i \in Nat : JSAt(t, i) =>
           /\ frames[t][i].n < topCallFrame
           /\ stack[frames[t][i].n + 1] = t
           /\ \E k \in 1..(i - 1) :
                  /\ frames[t][k].kind = "lock"
                  /\ \A m \in k..i : ~ HasDropped(frames[t][m])
           /\ \A j \in Nat : JSAt(t, j) /\ i < j => frames[t][i].n < frames[t][j].n
    /\ \A t, u \in Threads : \A i, j \in Nat :
           JSAt(t, i) /\ JSAt(u, j) /\ Parked(t, i) /\ ~ Parked(u, j) =>
               frames[t][i].n < frames[u][j].n
    /\ \A s \in 0..(topCallFrame - 1) :
           \E t \in Threads : \E i \in Nat : JSAt(t, i) /\ frames[t][i].n = s
-----------------------------------------------------------------------------
(* A leaf is for the SMT solver unless it names another prover.           *)
USE SMTT(60)

(* Opening one more scope, element by element.                             *)
LEMMA AppendScope ==
    ASSUME NEW s \in Seq(Frame), NEW f \in Frame
    PROVE  /\ Append(s, f) \in Seq(Frame)
           /\ Len(Append(s, f)) = Len(s) + 1
           /\ \A i \in 1..Len(s) : Append(s, f)[i] = s[i]
           /\ Append(s, f)[Len(s) + 1] = f
  BY AppendProperties

(* Removal of scope i from a sequence of scopes.                           *)
LEMMA WithoutScope ==
    ASSUME NEW s \in Seq(Frame), NEW i \in 1..Len(s)
    PROVE  /\ Without(s, i) \in Seq(Frame)
           /\ Len(Without(s, i)) = Len(s) - 1
           /\ \A j \in 1..(i - 1) : Without(s, i)[j] = s[j]
           /\ \A j \in i..(Len(s) - 1) : Without(s, i)[j] = s[j + 1]
  <1>1. Len(s) \in Nat /\ \A j \in 1..Len(s) : s[j] \in Frame
    BY LenProperties, ElementOfSeq
  <1>2. Len(s) - 1 \in Nat
    BY <1>1
  <1>3. Without(s, i) \in [1..(Len(s) - 1) -> Frame]
    BY <1>1, <1>2 DEF Without
  <1>4. Without(s, i) \in Seq(Frame)
    BY <1>2, <1>3, SeqDef
  <1>5. Len(Without(s, i)) = Len(s) - 1
    BY <1>2, <1>4, LenProperties DEF Without
  <1> QED
    BY <1>1, <1>4, <1>5 DEF Without

(* LiveLocks is a finite set, and is empty before the first scope.         *)
LEMMA LiveLocksFinite ==
    ASSUME NEW s, NEW j \in Nat
    PROVE  /\ IsFiniteSet(LiveLocks(s, j))
           /\ Held(s, j) \in Nat
           /\ (\E i \in LiveLocks(s, j) : TRUE) => Held(s, j) # 0
           /\ Held(s, j) # 0 => \E i \in LiveLocks(s, j) : TRUE
  <1>1. IsFiniteSet(1..j)
    BY FS_Interval
  <1>2. LiveLocks(s, j) \in SUBSET (1..j)
    BY DEF LiveLocks
  <1>3. IsFiniteSet(LiveLocks(s, j))
    BY <1>1, <1>2, FS_Subset
  <1> QED
    BY <1>3, FS_CardinalityType, FS_EmptySet DEF Held

(* The locks held after scope j, from the locks held before it.            *)
LEMMA HeldStep ==
    ASSUME NEW s \in Seq(Frame), NEW j \in 1..Len(s)
    PROVE  Held(s, j) = IF HasDropped(s[j]) THEN 0
                        ELSE IF s[j].kind = "lock" THEN Held(s, j - 1) + 1
                        ELSE Held(s, j - 1)
  <1>0. j \in Nat /\ j - 1 \in Nat /\ j \notin LiveLocks(s, j - 1)
    BY LenProperties DEF LiveLocks
  <1>1. CASE HasDropped(s[j])
    <2>1. LiveLocks(s, j) = {}
      BY <1>0, <1>1 DEF LiveLocks
    <2> QED
      BY <1>1, <2>1, FS_EmptySet DEF Held
  <1>2. CASE ~ HasDropped(s[j]) /\ s[j].kind = "lock"
    <2>1. LiveLocks(s, j) = LiveLocks(s, j - 1) \cup {j}
      BY <1>0, <1>2 DEF LiveLocks
    <2> QED
      BY ZenonT(60), <1>0, <1>2, <2>1, LiveLocksFinite, FS_AddElement DEF Held
  <1>3. CASE ~ HasDropped(s[j]) /\ s[j].kind # "lock"
    <2>1. LiveLocks(s, j) = LiveLocks(s, j - 1)
      BY <1>0, <1>3 DEF LiveLocks
    <2> QED
      BY <1>3, <2>1 DEF Held
  <1> QED
    BY <1>1, <1>2, <1>3

(* The locks held after scope j depend on the first j scopes only.         *)
LEMMA HeldPrefix ==
    ASSUME NEW s, NEW r, NEW j \in Nat, \A i \in 1..j : s[i] = r[i]
    PROVE  Held(s, j) = Held(r, j)
  <1>1. LiveLocks(s, j) = LiveLocks(r, j)
    BY DEF LiveLocks
  <1> QED
    BY <1>1 DEF Held

(* Opening scope f over s.                                                 *)
LEMMA HeldAppend ==
    ASSUME NEW s \in Seq(Frame), NEW f \in Frame
    PROVE  LET r == Append(s, f) IN
           /\ Held(r, Len(r)) = IF HasDropped(f) THEN 0
                                ELSE IF f.kind = "lock" THEN Held(s, Len(s)) + 1
                                ELSE Held(s, Len(s))
           /\ /\ DropsRemembered(s)
              /\ HasDropped(f) => f.n = Held(s, Len(s))
              => DropsRemembered(r)
  <1> DEFINE r == Append(s, f)
  <1>1. /\ r \in Seq(Frame) /\ Len(r) = Len(s) + 1 /\ Len(s) \in Nat
        /\ \A i \in 1..Len(s) : r[i] = s[i]
        /\ r[Len(r)] = f
    BY AppendScope, LenProperties
  <1> HIDE DEF r
  <1>2. \A j \in 0..Len(s) : Held(r, j) = Held(s, j)
    BY <1>1, HeldPrefix
  <1>3. Len(r) \in 1..Len(r) /\ Len(r) - 1 = Len(s)
    BY <1>1
  <1>4. Held(r, Len(r)) = IF HasDropped(f) THEN 0
                          ELSE IF f.kind = "lock" THEN Held(r, Len(s)) + 1
                          ELSE Held(r, Len(s))
    BY <1>1, <1>3, HeldStep
  <1>5. ASSUME DropsRemembered(s), HasDropped(f) => f.n = Held(s, Len(s))
        PROVE  DropsRemembered(r)
    BY <1>1, <1>2, <1>5 DEF DropsRemembered
  <1>6. Held(r, Len(s)) = Held(s, Len(s))
    BY <1>1, <1>2
  <1> QED
    BY <1>4, <1>5, <1>6 DEF r

(* Closing the innermost scope of s.                                       *)
LEMMA HeldClose ==
    ASSUME NEW s \in Seq(Frame), s # << >>
    PROVE  LET r == Without(s, Len(s)) IN
           /\ Held(s, Len(s)) = IF HasDropped(s[Len(s)]) THEN 0
                                ELSE IF s[Len(s)].kind = "lock" THEN Held(r, Len(r)) + 1
                                ELSE Held(r, Len(r))
           /\ Held(r, Len(r)) = Held(s, Len(s) - 1)
           /\ DropsRemembered(s) => DropsRemembered(r)
  <1> DEFINE r == Without(s, Len(s))
  <1>0. Len(s) \in Nat /\ Len(s) \in 1..Len(s)
    BY LenProperties, EmptySeq
  <1>1. /\ r \in Seq(Frame) /\ Len(r) = Len(s) - 1
        /\ \A i \in 1..(Len(s) - 1) : r[i] = s[i]
    BY <1>0, WithoutScope
  <1>2. \A j \in 0..(Len(s) - 1) : Held(r, j) = Held(s, j)
    BY <1>0, <1>1, HeldPrefix
  <1> HIDE DEF r
  <1>3. Held(r, Len(r)) = Held(s, Len(s) - 1)
    BY <1>0, <1>1, <1>2
  <1>4. DropsRemembered(s) => DropsRemembered(r)
    BY <1>0, <1>1, <1>2 DEF DropsRemembered
  <1> QED
    BY <1>0, <1>3, <1>4, HeldStep DEF r

(* Closing the scope under an innermost lock scope.                        *)
LEMMA HeldCloseUnder ==
    ASSUME NEW s \in Seq(Frame), NEW i \in 1..Len(s),
           i = Len(s) - 1, s[i].kind = "drop", s[Len(s)].kind = "lock"
    PROVE  LET r == Without(s, i) IN
           /\ Held(r, Len(r)) = Held(s, i - 1) + 1
           /\ Held(s, Len(s)) = IF HasDropped(s[i]) THEN 1 ELSE Held(r, Len(r))
           /\ DropsRemembered(s) => DropsRemembered(r)
  <1> DEFINE r == Without(s, i)
  <1>0. Len(s) \in Nat /\ Len(s) \in 1..Len(s) /\ i - 1 \in Nat
    BY LenProperties
  <1>a. /\ r \in Seq(Frame) /\ Len(r) = Len(s) - 1
        /\ \A j \in 1..(i - 1) : r[j] = s[j]
        /\ \A j \in i..(Len(s) - 1) : r[j] = s[j + 1]
    BY WithoutScope
  <1> HIDE DEF r
  <1>1. /\ r \in Seq(Frame) /\ Len(r) = i /\ r[i] = s[Len(s)]
        /\ \A j \in 1..(i - 1) : r[j] = s[j]
    BY <1>0, <1>a
  <1>2. \A j \in 0..(i - 1) : Held(r, j) = Held(s, j)
    BY <1>0, <1>1, HeldPrefix
  <1>3. ~ HasDropped(s[Len(s)])
    BY DEF HasDropped
  <1>4. Held(r, i) = Held(r, i - 1) + 1
    BY <1>0, <1>1, <1>3, HeldStep
  <1>5. Held(r, i - 1) = Held(s, i - 1)
    BY <1>0, <1>2
  <1>6. Held(s, Len(s)) = Held(s, i) + 1
    BY <1>0, <1>3, HeldStep
  <1>7. Held(s, i) = IF HasDropped(s[i]) THEN 0 ELSE Held(s, i - 1)
    BY <1>0, HeldStep
  <1>8. DropsRemembered(s) => DropsRemembered(r)
    BY <1>0, <1>1, <1>2, <1>3 DEF DropsRemembered
  <1> QED
    BY <1>1, <1>4, <1>5, <1>6, <1>7, <1>8 DEF r
-----------------------------------------------------------------------------
(* The state before any thread has used the context.                       *)
LEMMA LockInvInit == Init => LockInv
  <1> SUFFICES ASSUME Init PROVE LockInv
    OBVIOUS
  <1>1. TypeOK
    BY EmptySeq, BoundsAssumption, ThreadsAssumption DEF Init, TypeOK, Pcs
  <1>2. MutexInv
    BY DEF Init, MutexInv
  <1>3. ASSUME NEW t \in Threads PROVE ScopesInv(t)
    <2>1. frames[t] = << >> /\ Len(frames[t]) = 0 /\ pc[t] = "run" /\ ~ Holding(t)
      BY EmptySeq DEF Init, Holding
    <2>2. LiveLocks(frames[t], 0) = {}
      BY DEF LiveLocks
    <2>3. Held(frames[t], Len(frames[t])) = 0
      BY ZenonT(60), <2>1, <2>2, FS_EmptySet DEF Held
    <2> QED
      BY <2>1, <2>3 DEF ScopesInv, DropsRemembered
  <1> QED
    BY <1>1, <1>2, <1>3 DEF LockInv

(* The facts a step of thread t leaves in place for every other thread.    *)
LEMMA OtherScopes ==
    ASSUME NEW t \in Threads, NEW u \in Threads, u # t, LockInv,
           pc'[u] = pc[u], frames'[u] = frames[u],
           mutex = u => mutex' = u,
           (IF Holding(u) THEN lockCount ELSE 0)
               = (IF Holding(u)' THEN lockCount' ELSE 0)
    PROVE  ScopesInv(u)'
  BY DEF LockInv, ScopesInv, Innermost, HasDropped

(* Every step of a thread keeps the lock consistent.                       *)
LEMMA LockInvStep == LockInv /\ [Next]_vars => LockInv'
  <1> SUFFICES ASSUME LockInv, [Next]_vars PROVE LockInv'
    OBVIOUS
  <1> USE ThreadsAssumption, BoundsAssumption
  <1>0. CASE UNCHANGED vars
    BY <1>0 DEF vars, LockInv, TypeOK, MutexInv, ScopesInv, Innermost, Holding
  <1>1. ASSUME NEW t \in Threads, LockAgain(t) PROVE LockInv'
    <2> USE <1>1 DEF LockAgain
    <2> DEFINE s == frames[t]
    <2>1. s \in Seq(Frame) /\ LockScope \in Frame /\ ~ HasDropped(LockScope)
      BY DEF LockInv, TypeOK, LockScope, Frame, Kinds, HasDropped
    <2>2. frames' = [frames EXCEPT ![t] = Append(s, LockScope)]
      BY DEF Open
    <2>3. TypeOK'
      BY <2>1, <2>2, AppendScope DEF LockInv, TypeOK, stackVars
    <2>4. MutexInv'
      BY DEF LockInv, TypeOK, MutexInv, Holding
    <2>5. ScopesInv(t)'
      BY <2>1, <2>2, HeldAppend
         DEF LockInv, TypeOK, ScopesInv, Holding, CanOpen, Running, LockScope
    <2>6. \A u \in Threads : u # t => ScopesInv(u)'
      BY ZenonT(60), <2>2, OtherScopes DEF LockInv, TypeOK, Holding
    <2> QED
      BY <2>3, <2>4, <2>5, <2>6 DEF LockInv
  <1>2. ASSUME NEW t \in Threads, LockWait(t) PROVE LockInv'
    <2> USE <1>2 DEF LockWait, Goto, lockVars, stackVars
    <2>1. TypeOK'
      BY DEF LockInv, TypeOK, Pcs
    <2>2. MutexInv'
      BY DEF LockInv, TypeOK, MutexInv, Holding, CanOpen, Running
    <2>3. ScopesInv(t)'
      BY DEF LockInv, TypeOK, ScopesInv, Holding
    <2>4. \A u \in Threads : u # t => ScopesInv(u)'
      BY ZenonT(60), OtherScopes DEF LockInv, TypeOK, Holding
    <2> QED
      BY <2>1, <2>2, <2>3, <2>4 DEF LockInv
  <1>3. ASSUME NEW t \in Threads, LockAcquire(t) \/ GrabAcquire(t) PROVE LockInv'
    <2> USE <1>3 DEF LockAcquire, GrabAcquire, AcquireMutex, Goto, stackVars
    <2>1. TypeOK'
      BY ZenonT(60) DEF LockInv, TypeOK, Pcs
    <2>2. MutexInv'
      BY DEF LockInv, TypeOK, MutexInv
    <2>3. ScopesInv(t)'
      BY DEF LockInv, TypeOK, ScopesInv, MutexInv, Holding, Innermost
    <2>4. \A u \in Threads : u # t => ScopesInv(u)'
      BY ZenonT(60), OtherScopes DEF LockInv, TypeOK, Holding
    <2> QED
      BY <2>1, <2>2, <2>3, <2>4 DEF LockInv
  <1>4. ASSUME NEW t \in Threads, LockFirst(t) PROVE LockInv'
    <2> USE <1>4 DEF LockFirst, Goto
    <2> DEFINE s == frames[t]
    <2>1. s \in Seq(Frame) /\ LockScope \in Frame /\ ~ HasDropped(LockScope)
      BY DEF LockInv, TypeOK, LockScope, Frame, Kinds, HasDropped
    <2>2. frames' = [frames EXCEPT ![t] = Append(s, LockScope)]
      BY DEF Open
    <2>3. mutex = t /\ lockCount = 0
      BY DEF LockInv, MutexInv, ScopesInv, TypeOK
    <2>4. TypeOK'
      BY <2>1, <2>2, AppendScope DEF LockInv, TypeOK, stackVars, Pcs
    <2>5. MutexInv'
      BY <2>3 DEF LockInv, TypeOK, MutexInv
    <2>6. ScopesInv(t)'
      BY <2>1, <2>2, <2>3, HeldAppend
         DEF LockInv, TypeOK, ScopesInv, Holding, LockScope
    <2>7. \A u \in Threads : u # t => ScopesInv(u)'
      BY ZenonT(60), <2>2, <2>3, OtherScopes DEF LockInv, TypeOK, Holding
    <2> QED
      BY <2>4, <2>5, <2>6, <2>7 DEF LockInv
  <1>5. ASSUME NEW t \in Threads, Unlock(t) PROVE LockInv'
    <2> USE <1>5 DEF Unlock
    <2> DEFINE s == frames[t]
    <2>1. s \in Seq(Frame) /\ s # << >> /\ s[Len(s)].kind = "lock"
          /\ ~ HasDropped(s[Len(s)]) /\ Len(s) \in 1..Len(s)
      BY EmptySeq, LenProperties DEF LockInv, TypeOK, InnermostIs, Innermost, HasDropped
    <2>2. frames' = [frames EXCEPT ![t] = Without(s, Len(s))]
      BY DEF Close
    <2>2a. Without(s, Len(s)) \in Seq(Frame) /\ Len(Without(s, Len(s))) \in Nat
      BY <2>1, WithoutScope, LenProperties
    <2>3. Held(s, Len(s)) = Held(Without(s, Len(s)), Len(Without(s, Len(s)))) + 1
          /\ Held(Without(s, Len(s)), Len(Without(s, Len(s)))) \in Nat
      BY <2>1, <2>2a, HeldClose, LiveLocksFinite
    <2>4. Holding(t) /\ mutex = t /\ pc[t] = "run"
          /\ lockCount' = Held(Without(s, Len(s)), Len(Without(s, Len(s))))
      BY <2>3 DEF LockInv, MutexInv, ScopesInv, TypeOK, Holding, Running
    <2>5. TypeOK'
      BY <2>2, <2>2a, <2>3, <2>4 DEF LockInv, TypeOK, stackVars
    <2>6. MutexInv'
      BY <2>4 DEF LockInv, TypeOK, MutexInv, Holding
    <2>7. ScopesInv(t)'
      BY <2>1, <2>2, <2>4, HeldClose DEF LockInv, TypeOK, ScopesInv, Holding
    <2>8. \A u \in Threads : u # t => ScopesInv(u)'
      BY <2>2, <2>4, OtherScopes DEF LockInv, TypeOK, Holding
    <2> QED
      BY <2>5, <2>6, <2>7, <2>8 DEF LockInv
  <1>6. ASSUME NEW t \in Threads, PushFrame(t) PROVE LockInv'
    <2> USE <1>6 DEF PushFrame, lockVars
    <2> DEFINE s == frames[t]
               f == JSFrame(topCallFrame)
    <2>1. s \in Seq(Frame) /\ f \in Frame /\ ~ HasDropped(f) /\ f.kind = "js"
      BY DEF LockInv, TypeOK, JSFrame, Frame, Kinds, HasDropped
    <2>2. frames' = [frames EXCEPT ![t] = Append(s, f)]
      BY DEF Open
    <2> HIDE DEF f
    <2>3. TypeOK'
      BY <2>1, <2>2, AppendScope DEF LockInv, TypeOK
    <2>4. MutexInv'
      BY DEF LockInv, TypeOK, MutexInv
    <2>5. ScopesInv(t)'
      BY <2>1, <2>2, HeldAppend
         DEF LockInv, TypeOK, ScopesInv, Holding, CanOpen, Running
    <2>6. \A u \in Threads : u # t => ScopesInv(u)'
      BY ZenonT(60), <2>2, OtherScopes DEF LockInv, TypeOK, Holding
    <2> QED
      BY <2>3, <2>4, <2>5, <2>6 DEF LockInv
  <1>7. ASSUME NEW t \in Threads, PopFrame(t) PROVE LockInv'
    <2> USE <1>7 DEF PopFrame, lockVars
    <2> DEFINE s == frames[t]
    <2>1. s \in Seq(Frame) /\ s # << >> /\ s[Len(s)].kind = "js"
          /\ ~ HasDropped(s[Len(s)]) /\ Len(s) \in 1..Len(s)
      BY EmptySeq, LenProperties DEF LockInv, TypeOK, InnermostIs, Innermost, HasDropped
    <2>2. frames' = [frames EXCEPT ![t] = Without(s, Len(s))]
      BY DEF Close
    <2>3. Without(s, Len(s)) \in Seq(Frame)
      BY <2>1, WithoutScope
    <2>4. MutexInv'
      BY DEF LockInv, TypeOK, MutexInv
    <2>5. ScopesInv(t)'
      BY <2>1, <2>2, HeldClose DEF LockInv, TypeOK, ScopesInv, Holding, Running
    <2>6. \A u \in Threads : u # t => ScopesInv(u)'
      BY ZenonT(60), <2>2, OtherScopes DEF LockInv, TypeOK, Holding
    <2>7. TypeOK'
      <3>1. s[Len(s)] \in Frame
        BY <2>1, ElementOfSeq
      <3>2. topCallFrame' \in Nat
        BY <3>1 DEF Innermost, Frame
      <3> QED
        BY <2>2, <2>3, <3>2 DEF LockInv, TypeOK
    <2> QED
      BY <2>4, <2>5, <2>6, <2>7 DEF LockInv
  <1>8. ASSUME NEW t \in Threads, NEW tag \in DropTags, DropNothing(t, tag) PROVE LockInv'
    <2> USE <1>8 DEF DropNothing, lockVars, stackVars
    <2> DEFINE s == frames[t]
    <2>1. s \in Seq(Frame) /\ DropScope(0) \in Frame /\ ~ HasDropped(DropScope(0))
          /\ DropScope(0).kind = "drop"
      BY DEF LockInv, TypeOK, DropScope, Frame, Kinds, HasDropped
    <2>2. frames' = [frames EXCEPT ![t] = Append(s, DropScope(0))]
      BY DEF Open
    <2>3. TypeOK'
      BY <2>1, <2>2, AppendScope DEF LockInv, TypeOK
    <2>4. MutexInv'
      BY DEF LockInv, TypeOK, MutexInv
    <2>5. ScopesInv(t)'
      BY <2>1, <2>2, HeldAppend
         DEF LockInv, TypeOK, ScopesInv, Holding, CanOpen, Running
    <2>6. \A u \in Threads : u # t => ScopesInv(u)'
      BY ZenonT(60), <2>2, OtherScopes DEF LockInv, TypeOK, Holding
    <2> QED
      BY <2>3, <2>4, <2>5, <2>6 DEF LockInv
  <1>9. ASSUME NEW t \in Threads, NEW tag \in DropTags, DropAll(t, tag) PROVE LockInv'
    <2> USE <1>9 DEF DropAll, stackVars
    <2> DEFINE s == frames[t]
               f == DropScope(lockCount)
    <2>1. s \in Seq(Frame) /\ f \in Frame /\ HasDropped(f) /\ f.n = lockCount
          /\ Holding(t) /\ mutex = t /\ pc[t] = "run"
      BY DEF LockInv, TypeOK, MutexInv, DropScope, Frame, Kinds, HasDropped, Drops, Holding
    <2>2. frames' = [frames EXCEPT ![t] = Append(s, f)]
      BY DEF Open
    <2>3. f.n = Held(s, Len(s))
      BY <2>1 DEF LockInv, ScopesInv
    <2> HIDE DEF f
    <2>4. TypeOK'
      BY <2>1, <2>2, AppendScope DEF LockInv, TypeOK
    <2>5. MutexInv'
      BY <2>1 DEF LockInv, TypeOK, MutexInv
    <2>6. ScopesInv(t)'
      BY <2>1, <2>2, <2>3, HeldAppend DEF LockInv, TypeOK, ScopesInv, Holding
    <2>7. \A u \in Threads : u # t => ScopesInv(u)'
      BY ZenonT(60), <2>1, <2>2, OtherScopes DEF LockInv, TypeOK, Holding
    <2> QED
      BY <2>4, <2>5, <2>6, <2>7 DEF LockInv
  <1>10. ASSUME NEW t \in Threads, NEW i \in 1..Len(frames[t]), GrabNothing(t, i)
         PROVE  LockInv'
    <2> USE <1>10 DEF GrabNothing, lockVars, stackVars
    <2> DEFINE s == frames[t]
               r == Without(s, i)
    <2>1. s \in Seq(Frame) /\ s[i].kind = "drop" /\ ~ HasDropped(s[i]) /\ s # << >>
      BY EmptySeq DEF LockInv, TypeOK, IsInnermostDrop, HasDropped
    <2>2. frames' = [frames EXCEPT ![t] = r] /\ r \in Seq(Frame)
      BY <2>1, WithoutScope DEF Close
    <2>3. Held(r, Len(r)) = Held(s, Len(s)) /\ (DropsRemembered(s) => DropsRemembered(r))
      <3>1. CASE i = Len(s)
        BY <2>1, <3>1, HeldClose
      <3>2. CASE i = Len(s) - 1 /\ s[Len(s)].kind = "lock"
        BY <2>1, <3>2, HeldCloseUnder
      <3> QED
        BY <3>1, <3>2 DEF IsInnermostDrop, Innermost
    <2> HIDE DEF r
    <2>4. TypeOK'
      BY <2>2 DEF LockInv, TypeOK
    <2>5. MutexInv'
      BY DEF LockInv, TypeOK, MutexInv
    <2>6. ScopesInv(t)'
      BY <2>2, <2>3 DEF LockInv, TypeOK, ScopesInv, Holding, Running
    <2>7. \A u \in Threads : u # t => ScopesInv(u)'
      BY ZenonT(60), <2>2, OtherScopes DEF LockInv, TypeOK, Holding
    <2> QED
      BY <2>4, <2>5, <2>6, <2>7 DEF LockInv
  <1>11. ASSUME NEW t \in Threads, NEW i \in 1..Len(frames[t]), GrabAgain(t, i)
         PROVE  LockInv'
    <2> USE <1>11 DEF GrabAgain, stackVars
    <2> DEFINE s == frames[t]
               r == Without(s, i)
    <2>0. s \in Seq(Frame) /\ s[i] \in Frame
      BY ElementOfSeq DEF LockInv, TypeOK
    <2>1. s \in Seq(Frame) /\ s[i].kind = "drop" /\ HasDropped(s[i]) /\ s # << >>
          /\ s[i].n \in Nat
      BY <2>0, EmptySeq DEF IsInnermostDrop, HasDropped, Frame
    <2>2. frames' = [frames EXCEPT ![t] = r] /\ r \in Seq(Frame)
      BY <2>1, WithoutScope DEF Close
    <2>3. Held(s, Len(s)) = lockCount /\ lockCount # 0 /\ lockCount \in Nat
      BY DEF LockInv, ScopesInv, Holding, TypeOK
    <2>4. /\ lockCount = 1 /\ Held(r, Len(r)) = s[i].n + 1
          /\ DropsRemembered(s) => DropsRemembered(r)
      <3>1. CASE i = Len(s)
        BY <2>1, <2>3, <3>1, HeldClose
      <3>2. CASE i = Len(s) - 1 /\ s[Len(s)].kind = "lock"
        <4>1. s[i].n = Held(s, i - 1)
          BY <2>1 DEF LockInv, ScopesInv, DropsRemembered
        <4> QED
          BY <2>1, <2>3, <3>2, <4>1, HeldCloseUnder
      <3> QED
        BY <3>1, <3>2 DEF IsInnermostDrop, Innermost
    <2> HIDE DEF r
    <2>5. TypeOK'
      BY <2>1, <2>2, <2>3 DEF LockInv, TypeOK
    <2>6. MutexInv'
      BY <2>1, <2>3 DEF LockInv, TypeOK, MutexInv, Holding
    <2>7. ScopesInv(t)'
      BY <2>1, <2>2, <2>4 DEF LockInv, TypeOK, ScopesInv, Holding, Running
    <2>8. \A u \in Threads : u # t => ScopesInv(u)'
      BY ZenonT(60), <2>2, OtherScopes DEF LockInv, TypeOK, Holding
    <2> QED
      BY <2>5, <2>6, <2>7, <2>8 DEF LockInv
  <1>12. ASSUME NEW t \in Threads, NEW i \in 1..Len(frames[t]), GrabWait(t, i)
         PROVE  LockInv'
    <2> USE <1>12 DEF GrabWait, Goto, lockVars, stackVars
    <2> DEFINE s == frames[t]
    <2>1. s \in Seq(Frame) /\ s # << >> /\ HasDropped(s[i]) /\ Len(s) \in 1..Len(s)
      BY EmptySeq, LenProperties DEF LockInv, TypeOK, IsInnermostDrop, HasDropped
    <2>2. i = Len(s)
      <3>1. Held(s, Len(s)) = 0
        BY DEF LockInv, ScopesInv
      <3>2. SUFFICES ASSUME s[Len(s)].kind = "lock" PROVE FALSE
        BY DEF IsInnermostDrop, Innermost
      <3>3. Held(s, Len(s)) = Held(s, Len(s) - 1) + 1 /\ Len(s) - 1 \in Nat
        BY <2>1, <3>2, HeldStep DEF HasDropped
      <3> QED
        BY <3>1, <3>3, LiveLocksFinite
    <2>3. TypeOK'
      BY DEF LockInv, TypeOK, Pcs
    <2>4. MutexInv'
      BY DEF LockInv, TypeOK, MutexInv, Holding, Running
    <2>5. ScopesInv(t)'
      BY <2>1, <2>2 DEF LockInv, TypeOK, ScopesInv, Holding, Innermost
    <2>6. \A u \in Threads : u # t => ScopesInv(u)'
      BY ZenonT(60), OtherScopes DEF LockInv, TypeOK, Holding
    <2> QED
      BY <2>3, <2>4, <2>5, <2>6 DEF LockInv
  <1>13. ASSUME NEW t \in Threads, GrabAll(t) PROVE LockInv'
    <2> USE <1>13 DEF GrabAll, Goto, stackVars
    <2> DEFINE s == frames[t]
               r == Without(s, Len(s))
    <2>0. s \in Seq(Frame) /\ s # << >> /\ HasDropped(s[Len(s)]) /\ Len(s) \in 1..Len(s)
      BY EmptySeq, LenProperties DEF LockInv, ScopesInv, TypeOK, Innermost
    <2>1. s \in Seq(Frame) /\ s # << >> /\ HasDropped(s[Len(s)]) /\ Len(s) \in 1..Len(s)
          /\ s[Len(s)].n \in Nat
      <3>1. s[Len(s)] \in Frame
        BY <2>0, ElementOfSeq
      <3> QED
        BY <2>0, <3>1 DEF Frame
    <2>2. frames' = [frames EXCEPT ![t] = r] /\ r \in Seq(Frame)
      BY <2>1, WithoutScope DEF Close
    <2>3. mutex = t /\ lockCount = 0
      BY DEF LockInv, MutexInv, ScopesInv, TypeOK
    <2>4. Held(r, Len(r)) = s[Len(s)].n /\ DropsRemembered(r)
      BY ZenonT(60), <2>1, HeldClose DEF LockInv, ScopesInv, DropsRemembered
    <2> HIDE DEF r
    <2>5. TypeOK'
      BY <2>1, <2>2 DEF LockInv, TypeOK, Innermost, Pcs
    <2>6. MutexInv'
      BY <2>1, <2>3 DEF LockInv, TypeOK, MutexInv, Innermost, HasDropped
    <2>7. ScopesInv(t)'
      BY <2>1, <2>2, <2>3, <2>4
         DEF LockInv, TypeOK, ScopesInv, Holding, Innermost, HasDropped
    <2>8. \A u \in Threads : u # t => ScopesInv(u)'
      BY <2>2, <2>3, OtherScopes DEF LockInv, TypeOK, Holding
    <2> QED
      BY <2>5, <2>6, <2>7, <2>8 DEF LockInv
  <1> QED
    BY <1>0, <1>1, <1>2, <1>3, <1>4, <1>5, <1>6, <1>7, <1>8, <1>9, <1>10, <1>11,
       <1>12, <1>13 DEF Next

(* The lock stays consistent for any threads, bounds and tags.             *)
THEOREM LockInvariance == Spec => []LockInv
  BY LockInvInit, LockInvStep, PTL DEF Spec

(* For any threads and any tags: outside lock() and grabAllLocks() a       *)
(* thread holds exactly the locks of the JSLockHolders it has open and has *)
(* not dropped (JSLock::dropAllLocks, JSLock::grabAllLocks).               *)
THEOREM LocksRestored == Spec => []LocksMatchScopes
  <1>1. LockInv => LocksMatchScopes
    BY DEF LockInv, ScopesInv, LocksMatchScopes, LocksHeld, Held
  <1> QED
    BY <1>1, LockInvariance, PTL

(* For any threads and any tags: no thread waits for m_lock in lock() or   *)
(* grabAllLocks() while holding it.                                        *)
THEOREM NeverSelfDeadlocked == Spec => []NoSelfDeadlock
  <1>1. LockInv => NoSelfDeadlock
    BY ThreadsAssumption DEF LockInv, MutexInv, TypeOK, NoSelfDeadlock
  <1> QED
    BY <1>1, LockInvariance, PTL
-----------------------------------------------------------------------------
(* A step after which the same JS frames are on the threads' scopes.       *)
SameJS ==
    \A u \in Threads : \A i \in Nat :
        /\ JSAt(u, i)' <=> JSAt(u, i)
        /\ JSAt(u, i) => \A m \in 1..i : frames'[u][m] = frames[u][m]

(* Opening a scope that is no JS frame.                                    *)
LEMMA OpenQuiet ==
    ASSUME TypeOK, NEW t \in Threads, NEW f \in Frame, f.kind # "js", Open(t, f)
    PROVE  /\ SameJS
           /\ \A u \in Threads : \A i \in Nat :
                  DroppedAt(u, i)' <=>
                      \/ DroppedAt(u, i)
                      \/ u = t /\ i = Len(frames[t]) + 1 /\ HasDropped(f)
  <1>1. frames[t] \in Seq(Frame) /\ Len(frames[t]) \in Nat
    BY LenProperties DEF TypeOK
  <1>2. /\ frames'[t] = Append(frames[t], f)
        /\ \A u \in Threads : u # t => frames'[u] = frames[u]
    BY DEF Open, TypeOK
  <1>3. /\ Len(frames'[t]) = Len(frames[t]) + 1
        /\ \A i \in 1..Len(frames[t]) : frames'[t][i] = frames[t][i]
        /\ frames'[t][Len(frames[t]) + 1] = f
    BY <1>1, <1>2, AppendScope
  <1>4. ASSUME NEW u \in Threads, NEW i \in Nat
        PROVE  /\ JSAt(u, i)' <=> JSAt(u, i)
               /\ JSAt(u, i) => \A m \in 1..i : frames'[u][m] = frames[u][m]
               /\ DroppedAt(u, i)' <=>
                      \/ DroppedAt(u, i)
                      \/ u = t /\ i = Len(frames[t]) + 1 /\ HasDropped(f)
    <2>1. CASE u # t
      BY <1>2, <2>1 DEF JSAt, DroppedAt, HasDropped
    <2>2. CASE u = t
      <3>1. i \in 1..Len(frames'[t]) <=> i \in 1..Len(frames[t]) \/ i = Len(frames[t]) + 1
        BY <1>1, <1>3
      <3> QED
        BY <1>1, <1>3, <2>2, <3>1 DEF JSAt, DroppedAt, HasDropped
    <2> QED
      BY <2>1, <2>2
  <1> QED
    BY <1>4 DEF SameJS

(* Closing a scope that is no JS frame.                                    *)
LEMMA CloseQuiet ==
    ASSUME TypeOK, NEW t \in Threads, NEW i \in 1..Len(frames[t]),
           frames[t][i].kind # "js", Close(t, i),
           \/ i = Len(frames[t])
           \/ i = Len(frames[t]) - 1 /\ Innermost(t).kind = "lock"
    PROVE  /\ SameJS
           /\ \A u \in Threads : \A j \in Nat :
                  DroppedAt(u, j)' <=> DroppedAt(u, j) /\ ~ (u = t /\ j = i)
  <1>1. frames[t] \in Seq(Frame) /\ Len(frames[t]) \in Nat
    BY LenProperties DEF TypeOK
  <1>2. /\ frames'[t] = Without(frames[t], i)
        /\ \A u \in Threads : u # t => frames'[u] = frames[u]
    BY DEF Close, TypeOK
  <1>3. /\ Len(frames'[t]) = Len(frames[t]) - 1
        /\ \A j \in 1..(i - 1) : frames'[t][j] = frames[t][j]
        /\ \A j \in i..(Len(frames[t]) - 1) : frames'[t][j] = frames[t][j + 1]
    <2> DEFINE r == Without(frames[t], i)
    <2>1. /\ Len(r) = Len(frames[t]) - 1
          /\ \A j \in 1..(i - 1) : r[j] = frames[t][j]
          /\ \A j \in i..(Len(frames[t]) - 1) : r[j] = frames[t][j + 1]
      BY ZenonT(60), <1>1, WithoutScope
    <2> QED
      BY <1>2, <2>1
  <1>4. ASSUME NEW u \in Threads, NEW j \in Nat
        PROVE  /\ JSAt(u, j)' <=> JSAt(u, j)
               /\ JSAt(u, j) => \A m \in 1..j : frames'[u][m] = frames[u][m]
               /\ DroppedAt(u, j)' <=> DroppedAt(u, j) /\ ~ (u = t /\ j = i)
    <2>1. CASE u # t
      BY <1>2, <2>1 DEF JSAt, DroppedAt, HasDropped
    <2>2. CASE u = t
      <3>1. CASE i = Len(frames[t])
        <4>1. j \in 1..Len(frames'[t]) <=> j \in 1..Len(frames[t]) /\ j # i
          BY <1>1, <1>3, <3>1
        <4>2. \A m \in 1..(Len(frames[t]) - 1) : frames'[t][m] = frames[t][m]
          BY <1>3, <3>1
        <4> QED
          BY <1>1, <2>2, <3>1, <4>1, <4>2 DEF JSAt, DroppedAt, HasDropped
      <3>2. CASE i = Len(frames[t]) - 1 /\ frames[t][Len(frames[t])].kind = "lock"
        <4>1. frames'[t][i] = frames[t][Len(frames[t])] /\ Len(frames'[t]) = i
          BY <1>1, <1>3, <3>2
        <4>2. CASE j < i
          <5>1. j \in 1..Len(frames[t]) <=> j \in 1..Len(frames'[t])
            BY <1>1, <3>2, <4>1, <4>2
          <5>2. \A m \in 1..j : frames'[t][m] = frames[t][m]
            BY <1>1, <1>3, <4>2
          <5>3. j \in 1..Len(frames[t]) => frames'[t][j] = frames[t][j]
            BY <5>2
          <5> QED
            BY <2>2, <4>2, <5>1, <5>2, <5>3 DEF JSAt, DroppedAt, HasDropped
        <4>3. CASE j >= i
          <5>1. j \in 1..Len(frames[t]) => j = i \/ j = Len(frames[t])
            BY <1>1, <3>2, <4>3
          <5>2. j \in 1..Len(frames'[t]) => j = i
            BY <4>1, <4>3
          <5> QED
            BY <2>2, <3>2, <4>1, <5>1, <5>2 DEF JSAt, DroppedAt, HasDropped
        <4> QED
          BY <4>2, <4>3
      <3> QED
        BY <3>1, <3>2 DEF Innermost
    <2> QED
      BY <2>1, <2>2
  <1> QED
    BY <1>4 DEF SameJS

(* A thread with a JS frame that no DropAllLocks parks holds the lock.     *)
LEMMA UnparkedHolds ==
    ASSUME LockInv, StackInv, NEW t \in Threads, NEW i \in Nat, JSAt(t, i),
           ~ Parked(t, i)
    PROVE  Holding(t)
  <1>1. frames[t] \in Seq(Frame) /\ Len(frames[t]) \in Nat
    BY LenProperties DEF LockInv, TypeOK
  <1>2. PICK k \in 1..(i - 1) :
            /\ frames[t][k].kind = "lock"
            /\ \A m \in k..i : ~ HasDropped(frames[t][m])
    BY DEF StackInv
  <1>3. k \in LiveLocks(frames[t], Len(frames[t]))
    BY <1>1, <1>2 DEF LiveLocks, JSAt, Parked, DroppedAt
  <1>4. Held(frames[t], Len(frames[t])) # 0
    BY <1>1, <1>3, LiveLocksFinite
  <1> QED
    BY <1>4 DEF LockInv, ScopesInv

(* The frame of the thread that is executing JS is the top one.            *)
LEMMA TopFrame ==
    ASSUME LockInv, StackInv, NEW t \in Threads,
           JSAt(t, Len(frames[t]))
    PROVE  /\ frames[t][Len(frames[t])].n + 1 = topCallFrame
           /\ \A u \in Threads : \A i \in Nat :
                  JSAt(u, i) /\ ~ (u = t /\ i = Len(frames[t])) =>
                      frames[u][i].n < frames[t][Len(frames[t])].n
  <1> DEFINE L == Len(frames[t])
             b == frames[t][L].n
  <1>0. frames \in [Threads -> Seq(Frame)] /\ topCallFrame \in Nat
    BY DEF LockInv, TypeOK
  <1>1. \A u \in Threads : Len(frames[u]) \in Nat
                           /\ \A i \in 1..Len(frames[u]) : frames[u][i].n \in Nat
    <2> TAKE u \in Threads
    <2>1. frames[u] \in Seq(Frame)
      BY <1>0
    <2>2. \A i \in 1..Len(frames[u]) : frames[u][i] \in Frame
      BY <2>1, ElementOfSeq
    <2> QED
      BY <2>1, <2>2, LenProperties DEF Frame
  <1>2. L \in Nat /\ ~ Parked(t, L)
    BY <1>1 DEF Parked, DroppedAt, JSAt, HasDropped
  <1>3. Holding(t)
    BY <1>2, UnparkedHolds
  <1>4. ASSUME NEW u \in Threads, NEW i \in Nat, JSAt(u, i), ~ (u = t /\ i = L)
        PROVE  frames[u][i].n < b
    <2>1. CASE u = t
      BY <1>1, <1>2, <1>4, <2>1 DEF StackInv, JSAt
    <2>2. CASE u # t
      <3>1. Parked(u, i)
        BY <1>3, <1>4, <2>2, UnparkedHolds DEF Holding
      <3> QED
        BY <1>2, <1>4, <3>1 DEF StackInv
    <2> QED
      BY <2>1, <2>2
  <1>5. b < topCallFrame /\ b \in Nat
    BY <1>1, <1>2 DEF StackInv, JSAt
  <1>6. PICK u \in Threads, i \in Nat : JSAt(u, i) /\ frames[u][i].n = topCallFrame - 1
    <2>1. topCallFrame - 1 \in 0..(topCallFrame - 1)
      BY <1>0, <1>5
    <2> QED
      BY <2>1 DEF StackInv
  <1>7. u = t /\ i = L
    BY <1>0, <1>4, <1>5, <1>6
  <1> QED
    BY <1>0, <1>4, <1>5, <1>6, <1>7

(* A step that leaves the JS frames and the JS stack alone keeps StackInv  *)
(* when it keeps the order of parked and other frames.                     *)
LEMMA StackKept ==
    ASSUME StackInv, SameJS, UNCHANGED stackVars,
           \A t, u \in Threads : \A i, j \in Nat :
               JSAt(t, i) /\ JSAt(u, j) /\ Parked(t, i)' /\ ~ Parked(u, j)' =>
                   frames[t][i].n < frames[u][j].n
    PROVE  StackInv'
  <1>1. topCallFrame' = topCallFrame /\ stack' = stack
    BY DEF stackVars
  <1>2. \A u \in Threads : \A i \in Nat :
            /\ JSAt(u, i)' <=> JSAt(u, i)
            /\ JSAt(u, i) => frames'[u][i] = frames[u][i]
    BY DEF SameJS, JSAt
  <1>3. ASSUME NEW t \in Threads, NEW i \in Nat, JSAt(t, i)'
        PROVE  /\ frames'[t][i].n < topCallFrame'
               /\ stack'[frames'[t][i].n + 1] = t
               /\ \E k \in 1..(i - 1) :
                      /\ frames'[t][k].kind = "lock"
                      /\ \A m \in k..i : ~ HasDropped(frames'[t][m])
               /\ \A j \in Nat : JSAt(t, j)' /\ i < j => frames'[t][i].n < frames'[t][j].n
    <2>1. JSAt(t, i) /\ frames'[t][i] = frames[t][i]
      BY <1>2, <1>3
    <2>2. PICK k \in 1..(i - 1) :
              frames[t][k].kind = "lock" /\ \A m \in k..i : ~ HasDropped(frames[t][m])
      BY <2>1 DEF StackInv
    <2>3. \A m \in 1..i : frames'[t][m] = frames[t][m]
      BY <2>1 DEF SameJS
    <2>4. frames'[t][k].kind = "lock" /\ \A m \in k..i : ~ HasDropped(frames'[t][m])
      BY <2>2, <2>3
    <2>5. frames[t][i].n < topCallFrame /\ stack[frames[t][i].n + 1] = t
      BY <2>1 DEF StackInv
    <2>6. \A j \in Nat : JSAt(t, j) /\ i < j => frames[t][i].n < frames[t][j].n
      BY <2>1 DEF StackInv
    <2> QED
      BY <1>1, <1>2, <2>1, <2>4, <2>5, <2>6
  <1>4. \A t, u \in Threads : \A i, j \in Nat :
            JSAt(t, i)' /\ JSAt(u, j)' /\ Parked(t, i)' /\ ~ Parked(u, j)' =>
                frames'[t][i].n < frames'[u][j].n
    BY <1>2
  <1>5. \A s \in 0..(topCallFrame' - 1) :
            \E t \in Threads : \E i \in Nat : JSAt(t, i)' /\ frames'[t][i].n = s
    <2> SUFFICES ASSUME NEW s \in 0..(topCallFrame - 1)
                 PROVE  \E t \in Threads : \E i \in Nat : JSAt(t, i)' /\ frames'[t][i].n = s
      BY <1>1
    <2>1. PICK t \in Threads, i \in Nat : JSAt(t, i) /\ frames[t][i].n = s
      BY DEF StackInv
    <2> QED
      BY <1>2, <2>1
  <1> QED
    BY ZenonT(60), <1>3, <1>4, <1>5 DEF StackInv

(* A step that neither drops locks nor takes dropped ones back.            *)
LEMMA QuietStep ==
    ASSUME DepthInv, StackInv, SameJS, UNCHANGED <<stackVars, lockDropDepth>>,
           \A u \in Threads : \A i \in Nat : DroppedAt(u, i)' <=> DroppedAt(u, i)
    PROVE  DepthInv' /\ StackInv'
  <1>1. \A u \in Threads : \A i \in Nat : Parked(u, i)' <=> Parked(u, i)
    BY DEF Parked
  <1>2. \A t, u \in Threads : \A i, j \in Nat :
            JSAt(t, i) /\ JSAt(u, j) /\ Parked(t, i)' /\ ~ Parked(u, j)' =>
                frames[t][i].n < frames[u][j].n
    BY <1>1 DEF StackInv
  <1>3. StackInv'
    BY <1>2, StackKept
  <1>4. DepthInv'
    BY DEF DepthInv
  <1> QED
    BY <1>3, <1>4

(* A step that closes the only DropAllLocks scope that dropped locks.      *)
LEMMA Regrab ==
    ASSUME LockInv, DepthInv, StackInv, SameJS, UNCHANGED stackVars,
           lockDropDepth' = lockDropDepth - 1,
           NEW t \in Threads, NEW i \in Nat, DroppedAt(t, i),
           \A u \in Threads : \A j \in Nat :
               DroppedAt(u, j)' <=> DroppedAt(u, j) /\ ~ (u = t /\ j = i)
    PROVE  DepthInv' /\ StackInv'
  <1>1. lockDropDepth = 1 /\ \A u \in Threads : \A j \in Nat : ~ DroppedAt(u, j)'
    BY DEF DepthInv
  <1>2. \A u \in Threads : \A j \in Nat : ~ Parked(u, j)'
    BY <1>1 DEF Parked
  <1>3. StackInv'
    BY <1>2, StackKept
  <1>4. DepthInv'
    BY <1>1 DEF DepthInv
  <1> QED
    BY <1>3, <1>4

(* JSStack::pushFrame puts the new frame over every other one.             *)
LEMMA PushFrameStep ==
    ASSUME LockInv, DepthInv, StackInv, NEW t \in Threads, PushFrame(t)
    PROVE  DepthInv' /\ StackInv'
  <1> DEFINE L == Len(frames[t]) + 1
             f == JSFrame(topCallFrame)
  <1>0. /\ frames \in [Threads -> Seq(Frame)] /\ frames[t] \in Seq(Frame)
        /\ Len(frames[t]) \in Nat /\ topCallFrame \in Nat /\ f \in Frame
        /\ f.kind = "js" /\ f.n = topCallFrame /\ ~ HasDropped(f)
        /\ stack \in [1..StackSize -> Threads \cup {NoThread}]
    BY LenProperties DEF LockInv, TypeOK, JSFrame, Frame, Kinds, HasDropped
  <1>1. /\ frames'[t] = Append(frames[t], f)
        /\ \A u \in Threads : u # t => frames'[u] = frames[u]
        /\ topCallFrame' = topCallFrame + 1
        /\ stack' = [stack EXCEPT ![topCallFrame + 1] = t]
        /\ topCallFrame + 1 \in 1..StackSize
        /\ lockDropDepth' = lockDropDepth
    BY <1>0, BoundsAssumption DEF PushFrame, Open, lockVars
  <1> HIDE DEF f
  <1>2. /\ Len(frames'[t]) = L /\ frames'[t][L] = f /\ L \in Nat
        /\ \A i \in 1..(L - 1) : frames'[t][i] = frames[t][i]
    BY <1>0, <1>1, AppendScope
  <1>3. \A u \in Threads : \A i \in Nat :
            /\ JSAt(u, i)' <=> JSAt(u, i) \/ (u = t /\ i = L)
            /\ JSAt(u, i) => \A m \in 1..i : frames'[u][m] = frames[u][m]
            /\ DroppedAt(u, i)' <=> DroppedAt(u, i)
            /\ ~ JSAt(t, L)
    <2> TAKE u \in Threads, i \in Nat
    <2>1. CASE u # t
      BY <1>0, <1>1, <2>1 DEF JSAt, DroppedAt
    <2>2. CASE u = t
      <3>1. i \in 1..Len(frames'[t]) <=> i \in 1..Len(frames[t]) \/ i = L
        BY <1>0, <1>2
      <3> QED
        BY <1>0, <1>2, <2>2, <3>1 DEF JSAt, DroppedAt, HasDropped
    <2> QED
      BY <2>1, <2>2
  <1>3a. \A u \in Threads : \A i \in Nat : JSAt(u, i) => frames'[u][i] = frames[u][i]
    BY <1>3 DEF JSAt
  <1>4. \A u \in Threads : \A i \in Nat : Parked(u, i)' <=> Parked(u, i)
    BY <1>3 DEF Parked
  <1>5. DepthInv'
    BY <1>1, <1>3 DEF DepthInv
  <1>6. \A u \in Threads : \A i \in Nat :
            JSAt(u, i) => frames[u][i].n < topCallFrame /\ frames[u][i].n \in Nat
    <2> SUFFICES ASSUME NEW u \in Threads, NEW i \in Nat, JSAt(u, i)
                 PROVE  frames[u][i].n < topCallFrame /\ frames[u][i].n \in Nat
      OBVIOUS
    <2>1. frames[u][i] \in Frame
      BY <1>0, ElementOfSeq DEF JSAt
    <2> QED
      BY <2>1 DEF StackInv, Frame
  <1>7. ASSUME NEW u \in Threads, NEW i \in Nat, JSAt(u, i)'
        PROVE  /\ frames'[u][i].n < topCallFrame'
               /\ stack'[frames'[u][i].n + 1] = u
               /\ \E k \in 1..(i - 1) :
                      /\ frames'[u][k].kind = "lock"
                      /\ \A m \in k..i : ~ HasDropped(frames'[u][m])
               /\ \A j \in Nat : JSAt(u, j)' /\ i < j => frames'[u][i].n < frames'[u][j].n
    <2>1. CASE JSAt(u, i)
      <3>1. frames'[u][i] = frames[u][i] /\ \A m \in 1..i : frames'[u][m] = frames[u][m]
        BY <1>3, <1>3a, <2>1
      <3>2. PICK k \in 1..(i - 1) :
                frames[u][k].kind = "lock" /\ \A m \in k..i : ~ HasDropped(frames[u][m])
        BY <2>1 DEF StackInv
      <3>3. frames'[u][k].kind = "lock" /\ \A m \in k..i : ~ HasDropped(frames'[u][m])
        BY <3>1, <3>2
      <3>4. frames[u][i].n < topCallFrame /\ frames[u][i].n \in Nat
            /\ stack[frames[u][i].n + 1] = u
        BY <1>6, <2>1 DEF StackInv
      <3>5. stack'[frames'[u][i].n + 1] = u
        BY <1>0, <1>1, <3>1, <3>4
      <3>6. \A j \in Nat : JSAt(u, j)' /\ i < j => frames'[u][i].n < frames'[u][j].n
        <4> SUFFICES ASSUME NEW j \in Nat, JSAt(u, j)', i < j
                     PROVE  frames'[u][i].n < frames'[u][j].n
          OBVIOUS
        <4>1. CASE JSAt(u, j)
          BY <1>3a, <2>1, <3>1, <4>1 DEF StackInv
        <4>2. CASE u = t /\ j = L
          BY <1>0, <1>2, <3>1, <3>4, <4>2
        <4> QED
          BY <1>3, <4>1, <4>2
      <3> QED
        BY <1>0, <1>1, <3>1, <3>3, <3>4, <3>5, <3>6
    <2>2. CASE u = t /\ i = L
      <3>1. InnermostIs(t, "lock") \/ InnermostIs(t, "js")
        BY DEF PushFrame
      <3>2. L - 1 \in 1..Len(frames[t])
        BY <1>0, <3>1, EmptySeq DEF InnermostIs
      <3>3. \E k \in 1..(L - 1) :
                /\ frames[t][k].kind = "lock"
                /\ \A m \in k..(L - 1) : ~ HasDropped(frames[t][m])
        <4>1. CASE InnermostIs(t, "lock")
          BY <1>0, <3>2, <4>1 DEF InnermostIs, Innermost, HasDropped
        <4>2. CASE InnermostIs(t, "js")
          <5>1. JSAt(t, L - 1)
            BY <1>0, <3>2, <4>2 DEF InnermostIs, Innermost, JSAt
          <5>2. PICK k \in 1..(L - 1 - 1) :
                    /\ frames[t][k].kind = "lock"
                    /\ \A m \in k..(L - 1) : ~ HasDropped(frames[t][m])
            BY <1>0, <3>2, <5>1 DEF StackInv
          <5>3. k \in 1..(L - 1)
            BY <1>2, <5>2
          <5> QED
            BY <5>2, <5>3
        <4> QED
          BY <3>1, <4>1, <4>2
      <3>4. PICK k \in 1..(L - 1) :
                /\ frames[t][k].kind = "lock"
                /\ \A m \in k..(L - 1) : ~ HasDropped(frames[t][m])
        BY <3>3
      <3>5. frames'[t][k].kind = "lock" /\ \A m \in k..L : ~ HasDropped(frames'[t][m])
        <4>1. frames'[t][k].kind = "lock"
          BY <1>2, <3>4
        <4>2. ASSUME NEW m \in k..L PROVE ~ HasDropped(frames'[t][m])
          <5>1. CASE m = L
            BY <1>0, <1>2, <5>1
          <5>2. CASE m # L
            <6>1. m \in k..(L - 1) /\ m \in 1..(L - 1)
              BY <1>2, <3>4, <5>2
            <6> QED
              BY <1>2, <3>4, <6>1
          <5> QED
            BY <5>1, <5>2
        <4> QED
          BY <4>1, <4>2
      <3>6. \A j \in Nat : JSAt(t, j)' => ~ (L < j)
        BY <1>2 DEF JSAt
      <3>7. frames'[t][L].n = topCallFrame /\ stack'[topCallFrame + 1] = t
            /\ topCallFrame < topCallFrame'
        BY <1>0, <1>1, <1>2
      <3> HIDE DEF L
      <3> QED
        BY <2>2, <3>4, <3>5, <3>6, <3>7
    <2> QED
      BY <1>3, <1>7, <2>1, <2>2
  <1>8. ASSUME NEW v \in Threads, NEW u \in Threads, NEW i \in Nat, NEW j \in Nat,
               JSAt(v, i)', JSAt(u, j)', Parked(v, i)', ~ Parked(u, j)'
        PROVE  frames'[v][i].n < frames'[u][j].n
    <2>1. JSAt(v, i)
      <3>1. ~ Parked(t, L)
        BY <1>0 DEF Parked, DroppedAt
      <3> QED
        BY <1>3, <1>4, <1>8, <3>1
    <2>2. CASE JSAt(u, j)
      BY <1>3a, <1>4, <1>8, <2>1, <2>2 DEF StackInv
    <2>3. CASE u = t /\ j = L
      BY ZenonT(60), <1>0, <1>2, <1>3a, <1>6, <2>1, <2>3
    <2> QED
      BY <1>3, <1>8, <2>2, <2>3
  <1>9. ASSUME NEW s \in 0..(topCallFrame' - 1)
        PROVE  \E u \in Threads : \E i \in Nat : JSAt(u, i)' /\ frames'[u][i].n = s
    <2>1. CASE s = topCallFrame
      BY <1>0, <1>2, <1>3, <2>1
    <2>2. CASE s # topCallFrame
      <3>1. s \in 0..(topCallFrame - 1)
        BY <1>0, <1>1, <2>2
      <3>2. PICK u \in Threads, i \in Nat : JSAt(u, i) /\ frames[u][i].n = s
        BY <3>1 DEF StackInv
      <3> QED
        BY <1>3, <1>3a, <3>2
    <2> QED
      BY <2>1, <2>2
  <1>10. StackInv'
    BY ZenonT(60), <1>7, <1>8, <1>9 DEF StackInv
  <1> QED
    BY <1>5, <1>10

(* JSStack::popFrame takes off the top frame and no other.                 *)
LEMMA PopFrameStep ==
    ASSUME LockInv, DepthInv, StackInv, NEW t \in Threads, PopFrame(t)
    PROVE  DepthInv' /\ StackInv'
  <1> DEFINE L == Len(frames[t])
             b == frames[t][L].n
  <1>0. /\ frames \in [Threads -> Seq(Frame)] /\ frames[t] \in Seq(Frame)
        /\ L \in Nat /\ L \in 1..L /\ topCallFrame \in Nat /\ frames[t][L].kind = "js"
    BY LenProperties, EmptySeq DEF LockInv, TypeOK, PopFrame, InnermostIs, Innermost
  <1>1. /\ frames'[t] = Without(frames[t], L)
        /\ \A u \in Threads : u # t => frames'[u] = frames[u]
        /\ topCallFrame' = b /\ stack' = stack /\ lockDropDepth' = lockDropDepth
    BY <1>0 DEF PopFrame, Close, lockVars, Innermost
  <1>2. Len(frames'[t]) = L - 1 /\ \A i \in 1..(L - 1) : frames'[t][i] = frames[t][i]
    BY <1>0, <1>1, WithoutScope
  <1>3. JSAt(t, L)
    BY <1>0 DEF JSAt
  <1>4. /\ b + 1 = topCallFrame
        /\ \A u \in Threads : \A i \in Nat :
               JSAt(u, i) /\ ~ (u = t /\ i = L) => frames[u][i].n < b
    BY <1>3, TopFrame
  <1>5. b \in Nat
    <2>1. frames[t][L] \in Frame
      BY <1>0, ElementOfSeq
    <2> QED
      BY <2>1 DEF Frame
  <1>6. ASSUME NEW u \in Threads, NEW i \in Nat
        PROVE  /\ JSAt(u, i)' <=> JSAt(u, i) /\ ~ (u = t /\ i = L)
               /\ JSAt(u, i)' => \A m \in 1..i : frames'[u][m] = frames[u][m]
               /\ DroppedAt(u, i)' <=> DroppedAt(u, i)
    <2>1. CASE u # t
      BY <1>1, <2>1 DEF JSAt, DroppedAt
    <2>2. CASE u = t
      <3>1. i \in 1..Len(frames'[t]) <=> i \in 1..Len(frames[t]) /\ i # L
        BY <1>0, <1>2
      <3> QED
        BY <1>0, <1>2, <2>2, <3>1 DEF JSAt, DroppedAt, HasDropped
    <2> QED
      BY <2>1, <2>2
  <1>6a. \A u \in Threads : \A i \in Nat : JSAt(u, i)' => frames'[u][i] = frames[u][i]
    BY <1>6 DEF JSAt
  <1>7. \A u \in Threads : \A i \in Nat : Parked(u, i)' <=> Parked(u, i)
    BY <1>6 DEF Parked
  <1>8. DepthInv'
    BY <1>1, <1>6 DEF DepthInv
  <1> HIDE DEF L, b
  <1>9. ASSUME NEW u \in Threads, NEW i \in Nat, JSAt(u, i)'
        PROVE  /\ frames'[u][i].n < topCallFrame'
               /\ stack'[frames'[u][i].n + 1] = u
               /\ \E k \in 1..(i - 1) :
                      /\ frames'[u][k].kind = "lock"
                      /\ \A m \in k..i : ~ HasDropped(frames'[u][m])
               /\ \A j \in Nat : JSAt(u, j)' /\ i < j => frames'[u][i].n < frames'[u][j].n
    <2>1. JSAt(u, i) /\ ~ (u = t /\ i = L) /\ frames'[u][i] = frames[u][i]
          /\ \A m \in 1..i : frames'[u][m] = frames[u][m]
      BY <1>6, <1>6a, <1>9
    <2>2. PICK k \in 1..(i - 1) :
              frames[u][k].kind = "lock" /\ \A m \in k..i : ~ HasDropped(frames[u][m])
      BY <2>1 DEF StackInv
    <2>3. frames'[u][k].kind = "lock" /\ \A m \in k..i : ~ HasDropped(frames'[u][m])
      BY <2>1, <2>2
    <2>4. frames'[u][i].n < topCallFrame' /\ stack'[frames'[u][i].n + 1] = u
      BY <1>1, <1>4, <2>1 DEF StackInv
    <2>5. ASSUME NEW j \in Nat, JSAt(u, j)', i < j
          PROVE  frames'[u][i].n < frames'[u][j].n
      <3>1. JSAt(u, j) /\ frames'[u][j] = frames[u][j]
        BY <1>6, <1>6a, <2>5
      <3>2. frames[u][i].n < frames[u][j].n
        BY ZenonT(60), <2>1, <2>5, <3>1 DEF StackInv
      <3> QED
        BY <2>1, <3>1, <3>2
    <2> QED
      BY <2>3, <2>4, <2>5
  <1>10. ASSUME NEW v \in Threads, NEW u \in Threads, NEW i \in Nat, NEW j \in Nat,
                JSAt(v, i)', JSAt(u, j)', Parked(v, i)', ~ Parked(u, j)'
         PROVE  frames'[v][i].n < frames'[u][j].n
    <2>1. JSAt(v, i) /\ JSAt(u, j) /\ Parked(v, i) /\ ~ Parked(u, j)
      BY ZenonT(60), <1>6, <1>7, <1>10
    <2>2. frames[v][i].n < frames[u][j].n
      BY <2>1 DEF StackInv
    <2> QED
      BY <1>6a, <1>10, <2>2
  <1>11. ASSUME NEW s \in 0..(topCallFrame' - 1)
         PROVE  \E u \in Threads : \E i \in Nat : JSAt(u, i)' /\ frames'[u][i].n = s
    <2>1. s \in 0..(topCallFrame - 1) /\ s # b
      BY <1>1, <1>4, <1>5
    <2>2. PICK u \in Threads, i \in Nat : JSAt(u, i) /\ frames[u][i].n = s
      BY <2>1 DEF StackInv
    <2>3. ~ (u = t /\ i = L)
      BY <2>1, <2>2 DEF b
    <2> QED
      BY <1>6, <1>6a, <2>2, <2>3
  <1>12. StackInv'
    BY ZenonT(60), <1>9, <1>10, <1>11 DEF StackInv
  <1> QED
    BY <1>8, <1>12

(* The first DropAllLocks to drop locks parks every frame there is.        *)
LEMMA DropAllStep ==
    ASSUME LockInv, DepthInv, StackInv, NEW t \in Threads,
           DropAll(t, "DontAlwaysDropLocks")
    PROVE  DepthInv' /\ StackInv'
  <1> DEFINE L == Len(frames[t]) + 1
             f == DropScope(lockCount)
  <1>0. /\ f \in Frame /\ f.kind # "js" /\ HasDropped(f) /\ Holding(t) /\ lockDropDepth = 0
        /\ Len(frames[t]) \in Nat
    BY LenProperties
       DEF LockInv, TypeOK, DropAll, Drops, DropScope, Frame, Kinds, HasDropped, Holding
  <1>1. /\ SameJS
        /\ \A u \in Threads : \A i \in Nat :
               DroppedAt(u, i)' <=> DroppedAt(u, i) \/ (u = t /\ i = L /\ HasDropped(f))
    BY <1>0, OpenQuiet DEF DropAll, LockInv
  <1>2. \A u \in Threads : \A i \in Nat : ~ DroppedAt(u, i) /\ ~ Parked(u, i)
    BY <1>0 DEF DepthInv, Parked
  <1>3. \A u \in Threads : \A i \in Nat : DroppedAt(u, i)' <=> u = t /\ i = L
    BY <1>0, <1>1, <1>2
  <1> HIDE DEF f
  <1>4. ASSUME NEW v \in Threads, NEW u \in Threads, NEW i \in Nat, NEW j \in Nat,
               JSAt(v, i), JSAt(u, j), Parked(v, i)', ~ Parked(u, j)'
        PROVE  FALSE
    <2>1. Holding(u)
      BY <1>2, <1>4, UnparkedHolds
    <2>2. u = t
      BY <1>0, <2>1 DEF Holding
    <2>3. L >= j /\ L \in Nat
      BY <1>0, <1>4, <2>2 DEF JSAt
    <2>4. PICK k \in Nat : k = L /\ k >= j
      BY <2>3
    <2>5. DroppedAt(u, k)'
      BY <1>3, <2>2, <2>4
    <2> QED
      BY <1>4, <2>4, <2>5 DEF Parked
  <1>5. StackInv'
    BY <1>1, <1>4, StackKept DEF DropAll
  <1>6. lockDropDepth' = 1 /\ L \in Nat
    BY <1>0 DEF DropAll
  <1>7. DepthInv'
    BY <1>3, <1>6 DEF DepthInv
  <1> QED
    BY <1>5, <1>7

(* Every step keeps the drop depth and the JS stack in order, as long as   *)
(* no client asks for AlwaysDropLocks.                                     *)
LEMMA StackInvStep ==
    ASSUME "AlwaysDropLocks" \notin DropTags,
           LockInv, LockInv', DepthInv, StackInv, [Next]_vars
    PROVE  DepthInv' /\ StackInv'
  <1>0. TypeOK
    BY DEF LockInv
  <1>1. CASE UNCHANGED frames /\ UNCHANGED <<stackVars, lockDropDepth>>
    <2>1. SameJS /\ \A u \in Threads : \A i \in Nat : DroppedAt(u, i)' <=> DroppedAt(u, i)
      BY <1>1 DEF SameJS, JSAt, DroppedAt
    <2> QED
      BY <1>1, <2>1, QuietStep
  <1>2. ASSUME NEW t \in Threads, LockAgain(t) \/ LockFirst(t) PROVE DepthInv' /\ StackInv'
    <2>1. LockScope \in Frame /\ LockScope.kind # "js" /\ ~ HasDropped(LockScope)
      BY DEF LockScope, Frame, Kinds, HasDropped
    <2>2. Open(t, LockScope) /\ UNCHANGED <<stackVars, lockDropDepth>>
      BY <1>2 DEF LockAgain, LockFirst
    <2>3. SameJS /\ \A u \in Threads : \A i \in Nat : DroppedAt(u, i)' <=> DroppedAt(u, i)
      BY <1>0, <2>1, <2>2, OpenQuiet
    <2> QED
      BY <2>2, <2>3, QuietStep
  <1>3. ASSUME NEW t \in Threads, Unlock(t) PROVE DepthInv' /\ StackInv'
    <2>1. /\ Len(frames[t]) \in 1..Len(frames[t]) /\ Close(t, Len(frames[t]))
          /\ frames[t][Len(frames[t])].kind = "lock"
          /\ UNCHANGED <<stackVars, lockDropDepth>>
      BY <1>0, <1>3, EmptySeq, LenProperties DEF Unlock, InnermostIs, Innermost, TypeOK
    <2>2. \A i \in Nat : DroppedAt(t, i) => i # Len(frames[t])
      BY <2>1 DEF DroppedAt, HasDropped
    <2>3. SameJS /\ \A u \in Threads : \A i \in Nat : DroppedAt(u, i)' <=> DroppedAt(u, i)
      BY <1>0, <2>1, <2>2, CloseQuiet
    <2> QED
      BY <2>1, <2>3, QuietStep
  <1>4. ASSUME NEW t \in Threads, NEW tag, DropNothing(t, tag) PROVE DepthInv' /\ StackInv'
    <2>1. DropScope(0) \in Frame /\ DropScope(0).kind # "js" /\ ~ HasDropped(DropScope(0))
      BY DEF DropScope, Frame, Kinds, HasDropped
    <2>2. Open(t, DropScope(0)) /\ UNCHANGED <<stackVars, lockDropDepth>>
      BY <1>4 DEF DropNothing, lockVars
    <2>3. SameJS /\ \A u \in Threads : \A i \in Nat : DroppedAt(u, i)' <=> DroppedAt(u, i)
      BY <1>0, <2>1, <2>2, OpenQuiet
    <2> QED
      BY <2>2, <2>3, QuietStep
  <1>5. ASSUME NEW t \in Threads, NEW i \in 1..Len(frames[t]), GrabNothing(t, i)
        PROVE  DepthInv' /\ StackInv'
    <2>1. /\ Close(t, i) /\ frames[t][i].kind # "js"
          /\ UNCHANGED <<stackVars, lockDropDepth>>
          /\ \/ i = Len(frames[t])
             \/ i = Len(frames[t]) - 1 /\ Innermost(t).kind = "lock"
      BY <1>5 DEF GrabNothing, IsInnermostDrop, lockVars
    <2>2. \A j \in Nat : DroppedAt(t, j) => j # i
      BY <1>5 DEF GrabNothing, DroppedAt, HasDropped
    <2>3. SameJS /\ \A u \in Threads : \A j \in Nat : DroppedAt(u, j)' <=> DroppedAt(u, j)
      BY <1>0, <2>1, <2>2, CloseQuiet
    <2> QED
      BY <2>1, <2>3, QuietStep
  <1>6. ASSUME NEW t \in Threads, NEW i \in 1..Len(frames[t]), GrabAgain(t, i)
        PROVE  DepthInv' /\ StackInv'
    <2>0. /\ Close(t, i) /\ UNCHANGED stackVars /\ lockDropDepth' = lockDropDepth - 1
          /\ frames[t][i].n # 0 /\ IsInnermostDrop(t, i) /\ i \in Nat
      BY <1>6 DEF GrabAgain
    <2>1. /\ Close(t, i) /\ frames[t][i].kind # "js" /\ UNCHANGED stackVars
          /\ lockDropDepth' = lockDropDepth - 1
          /\ DroppedAt(t, i) /\ i \in Nat
          /\ \/ i = Len(frames[t])
             \/ i = Len(frames[t]) - 1 /\ Innermost(t).kind = "lock"
      <3>1. frames[t][i].kind = "drop"
        BY <2>0 DEF IsInnermostDrop
      <3>2. DroppedAt(t, i)
        BY <1>6, <2>0, <3>1 DEF DroppedAt, HasDropped
      <3> QED
        BY <2>0, <3>1, <3>2 DEF IsInnermostDrop
    <2>2. SameJS /\ \A u \in Threads : \A j \in Nat :
                        DroppedAt(u, j)' <=> DroppedAt(u, j) /\ ~ (u = t /\ j = i)
      BY <1>0, <2>1, CloseQuiet
    <2> QED
      BY <2>1, <2>2, Regrab
  <1>7. ASSUME NEW t \in Threads, GrabAll(t) PROVE DepthInv' /\ StackInv'
    <2>1. frames[t] # << >> /\ HasDropped(Innermost(t))
      BY ZenonT(60), <1>7 DEF GrabAll, LockInv, ScopesInv
    <2>2. PICK i \in 1..Len(frames[t]) : i = Len(frames[t])
      BY <1>0, <2>1, EmptySeq, LenProperties DEF TypeOK
    <2>3. /\ Close(t, i) /\ frames[t][i].kind # "js" /\ UNCHANGED stackVars
          /\ lockDropDepth' = lockDropDepth - 1
          /\ DroppedAt(t, i) /\ i \in Nat
      BY <1>7, <2>1, <2>2 DEF GrabAll, DroppedAt, HasDropped, Innermost
    <2>4. SameJS /\ \A u \in Threads : \A j \in Nat :
                        DroppedAt(u, j)' <=> DroppedAt(u, j) /\ ~ (u = t /\ j = i)
      BY <1>0, <2>2, <2>3, CloseQuiet
    <2> QED
      BY <2>3, <2>4, Regrab
  <1>8. ASSUME NEW t \in Threads, NEW tag \in DropTags, DropAll(t, tag)
        PROVE  DepthInv' /\ StackInv'
    <2>1. tag = "DontAlwaysDropLocks"
      BY TagsAssumption DEF Tags
    <2> QED
      BY <1>8, <2>1, DropAllStep
  <1>9. ASSUME NEW t \in Threads, PushFrame(t) \/ PopFrame(t) PROVE DepthInv' /\ StackInv'
    BY <1>9, PushFrameStep, PopFrameStep
  <1>10. ASSUME NEW t \in Threads, LockWait(t) \/ LockAcquire(t) \/ GrabAcquire(t)
                                   \/ \E i \in 1..Len(frames[t]) : GrabWait(t, i)
         PROVE  UNCHANGED frames /\ UNCHANGED <<stackVars, lockDropDepth>>
    BY <1>10 DEF LockWait, LockAcquire, GrabAcquire, AcquireMutex, GrabWait, lockVars
  <1>11. CASE UNCHANGED vars
    BY <1>1, <1>11 DEF vars, stackVars
  <1> QED
    BY <1>1, <1>2, <1>3, <1>4, <1>5, <1>6, <1>7, <1>8, <1>9, <1>10, <1>11 DEF Next

(* With conditional dropping, for any threads: frames on the shared JS     *)
(* stack are never overwritten or cut off by another thread, and the       *)
(* thread executing JS has the top one (JSLock::dropAllLocks).             *)
THEOREM StackNeverDamaged ==
    ASSUME "AlwaysDropLocks" \notin DropTags
    PROVE  Spec => []StackIntact
  <1>1. Init => DepthInv /\ StackInv
    BY EmptySeq DEF Init, DepthInv, StackInv, DroppedAt, JSAt
  <1>2. LockInv /\ LockInv' /\ DepthInv /\ StackInv /\ [Next]_vars => DepthInv' /\ StackInv'
    BY StackInvStep
  <1>3. LockInv /\ StackInv => StackIntact
    <2> SUFFICES ASSUME LockInv, StackInv, NEW t \in Threads,
                        NEW i \in 1..Len(frames[t]), frames[t][i].kind = "js"
                 PROVE  /\ frames[t][i].n + 1 <= topCallFrame
                        /\ stack[frames[t][i].n + 1] = t
                        /\ i = Len(frames[t]) => frames[t][i].n + 1 = topCallFrame
      BY DEF StackIntact
    <2>1. JSAt(t, i) /\ i \in Nat
      BY DEF JSAt
    <2>2. frames[t][i].n \in Nat /\ topCallFrame \in Nat
      <3>1. frames[t][i] \in Frame
        BY ElementOfSeq DEF LockInv, TypeOK
      <3> QED
        BY <3>1 DEF Frame, LockInv, TypeOK
    <2>3. frames[t][i].n < topCallFrame /\ stack[frames[t][i].n + 1] = t
      BY <2>1 DEF StackInv
    <2> QED
      BY <2>1, <2>2, <2>3, TopFrame
  <1> QED
    BY <1>1, <1>2, <1>3, LockInvariance, PTL DEF Spec
=============================================================================
