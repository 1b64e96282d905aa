------------------------ MODULE HeapSchedulingProofs ------------------------
(***************************************************************************)
(* The invariants of HeapScheduling, for any threads, delays and bounds.   *)
(***************************************************************************)
EXTENDS HeapScheduling, FiniteSetTheorems, TLAPS

Operations == {"NoOperation", "Allocation"}

Heaps ==
    [bytes : 0 .. MaxBytes, abandoned : 0 .. MaxBytes, depth : Int, op : Operations, length : Lengths,
     delay : 0 .. Decade, fireIn : 0 .. Decade, sweeping : BOOLEAN, missed : BOOLEAN,
     crashed : BOOLEAN]

Garbage(h) == h.bytes + h.abandoned

(* Twice the delay that the last of b bytes found wanted, or less.         *)
Prompt(length, delay, b) == b > 0 => delay <= 2 * NewDelay[length][b - 1]

HeapOK(h) == h \in Heaps /\ Prompt(h.length, h.delay, Garbage(h))

(* The timer's date is no later than m_delay, or that does not matter.     *)
Settled(h) == h.fireIn <= h.delay \/ h.missed \/ h.crashed

TimerInv ==
    /\ HeapOK(heap)
    /\ vm = "alive" /\ firing # "gc" => Settled(heap)

Kinds == {"api"} \cup Deferrals \cup Windows
Scopes == [kind : Kinds, dropped : BOOLEAN]

VMInv ==
    /\ frames \in [Threads -> Seq(Scopes)]
    /\ vm = "dead" => released /\ waiting = {} /\ \A t \in Threads : frames[t] = <<>>

(* m_deferralDepth counts the deferrals, and the main thread is in no call *)
(* while the run loop calls it back.                                       *)
CountInv ==
    /\ vm \in {"alive", "dead"}
    /\ vm = "alive" => IsFiniteSet(OpenDeferrals) /\ heap.depth = Cardinality(OpenDeferrals)
    /\ firing # "none" => frames[MainThread] = <<>> /\ MainThread \notin waiting

-----------------------------------------------------------------------------
(* The operators of the heap                                               *)

(* The timer is only ever moved to an earlier date, by as much as m_delay, *)
(* and m_delay is then what is wanted, or less than twice that.            *)
LEMMA ScheduleSettles ==
    ASSUME NEW h, HeapOK(h)
    PROVE  /\ setTimer(h) \in Heaps /\ setTimer(h).delay <= 2 * NewDelay[h.length][Garbage(h)]
           /\ setTimer(h).bytes = h.bytes /\ setTimer(h).abandoned = h.abandoned
           /\ setTimer(h).length = h.length /\ setTimer(h).depth = h.depth
           /\ setTimer(h).delay <= h.delay
           /\ setTimer(h).missed = h.missed /\ setTimer(h).crashed = h.crashed
           /\ h.fireIn <= h.delay => setTimer(h).fireIn <= setTimer(h).delay
<1> DEFINE n == NewDelay[h.length][Garbage(h)]
           f == IF h.fireIn > h.delay - n THEN h.fireIn - (h.delay - n) ELSE 0
           g == [h EXCEPT !.delay = n, !.fireIn = f]
<1>1. h \in Heaps /\ h.delay \in 0 .. Decade /\ h.fireIn \in 0 .. Decade /\ h.length \in Lengths
  BY DEF HeapOK, Heaps
<1>2. Garbage(h) \in 0 .. 2 * MaxBytes
  <2>1. MaxBytes \in Nat /\ h.bytes \in 0 .. MaxBytes /\ h.abandoned \in 0 .. MaxBytes
    BY <1>1, SchedulingAssumption DEF Heaps
  <2> QED BY <2>1 DEF Garbage
<1>3. n \in Nat /\ Decade \in Nat
  BY <1>1, <1>2, SchedulingAssumption
<1>4. setTimer(h) = IF n * 2 > h.delay THEN h ELSE g
  BY DEF setTimer, scheduleTimer, Garbage
<1> HIDE DEF n
<1>5. CASE n * 2 > h.delay
  <2>1. setTimer(h) = h
    BY <1>4, <1>5
  <2>2. h.delay <= 2 * n /\ h.delay <= h.delay
    BY <1>1, <1>3, <1>5
  <2> QED BY <1>1, <2>1, <2>2 DEF n
<1>6. CASE ~(n * 2 > h.delay)
  <2>1. setTimer(h) = g
    BY <1>4, <1>6
  <2>2. f \in 0 .. Decade /\ (h.fireIn <= h.delay => f <= n)
    BY <1>1, <1>3, <1>6
  <2>3. n \in 0 .. Decade /\ n <= h.delay /\ n <= 2 * n
    BY <1>1, <1>3, <1>6
  <2> HIDE DEF f
  <2>4. g \in Heaps
    BY <1>1, <2>2, <2>3, ZenonT(30) DEF Heaps
  <2>5. /\ g.delay = n /\ g.fireIn = f
        /\ g.bytes = h.bytes /\ g.abandoned = h.abandoned
        /\ g.length = h.length /\ g.depth = h.depth
        /\ g.missed = h.missed /\ g.crashed = h.crashed
    BY <1>1 DEF Heaps
  <2> HIDE DEF g
  <2> QED BY <2>1, <2>2, <2>3, <2>4, <2>5 DEF n
<1> QED BY <1>5, <1>6

(* With one more piece of garbage, or none, the delay is prompt.           *)
LEMMA StaysPrompt ==
    ASSUME NEW l \in Lengths, NEW d \in Nat, NEW b \in Nat, b <= 2 * MaxBytes, NEW n \in {0, 1},
           d <= 2 * NewDelay[l][b]
    PROVE  Prompt(l, d, b + n)
<1>1. MaxBytes \in Nat /\ b \in 0 .. 2 * MaxBytes
  BY SchedulingAssumption
<1>2. CASE n = 1
  <2>1. (b + n) - 1 = b
    BY <1>2
  <2> QED BY <2>1 DEF Prompt
<1>3. CASE n = 0 /\ b > 0
  <2>1. b - 1 \in 0 .. b /\ b - 1 \in 0 .. 2 * MaxBytes /\ (b + n) - 1 = b - 1
    BY <1>1, <1>3
  <2>2. NewDelay[l][b] <= NewDelay[l][b - 1] /\ NewDelay[l][b] \in Nat /\ NewDelay[l][b - 1] \in Nat
    BY <1>1, <2>1, SchedulingAssumption
  <2>3. d <= 2 * NewDelay[l][b - 1]
    BY <2>2
  <2> QED BY <2>1, <2>3 DEF Prompt
<1>4. CASE n = 0 /\ ~(b > 0)
  BY <1>4 DEF Prompt
<1> QED BY <1>2, <1>3, <1>4

(* Heap::didAllocate keeps a heap whose timer is set, or sets it.          *)
LEMMA AllocateSettles ==
    ASSUME NEW h, HeapOK(h), NEW n \in {0, 1}, h.bytes < MaxBytes
    PROVE  /\ HeapOK(didAllocate(h, n)) /\ (Settled(h) => Settled(didAllocate(h, n)))
           /\ didAllocate(h, n).depth = h.depth /\ Garbage(didAllocate(h, n)) >= Garbage(h)
<1> DEFINE g == setTimer(h)
           k == [g EXCEPT !.bytes = g.bytes + n]
<1>1. MaxBytes \in Nat /\ Decade \in Nat
  BY SchedulingAssumption
<1>2. /\ g \in Heaps /\ g.delay <= 2 * NewDelay[h.length][Garbage(h)]
      /\ g.bytes = h.bytes /\ g.abandoned = h.abandoned /\ g.length = h.length /\ g.depth = h.depth
      /\ g.missed = h.missed /\ g.crashed = h.crashed
      /\ h.fireIn <= h.delay => g.fireIn <= g.delay
  BY ScheduleSettles
<1>3. didAllocate(h, n) = k
  BY DEF didAllocate
<1> HIDE DEF g
<1>4. /\ g.bytes \in 0 .. MaxBytes /\ g.abandoned \in 0 .. MaxBytes /\ g.length \in Lengths
      /\ g.delay \in Nat
  BY <1>1, <1>2 DEF Heaps
<1>5. g.bytes + n \in 0 .. MaxBytes
  BY <1>1, <1>2, <1>4
<1>6. k \in Heaps
  BY <1>2, <1>5, ZenonT(30) DEF Heaps
<1>7. /\ k.bytes = g.bytes + n /\ k.abandoned = g.abandoned /\ k.length = g.length /\ k.depth = g.depth
      /\ k.delay = g.delay /\ k.fireIn = g.fireIn /\ k.missed = g.missed /\ k.crashed = g.crashed
  BY <1>2 DEF Heaps
<1> HIDE DEF k
<1>8. Garbage(h) \in Nat /\ Garbage(h) <= 2 * MaxBytes /\ Garbage(k) = Garbage(h) + n
      /\ Garbage(k) >= Garbage(h)
  BY <1>1, <1>2, <1>4, <1>7 DEF Garbage
<1>9. Prompt(k.length, k.delay, Garbage(k))
  BY <1>2, <1>4, <1>7, <1>8, StaysPrompt
<1>10. Settled(h) => Settled(k)
  BY <1>2, <1>7 DEF Settled
<1> QED BY <1>2, <1>3, <1>6, <1>7, <1>8, <1>9, <1>10 DEF HeapOK

(* So does Heap::didAbandon.                                               *)
LEMMA AbandonSettles ==
    ASSUME NEW h, HeapOK(h), h.abandoned < MaxBytes
    PROVE  /\ HeapOK(didAbandon(h, 1)) /\ (Settled(h) => Settled(didAbandon(h, 1)))
           /\ didAbandon(h, 1).depth = h.depth /\ Garbage(didAbandon(h, 1)) >= Garbage(h)
<1> DEFINE g == setTimer(h)
           k == [g EXCEPT !.abandoned = g.abandoned + 1]
<1>1. MaxBytes \in Nat /\ Decade \in Nat
  BY SchedulingAssumption
<1>2. /\ g \in Heaps /\ g.delay <= 2 * NewDelay[h.length][Garbage(h)]
      /\ g.bytes = h.bytes /\ g.abandoned = h.abandoned /\ g.length = h.length /\ g.depth = h.depth
      /\ g.missed = h.missed /\ g.crashed = h.crashed
      /\ h.fireIn <= h.delay => g.fireIn <= g.delay
  BY ScheduleSettles
<1>3. didAbandon(h, 1) = k
  BY DEF didAbandon
<1> HIDE DEF g
<1>4. /\ g.bytes \in 0 .. MaxBytes /\ g.abandoned \in 0 .. MaxBytes /\ g.length \in Lengths
      /\ g.delay \in Nat
  BY <1>1, <1>2 DEF Heaps
<1>5. g.abandoned + 1 \in 0 .. MaxBytes
  BY <1>1, <1>2, <1>4
<1>6. k \in Heaps
  BY <1>2, <1>5, ZenonT(30) DEF Heaps
<1>7. /\ k.abandoned = g.abandoned + 1 /\ k.bytes = g.bytes /\ k.length = g.length /\ k.depth = g.depth
      /\ k.delay = g.delay /\ k.fireIn = g.fireIn /\ k.missed = g.missed /\ k.crashed = g.crashed
  BY <1>2 DEF Heaps
<1> HIDE DEF k
<1>8. Garbage(h) \in Nat /\ Garbage(h) <= 2 * MaxBytes /\ Garbage(k) = Garbage(h) + 1
      /\ Garbage(k) >= Garbage(h)
  BY <1>1, <1>2, <1>4, <1>7 DEF Garbage
<1>9. Prompt(k.length, k.delay, Garbage(k))
  BY <1>2, <1>4, <1>7, <1>8, StaysPrompt
<1>10. Settled(h) => Settled(k)
  BY <1>2, <1>7 DEF Settled
<1> QED BY <1>2, <1>3, <1>6, <1>7, <1>8, <1>9, <1>10 DEF HeapOK

(* A collection settles the timer, whatever its state, and collects        *)
(* nothing unless m_deferralDepth is 0.                                    *)
LEMMA CollectSettles ==
    ASSUME NEW h, HeapOK(h), NEW length \in Lengths
    PROVE  /\ HeapOK(collect(h, length)) /\ Settled(collect(h, length))
           /\ collect(h, length).bytes <= h.bytes
           /\ collect(h, length).depth = h.depth
           /\ h.depth # 0 => Garbage(collect(h, length)) = Garbage(h)
<1>1. MaxBytes \in Nat /\ Decade \in Nat /\ h \in Heaps
  BY SchedulingAssumption DEF HeapOK
<1>2. CASE h.depth # 0 \/ h.op # "NoOperation"
  <2> DEFINE g == [h EXCEPT !.crashed = TRUE]
  <2>1. collect(h, length) = g
    BY <1>2 DEF collect
  <2>2. g \in Heaps
    BY <1>1, ZenonT(30) DEF Heaps
  <2>3. /\ g.bytes = h.bytes /\ g.abandoned = h.abandoned /\ g.delay = h.delay
        /\ g.length = h.length /\ g.depth = h.depth /\ g.crashed
    BY <1>1 DEF Heaps
  <2>4. h.bytes <= h.bytes
    BY <1>1 DEF Heaps
  <2> HIDE DEF g
  <2> QED BY <2>1, <2>2, <2>3, <2>4 DEF HeapOK, Settled, Garbage
<1>3. CASE ~(h.depth # 0 \/ h.op # "NoOperation")
  <2> DEFINE g == Collected(h, length)
  <2>1. collect(h, length) = g
    BY <1>3 DEF collect
  <2>2. g \in Heaps
    <3>1. 0 \in 0 .. MaxBytes /\ Decade \in 0 .. Decade
      BY <1>1
    <3> QED BY <1>1, <3>1, ZenonT(30) DEF Heaps, Collected
  <2>3. g.bytes = 0 /\ g.abandoned = 0 /\ g.delay = Decade /\ g.fireIn = Decade /\ g.depth = h.depth
    BY <1>1 DEF Heaps, Collected
  <2>4. 0 <= h.bytes
    BY <1>1 DEF Heaps
  <2> HIDE DEF g
  <2>5. Garbage(g) = 0
    BY <2>3 DEF Garbage
  <2> QED BY <1>1, <1>3, <2>1, <2>2, <2>3, <2>4, <2>5 DEF HeapOK, Settled, Prompt
<1> QED BY <1>2, <1>3

(* And a collection, whether it happens or is deferred.                    *)
LEMMA CollectIfNecessarySettles ==
    ASSUME NEW h, HeapOK(h), NEW length \in Lengths
    PROVE  /\ HeapOK(collectIfNecessaryOrDefer(h, length))
           /\ Settled(h) => Settled(collectIfNecessaryOrDefer(h, length))
           /\ collectIfNecessaryOrDefer(h, length).bytes <= h.bytes
           /\ collectIfNecessaryOrDefer(h, length).depth = h.depth
           /\ h.depth # 0 => Garbage(collectIfNecessaryOrDefer(h, length)) = Garbage(h)
<1>1. h.bytes <= h.bytes
  BY SchedulingAssumption DEF HeapOK, Heaps
<1> QED BY <1>1, CollectSettles DEF collectIfNecessaryOrDefer

(* m_operationInProgress has no bearing on the timer.                      *)
LEMMA OperationSettles ==
    ASSUME NEW h, HeapOK(h), NEW x \in Operations
    PROVE  LET g == [h EXCEPT !.op = x]
           IN  /\ HeapOK(g) /\ (Settled(h) => Settled(g)) /\ g.bytes = h.bytes
               /\ g.depth = h.depth /\ Garbage(g) = Garbage(h)
<1> DEFINE g == [h EXCEPT !.op = x]
<1>1. h \in Heaps
  BY DEF HeapOK
<1>2. g \in Heaps
  BY <1>1, ZenonT(30) DEF Heaps
<1>3. /\ g.bytes = h.bytes /\ g.abandoned = h.abandoned /\ g.length = h.length
      /\ g.delay = h.delay /\ g.fireIn = h.fireIn /\ g.missed = h.missed /\ g.crashed = h.crashed
      /\ g.depth = h.depth
  BY <1>1, ZenonT(30) DEF Heaps
<1> HIDE DEF g
<1>4. Garbage(g) = Garbage(h)
  BY <1>3 DEF Garbage
<1>5. HeapOK(g) /\ (Settled(h) => Settled(g))
  BY <1>2, <1>3, <1>4 DEF HeapOK, Settled
<1> QED BY <1>3, <1>4, <1>5 DEF g

(* Neither has m_deferralDepth.                                            *)
LEMMA DepthSettles ==
    ASSUME NEW h, HeapOK(h), NEW x \in Int
    PROVE  LET g == [h EXCEPT !.depth = x]
           IN  /\ HeapOK(g) /\ (Settled(h) => Settled(g)) /\ g.bytes = h.bytes
               /\ g.depth = x /\ Garbage(g) = Garbage(h)
<1> DEFINE g == [h EXCEPT !.depth = x]
<1>1. h \in Heaps
  BY DEF HeapOK
<1>2. g \in Heaps
  BY <1>1, ZenonT(30) DEF Heaps
<1>3. /\ g.bytes = h.bytes /\ g.abandoned = h.abandoned /\ g.length = h.length
      /\ g.delay = h.delay /\ g.fireIn = h.fireIn /\ g.missed = h.missed /\ g.crashed = h.crashed
      /\ g.depth = x
  BY <1>1, ZenonT(30) DEF Heaps
<1> HIDE DEF g
<1>4. Garbage(g) = Garbage(h)
  BY <1>3 DEF Garbage
<1>5. HeapOK(g) /\ (Settled(h) => Settled(g))
  BY <1>2, <1>3, <1>4 DEF HeapOK, Settled
<1> QED BY <1>3, <1>4, <1>5 DEF g

(* The timer of the incremental sweeper is another one.                    *)
LEMMA SweepingSettles ==
    ASSUME NEW h, HeapOK(h), NEW x \in BOOLEAN
    PROVE  LET g == [h EXCEPT !.sweeping = x]
           IN  /\ HeapOK(g) /\ (Settled(h) => Settled(g)) /\ g.bytes = h.bytes
               /\ g.depth = h.depth /\ Garbage(g) = Garbage(h)
<1> DEFINE g == [h EXCEPT !.sweeping = x]
<1>1. h \in Heaps
  BY DEF HeapOK
<1>2. g \in Heaps
  BY <1>1, ZenonT(30) DEF Heaps
<1>3. /\ g.bytes = h.bytes /\ g.abandoned = h.abandoned /\ g.length = h.length
      /\ g.delay = h.delay /\ g.fireIn = h.fireIn /\ g.missed = h.missed /\ g.crashed = h.crashed
      /\ g.depth = h.depth
  BY <1>1, ZenonT(30) DEF Heaps
<1> HIDE DEF g
<1>4. Garbage(g) = Garbage(h)
  BY <1>3 DEF Garbage
<1>5. HeapOK(g) /\ (Settled(h) => Settled(g))
  BY <1>2, <1>3, <1>4 DEF HeapOK, Settled
<1> QED BY <1>3, <1>4, <1>5 DEF g

(* A timer that fired while disabled is recorded as missed.                *)
LEMMA MissedSettles ==
    ASSUME NEW h, HeapOK(h)
    PROVE  LET g == [h EXCEPT !.missed = TRUE]
           IN  HeapOK(g) /\ Settled(g) /\ g.depth = h.depth /\ Garbage(g) = Garbage(h)
<1> DEFINE g == [h EXCEPT !.missed = TRUE]
<1>1. h \in Heaps
  BY DEF HeapOK
<1>2. g \in Heaps
  BY <1>1, ZenonT(30) DEF Heaps
<1>3. /\ g.bytes = h.bytes /\ g.abandoned = h.abandoned /\ g.length = h.length
      /\ g.delay = h.delay /\ g.depth = h.depth /\ g.missed = TRUE
  BY <1>1, ZenonT(30) DEF Heaps
<1> HIDE DEF g
<1>4. Garbage(g) = Garbage(h)
  BY <1>3 DEF Garbage
<1>5. HeapOK(g) /\ Settled(g)
  BY <1>2, <1>3, <1>4 DEF HeapOK, Settled
<1> QED BY <1>3, <1>4, <1>5 DEF g

(* The timer's date is all that changes when time passes.                  *)
LEMMA FireInSettles ==
    ASSUME NEW h, HeapOK(h), NEW x \in 0 .. Decade
    PROVE  LET g == [h EXCEPT !.fireIn = x]
           IN  /\ HeapOK(g) /\ (Settled(h) /\ x <= h.fireIn => Settled(g))
               /\ g.depth = h.depth /\ Garbage(g) = Garbage(h)
<1> DEFINE g == [h EXCEPT !.fireIn = x]
<1>1. h \in Heaps /\ Decade \in Nat
  BY SchedulingAssumption DEF HeapOK
<1>2. g \in Heaps
  BY <1>1, ZenonT(30) DEF Heaps
<1>3. /\ g.bytes = h.bytes /\ g.abandoned = h.abandoned /\ g.length = h.length
      /\ g.delay = h.delay /\ g.depth = h.depth /\ g.fireIn = x
      /\ g.missed = h.missed /\ g.crashed = h.crashed
  BY <1>1, ZenonT(30) DEF Heaps
<1> HIDE DEF g
<1>4. Garbage(g) = Garbage(h)
  BY <1>3 DEF Garbage
<1>5. HeapOK(g)
  BY <1>2, <1>3, <1>4 DEF HeapOK
<1>6. Settled(h) /\ x <= h.fireIn => Settled(g)
  <2>1. x \in Int /\ h.fireIn \in Int /\ h.delay \in Int
    BY <1>1 DEF Heaps
  <2> QED BY <1>3, <2>1 DEF Settled
<1> QED BY <1>3, <1>4, <1>5, <1>6 DEF g

-----------------------------------------------------------------------------
(* The timer                                                               *)

(* A new heap has nothing to collect, and its timer is no more than a      *)
(* decade away.                                                            *)
LEMMA TimerInit == Init => TimerInv
<1> SUFFICES ASSUME Init PROVE TimerInv
  OBVIOUS
<1>1. MaxBytes \in Nat /\ Decade \in Nat
  BY SchedulingAssumption
<1>2. heap \in Heaps
  <2>1. 0 \in 0 .. MaxBytes /\ Decade \in 0 .. Decade /\ 0 \in Int /\ 0 \in Lengths
    BY <1>1, SchedulingAssumption
  <2>2. PICK first \in 0 .. Decade :
           heap = [bytes |-> 0, abandoned |-> 0, depth |-> 0, op |-> "NoOperation", length |-> 0,
                   delay |-> Decade, fireIn |-> first, sweeping |-> FALSE, missed |-> FALSE,
                   crashed |-> FALSE]
    BY DEF Init
  <2> QED BY <2>1, <2>2, ZenonT(30) DEF Heaps, Operations
<1>3. /\ heap.bytes = 0 /\ heap.abandoned = 0 /\ heap.delay = Decade /\ heap.fireIn \in 0 .. Decade
  BY DEF Init
<1> QED BY <1>1, <1>2, <1>3 DEF TimerInv, HeapOK, Settled, Garbage, Prompt

(* What all the steps have to show of the heap they leave.                 *)
LEMMA TimerKept ==
    ASSUME TimerInv, HeapOK(heap'), Settled(heap) => Settled(heap'), firing' = firing,
           vm' = "alive" => vm = "alive"
    PROVE  TimerInv'
BY DEF TimerInv

(* The steps of MarkedAllocator::allocateSlowCase keep the timer set.      *)
LEMMA AllocationKeepsTimer ==
    ASSUME TimerInv, NEW t \in Threads,
           \/ AllocateSlowCase(t) \/ TryAllocateReturns(t) \/ TryAgainReturns(t)
           \/ AddBlockReturns(t) \/ TryLastReturns(t)
    PROVE  TimerInv'
<1>1. HeapOK(heap) /\ "NoOperation" \in Operations /\ "Allocation" \in Operations
  BY DEF TimerInv, Operations
<1>2. ASSUME AllocateSlowCase(t) PROVE TimerInv'
  <2>1. PICK n \in {0, 1} : heap' = [didAllocate(heap, n) EXCEPT !.op = "Allocation"]
    BY <1>2 DEF AllocateSlowCase, OpenWindow
  <2>2. heap.bytes < MaxBytes /\ firing' = firing /\ vm' = vm
    BY <1>2 DEF AllocateSlowCase, Rest
  <2>3. HeapOK(didAllocate(heap, n)) /\ (Settled(heap) => Settled(didAllocate(heap, n)))
    BY <1>1, <2>2, AllocateSettles
  <2>4. HeapOK(heap') /\ (Settled(heap) => Settled(heap'))
    BY <1>1, <2>1, <2>3, OperationSettles
  <2> QED BY <2>2, <2>4, TimerKept
<1>3. ASSUME TryAllocateReturns(t) \/ TryAgainReturns(t) \/ AddBlockReturns(t) \/ TryLastReturns(t)
      PROVE  TimerInv'
  <2> DEFINE done == [heap EXCEPT !.op = "NoOperation"]
  <2>1. \/ heap' = done
        \/ heap' = [heap EXCEPT !.op = "Allocation"]
        \/ \E length \in Lengths : heap' = [collect(done, length) EXCEPT !.op = "Allocation"]
    BY <1>3, Zenon
       DEF TryAllocateReturns, TryAgainReturns, AddBlockReturns, TryLastReturns, CloseWindow, NextWindow
  <2>2. firing' = firing /\ vm' = vm
    BY <1>3 DEF TryAllocateReturns, TryAgainReturns, AddBlockReturns, TryLastReturns, Rest
  <2>3. HeapOK(done) /\ (Settled(heap) => Settled(done))
    BY <1>1, OperationSettles
  <2> HIDE DEF done
  <2>4. \A length \in Lengths : HeapOK(collect(done, length)) /\ Settled(collect(done, length))
    BY <2>3, CollectSettles
  <2>5. HeapOK(heap') /\ (Settled(heap) => Settled(heap'))
    BY <1>1, <2>1, <2>3, <2>4, OperationSettles
  <2> QED BY <2>2, <2>5, TimerKept
<1> QED BY <1>2, <1>3
(* Time passing, the run loop, and timerDidFire keep the timer set.        *)
LEMMA RunLoopKeepsTimer ==
    ASSUME TimerInv, Tick \/ (\E timer \in {"gc", "sweep"} : RunLoopFires(timer)) \/ TimerDidFire
    PROVE  TimerInv'
<1>1. HeapOK(heap) /\ Decade \in Nat
  BY SchedulingAssumption DEF TimerInv
<1>2. ASSUME Tick PROVE TimerInv'
  <2>1. heap' = [heap EXCEPT !.fireIn = heap.fireIn - 1] /\ heap.fireIn > 0 /\ firing' = firing /\ vm' = vm
    BY <1>2 DEF Tick
  <2>2. heap.fireIn - 1 \in 0 .. Decade /\ heap.fireIn - 1 <= heap.fireIn
    BY <1>1, <2>1 DEF HeapOK, Heaps
  <2>3. HeapOK(heap') /\ (Settled(heap) => Settled(heap'))
    BY <1>1, <2>1, <2>2, FireInSettles
  <2> QED BY <2>1, <2>3, TimerKept
<1>3. ASSUME NEW timer \in {"gc", "sweep"}, RunLoopFires(timer) PROVE TimerInv'
  <2>1. firing = "none" /\ firing' = timer /\ vm' = vm
    BY <1>3 DEF RunLoopFires
  <2>2. CASE timer = "gc"
    <3>1. heap' = [heap EXCEPT !.fireIn = Decade] /\ Decade \in 0 .. Decade
      BY <1>1, <1>3, <2>2 DEF RunLoopFires
    <3>2. HeapOK(heap')
      BY <1>1, <3>1, FireInSettles
    <3> QED BY <2>1, <2>2, <3>2 DEF TimerInv
  <2>3. CASE timer = "sweep"
    <3>1. \E s \in BOOLEAN : heap' = [heap EXCEPT !.sweeping = s]
      BY <1>3, <2>3, Zenon DEF RunLoopFires
    <3>2. HeapOK(heap') /\ (Settled(heap) => Settled(heap'))
      BY <1>1, <3>1, SweepingSettles
    <3> QED BY <2>1, <2>3, <3>2 DEF TimerInv
  <2> QED BY <2>2, <2>3
<1>4. ASSUME TimerDidFire PROVE TimerInv'
  <2>1. vm' = vm /\ firing' = "none"
    BY <1>4 DEF TimerDidFire
  <2>2. CASE vm = "dead" /\ UNCHANGED heap
    BY <1>1, <2>1, <2>2 DEF TimerInv
  <2>3. CASE firing = "gc" /\ \E length \in Lengths :
               heap' = IF enabled THEN collect(heap, length) ELSE [heap EXCEPT !.missed = TRUE]
    <3>1. \A length \in Lengths : HeapOK(collect(heap, length)) /\ Settled(collect(heap, length))
      BY <1>1, CollectSettles
    <3>2. HeapOK([heap EXCEPT !.missed = TRUE]) /\ Settled([heap EXCEPT !.missed = TRUE])
      BY <1>1, MissedSettles
    <3> QED BY <2>1, <2>3, <3>1, <3>2 DEF TimerInv
  <2>4. CASE firing = "sweep" /\ \E unfinished \in BOOLEAN : heap' = [heap EXCEPT !.sweeping = unfinished]
    <3>1. PICK unfinished \in BOOLEAN : heap' = [heap EXCEPT !.sweeping = unfinished]
      BY <2>4
    <3>2. HeapOK(heap') /\ (Settled(heap) => Settled(heap'))
      BY <1>1, <3>1, SweepingSettles
    <3> QED BY <2>1, <2>4, <3>2 DEF TimerInv
  <2> QED BY <1>4, <2>2, <2>3, <2>4 DEF TimerDidFire, OpenWindow
<1> QED BY <1>2, <1>3, <1>4

(* So does everything else a thread does.                                  *)
LEMMA OthersKeepTimer ==
    ASSUME TimerInv, NEW t \in Threads,
           \/ Enter(t) \/ EnterLocked(t) \/ Exit(t) \/ Release(t)
           \/ \E kind \in Deferrals : Defer(t, kind)
           \/ EndDefer(t)
           \/ ReportExtraMemoryCost(t) \/ AddReference(t) \/ ReportAbandonedObjectGraph(t)
           \/ CollectAllGarbage(t) \/ CollectReturns(t) \/ SweepReturns(t)
           \/ \E enable \in BOOLEAN : SetGarbageCollectionTimerEnabled(t, enable)
    PROVE  TimerInv'
<1>1. HeapOK(heap)
  BY DEF TimerInv
<1>2. heap.depth + 1 \in Int /\ heap.depth - 1 \in Int
  BY <1>1 DEF HeapOK, Heaps
<1> DEFINE up == [heap EXCEPT !.depth = heap.depth + 1]
           down == [heap EXCEPT !.depth = heap.depth - 1]
<1>3. /\ HeapOK(up) /\ (Settled(heap) => Settled(up))
      /\ HeapOK(down) /\ (Settled(heap) => Settled(down))
  BY <1>1, <1>2, DepthSettles
<1>4. CASE Enter(t) \/ EnterLocked(t) \/ CollectReturns(t) \/ SweepReturns(t)
           \/ \E enable \in BOOLEAN : SetGarbageCollectionTimerEnabled(t, enable)
  BY <1>1, <1>4, TimerKept
     DEF Enter, EnterLocked, CollectReturns, SweepReturns, CloseWindow, Rest,
         SetGarbageCollectionTimerEnabled
<1>5. CASE Exit(t)
  <2>1. heap' = up \/ heap' = heap
    BY <1>5 DEF Exit
  <2>2. firing' = firing /\ (vm' = "alive" => vm = "alive")
    BY <1>5 DEF Exit
  <2> HIDE DEF up
  <2> QED BY <1>1, <1>3, <2>1, <2>2, TimerKept
<1>6. CASE \E kind \in Deferrals : Defer(t, kind)
  <2>1. heap' = up /\ firing' = firing /\ vm' = vm
    BY <1>6 DEF Defer, Rest
  <2> HIDE DEF up
  <2> QED BY <1>3, <2>1, TimerKept
<1>7. CASE EndDefer(t)
  <2>1. (\E length \in Lengths : heap' = collectIfNecessaryOrDefer(down, length)) \/ heap' = down
    BY <1>7 DEF EndDefer
  <2>2. firing' = firing /\ vm' = vm
    BY <1>7 DEF EndDefer, Rest
  <2> HIDE DEF down
  <2> QED BY <1>3, <2>1, <2>2, TimerKept, CollectIfNecessarySettles
<1>8. CASE ReportExtraMemoryCost(t)
  <2>1. /\ heap.bytes < MaxBytes /\ firing' = firing /\ vm' = vm
        /\ \E length \in Lengths : heap' = collectIfNecessaryOrDefer(didAllocate(heap, 1), length)
    BY <1>8 DEF ReportExtraMemoryCost
  <2>2. HeapOK(didAllocate(heap, 1)) /\ (Settled(heap) => Settled(didAllocate(heap, 1)))
    BY <1>1, <2>1, AllocateSettles
  <2> QED BY <2>1, <2>2, TimerKept, CollectIfNecessarySettles
<1>9. CASE AddReference(t)
  <2>1. PICK length \in Lengths : heap' = didAllocate(collectIfNecessaryOrDefer(heap, length), 1)
    BY <1>9 DEF AddReference
  <2> DEFINE g == collectIfNecessaryOrDefer(heap, length)
  <2>2. HeapOK(g) /\ (Settled(heap) => Settled(g)) /\ g.bytes <= heap.bytes
    BY <1>1, CollectIfNecessarySettles
  <2>3. heap.bytes < MaxBytes /\ firing' = firing /\ vm' = vm
    BY <1>9 DEF AddReference
  <2>4. g.bytes < MaxBytes
    BY <1>1, <2>2, <2>3, SchedulingAssumption DEF HeapOK, Heaps
  <2>5. heap' = didAllocate(g, 1)
    BY <2>1
  <2> HIDE DEF g
  <2>6. HeapOK(heap') /\ (Settled(g) => Settled(heap'))
    BY <2>2, <2>4, <2>5, AllocateSettles
  <2> QED BY <2>2, <2>3, <2>6, TimerKept
<1>10. CASE ReportAbandonedObjectGraph(t)
  BY <1>1, <1>10, AbandonSettles, TimerKept DEF ReportAbandonedObjectGraph
<1>11. CASE CollectAllGarbage(t)
  BY <1>1, <1>11, CollectSettles, TimerKept DEF CollectAllGarbage, OpenWindow, Rest
<1>12. CASE Release(t)
  BY <1>1, <1>12, AbandonSettles, TimerKept DEF Release
<1> QED BY <1>4, <1>5, <1>6, <1>7, <1>8, <1>9, <1>10, <1>11, <1>12

(* Unless a disabled timer fired, the timer is set for m_delay after the   *)
(* last collection or earlier, and m_delay is at most twice what the       *)
(* garbage asks for: didAllocate and didAbandon of any thread              *)
(* (GCActivityCallback.cpp) can race with the callback in any way, and the *)
(* delays are any that do not grow with the garbage, those of a first      *)
(* cycle (0) and those that scheduleTimer ignores among them.              *)
THEOREM TimerStaysArmed == Spec => []TimerArmed
<1>1. ASSUME TimerInv, [Next]_vars PROVE TimerInv'
  <2>1. CASE UNCHANGED vars
    BY <1>1, <2>1 DEF vars, lockVars, TimerInv
  <2>2. CASE Next
    BY <1>1, <2>2, AllocationKeepsTimer, RunLoopKeepsTimer, OthersKeepTimer DEF Next
  <2> QED BY <1>1, <2>1, <2>2
<1>2. TimerInv => TimerArmed
  <2> SUFFICES ASSUME TimerInv, vm = "alive", firing # "gc", ~heap.missed, ~heap.crashed
               PROVE  /\ heap.fireIn <= heap.delay
                      /\ heap.bytes + heap.abandoned > 0 =>
                            heap.delay <= 2 * NewDelay[heap.length][(heap.bytes + heap.abandoned) - 1]
    BY Zenon DEF TimerArmed
  <2>1. heap.fireIn <= heap.delay
    BY Zenon DEF TimerInv, Settled
  <2>2. Prompt(heap.length, heap.delay, Garbage(heap))
    BY Zenon DEF TimerInv, HeapOK
  <2> QED BY <2>1, <2>2, Zenon DEF Prompt, Garbage
<1> QED BY TimerInit, <1>1, <1>2, PTL DEF Spec

-----------------------------------------------------------------------------
(* The end of the VM                                                       *)

(* Scopes are opened and closed at the head of a sequence.                 *)
LEMMA SequenceFacts ==
    ASSUME NEW s \in Seq(Scopes)
    PROVE  /\ \A f \in Scopes : <<f>> \o s \in Seq(Scopes)
           /\ s # <<>> => /\ Tail(s) \in Seq(Scopes) /\ Head(s) \in Scopes
                          /\ Len(s) = 1 => Tail(s) = <<>>
<1>1. \A f \in Scopes : <<f>> \o s \in Seq(Scopes)
  OBVIOUS
<1>2. ASSUME s # <<>>
      PROVE  Tail(s) \in Seq(Scopes) /\ Head(s) \in Scopes /\ (Len(s) = 1 => Tail(s) = <<>>)
  <2>1. Len(s) \in Nat \ {0}
    BY <1>2
  <2>2. Head(s) \in Scopes
    BY <2>1
  <2>3. Tail(s) \in Seq(Scopes)
    BY <2>1
  <2>4. Len(s) = 1 => Tail(s) = <<>>
    <3>1. Len(Tail(s)) = Len(s) - 1
      BY <1>2
    <3>2. \A x \in Seq(Scopes) : Len(x) = 0 => x = <<>>
      OBVIOUS
    <3>3. Len(s) = 1 => Len(Tail(s)) = 0
      BY <2>1, <3>1
    <3> QED BY <2>3, <3>2, <3>3, Zenon
  <2> QED BY <2>2, <2>3, <2>4
<1> QED BY <1>1, <1>2

(* What is pushed is a scope.                                              *)
LEMMA FrameFacts ==
    ASSUME NEW kind \in Kinds, NEW dropped \in BOOLEAN
    PROVE  Frame(kind, dropped) \in Scopes
BY DEF Frame, Scopes

(* The kinds of scopes that occur.                                         *)
LEMMA KindFacts ==
    /\ {"api", "try", "tryAgain", "addBlock", "tryLast", "collect", "sweep"} \subseteq Kinds
    /\ Deferrals \subseteq Kinds
BY DEF Kinds, Windows

(* The VM is entered, or used, only while it is alive.                     *)
LEMMA UsersFindTheVM ==
    ASSUME VMInv, vm = "dead", NEW t \in Threads
    PROVE  released /\ waiting = {} /\ frames[t] = <<>> /\ ~Inside(t) /\ ~InWindow(t)
BY DEF VMInv, Inside, InWindow

(* The scopes a step may leave a thread with.                              *)
LEMMA ScopesKept ==
    ASSUME VMInv, NEW t \in Threads,
           NEW kind \in Kinds, NEW dropped \in BOOLEAN,
           \/ frames' = frames
           \/ frames' = [frames EXCEPT ![t] = <<Frame(kind, dropped)>> \o @]
           \/ frames[t] # <<>> /\ frames' = [frames EXCEPT ![t] = Tail(@)]
           \/ frames[t] # <<>> /\ frames' = [frames EXCEPT ![t] = <<Frame(kind, Head(@).dropped)>> \o Tail(@)]
           \/ frames' = [frames EXCEPT ![t] = <<Frame(kind, dropped)>> \o <<Frame("api", FALSE)>>]
    PROVE  frames' \in [Threads -> Seq(Scopes)]
<1>1. frames \in [Threads -> Seq(Scopes)] /\ frames[t] \in Seq(Scopes)
  BY DEF VMInv
<1>2. Frame(kind, dropped) \in Scopes
  BY FrameFacts
<1>3. Frame("api", FALSE) \in Scopes
  BY KindFacts, FrameFacts, Zenon
<1>4. <<Frame(kind, dropped)>> \o frames[t] \in Seq(Scopes)
  BY <1>1, <1>2
<1>5. <<Frame(kind, dropped)>> \o <<Frame("api", FALSE)>> \in Seq(Scopes)
  <2>1. \A f, g \in Scopes : <<g>> \o <<f>> \in Seq(Scopes)
    OBVIOUS
  <2> QED BY <1>2, <1>3, <2>1, Zenon
<1>6. ASSUME frames[t] # <<>>
      PROVE  /\ Tail(frames[t]) \in Seq(Scopes)
             /\ <<Frame(kind, Head(frames[t]).dropped)>> \o Tail(frames[t]) \in Seq(Scopes)
  <2>1. Tail(frames[t]) \in Seq(Scopes) /\ Head(frames[t]) \in Scopes
    BY <1>1, <1>6, SequenceFacts
  <2>2. Head(frames[t]).dropped \in BOOLEAN
    BY <2>1, Zenon DEF Scopes
  <2>3. Frame(kind, Head(frames[t]).dropped) \in Scopes
    BY <2>2, FrameFacts, Zenon
  <2> QED BY <2>1, <2>3
<1>7. \A s \in Seq(Scopes) : [frames EXCEPT ![t] = s] \in [Threads -> Seq(Scopes)]
  BY <1>1
<1> QED BY <1>1, <1>4, <1>5, <1>6, <1>7, Zenon

(* Every step leaves each thread with a sequence of scopes.                *)
LEMMA ScopesTyped ==
    ASSUME VMInv, Next PROVE frames' \in [Threads -> Seq(Scopes)]
<1>1. MainThread \in Threads /\ (dropDepth = 0) \in BOOLEAN /\ FALSE \in BOOLEAN
  BY SchedulingAssumption, Zenon
<1>2. ASSUME NEW t \in Threads,
             \/ Enter(t) \/ Release(t) \/ ReportExtraMemoryCost(t) \/ AddReference(t)
             \/ ReportAbandonedObjectGraph(t)
             \/ \E enable \in BOOLEAN : SetGarbageCollectionTimerEnabled(t, enable)
      PROVE  frames' = frames
  BY <1>2 DEF Enter, Release, ReportExtraMemoryCost, AddReference, ReportAbandonedObjectGraph,
              SetGarbageCollectionTimerEnabled, lockVars
<1>3. ASSUME NEW t \in Threads,
             EnterLocked(t) \/ \E kind \in Deferrals : Defer(t, kind)
      PROVE  \E kind \in Kinds, dropped \in BOOLEAN :
                frames' = [frames EXCEPT ![t] = <<Frame(kind, dropped)>> \o @]
  BY <1>1, <1>3, KindFacts, Zenon DEF EnterLocked, Defer, Push
<1>4. ASSUME NEW t \in Threads, AllocateSlowCase(t) \/ CollectAllGarbage(t)
      PROVE  \/ frames' = frames
             \/ \E kind \in Kinds, dropped \in BOOLEAN :
                   frames' = [frames EXCEPT ![t] = <<Frame(kind, dropped)>> \o @]
  BY <1>1, <1>4, KindFacts, Zenon DEF AllocateSlowCase, CollectAllGarbage, OpenWindow
<1>5. ASSUME NEW t \in Threads, Exit(t) \/ EndDefer(t) \/ CollectReturns(t) \/ SweepReturns(t)
      PROVE  frames[t] # <<>> /\ frames' = [frames EXCEPT ![t] = Tail(@)]
  BY <1>5, Zenon DEF Exit, EndDefer, CollectReturns, SweepReturns, CloseWindow, CanClose, Inside, InWindow
<1>6. ASSUME NEW t \in Threads,
             TryAllocateReturns(t) \/ TryAgainReturns(t) \/ AddBlockReturns(t) \/ TryLastReturns(t)
      PROVE  /\ frames[t] # <<>>
             /\ \/ frames' = [frames EXCEPT ![t] = Tail(@)]
                \/ \E kind \in Kinds :
                      frames' = [frames EXCEPT ![t] = <<Frame(kind, Head(@).dropped)>> \o Tail(@)]
  BY <1>6, KindFacts, Zenon DEF TryAllocateReturns, TryAgainReturns, AddBlockReturns, TryLastReturns,
                     CloseWindow, NextWindow, CanClose, InWindow
<1>7. ASSUME Tick \/ \E timer \in {"gc", "sweep"} : RunLoopFires(timer)
      PROVE  frames' = frames
  BY <1>7 DEF Tick, RunLoopFires, lockVars
<1>8. ASSUME TimerDidFire
      PROVE  \/ frames' = frames
             \/ \E kind \in Kinds, dropped \in BOOLEAN :
                   \/ frames' = [frames EXCEPT ![MainThread] = <<Frame(kind, dropped)>> \o @]
                   \/ frames' = [frames EXCEPT ![MainThread] =
                                    <<Frame(kind, dropped)>> \o <<Frame("api", FALSE)>>]
  BY <1>1, <1>8, KindFacts, Zenon DEF TimerDidFire, Push, OpenWindow, lockVars
<1>9. \A t \in Threads, kind \in Kinds, dropped \in BOOLEAN :
         \/ frames' = frames
         \/ frames' = [frames EXCEPT ![t] = <<Frame(kind, dropped)>> \o @]
         \/ frames[t] # <<>> /\ frames' = [frames EXCEPT ![t] = Tail(@)]
         \/ frames[t] # <<>> /\ frames' = [frames EXCEPT ![t] = <<Frame(kind, Head(@).dropped)>> \o Tail(@)]
         \/ frames' = [frames EXCEPT ![t] = <<Frame(kind, dropped)>> \o <<Frame("api", FALSE)>>]
         => frames' \in [Threads -> Seq(Scopes)]
  BY ScopesKept, Zenon
<1>10. "api" \in Kinds
  BY KindFacts
<1>11. CASE \E t \in Threads :
              \/ Enter(t) \/ Release(t) \/ ReportExtraMemoryCost(t) \/ AddReference(t)
              \/ ReportAbandonedObjectGraph(t)
              \/ \E enable \in BOOLEAN : SetGarbageCollectionTimerEnabled(t, enable)
  BY <1>2, <1>11, Zenon DEF VMInv
<1>12. CASE \E t \in Threads :
              \/ EnterLocked(t) \/ \E kind \in Deferrals : Defer(t, kind)
              \/ AllocateSlowCase(t) \/ CollectAllGarbage(t)
  BY <1>3, <1>4, <1>9, <1>12, Zenon DEF VMInv
<1>13. CASE \E t \in Threads : Exit(t) \/ EndDefer(t) \/ CollectReturns(t) \/ SweepReturns(t)
  BY <1>1, <1>5, <1>9, <1>10, <1>13, Zenon
<1>14. CASE \E t \in Threads :
              TryAllocateReturns(t) \/ TryAgainReturns(t) \/ AddBlockReturns(t) \/ TryLastReturns(t)
  BY <1>1, <1>6, <1>9, <1>10, <1>14, Zenon
<1>15. CASE Tick \/ \E timer \in {"gc", "sweep"} : RunLoopFires(timer)
  BY <1>7, <1>15 DEF VMInv
<1>16. CASE TimerDidFire
  BY <1>1, <1>8, <1>9, <1>16, Zenon DEF VMInv
<1> QED BY <1>11, <1>12, <1>13, <1>14, <1>15, <1>16, Zenon DEF Next

(* Only ~APIEntryShim ends the VM, and nothing starts once it has ended.   *)
LEMMA VMInvStep == ASSUME VMInv, [Next]_vars PROVE VMInv'
<1>1. CASE UNCHANGED vars
  BY <1>1 DEF vars, lockVars, VMInv
<1>2. CASE Next
  <2>1. frames' \in [Threads -> Seq(Scopes)]
    BY <1>2, ScopesTyped
  <2>2. ASSUME vm = "dead" PROVE released' /\ waiting' = {} /\ \A t \in Threads : frames'[t] = <<>>
    <3>1. /\ released /\ waiting = {}
          /\ \A t \in Threads : frames[t] = <<>> /\ ~Inside(t) /\ ~InWindow(t) /\ t \notin waiting
      BY <2>2, UsersFindTheVM DEF VMInv
    <3>2. ASSUME NEW t \in Threads
          PROVE  /\ ~Enter(t) /\ ~EnterLocked(t) /\ ~Exit(t) /\ ~Release(t) /\ ~EndDefer(t)
                 /\ \A kind \in Deferrals : ~Defer(t, kind)
                 /\ ~AllocateSlowCase(t) /\ ~TryAllocateReturns(t) /\ ~TryAgainReturns(t)
                 /\ ~AddBlockReturns(t) /\ ~TryLastReturns(t)
                 /\ ~ReportExtraMemoryCost(t) /\ ~AddReference(t) /\ ~ReportAbandonedObjectGraph(t)
                 /\ ~CollectAllGarbage(t) /\ ~CollectReturns(t) /\ ~SweepReturns(t)
                 /\ \A enable \in BOOLEAN : ~SetGarbageCollectionTimerEnabled(t, enable)
      BY <3>1, Zenon DEF Enter, EnterLocked, Exit, Release, EndDefer, Defer, AllocateSlowCase,
                  TryAllocateReturns, TryAgainReturns, AddBlockReturns, TryLastReturns,
                  ReportExtraMemoryCost, AddReference, ReportAbandonedObjectGraph, CollectAllGarbage,
                  CollectReturns, SweepReturns, SetGarbageCollectionTimerEnabled, CanClose
    <3>3. ~Tick /\ \A timer \in {"gc", "sweep"} : ~RunLoopFires(timer)
      BY <2>2 DEF Tick, RunLoopFires
    <3>4. TimerDidFire
      BY <1>2, <3>2, <3>3, Zenon DEF Next
    <3>5. UNCHANGED <<waiting, frames, released>>
      BY <2>2, <3>4 DEF TimerDidFire, lockVars
    <3> QED BY <3>1, <3>5
  <2>3. ASSUME vm # "dead", vm' = "dead"
        PROVE  released' /\ waiting' = {} /\ \A t \in Threads : frames'[t] = <<>>
    <3>1. PICK t \in Threads : Exit(t)
      BY <1>2, <2>3, ZenonT(60)
         DEF Next, Enter, EnterLocked, Release, EndDefer, Defer, AllocateSlowCase,
             TryAllocateReturns, TryAgainReturns, AddBlockReturns, TryLastReturns,
             ReportExtraMemoryCost, AddReference, ReportAbandonedObjectGraph, CollectAllGarbage,
             CollectReturns, SweepReturns, SetGarbageCollectionTimerEnabled, Tick, RunLoopFires,
             TimerDidFire, Rest
    <3>2. LastReference(t) /\ frames' = [frames EXCEPT ![t] = Tail(frames[t])]
          /\ waiting' = waiting /\ released' = released /\ frames[t] # <<>>
      BY <2>3, <3>1 DEF Exit, Inside
    <3>3. frames \in [Threads -> Seq(Scopes)] /\ Len(frames[t]) = 1
      BY <3>2 DEF VMInv, LastReference
    <3>4. Tail(frames[t]) = <<>>
      BY <3>2, <3>3, SequenceFacts
    <3> QED BY <3>2, <3>3, <3>4 DEF LastReference
  <2> QED BY <2>1, <2>2, <2>3 DEF VMInv
<1> QED BY <1>1, <1>2

(* The VM outlives its users, whatever their number and however deep their *)
(* scopes: a thread that entered, waits to enter or runs a callback keeps  *)
(* it (APIEntryShim), and a timer whose callback came late does not touch  *)
(* it (HeapTimer::timerDidFire).                                           *)
THEOREM VMKeptForUsers == Spec => []VMOutlivesUsers
<1>1. Init => VMInv
  BY DEF Init, VMInv
<1>2. VMInv => VMOutlivesUsers
  BY DEF VMInv, VMOutlivesUsers
<1> QED BY <1>1, <1>2, VMInvStep, PTL DEF Spec

-----------------------------------------------------------------------------
(* The scopes of a thread                                                  *)
-----------------------------------------------------------------------------
(* The deferrals                                                           *)

(* Where the scopes are once another one is opened.                        *)
LEMMA OpenedAt ==
    ASSUME NEW s \in Seq(Scopes), NEW f \in Scopes
    PROVE  LET c == <<f>> \o s
           IN  /\ c \in Seq(Scopes) /\ Len(c) = Len(s) + 1
               /\ DOMAIN c = 1 .. Len(s) + 1 /\ DOMAIN s = 1 .. Len(s) /\ Len(s) \in Nat
               /\ c[1] = f
               /\ \A i \in 1 .. Len(s) : c[i + 1] = s[i]
               /\ \A i \in 2 .. Len(s) + 1 : c[i] = s[i - 1]
OBVIOUS

(* A deferral that is opened is one more, and other scopes are none.       *)
LEMMA OpenedDeferrals ==
    ASSUME NEW s \in Seq(Scopes), NEW f \in Scopes
    PROVE  /\ f.kind \in Deferrals => DeferralsAmong(<<f>> \o s) = DeferralsAmong(s) \cup {Len(s)}
           /\ f.kind \notin Deferrals => DeferralsAmong(<<f>> \o s) = DeferralsAmong(s)
           /\ Len(s) \notin DeferralsAmong(s)
<1> DEFINE c == <<f>> \o s
           D == {i \in DOMAIN s : s[i].kind \in Deferrals}
           E == {i \in DOMAIN c : c[i].kind \in Deferrals}
<1>1. /\ DOMAIN c = 1 .. Len(s) + 1 /\ DOMAIN s = 1 .. Len(s) /\ Len(s) \in Nat
      /\ c[1] = f /\ \A i \in 1 .. Len(s) : c[i + 1] = s[i]
      /\ \A i \in 2 .. Len(s) + 1 : c[i] = s[i - 1]
      /\ Len(c) = Len(s) + 1
  BY OpenedAt
<1>2. DeferralsAmong(c) = {Len(c) - i : i \in E} /\ DeferralsAmong(s) = {Len(s) - i : i \in D}
  BY DEF DeferralsAmong
<1> HIDE DEF c
<1>3. E = {i + 1 : i \in D} \cup (IF f.kind \in Deferrals THEN {1} ELSE {})
  <2>1. ASSUME NEW i \in E PROVE i \in {k + 1 : k \in D} \cup (IF f.kind \in Deferrals THEN {1} ELSE {})
    <3>1. CASE i = 1
      BY <1>1, <3>1
    <3>2. CASE i # 1
      <4>1. i - 1 \in DOMAIN s /\ c[i] = s[i - 1] /\ i = (i - 1) + 1
        BY <1>1, <3>2
      <4>2. i - 1 \in D
        BY <4>1
      <4> QED BY <4>1, <4>2
    <3> QED BY <3>1, <3>2
  <2>2. ASSUME NEW k \in D PROVE k + 1 \in E
    BY <1>1
  <2>3. f.kind \in Deferrals => 1 \in E
    BY <1>1
  <2> HIDE DEF D, E
  <2> QED BY <2>1, <2>2, <2>3
<1>4. D \subseteq 1 .. Len(s)
  BY <1>1
<1> HIDE DEF D, E
<1>5. Len(c) - 1 = Len(s) /\ \A i \in D : i \in Nat /\ Len(c) - (i + 1) = Len(s) - i
  BY <1>1, <1>4
<1>6. ASSUME NEW x PROVE x \in DeferralsAmong(c) <=>
          x \in DeferralsAmong(s) \/ (f.kind \in Deferrals /\ x = Len(s))
  <2>1. x \in DeferralsAmong(c) <=> \E i \in E : x = Len(c) - i
    BY <1>2
  <2>2. x \in DeferralsAmong(s) <=> \E i \in D : x = Len(s) - i
    BY <1>2
  <2>3. ASSUME NEW i PROVE i \in E <=> (\E k \in D : i = k + 1) \/ (f.kind \in Deferrals /\ i = 1)
    BY <1>3
  <2>4. (\E i \in E : x = Len(c) - i) <=>
           (\E k \in D : x = Len(c) - (k + 1)) \/ (f.kind \in Deferrals /\ x = Len(c) - 1)
    BY <2>3, Zenon
  <2>5. (\E k \in D : x = Len(c) - (k + 1)) <=> \E k \in D : x = Len(s) - k
    BY <1>5, Zenon
  <2> QED BY <1>5, <2>1, <2>2, <2>4, <2>5, Zenon
<1>7. Len(s) \notin DeferralsAmong(s)
  <2>1. ASSUME NEW i \in D PROVE Len(s) # Len(s) - i
    <3>1. Len(s) \in Nat /\ i \in 1 .. Len(s)
      BY <1>1, <1>4
    <3> QED BY <3>1
  <2> QED BY <1>2, <2>1, Zenon
<1>8. f.kind \in Deferrals => DeferralsAmong(c) = DeferralsAmong(s) \cup {Len(s)}
  BY <1>6
<1>9. f.kind \notin Deferrals => DeferralsAmong(c) = DeferralsAmong(s)
  <2> SUFFICES ASSUME f.kind \notin Deferrals PROVE DeferralsAmong(c) = DeferralsAmong(s)
    OBVIOUS
  <2>1. \A x : x \in DeferralsAmong(c) <=> x \in DeferralsAmong(s)
    BY <1>6, Zenon
  <2> HIDE DEF DeferralsAmong
  <2> QED BY <2>1, ZenonT(40)
<1> QED BY <1>7, <1>8, <1>9 DEF c

(* What a thread has left when a scope is closed.                          *)
LEMMA ClosedScope ==
    ASSUME NEW s \in Seq(Scopes), s # <<>>
    PROVE  /\ Head(s) \in Scopes /\ Tail(s) \in Seq(Scopes) /\ s = <<Head(s)>> \o Tail(s)
           /\ s[1] = Head(s)
           /\ Head(s).kind \in Kinds /\ Head(s).dropped \in BOOLEAN
<1>1. Head(s) \in Scopes /\ Tail(s) \in Seq(Scopes)
  BY SequenceFacts
<1>2. s = <<Head(s)>> \o Tail(s) /\ s[1] = Head(s)
  OBVIOUS
<1>3. Head(s).kind \in Kinds /\ Head(s).dropped \in BOOLEAN
  BY <1>1, Zenon DEF Scopes
<1> QED BY <1>1, <1>2, <1>3


(* A thread that is in no call defers nothing.                             *)
LEMMA NoScopes == DeferralsAmong(<<>>) = {}
<1>1. \A i : i \notin DOMAIN <<>>
  OBVIOUS
<1> QED BY <1>1 DEF DeferralsAmong


(* The deferrals of all threads, each with the thread's scopes F[u].       *)
DeferralsOf(F) == UNION {{u} \X DeferralsAmong(F[u]) : u \in Threads}

(* The open deferrals of a state, and of the next, are those of its        *)
(* scopes.                                                                 *)
LEMMA OpenDeferralsAre ==
    /\ OpenDeferrals = DeferralsOf(frames) /\ OpenDeferrals' = DeferralsOf(frames')
    /\ \A F, x : x \in DeferralsOf(F) <=> \E u \in Threads : \E n \in DeferralsAmong(F[u]) : x = <<u, n>>
<1>1. \A u, D, x : x \in {u} \X D <=> \E n \in D : x = <<u, n>>
  OBVIOUS
<1>2. ASSUME NEW F, NEW x
      PROVE  x \in DeferralsOf(F) <=> \E u \in Threads : \E n \in DeferralsAmong(F[u]) : x = <<u, n>>
  <2>1. x \in DeferralsOf(F) <=> \E u \in Threads : x \in {u} \X DeferralsAmong(F[u])
    BY DEF DeferralsOf
  <2>2. \A u : x \in {u} \X DeferralsAmong(F[u]) <=> \E n \in DeferralsAmong(F[u]) : x = <<u, n>>
    BY <1>1
  <2> QED BY <2>1, <2>2
<1>3. OpenDeferrals = DeferralsOf(frames) /\ OpenDeferrals' = DeferralsOf(frames')
  BY DEF OpenDeferrals, DeferralsOf
<1> QED BY <1>2, <1>3

(* They depend on the deferrals of each thread only.                       *)
LEMMA SameDeferralsOf ==
    ASSUME NEW F, NEW G, \A u \in Threads : DeferralsAmong(G[u]) = DeferralsAmong(F[u])
    PROVE  DeferralsOf(G) = DeferralsOf(F)
<1>1. ASSUME NEW x PROVE x \in DeferralsOf(G) <=> x \in DeferralsOf(F)
  <2>1. x \in DeferralsOf(F) <=> \E u \in Threads : \E n \in DeferralsAmong(F[u]) : x = <<u, n>>
    BY OpenDeferralsAre
  <2>2. x \in DeferralsOf(G) <=> \E u \in Threads : \E n \in DeferralsAmong(G[u]) : x = <<u, n>>
    BY OpenDeferralsAre
  <2> QED BY <2>1, <2>2
<1> QED BY <1>1

(* Scopes of thread t that are no deferrals come and go.                   *)
LEMMA SameDeferrals ==
    ASSUME frames \in [Threads -> Seq(Scopes)], NEW t \in Threads, NEW s,
           frames' = [frames EXCEPT ![t] = s], DeferralsAmong(s) = DeferralsAmong(frames[t])
    PROVE  OpenDeferrals' = OpenDeferrals
<1>1. \A u \in Threads : DeferralsAmong(frames'[u]) = DeferralsAmong(frames[u])
  <2>1. \A u \in Threads : frames'[u] = IF u = t THEN s ELSE frames[u]
    OBVIOUS
  <2> QED BY <2>1, Zenon
<1>2. DeferralsOf(frames') = DeferralsOf(frames)
  BY <1>1, SameDeferralsOf, Zenon
<1> QED BY <1>2, OpenDeferralsAre, Zenon

(* A deferral of thread t is opened; the same holds backwards.             *)
LEMMA MoreDeferrals ==
    ASSUME NEW F \in [Threads -> Seq(Scopes)], NEW G \in [Threads -> Seq(Scopes)], NEW t \in Threads,
           \A u \in Threads \ {t} : F[u] = G[u], NEW n,
           DeferralsAmong(G[t]) = DeferralsAmong(F[t]) \cup {n}, n \notin DeferralsAmong(F[t])
    PROVE  DeferralsOf(G) = DeferralsOf(F) \cup {<<t, n>>} /\ <<t, n>> \notin DeferralsOf(F)
<1> DEFINE D == DeferralsOf(F)
           E == DeferralsOf(G)
<1>1. /\ \A x : x \in D <=> \E u \in Threads : \E m \in DeferralsAmong(F[u]) : x = <<u, m>>
      /\ \A x : x \in E <=> \E u \in Threads : \E m \in DeferralsAmong(G[u]) : x = <<u, m>>
  BY OpenDeferralsAre, Zenon
<1> HIDE DEF D, E
<1>2. <<t, n>> \notin D
  <2> SUFFICES ASSUME <<t, n>> \in D PROVE FALSE
    OBVIOUS
  <2>1. PICK u \in Threads : \E m \in DeferralsAmong(F[u]) : <<t, n>> = <<u, m>>
    BY <1>1
  <2>2. u = t /\ n \in DeferralsAmong(F[u])
    BY <2>1
  <2> QED BY <2>2
<1>3. \A x : x \in D => x \in E
  <2> SUFFICES ASSUME NEW x \in D PROVE x \in E
    OBVIOUS
  <2>1. PICK u \in Threads : \E m \in DeferralsAmong(F[u]) : x = <<u, m>>
    BY <1>1, Zenon
  <2>2. PICK m \in DeferralsAmong(F[u]) : x = <<u, m>>
    BY <2>1
  <2>3. m \in DeferralsAmong(G[u])
    BY <2>2, Zenon
  <2> QED BY <1>1, <2>2, <2>3, Zenon
<1>4. <<t, n>> \in E
  <2>1. n \in DeferralsAmong(G[t])
    OBVIOUS
  <2> QED BY <1>1, <2>1, Zenon
<1>5. \A x : x \in E => x \in D \/ x = <<t, n>>
  <2> SUFFICES ASSUME NEW x \in E PROVE x \in D \/ x = <<t, n>>
    OBVIOUS
  <2>1. PICK u \in Threads : \E m \in DeferralsAmong(G[u]) : x = <<u, m>>
    BY <1>1, Zenon
  <2>2. PICK m \in DeferralsAmong(G[u]) : x = <<u, m>>
    BY <2>1
  <2>3. m \in DeferralsAmong(F[u]) \/ (u = t /\ m = n)
    BY <2>2, Zenon
  <2> QED BY <1>1, <2>2, <2>3, Zenon
<1>6. E = D \cup {<<t, n>>}
  <2>1. \A x : x \in E <=> x \in D \/ x = <<t, n>>
    BY <1>3, <1>4, <1>5, Zenon
  <2> QED BY <2>1
<1> QED BY <1>2, <1>6 DEF D, E

(* A scope that is no deferral is opened, closed, or takes the place of    *)
(* another one.                                                            *)
LEMMA OtherScopes ==
    ASSUME VMInv, NEW t \in Threads, NEW f \in Scopes, f.kind \notin Deferrals,
           \/ frames' = [frames EXCEPT ![t] = <<f>> \o @]
           \/ /\ frames[t] # <<>> /\ Head(frames[t]).kind \notin Deferrals
              /\ \/ frames' = [frames EXCEPT ![t] = Tail(@)]
                 \/ frames' = [frames EXCEPT ![t] = <<f>> \o Tail(@)]
    PROVE  OpenDeferrals' = OpenDeferrals
<1>1. frames \in [Threads -> Seq(Scopes)] /\ frames[t] \in Seq(Scopes)
  BY DEF VMInv
<1>2. CASE frames' = [frames EXCEPT ![t] = <<f>> \o @]
  <2>1. DeferralsAmong(<<f>> \o frames[t]) = DeferralsAmong(frames[t])
    BY <1>1, OpenedDeferrals, Zenon
  <2> QED BY <1>1, <1>2, <2>1, SameDeferrals, Zenon
<1>3. CASE frames[t] # <<>> /\ Head(frames[t]).kind \notin Deferrals
  <2> DEFINE g == Head(frames[t])
             s == Tail(frames[t])
  <2>1. g \in Scopes /\ s \in Seq(Scopes) /\ frames[t] = <<g>> \o s /\ g.kind \notin Deferrals
    BY <1>1, <1>3, ClosedScope
  <2>2. \/ frames' = [frames EXCEPT ![t] = <<f>> \o @]
        \/ frames' = [frames EXCEPT ![t] = s] \/ frames' = [frames EXCEPT ![t] = <<f>> \o s]
    OBVIOUS
  <2> HIDE DEF g, s
  <2>3. DeferralsAmong(frames[t]) = DeferralsAmong(s) /\ DeferralsAmong(<<f>> \o s) = DeferralsAmong(s)
    <3>1. DeferralsAmong(<<g>> \o s) = DeferralsAmong(s) /\ DeferralsAmong(<<f>> \o s) = DeferralsAmong(s)
      BY <2>1, OpenedDeferrals, Zenon
    <3> QED BY <2>1, <3>1, Zenon
  <2> QED BY <1>1, <1>2, <2>2, <2>3, SameDeferrals, Zenon
<1> QED BY <1>2, <1>3

(* A heap that keeps its garbage, unless nothing is deferred.              *)
Quiet(g, h) == g.depth = h.depth /\ (g.depth # 0 => Garbage(g) >= Garbage(h))

(* All that the operations do to the heap is quiet.                        *)
LEMMA QuietHeap ==
    ASSUME NEW h, HeapOK(h)
    PROVE  /\ Quiet(h, h)
           /\ \A n \in {0, 1} : h.bytes < MaxBytes => Quiet(didAllocate(h, n), h)
           /\ h.abandoned < MaxBytes => Quiet(didAbandon(h, 1), h)
           /\ \A length \in Lengths : Quiet(collect(h, length), h)
           /\ \A length \in Lengths : Quiet(collectIfNecessaryOrDefer(h, length), h)
           /\ \A x \in Operations : Quiet([h EXCEPT !.op = x], h)
           /\ \A x \in BOOLEAN : Quiet([h EXCEPT !.sweeping = x], h)
           /\ \A x \in 0 .. Decade : Quiet([h EXCEPT !.fireIn = x], h)
           /\ Quiet([h EXCEPT !.missed = TRUE], h)
<1>1. Garbage(h) \in Nat /\ \A g : Garbage(g) = Garbage(h) => Garbage(g) >= Garbage(h)
  BY SchedulingAssumption DEF HeapOK, Heaps, Garbage
<1>2. \A n \in {0, 1} : h.bytes < MaxBytes => Quiet(didAllocate(h, n), h)
  BY AllocateSettles, Zenon DEF Quiet
<1>3. h.abandoned < MaxBytes => Quiet(didAbandon(h, 1), h)
  BY AbandonSettles, Zenon DEF Quiet
<1>4. \A length \in Lengths : Quiet(collect(h, length), h)
  BY <1>1, CollectSettles, Zenon DEF Quiet
<1>5. \A length \in Lengths : Quiet(collectIfNecessaryOrDefer(h, length), h)
  BY <1>1, CollectIfNecessarySettles, Zenon DEF Quiet
<1>6. \A x \in Operations : Quiet([h EXCEPT !.op = x], h)
  BY <1>1, OperationSettles, Zenon DEF Quiet
<1>7. \A x \in BOOLEAN : Quiet([h EXCEPT !.sweeping = x], h)
  BY <1>1, SweepingSettles, Zenon DEF Quiet
<1>8. \A x \in 0 .. Decade : Quiet([h EXCEPT !.fireIn = x], h)
  BY <1>1, FireInSettles, Zenon DEF Quiet
<1>9. Quiet([h EXCEPT !.missed = TRUE], h) /\ Quiet(h, h)
  BY <1>1, MissedSettles, Zenon DEF Quiet
<1> QED BY <1>2, <1>3, <1>4, <1>5, <1>6, <1>7, <1>8, <1>9, Zenon

(* One after the other, too.                                               *)
LEMMA QuietTwice ==
    ASSUME NEW h, HeapOK(h), NEW g, HeapOK(g), NEW k, HeapOK(k), Quiet(g, h), Quiet(k, g)
    PROVE  Quiet(k, h)
<1>1. Garbage(h) \in Nat /\ Garbage(g) \in Nat /\ Garbage(k) \in Nat
  BY SchedulingAssumption DEF HeapOK, Heaps, Garbage
<1> QED BY <1>1 DEF Quiet

(* The steps of a thread that open and close no scope.                     *)
LEMMA CallsAreQuiet ==
    ASSUME TimerInv, NEW t \in Threads,
           \/ Enter(t) \/ Release(t) \/ ReportExtraMemoryCost(t) \/ AddReference(t)
           \/ ReportAbandonedObjectGraph(t)
           \/ \E enable \in BOOLEAN : SetGarbageCollectionTimerEnabled(t, enable)
    PROVE  Quiet(heap', heap) /\ vm' = vm /\ OpenDeferrals' = OpenDeferrals
<1>1. HeapOK(heap) /\ Quiet(heap, heap)
  BY QuietHeap, Zenon DEF TimerInv
<1>2. vm' = vm /\ frames' = frames
  BY Zenon DEF Enter, Release, ReportExtraMemoryCost, AddReference, ReportAbandonedObjectGraph,
               SetGarbageCollectionTimerEnabled, lockVars
<1>3. OpenDeferrals' = OpenDeferrals
  BY <1>2, Zenon DEF OpenDeferrals
<1>4. CASE Enter(t) \/ \E enable \in BOOLEAN : SetGarbageCollectionTimerEnabled(t, enable)
  <2>1. heap' = heap
    BY <1>4, Zenon DEF Enter, SetGarbageCollectionTimerEnabled
  <2> QED BY <1>1, <1>2, <1>3, <2>1, Zenon
<1>5. CASE Release(t) \/ ReportAbandonedObjectGraph(t)
  <2>1. heap' = heap \/ (heap.abandoned < MaxBytes /\ heap' = didAbandon(heap, 1))
    BY <1>5, Zenon DEF Release, ReportAbandonedObjectGraph
  <2> QED BY <1>1, <1>2, <1>3, <2>1, QuietHeap, Zenon
<1>6. CASE ReportExtraMemoryCost(t)
  <2> DEFINE g == didAllocate(heap, 1)
  <2>1. PICK length \in Lengths : heap' = collectIfNecessaryOrDefer(g, length)
    BY <1>6, Zenon DEF ReportExtraMemoryCost
  <2>2. heap.bytes < MaxBytes /\ 1 \in {0, 1}
    BY <1>6 DEF ReportExtraMemoryCost
  <2>3. HeapOK(g) /\ Quiet(g, heap)
    BY <1>1, <2>2, AllocateSettles, QuietHeap, Zenon
  <2> HIDE DEF g
  <2>4. HeapOK(heap') /\ Quiet(heap', g)
    BY <2>1, <2>3, CollectIfNecessarySettles, QuietHeap, Zenon
  <2> QED BY <1>1, <1>2, <1>3, <2>3, <2>4, QuietTwice, Zenon
<1>7. CASE AddReference(t)
  <2>1. PICK length \in Lengths : heap' = didAllocate(collectIfNecessaryOrDefer(heap, length), 1)
    BY <1>7, Zenon DEF AddReference
  <2> DEFINE g == collectIfNecessaryOrDefer(heap, length)
  <2>2. heap.bytes < MaxBytes /\ 1 \in {0, 1} /\ heap' = didAllocate(g, 1)
    BY <1>7, <2>1 DEF AddReference
  <2>3. HeapOK(g) /\ Quiet(g, heap) /\ g.bytes <= heap.bytes
    BY <1>1, CollectIfNecessarySettles, QuietHeap, Zenon
  <2> HIDE DEF g
  <2>4. g.bytes < MaxBytes
    BY <1>1, <2>2, <2>3, SchedulingAssumption DEF HeapOK, Heaps
  <2>5. HeapOK(heap') /\ Quiet(heap', g)
    BY <2>2, <2>3, <2>4, AllocateSettles, QuietHeap, Zenon
  <2> QED BY <1>1, <1>2, <1>3, <2>3, <2>5, QuietTwice, Zenon
<1> QED BY <1>4, <1>5, <1>6, <1>7

(* The steps of a thread that open or close a scope other than a deferral. *)
LEMMA ScopesAreQuiet ==
    ASSUME TimerInv, VMInv, NEW t \in Threads,
           \/ EnterLocked(t) \/ (Exit(t) /\ vm' = vm)
           \/ AllocateSlowCase(t) \/ CollectAllGarbage(t)
           \/ CollectReturns(t) \/ SweepReturns(t)
    PROVE  Quiet(heap', heap) /\ vm' = vm /\ OpenDeferrals' = OpenDeferrals
<1>1. HeapOK(heap) /\ Quiet(heap, heap)
  BY QuietHeap, Zenon DEF TimerInv
<1>2. \A kind \in {"api", "try", "collect"}, dropped \in BOOLEAN :
         Frame(kind, dropped) \in Scopes /\ Frame(kind, dropped).kind \notin Deferrals
  <2> SUFFICES ASSUME NEW kind \in {"api", "try", "collect"}, NEW dropped \in BOOLEAN
               PROVE  Frame(kind, dropped) \in Scopes /\ Frame(kind, dropped).kind \notin Deferrals
    BY Zenon
  <2>1. kind \in Kinds /\ kind \notin Deferrals
    BY KindFacts DEF Deferrals
  <2>2. Frame(kind, dropped).kind = kind
    BY DEF Frame
  <2> QED BY <2>1, <2>2, FrameFacts, Zenon
<1>3. ASSUME NEW kind \in {"api", "try", "collect"}, NEW dropped \in BOOLEAN,
             frames' = [frames EXCEPT ![t] = <<Frame(kind, dropped)>> \o @]
      PROVE  OpenDeferrals' = OpenDeferrals
  BY <1>2, <1>3, OtherScopes, Zenon
<1>4. ASSUME frames[t] # <<>>, Head(frames[t]).kind \notin Deferrals,
             frames' = [frames EXCEPT ![t] = Tail(@)]
      PROVE  OpenDeferrals' = OpenDeferrals
  BY <1>2, <1>4, OtherScopes, Zenon
<1>5. CASE EnterLocked(t)
  <2>1. frames' = [frames EXCEPT ![t] = <<Frame("api", FALSE)>> \o @] /\ heap' = heap /\ vm' = vm
    BY <1>5, Zenon DEF EnterLocked, Push
  <2> QED BY <1>1, <1>3, <2>1, Zenon
<1>6. CASE Exit(t) /\ vm' = vm
  <2>1. /\ frames[t] # <<>> /\ Head(frames[t]).kind = "api" /\ frames' = [frames EXCEPT ![t] = Tail(@)]
        /\ heap' = heap \/ vm' = "dead"
    BY <1>6, Zenon DEF Exit, Inside, Top
  <2>2. vm # "dead"
    BY <2>1, Zenon DEF VMInv
  <2>3. "api" \notin Deferrals
    BY DEF Deferrals
  <2> QED BY <1>1, <1>4, <1>6, <2>1, <2>2, <2>3, Zenon
<1>7. CASE AllocateSlowCase(t)
  <2>1. PICK n \in {0, 1} : OpenWindow(t, frames[t], "try", [didAllocate(heap, n) EXCEPT !.op = "Allocation"])
    BY <1>7, Zenon DEF AllocateSlowCase
  <2> DEFINE g == didAllocate(heap, n)
  <2>2. vm' = vm /\ heap.bytes < MaxBytes
    BY <1>7, Zenon DEF AllocateSlowCase, Rest
  <2>3. HeapOK(g) /\ Quiet(g, heap)
    BY <1>1, <2>2, AllocateSettles, QuietHeap, Zenon
  <2>4. /\ frames' = [frames EXCEPT ![t] = <<Frame("try", dropDepth = 0)>> \o @]
        /\ heap' = [g EXCEPT !.op = "Allocation"]
    BY <2>1, Zenon DEF OpenWindow
  <2> HIDE DEF g
  <2>5. "Allocation" \in Operations
    BY DEF Operations
  <2>6. HeapOK(heap') /\ Quiet(heap', g)
    BY <2>3, <2>4, <2>5, OperationSettles, QuietHeap, Zenon
  <2>7. Quiet(heap', heap)
    BY <1>1, <2>3, <2>6, QuietTwice, Zenon
  <2>8. OpenDeferrals' = OpenDeferrals
    <3>1. "try" \in {"api", "try", "collect"} /\ (dropDepth = 0) \in BOOLEAN
      OBVIOUS
    <3> QED BY <1>3, <2>4, <3>1, Zenon
  <2> QED BY <2>2, <2>7, <2>8
<1>8. CASE CollectAllGarbage(t)
  <2>1. PICK length \in Lengths :
           \/ heap' = collect(heap, length) /\ UNCHANGED frames
           \/ OpenWindow(t, frames[t], "collect", collect(heap, length))
    BY <1>8, Zenon DEF CollectAllGarbage
  <2>2. vm' = vm
    BY <1>8, Zenon DEF CollectAllGarbage, Rest
  <2>3. heap' = collect(heap, length)
        /\ (frames' = frames \/ frames' = [frames EXCEPT ![t] = <<Frame("collect", dropDepth = 0)>> \o @])
    BY <2>1, Zenon DEF OpenWindow
  <2>4. Quiet(heap', heap)
    BY <1>1, <2>3, QuietHeap, Zenon
  <2>5. frames' = frames => OpenDeferrals' = OpenDeferrals
    BY Zenon DEF OpenDeferrals
  <2>6. "collect" \in {"api", "try", "collect"} /\ (dropDepth = 0) \in BOOLEAN
    OBVIOUS
  <2>7. OpenDeferrals' = OpenDeferrals
    BY <1>3, <2>3, <2>5, <2>6, Zenon
  <2> QED BY <2>2, <2>4, <2>7
<1>9. CASE CollectReturns(t) \/ SweepReturns(t)
  <2>1. /\ heap' = heap /\ vm' = vm /\ frames' = [frames EXCEPT ![t] = Tail(@)]
        /\ frames[t] # <<>> /\ Head(frames[t]).kind \in Windows
    BY <1>9, Zenon DEF CollectReturns, SweepReturns, CanClose, CloseWindow, InWindow, Top, Rest
  <2>2. \A kind \in Windows : kind \notin Deferrals
    BY DEF Windows, Deferrals
  <2> QED BY <1>1, <1>4, <2>1, <2>2, Zenon
<1> QED BY <1>5, <1>6, <1>7, <1>8, <1>9

(* The windows of MarkedAllocator::allocateSlowCase.                       *)
LEMMA WindowsAreQuiet ==
    ASSUME TimerInv, VMInv, NEW t \in Threads,
           TryAllocateReturns(t) \/ TryAgainReturns(t) \/ AddBlockReturns(t) \/ TryLastReturns(t)
    PROVE  Quiet(heap', heap) /\ vm' = vm /\ OpenDeferrals' = OpenDeferrals
<1> DEFINE done == [heap EXCEPT !.op = "NoOperation"]
<1>1. HeapOK(heap) /\ "NoOperation" \in Operations /\ "Allocation" \in Operations
  BY DEF TimerInv, Operations
<1>2. vm' = vm /\ frames[t] # <<>> /\ Head(frames[t]).kind \in Windows
  BY Zenon DEF TryAllocateReturns, TryAgainReturns, AddBlockReturns, TryLastReturns, CanClose, InWindow,
               Top, Rest
<1>3. \/ heap' = done
      \/ heap' = [heap EXCEPT !.op = "Allocation"]
      \/ \E length \in Lengths : heap' = [collect(done, length) EXCEPT !.op = "Allocation"]
  BY Zenon
     DEF TryAllocateReturns, TryAgainReturns, AddBlockReturns, TryLastReturns, CloseWindow, NextWindow
<1>4. HeapOK(done) /\ Quiet(done, heap)
  BY <1>1, OperationSettles, QuietHeap, Zenon
<1> HIDE DEF done
<1>5. Quiet(heap', heap)
  <2>1. CASE heap' = done \/ heap' = [heap EXCEPT !.op = "Allocation"]
    BY <1>1, <1>4, <2>1, QuietHeap, Zenon
  <2>2. ASSUME NEW length \in Lengths, heap' = [collect(done, length) EXCEPT !.op = "Allocation"]
        PROVE  Quiet(heap', heap)
    <3> DEFINE g == collect(done, length)
    <3>1. HeapOK(g) /\ Quiet(g, done)
      BY <1>4, CollectSettles, QuietHeap, Zenon
    <3>2. heap' = [g EXCEPT !.op = "Allocation"]
      BY <2>2
    <3> HIDE DEF g
    <3>3. HeapOK(heap') /\ Quiet(heap', g)
      BY <1>1, <3>1, <3>2, OperationSettles, QuietHeap, Zenon
    <3>4. Quiet(g, heap)
      BY <1>1, <1>4, <3>1, QuietTwice, Zenon
    <3> QED BY <1>1, <3>1, <3>3, <3>4, QuietTwice, Zenon
  <2> QED BY <1>3, <2>1, <2>2, Zenon
<1>6. \E kind \in Kinds : kind \notin Deferrals /\
         \/ frames' = [frames EXCEPT ![t] = Tail(@)]
         \/ frames' = [frames EXCEPT ![t] = <<Frame(kind, Head(frames[t]).dropped)>> \o Tail(@)]
  <2>1. {"tryAgain", "addBlock", "tryLast"} \subseteq Kinds \ Deferrals
    BY KindFacts DEF Deferrals
  <2> QED BY <2>1, Zenon DEF TryAllocateReturns, TryAgainReturns, AddBlockReturns, TryLastReturns,
                             CloseWindow, NextWindow
<1>7. PICK kind \in Kinds : kind \notin Deferrals /\
         \/ frames' = [frames EXCEPT ![t] = Tail(@)]
         \/ frames' = [frames EXCEPT ![t] = <<Frame(kind, Head(frames[t]).dropped)>> \o Tail(@)]
  BY <1>6, Zenon
<1>8. Head(frames[t]).dropped \in BOOLEAN
  <2>1. frames[t] \in Seq(Scopes)
    BY DEF VMInv
  <2> QED BY <1>2, <2>1, ClosedScope, Zenon
<1>9. Frame(kind, Head(frames[t]).dropped) \in Scopes /\ Frame(kind, Head(frames[t]).dropped).kind = kind
  <2>1. Frame(kind, Head(frames[t]).dropped).kind = kind
    BY DEF Frame
  <2> QED BY <1>8, <2>1, FrameFacts, Zenon
<1>10. \A k \in Windows : k \notin Deferrals
  BY DEF Windows, Deferrals
<1>11. OpenDeferrals' = OpenDeferrals
  BY <1>2, <1>7, <1>9, <1>10, OtherScopes, Zenon
<1> QED BY <1>2, <1>5, <1>11

(* The timers: their callback finds the main thread in no call.            *)
LEMMA TimersAreQuiet ==
    ASSUME TimerInv, VMInv, CountInv,
           Tick \/ (\E timer \in {"gc", "sweep"} : RunLoopFires(timer)) \/ TimerDidFire
    PROVE  Quiet(heap', heap) /\ vm' = vm /\ OpenDeferrals' = OpenDeferrals
<1>1. HeapOK(heap) /\ Quiet(heap, heap) /\ MainThread \in Threads
  BY QuietHeap, SchedulingAssumption, Zenon DEF TimerInv
<1>2. vm' = vm
  BY Zenon DEF Tick, RunLoopFires, TimerDidFire
<1>3. frames' = frames => OpenDeferrals' = OpenDeferrals
  BY Zenon DEF OpenDeferrals
<1>4. CASE Tick
  <2>1. heap' = [heap EXCEPT !.fireIn = heap.fireIn - 1] /\ heap.fireIn > 0 /\ frames' = frames
    BY <1>4 DEF Tick, lockVars
  <2>2. heap.fireIn - 1 \in 0 .. Decade
    BY <1>1, <2>1, SchedulingAssumption DEF HeapOK, Heaps
  <2> QED BY <1>1, <1>2, <1>3, <2>1, <2>2, QuietHeap, Zenon
<1>5. CASE \E timer \in {"gc", "sweep"} : RunLoopFires(timer)
  <2>1. /\ frames' = frames
        /\ heap' = [heap EXCEPT !.fireIn = Decade] \/ heap' = [heap EXCEPT !.sweeping = FALSE]
    BY <1>5, Zenon DEF RunLoopFires, lockVars
  <2>2. Decade \in 0 .. Decade /\ FALSE \in BOOLEAN
    BY SchedulingAssumption
  <2> QED BY <1>1, <1>2, <1>3, <2>1, <2>2, QuietHeap, Zenon
<1>6. CASE TimerDidFire
  <2> DEFINE api == Frame("api", FALSE)
  <2>1. frames[MainThread] = <<>>
    BY <1>6, Zenon DEF TimerDidFire, CountInv
  <2>2. api \in Scopes /\ api.kind \notin Deferrals
    <3>1. api.kind = "api" /\ "api" \notin Deferrals
      BY DEF Frame, Deferrals
    <3> QED BY <3>1, KindFacts, FrameFacts, ZenonT(30)
  <2>3. CASE UNCHANGED <<lockVars, heap>>
    BY <1>1, <1>2, <1>3, <2>3, Zenon DEF lockVars
  <2>4. CASE /\ Push(MainThread, "api")
             /\ \E length \in Lengths :
                   heap' = IF enabled THEN collect(heap, length) ELSE [heap EXCEPT !.missed = TRUE]
    <3>1. Quiet(heap', heap)
      BY <1>1, <2>4, QuietHeap, Zenon
    <3>2. frames' = [frames EXCEPT ![MainThread] = <<api>> \o @]
      BY <2>4, Zenon DEF Push
    <3> HIDE DEF api
    <3>3. OpenDeferrals' = OpenDeferrals
      BY <1>1, <2>2, <3>2, OtherScopes, Zenon
    <3> QED BY <1>2, <3>1, <3>3
  <2>5. ASSUME NEW unfinished \in BOOLEAN,
               OpenWindow(MainThread, <<api>>, "sweep", [heap EXCEPT !.sweeping = unfinished])
        PROVE  Quiet(heap', heap) /\ OpenDeferrals' = OpenDeferrals
    <3> DEFINE f == Frame("sweep", dropDepth = 0)
               s == <<api>>
    <3>1. frames' = [frames EXCEPT ![MainThread] = <<f>> \o s] /\ heap' = [heap EXCEPT !.sweeping = unfinished]
      BY <2>5, Zenon DEF OpenWindow
    <3>2. f \in Scopes /\ f.kind \notin Deferrals
      <4>1. f.kind = "sweep" /\ "sweep" \notin Deferrals /\ (dropDepth = 0) \in BOOLEAN
        BY DEF Frame, Deferrals
      <4> QED BY <4>1, KindFacts, FrameFacts, ZenonT(30)
    <3> HIDE DEF f, api
    <3>3. s \in Seq(Scopes) /\ s = <<api>> \o <<>> /\ <<>> \in Seq(Scopes)
      BY <2>2
    <3> HIDE DEF s
    <3>4. DeferralsAmong(<<api>> \o <<>>) = DeferralsAmong(<<>>) /\ DeferralsAmong(<<f>> \o s) = DeferralsAmong(s)
      BY <2>2, <3>2, <3>3, OpenedDeferrals, ZenonT(40)
    <3>5. DeferralsAmong(<<f>> \o s) = DeferralsAmong(frames[MainThread])
      BY <2>1, <3>3, <3>4, Zenon
    <3>6. frames \in [Threads -> Seq(Scopes)]
      BY DEF VMInv
    <3>7. OpenDeferrals' = OpenDeferrals
      BY <1>1, <3>1, <3>5, <3>6, SameDeferrals, Zenon
    <3> QED BY <1>1, <3>1, <3>7, QuietHeap, Zenon
  <2> QED BY <1>2, <1>6, <2>3, <2>4, <2>5, Zenon DEF TimerDidFire
<1> QED BY <1>4, <1>5, <1>6

(* The main thread is not called back while it is in a call, and starts    *)
(* none then.                                                              *)
LEMMA MainIsAway ==
    ASSUME VMInv, CountInv, Next, firing' # "none"
    PROVE  frames'[MainThread] = <<>> /\ MainThread \notin waiting'
<1>1. CASE \E timer \in {"gc", "sweep"} : RunLoopFires(timer)
  BY <1>1, Zenon DEF RunLoopFires, lockVars
<1>2. CASE Tick
  BY <1>2, Zenon DEF Tick, lockVars, CountInv
<1>3. ASSUME NEW t \in Threads,
             \/ Enter(t) \/ EnterLocked(t) \/ Exit(t) \/ Release(t)
             \/ \E kind \in Deferrals : Defer(t, kind)
             \/ EndDefer(t)
             \/ AllocateSlowCase(t) \/ TryAllocateReturns(t) \/ TryAgainReturns(t)
             \/ AddBlockReturns(t) \/ TryLastReturns(t)
             \/ ReportExtraMemoryCost(t) \/ AddReference(t) \/ ReportAbandonedObjectGraph(t)
             \/ CollectAllGarbage(t) \/ CollectReturns(t) \/ SweepReturns(t)
             \/ \E enable \in BOOLEAN : SetGarbageCollectionTimerEnabled(t, enable)
      PROVE  frames'[MainThread] = <<>> /\ MainThread \notin waiting'
  <2>1. firing # "none"
    BY <1>3, ZenonT(60)
       DEF Enter, EnterLocked, Exit, Release, EndDefer, Defer, AllocateSlowCase,
           TryAllocateReturns, TryAgainReturns, AddBlockReturns, TryLastReturns,
           ReportExtraMemoryCost, AddReference, ReportAbandonedObjectGraph, CollectAllGarbage,
           CollectReturns, SweepReturns, SetGarbageCollectionTimerEnabled, Rest
  <2>2. frames[MainThread] = <<>> /\ MainThread \notin waiting /\ frames \in [Threads -> Seq(Scopes)]
    BY <2>1, Zenon DEF CountInv, VMInv
  <2>3. Inside(t) \/ InWindow(t) \/ t \in waiting \/ t # MainThread
    BY <1>3, <2>1, ZenonT(60)
       DEF Enter, EnterLocked, Exit, Release, EndDefer, Defer, AllocateSlowCase,
           TryAllocateReturns, TryAgainReturns, AddBlockReturns, TryLastReturns,
           ReportExtraMemoryCost, AddReference, ReportAbandonedObjectGraph, CollectAllGarbage,
           CollectReturns, SweepReturns, SetGarbageCollectionTimerEnabled, CanClose
  <2>4. t # MainThread
    BY <2>2, <2>3, Zenon DEF Inside, InWindow
  <2>5. /\ frames' = frames \/ \E s : frames' = [frames EXCEPT ![t] = s]
        /\ waiting' \subseteq waiting \cup {t}
    BY <1>3, ZenonT(60)
       DEF Enter, EnterLocked, Exit, Release, EndDefer, Defer, AllocateSlowCase,
           TryAllocateReturns, TryAgainReturns, AddBlockReturns, TryLastReturns,
           ReportExtraMemoryCost, AddReference, ReportAbandonedObjectGraph, CollectAllGarbage,
           CollectReturns, SweepReturns, SetGarbageCollectionTimerEnabled, Rest, lockVars,
           Push, OpenWindow, CloseWindow, NextWindow
  <2>6. MainThread \in Threads
    BY SchedulingAssumption
  <2> QED BY <2>2, <2>4, <2>5, <2>6
<1>4. CASE TimerDidFire
  BY <1>4, Zenon DEF TimerDidFire
<1> QED BY <1>1, <1>2, <1>3, <1>4, Zenon DEF Next

(* DeferGC counts itself.                                                  *)
LEMMA DeferCounts ==
    ASSUME TimerInv, VMInv, CountInv, NEW t \in Threads, NEW kind \in Deferrals, Defer(t, kind)
    PROVE  /\ vm = "alive" => IsFiniteSet(OpenDeferrals') /\ heap'.depth = Cardinality(OpenDeferrals')
           /\ vm' = vm /\ Garbage(heap') = Garbage(heap)
<1> DEFINE f == Frame(kind, FALSE)
           c == <<f>> \o frames[t]
           n == Len(frames[t])
<1>1. /\ frames' = [frames EXCEPT ![t] = c] /\ heap' = [heap EXCEPT !.depth = heap.depth + 1]
      /\ vm' = vm
  BY DEF Defer, Push, Inside, Rest
<1>2. HeapOK(heap) /\ heap.depth + 1 \in Int
  BY DEF TimerInv, HeapOK, Heaps
<1>3. heap'.depth = heap.depth + 1 /\ Garbage(heap') = Garbage(heap)
  BY <1>1, <1>2, DepthSettles, Zenon
<1>4. /\ frames \in [Threads -> Seq(Scopes)] /\ frames[t] \in Seq(Scopes) /\ frames'[t] = c
      /\ \A u \in Threads \ {t} : frames[u] = frames'[u]
  BY <1>1 DEF VMInv
<1>5. f.kind = kind /\ f \in Scopes
  <2>1. f \in Scopes
    BY KindFacts, FrameFacts, Zenon
  <2> QED BY <2>1 DEF Frame
<1> HIDE DEF f
<1>6. c \in Seq(Scopes)
  BY <1>4, <1>5
<1>7. DeferralsAmong(c) = DeferralsAmong(frames[t]) \cup {n} /\ n \notin DeferralsAmong(frames[t])
  BY <1>4, <1>5, OpenedDeferrals, Zenon
<1> HIDE DEF c, n
<1>8. frames' \in [Threads -> Seq(Scopes)]
  BY <1>1, <1>4, <1>6
<1>9. OpenDeferrals' = OpenDeferrals \cup {<<t, n>>} /\ <<t, n>> \notin OpenDeferrals
  <2>1. DeferralsAmong(frames'[t]) = DeferralsAmong(frames[t]) \cup {n}
    BY <1>4, <1>7, Zenon
  <2>2. DeferralsOf(frames') = DeferralsOf(frames) \cup {<<t, n>>} /\ <<t, n>> \notin DeferralsOf(frames)
    BY <1>4, <1>7, <1>8, <2>1, MoreDeferrals, ZenonT(40)
  <2> QED BY <2>2, OpenDeferralsAre, Zenon
<1>10. IsFiniteSet(OpenDeferrals) =>
         IsFiniteSet(OpenDeferrals') /\ Cardinality(OpenDeferrals') = Cardinality(OpenDeferrals) + 1
  BY <1>9, FS_AddElement, Zenon
<1> QED BY <1>1, <1>3, <1>10, Zenon DEF CountInv

(* And ~DeferGC no longer, before it may collect.                          *)
LEMMA EndDeferCounts ==
    ASSUME TimerInv, VMInv, CountInv, NEW t \in Threads, EndDefer(t)
    PROVE  /\ vm = "alive" => IsFiniteSet(OpenDeferrals') /\ heap'.depth = Cardinality(OpenDeferrals')
           /\ vm' = vm /\ (heap'.depth # 0 => Garbage(heap') >= Garbage(heap))
<1> DEFINE f == Head(frames[t])
           s == Tail(frames[t])
           n == Len(s)
           down == [heap EXCEPT !.depth = heap.depth - 1]
<1>1. /\ frames[t] # <<>> /\ f.kind \in Deferrals /\ vm' = vm
      /\ frames' = [frames EXCEPT ![t] = s]
      /\ \/ \E length \in Lengths : heap' = collectIfNecessaryOrDefer(down, length)
         \/ heap' = down
  BY DEF EndDefer, Inside, Top, Rest
<1>2. HeapOK(heap) /\ heap.depth - 1 \in Int
  BY DEF TimerInv, HeapOK, Heaps
<1>3. HeapOK(down) /\ down.depth = heap.depth - 1 /\ Garbage(down) = Garbage(heap)
  BY <1>2, DepthSettles, Zenon
<1> HIDE DEF down
<1>4. Quiet(heap', down)
  BY <1>1, <1>3, QuietHeap, Zenon
<1>5. heap'.depth = heap.depth - 1 /\ (heap'.depth # 0 => Garbage(heap') >= Garbage(heap))
  BY <1>3, <1>4, Zenon DEF Quiet
<1>6. frames \in [Threads -> Seq(Scopes)] /\ frames[t] \in Seq(Scopes)
  BY DEF VMInv
<1>7. f \in Scopes /\ s \in Seq(Scopes) /\ frames[t] = <<f>> \o s
  BY <1>1, <1>6, ClosedScope, Zenon
<1> HIDE DEF f, s
<1>8. frames'[t] = s /\ frames' \in [Threads -> Seq(Scopes)] /\ \A u \in Threads \ {t} : frames'[u] = frames[u]
  BY <1>1, <1>6, <1>7
<1>9. DeferralsAmong(<<f>> \o s) = DeferralsAmong(s) \cup {n} /\ n \notin DeferralsAmong(s)
  BY <1>1, <1>7, OpenedDeferrals, Zenon
<1> HIDE DEF n
<1>10. DeferralsAmong(frames[t]) = DeferralsAmong(frames'[t]) \cup {n} /\ n \notin DeferralsAmong(frames'[t])
  BY <1>7, <1>8, <1>9, Zenon
<1>11. OpenDeferrals = OpenDeferrals' \cup {<<t, n>>} /\ <<t, n>> \notin OpenDeferrals'
  <2>1. DeferralsOf(frames) = DeferralsOf(frames') \cup {<<t, n>>} /\ <<t, n>> \notin DeferralsOf(frames')
    BY <1>6, <1>8, <1>10, MoreDeferrals, ZenonT(40)
  <2> QED BY <2>1, OpenDeferralsAre, Zenon
<1>12. IsFiniteSet(OpenDeferrals) =>
         IsFiniteSet(OpenDeferrals') /\ Cardinality(OpenDeferrals') = Cardinality(OpenDeferrals) - 1
  <2>1. <<t, n>> \in OpenDeferrals /\ OpenDeferrals' = OpenDeferrals \ {<<t, n>>}
    BY <1>11, Zenon
  <2> HIDE DEF OpenDeferrals
  <2> QED BY <2>1, FS_RemoveElement, Zenon
<1> QED BY <1>1, <1>5, <1>12, Zenon DEF CountInv

(* Every step keeps the count, and garbage goes only when it is 0.         *)
LEMMA CountStep ==
    ASSUME TimerInv, VMInv, CountInv, Next
    PROVE  CountInv' /\ (heap'.depth # 0 /\ vm' # "dead" => Garbage(heap') >= Garbage(heap))
<1>1. firing' # "none" => frames'[MainThread] = <<>> /\ MainThread \notin waiting'
  BY MainIsAway, Zenon
<1>2. ASSUME Quiet(heap', heap), vm' = vm, OpenDeferrals' = OpenDeferrals
      PROVE  CountInv' /\ (heap'.depth # 0 /\ vm' # "dead" => Garbage(heap') >= Garbage(heap))
  BY <1>1, <1>2, Zenon DEF CountInv, Quiet
<1>3. ASSUME NEW t \in Threads,
             \/ Enter(t) \/ Release(t) \/ ReportExtraMemoryCost(t) \/ AddReference(t)
             \/ ReportAbandonedObjectGraph(t)
             \/ \E enable \in BOOLEAN : SetGarbageCollectionTimerEnabled(t, enable)
      PROVE  Quiet(heap', heap) /\ vm' = vm /\ OpenDeferrals' = OpenDeferrals
  BY <1>3, CallsAreQuiet, Zenon
<1>4. ASSUME NEW t \in Threads,
             \/ EnterLocked(t) \/ AllocateSlowCase(t) \/ CollectAllGarbage(t)
             \/ CollectReturns(t) \/ SweepReturns(t)
      PROVE  Quiet(heap', heap) /\ vm' = vm /\ OpenDeferrals' = OpenDeferrals
  BY <1>4, ScopesAreQuiet, Zenon
<1>5. ASSUME NEW t \in Threads,
             TryAllocateReturns(t) \/ TryAgainReturns(t) \/ AddBlockReturns(t) \/ TryLastReturns(t)
      PROVE  Quiet(heap', heap) /\ vm' = vm /\ OpenDeferrals' = OpenDeferrals
  BY <1>5, WindowsAreQuiet, Zenon
<1>6. ASSUME Tick \/ (\E timer \in {"gc", "sweep"} : RunLoopFires(timer)) \/ TimerDidFire
      PROVE  Quiet(heap', heap) /\ vm' = vm /\ OpenDeferrals' = OpenDeferrals
  BY <1>6, TimersAreQuiet, Zenon
<1>7. ASSUME NEW t \in Threads, Exit(t)
      PROVE  CountInv' /\ (heap'.depth # 0 /\ vm' # "dead" => Garbage(heap') >= Garbage(heap))
  <2>1. vm' = "dead" \/ vm' = vm
    BY <1>7, Zenon DEF Exit
  <2>2. CASE vm' = vm
    BY <1>2, <1>7, <2>2, ScopesAreQuiet, Zenon
  <2>3. CASE vm' = "dead"
    <3>1. vm' # "alive" /\ vm' \in {"alive", "dead"}
      BY <2>3
    <3> QED BY <1>1, <2>3, <3>1, Zenon DEF CountInv
  <2> QED BY <2>1, <2>2, <2>3
<1>8. ASSUME NEW t \in Threads, EndDefer(t) \/ \E kind \in Deferrals : Defer(t, kind)
      PROVE  CountInv' /\ (heap'.depth # 0 /\ vm' # "dead" => Garbage(heap') >= Garbage(heap))
  <2>1. /\ vm = "alive" => IsFiniteSet(OpenDeferrals') /\ heap'.depth = Cardinality(OpenDeferrals')
        /\ vm' = vm /\ (heap'.depth # 0 => Garbage(heap') >= Garbage(heap) \/ Garbage(heap') = Garbage(heap))
    BY <1>8, DeferCounts, EndDeferCounts, Zenon
  <2>2. \A x \in Nat : x >= x
    OBVIOUS
  <2>3. Garbage(heap) \in Nat
    BY SchedulingAssumption DEF TimerInv, HeapOK, Heaps, Garbage
  <2> QED BY <1>1, <2>1, <2>2, <2>3, Zenon DEF CountInv
<1> QED BY <1>2, <1>3, <1>4, <1>5, <1>6, <1>7, <1>8, ZenonT(40) DEF Next

(* Nothing is collected while a deferral is open (DeferGC.h): with any     *)
(* number of threads and scopes nested in any way, m_deferralDepth is the  *)
(* number of open deferrals, also while a ~DelayedReleaseScope has dropped *)
(* the lock in the middle of them, and Heap::collect asserts that it is 0. *)
THEOREM DeferralsAreRespected == Spec => DeferralsRespected
<1> DEFINE Inv == TimerInv /\ VMInv /\ CountInv
           Step == heap'.bytes + heap'.abandoned < heap.bytes + heap.abandoned => OpenDeferrals' = {}
<1>1. ASSUME Init PROVE Inv
  <2>1. VMInv
    BY <1>1 DEF Init, VMInv
  <2>2. \A t \in Threads : frames[t] = <<>>
    BY <1>1 DEF Init
  <2>3. OpenDeferrals = {}
    <3>1. \A x : x \notin DeferralsOf(frames)
      BY <2>2, NoScopes, OpenDeferralsAre, Zenon
    <3> QED BY <3>1, OpenDeferralsAre
  <2>4. IsFiniteSet({}) /\ Cardinality({}) = 0
    BY FS_EmptySet
  <2>5. heap.depth = 0 /\ vm = "alive" /\ firing = "none"
    BY <1>1 DEF Init
  <2>6. CountInv
    BY <2>3, <2>4, <2>5, Zenon DEF CountInv
  <2> QED BY <1>1, <2>1, <2>6, TimerInit, Zenon
<1>2. ASSUME Inv, [Next]_vars PROVE Inv'
  <2>1. VMInv'
    BY <1>2, VMInvStep
  <2>2. CASE UNCHANGED vars
    <3>1. UNCHANGED <<frames, waiting, heap, firing, vm>>
      BY <2>2 DEF vars, lockVars
    <3>2. TimerInv' /\ CountInv'
      BY <1>2, <3>1, Zenon DEF TimerInv, CountInv, OpenDeferrals
    <3> QED BY <2>1, <3>2
  <2>3. CASE Next
    <3>1. TimerInv'
      BY <1>2, <2>3, AllocationKeepsTimer, RunLoopKeepsTimer, OthersKeepTimer DEF Next
    <3>2. CountInv'
      BY <1>2, <2>3, CountStep, Zenon
    <3> QED BY <2>1, <3>1, <3>2
  <2> QED BY <1>2, <2>2, <2>3
<1>3. ASSUME Inv, Inv', [Next]_vars PROVE [Step]_vars
  <2> SUFFICES ASSUME Next, heap'.bytes + heap'.abandoned < heap.bytes + heap.abandoned
               PROVE  OpenDeferrals' = {}
    BY <1>3, Zenon
  <2>1. ~(Garbage(heap') >= Garbage(heap))
    <3>1. Garbage(heap) \in Nat /\ Garbage(heap') \in Nat
      BY <1>3, SchedulingAssumption DEF TimerInv, HeapOK, Heaps, Garbage
    <3> QED BY <3>1 DEF Garbage
  <2>2. heap'.depth = 0 \/ vm' = "dead"
    BY <1>3, <2>1, CountStep, Zenon
  <2>3. CASE vm' = "dead"
    <3>1. \A t \in Threads : frames'[t] = <<>>
      BY <1>3, <2>3, Zenon DEF VMInv
    <3>2. \A x : x \notin DeferralsOf(frames')
      BY <3>1, NoScopes, OpenDeferralsAre, Zenon
    <3> QED BY <3>2, OpenDeferralsAre
  <2>4. CASE heap'.depth = 0 /\ vm' # "dead"
    <3>1. IsFiniteSet(OpenDeferrals') /\ Cardinality(OpenDeferrals') = 0
      BY <1>3, <2>4 DEF CountInv
    <3> HIDE DEF OpenDeferrals
    <3> QED BY <3>1, FS_EmptySet, Zenon
  <2> QED BY <2>2, <2>3, <2>4
<1> QED BY <1>1, <1>2, <1>3, PTL DEF Spec, DeferralsRespected
=============================================================================
