-------------------------- MODULE MCHeapScheduling --------------------------
(* Two threads share a VM; the timers are on the run loop of the first.    *)
EXTENDS HeapScheduling

CONSTANTS main, other

MCThreads == {main, other}

(* Before the first collection the delay wanted is 0.  After one, that of  *)
(* the first allocation is too long to be taken, more than half a decade.  *)
MCNewDelay ==
    [l \in Lengths |->
        [b \in 0 .. 2 * MaxBytes |->
            IF l = 0 THEN 0 ELSE IF b = 0 THEN 3 ELSE IF b = 1 THEN 2 ELSE 1]]
=============================================================================
