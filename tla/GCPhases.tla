------------------------------ MODULE GCPhases ------------------------------
(***************************************************************************)
(* The phases in which the collecting (main) thread puts the GC threads to *)
(* work: heap/GCThreadSharedData.cpp and heap/GCThread.cpp with            *)
(* ENABLE(PARALLEL_GC).                                                    *)
(*                                                                         *)
(* A section of code run under m_phaseLock is one step.  A thread in       *)
(* m_phaseCondition.wait is "sleepA" (first loop of waitForNextPhase) or   *)
(* "sleepB" (second loop); a broadcast makes it "enter" or "wokenB", from  *)
(* where it evaluates its loop condition again.  What a phase does is      *)
(* left open here: module ParallelMarking fills in Mark, CopyPhase Copy.   *)
(***************************************************************************)
EXTENDS Naturals, FiniteSets

CONSTANT GCThreads     \* the threads beside the main one

ASSUME GCThreadsAssumption == IsFiniteSet(GCThreads)

VARIABLES
    currentPhase,               \* m_currentPhase
    gcThreadsShouldWait,        \* m_gcThreadsShouldWait
    numberOfActiveGCThreads,    \* m_numberOfActiveGCThreads
    parallelMarkersShouldExit,  \* m_parallelMarkersShouldExit
    mainPc,                     \* where the main thread is
    threadPc,                   \* where each GC thread is
    ran                         \* history: threads that ran in this phase

phaseVars == <<currentPhase, gcThreadsShouldWait, numberOfActiveGCThreads,
               parallelMarkersShouldExit, mainPc, threadPc, ran>>

Phases == {"NoPhase", "Mark", "Copy", "Exit"}
MainPcs == {"ctor", "sleep", "check", "idle", "Mark", "marked", "Copy", "join",
            "destroyed"}
ThreadPcs == {"none", "enter", "sleepA", "sleepB", "wokenB", "Mark", "Copy", "Exit"}

PhaseInit ==
    /\ currentPhase = "NoPhase"
    /\ gcThreadsShouldWait = FALSE
    /\ numberOfActiveGCThreads = 0
    /\ parallelMarkersShouldExit = FALSE
    /\ mainPc = "ctor"
    /\ threadPc = [t \in GCThreads |-> "none"]
    /\ ran = {}

(* m_phaseCondition.broadcast()                                            *)
Woken(p) == CASE p = "sleepA" -> "enter" [] p = "sleepB" -> "wokenB" [] OTHER -> p
PhaseBroadcast == threadPc' = [t \in GCThreads |-> Woken(threadPc[t])]
(* m_activityCondition.signal(): only the main thread waits there.         *)
ActivitySignal == mainPc' = IF mainPc = "sleep" THEN "check" ELSE mainPc
(* while (m_numberOfActiveGCThreads) m_activityCondition.wait(m_phaseLock) *)
WaitForInactivity(active) == mainPc' = IF active = 0 THEN "idle" ELSE "sleep"
-----------------------------------------------------------------------------
(* GCThreadSharedData::GCThreadSharedData: the threads are created, and    *)
(* counted active, under m_phaseLock.                                      *)
Construct ==
    /\ mainPc = "ctor"
    /\ numberOfActiveGCThreads' = Cardinality(GCThreads)
    /\ threadPc' = [t \in GCThreads |-> "enter"]
    /\ WaitForInactivity(Cardinality(GCThreads))
    /\ UNCHANGED <<currentPhase, gcThreadsShouldWait, parallelMarkersShouldExit, ran>>

(* The main thread, signalled, evaluates its wait loop again.              *)
CheckInactivity ==
    /\ mainPc = "check"
    /\ WaitForInactivity(numberOfActiveGCThreads)
    /\ UNCHANGED <<currentPhase, gcThreadsShouldWait, numberOfActiveGCThreads,
                   parallelMarkersShouldExit, threadPc, ran>>

(* GCThreadSharedData::startNextPhase, called by didStartMarking (which    *)
(* resets m_parallelMarkersShouldExit) and by didStartCopying.             *)
StartNextPhase(phase) ==
    /\ mainPc = "idle"
    /\ gcThreadsShouldWait' = TRUE
    /\ currentPhase' = phase
    /\ PhaseBroadcast
    /\ parallelMarkersShouldExit' =
           IF phase = "Mark" THEN FALSE ELSE parallelMarkersShouldExit
    /\ mainPc' = phase
    /\ ran' = {}
    /\ UNCHANGED numberOfActiveGCThreads

(* GCThreadSharedData::didFinishMarking, under m_markingLock.              *)
StopMarkers ==
    /\ mainPc = "Mark"
    /\ parallelMarkersShouldExit' = TRUE
    /\ mainPc' = "marked"
    /\ UNCHANGED <<currentPhase, gcThreadsShouldWait, numberOfActiveGCThreads,
                   threadPc, ran>>

(* Mutant: the main thread does not wait for the GC threads.               *)
EndWithoutWaiting ==
    /\ mainPc \in {"marked", "Copy"}
    /\ currentPhase' = "NoPhase"
    /\ gcThreadsShouldWait' = FALSE
    /\ PhaseBroadcast
    /\ mainPc' = "idle"
    /\ UNCHANGED <<numberOfActiveGCThreads, parallelMarkersShouldExit, ran>>

(* GCThreadSharedData::endCurrentPhase, up to its first wait.              *)
EndCurrentPhase ==
    /\ mainPc \in {"marked", "Copy"}
    /\ currentPhase' = "NoPhase"
    /\ gcThreadsShouldWait' = FALSE
    /\ PhaseBroadcast
    /\ WaitForInactivity(numberOfActiveGCThreads)
    /\ UNCHANGED <<numberOfActiveGCThreads, parallelMarkersShouldExit, ran>>

(* Mutant: the sleeping threads are not told.                              *)
DestroySilently ==
    /\ mainPc = "idle"
    /\ parallelMarkersShouldExit' = TRUE
    /\ currentPhase' = "Exit"
    /\ mainPc' = "join"
    /\ UNCHANGED <<gcThreadsShouldWait, numberOfActiveGCThreads, threadPc, ran>>

(* GCThreadSharedData::~GCThreadSharedData: the Exit phase ...             *)
Destroy ==
    /\ mainPc = "idle"
    /\ parallelMarkersShouldExit' = TRUE
    /\ gcThreadsShouldWait' = FALSE
    /\ currentPhase' = "Exit"
    /\ PhaseBroadcast
    /\ mainPc' = "join"
    /\ UNCHANGED <<numberOfActiveGCThreads, ran>>

(* ... and waitForThreadCompletion for every thread.                       *)
Join ==
    /\ mainPc = "join"
    /\ \A t \in GCThreads : threadPc[t] = "Exit"
    /\ mainPc' = "destroyed"
    /\ UNCHANGED <<currentPhase, gcThreadsShouldWait, numberOfActiveGCThreads,
                   parallelMarkersShouldExit, threadPc, ran>>
-----------------------------------------------------------------------------
(* GCThread::waitForNextPhase, first loop: the phase is still on.          *)
AwaitPhaseEnd(t) ==
    /\ threadPc[t] = "enter"
    /\ gcThreadsShouldWait
    /\ threadPc' = [threadPc EXCEPT ![t] = "sleepA"]
    /\ UNCHANGED <<currentPhase, gcThreadsShouldWait, numberOfActiveGCThreads,
                   parallelMarkersShouldExit, mainPc, ran>>

(* GCThread::waitForNextPhase, past the first loop: the thread is inactive *)
(* and comes to the second loop.                                           *)
BecomeInactive(t) ==
    /\ threadPc[t] = "enter"
    /\ ~ gcThreadsShouldWait
    /\ numberOfActiveGCThreads' = numberOfActiveGCThreads - 1
    /\ IF numberOfActiveGCThreads = 1 THEN ActivitySignal ELSE UNCHANGED mainPc
    /\ threadPc' = [threadPc EXCEPT ![t] =
                        IF currentPhase = "NoPhase" THEN "sleepB" ELSE "wokenB"]
    /\ UNCHANGED <<currentPhase, gcThreadsShouldWait, parallelMarkersShouldExit, ran>>

(* GCThread::waitForNextPhase, second loop, when it goes on waiting.       *)
AwaitNextPhase(t) ==
    /\ threadPc[t] = "wokenB"
    /\ currentPhase = "NoPhase"
    /\ threadPc' = [threadPc EXCEPT ![t] = "sleepB"]
    /\ UNCHANGED <<currentPhase, gcThreadsShouldWait, numberOfActiveGCThreads,
                   parallelMarkersShouldExit, mainPc, ran>>

(* GCThread::waitForNextPhase returns the phase, and gcThreadMain runs it. *)
JoinPhase(t) ==
    /\ threadPc[t] = "wokenB"
    /\ currentPhase # "NoPhase"
    /\ numberOfActiveGCThreads' = numberOfActiveGCThreads + 1
    /\ threadPc' = [threadPc EXCEPT ![t] = currentPhase]
    /\ ran' = ran \cup {t}
    /\ UNCHANGED <<currentPhase, gcThreadsShouldWait, parallelMarkersShouldExit, mainPc>>

(* gcThreadMain: drainFromShared(SlaveDrain) returns only when told to;    *)
(* copyFromShared and doneCopying return when the work is done.            *)
LeaveMark(t) ==
    /\ threadPc[t] = "Mark"
    /\ parallelMarkersShouldExit
    /\ threadPc' = [threadPc EXCEPT ![t] = "enter"]
    /\ UNCHANGED <<currentPhase, gcThreadsShouldWait, numberOfActiveGCThreads,
                   parallelMarkersShouldExit, mainPc, ran>>

LeaveCopy(t) ==
    /\ threadPc[t] = "Copy"
    /\ threadPc' = [threadPc EXCEPT ![t] = "enter"]
    /\ UNCHANGED <<currentPhase, gcThreadsShouldWait, numberOfActiveGCThreads,
                   parallelMarkersShouldExit, mainPc, ran>>

(* A condition variable may wake a waiter for no reason.                   *)
SpuriousWake(t) ==
    /\ threadPc[t] \in {"sleepA", "sleepB"}
    /\ threadPc' = [threadPc EXCEPT ![t] = Woken(@)]
    /\ UNCHANGED <<currentPhase, gcThreadsShouldWait, numberOfActiveGCThreads,
                   parallelMarkersShouldExit, mainPc, ran>>

SpuriousMainWake ==
    /\ mainPc = "sleep"
    /\ mainPc' = "check"
    /\ UNCHANGED <<currentPhase, gcThreadsShouldWait, numberOfActiveGCThreads,
                   parallelMarkersShouldExit, threadPc, ran>>

(* The collector is gone.                                                  *)
Destroyed == mainPc = "destroyed" /\ UNCHANGED phaseVars
-----------------------------------------------------------------------------
ThreadStep(t) ==
    \/ AwaitPhaseEnd(t) \/ BecomeInactive(t) \/ AwaitNextPhase(t)
    \/ JoinPhase(t) \/ LeaveMark(t) \/ LeaveCopy(t)
MainStep ==
    \/ Construct \/ CheckInactivity \/ StopMarkers \/ EndCurrentPhase \/ Join

PhaseNext ==
    \/ MainStep
    \/ \E phase \in {"Mark", "Copy"} : StartNextPhase(phase)
    \/ Destroy
    \/ \E t \in GCThreads : ThreadStep(t) \/ SpuriousWake(t)
    \/ SpuriousMainWake
    \/ Destroyed

PhaseSpec == PhaseInit /\ [][PhaseNext]_phaseVars
-----------------------------------------------------------------------------
PhaseTypeOK ==
    /\ currentPhase \in Phases
    /\ gcThreadsShouldWait \in BOOLEAN
    /\ numberOfActiveGCThreads \in Nat
    /\ parallelMarkersShouldExit \in BOOLEAN
    /\ mainPc \in MainPcs
    /\ threadPc \in [GCThreads -> ThreadPcs]
    /\ ran \in SUBSET GCThreads

ActiveThreads == {t \in GCThreads : threadPc[t] \in {"enter", "sleepA", "Mark", "Copy", "Exit"}}

(* m_numberOfActiveGCThreads counts the threads that have not yet come     *)
(* past the first loop of waitForNextPhase.                                *)
ActiveCounted == numberOfActiveGCThreads = Cardinality(ActiveThreads)

(* Once the constructor or endCurrentPhase has returned, no GC thread is   *)
(* inside a phase: Heap may touch the visitors (resetChildren) unlocked.   *)
QuiescentBetweenPhases == mainPc = "idle" => ActiveThreads = {}

(* No GC thread works at anything but the phase the main thread is in or   *)
(* is ending.                                                              *)
WorkBelongsToPhase ==
    \A t \in GCThreads :
        /\ threadPc[t] = "Mark" => mainPc \in {"Mark", "marked", "sleep", "check"}
        /\ threadPc[t] = "Copy" => mainPc \in {"Copy", "sleep", "check"}

(* m_gcThreadsShouldWait keeps a thread that is done with a phase from     *)
(* starting the same phase again.                                          *)
OncePerPhase ==
    [][\A t \in GCThreads :
           threadPc[t] = "wokenB" /\ threadPc'[t] \in {"Mark", "Copy"} => t \notin ran]_phaseVars

(* The destructor gets every thread to leave and joins it.                 *)
DestructionCompletes == mainPc = "join" ~> mainPc = "destroyed"
=============================================================================
