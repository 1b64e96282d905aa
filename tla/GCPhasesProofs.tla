--------------------------- MODULE GCPhasesProofs ---------------------------
(***************************************************************************)
(* The invariants of GCPhases, for any finite number of GC threads.        *)
(***************************************************************************)
EXTENDS GCPhases, FiniteSetTheorems, TLAPS

(* What m_currentPhase and m_gcThreadsShouldWait are at each place of the  *)
(* main thread.                                                            *)
PhaseOfMain ==
    /\ mainPc \in {"ctor", "idle", "sleep", "check"} => currentPhase = "NoPhase"
    /\ mainPc \in {"Mark", "marked"} => currentPhase = "Mark"
    /\ mainPc = "Copy" => currentPhase = "Copy"
    /\ mainPc \in {"join", "destroyed"} => currentPhase = "Exit"
    /\ gcThreadsShouldWait <=> mainPc \in {"Mark", "marked", "Copy"}
    /\ mainPc = "ctor" => \A t \in GCThreads : threadPc[t] = "none"

(* A thread that ran in the phase that is on has not left it.              *)
RanIsActive ==
    mainPc \in {"Mark", "marked", "Copy"} => ran \subseteq ActiveThreads

PhaseInv ==
    /\ PhaseTypeOK
    /\ ActiveCounted
    /\ QuiescentBetweenPhases
    /\ WorkBelongsToPhase
    /\ PhaseOfMain
    /\ RanIsActive

ActivePcs == {"enter", "sleepA", "Mark", "Copy", "Exit"}

(* A leaf is for the SMT solver unless it names another prover.           *)
USE SMTT(60)

(* Cardinalities of the set of active threads.                             *)
LEMMA ActiveFinite ==
    ActiveThreads \subseteq GCThreads /\ IsFiniteSet(ActiveThreads)
BY GCThreadsAssumption, FS_Subset DEF ActiveThreads

(* A step of one thread changes the set of active threads by that thread.  *)
LEMMA ActiveStep ==
    ASSUME PhaseTypeOK, NEW t \in GCThreads, NEW p \in ThreadPcs,
           threadPc' = [threadPc EXCEPT ![t] = p]
    PROVE  ActiveThreads' = IF p \in ActivePcs THEN ActiveThreads \cup {t}
                                               ELSE ActiveThreads \ {t}
BY DEF PhaseTypeOK, ActiveThreads, ActivePcs

(* A broadcast leaves every thread active that was, and no other.          *)
LEMMA ActiveBroadcast ==
    ASSUME PhaseTypeOK, PhaseBroadcast
    PROVE  /\ \A t \in GCThreads :
                 /\ threadPc'[t] \in ThreadPcs
                 /\ threadPc[t] = "sleepA" => threadPc'[t] = "enter"
                 /\ threadPc[t] = "sleepB" => threadPc'[t] = "wokenB"
                 /\ threadPc[t] \notin {"sleepA", "sleepB"} => threadPc'[t] = threadPc[t]
           /\ threadPc' \in [GCThreads -> ThreadPcs]
<1>1. \A t \in GCThreads : threadPc[t] \in ThreadPcs
  BY DEF PhaseTypeOK
<1>2. \A t \in GCThreads : threadPc'[t] = Woken(threadPc[t])
  BY DEF PhaseBroadcast
<1>3. threadPc' = [t \in GCThreads |-> threadPc'[t]]
  BY DEF PhaseBroadcast
<1>4. \A t \in GCThreads : Woken(threadPc[t]) \in ThreadPcs
  BY <1>1 DEF Woken, ThreadPcs
<1> QED BY <1>1, <1>2, <1>3, <1>4 DEF Woken

(* A broadcast wakes threads, and changes none from counted to not.        *)
LEMMA ActiveSetKept ==
    ASSUME PhaseTypeOK, PhaseBroadcast
    PROVE  ActiveThreads' = ActiveThreads
<1>1. \A t \in GCThreads : threadPc[t] \in ActivePcs <=> threadPc'[t] \in ActivePcs
  BY ActiveBroadcast DEF PhaseTypeOK, ThreadPcs, ActivePcs
<1> QED BY <1>1 DEF ActiveThreads, ActivePcs

(* Nobody is active exactly when the count is zero.                        *)
LEMMA ZeroActive ==
    ASSUME ActiveCounted
    PROVE  numberOfActiveGCThreads = 0 <=> ActiveThreads = {}
BY ActiveFinite, FS_EmptySet DEF ActiveCounted

(* The invariant holds once the threads are to be constructed.             *)
LEMMA PhaseInvInit == PhaseInit => PhaseInv
<1> SUFFICES ASSUME PhaseInit PROVE PhaseInv
  OBVIOUS
<1>1. ActiveThreads = {}
  BY DEF PhaseInit, ActiveThreads
<1>2. PhaseTypeOK
  BY ZenonT(60) DEF PhaseInit, PhaseTypeOK, Phases, MainPcs, ThreadPcs
<1>3. ActiveCounted
  BY <1>1, FS_EmptySet DEF PhaseInit, ActiveCounted
<1> QED BY <1>1, <1>2, <1>3 DEF PhaseInit, PhaseInv, QuiescentBetweenPhases,
          WorkBelongsToPhase, PhaseOfMain, RanIsActive

(* Every step of a phase, of a thread or of the main thread keeps it.      *)
LEMMA PhaseInvStep == PhaseInv /\ [PhaseNext]_phaseVars => PhaseInv'
<1> SUFFICES ASSUME PhaseInv, [PhaseNext]_phaseVars PROVE PhaseInv'
  OBVIOUS
<1> USE DEF PhaseInv
<1>ctor. CASE Construct
  <2>1. ActiveThreads' = GCThreads
    BY <1>ctor DEF Construct, ActiveThreads
  <2>2. Cardinality(GCThreads) \in Nat /\ (Cardinality(GCThreads) = 0 <=> GCThreads = {})
    BY GCThreadsAssumption, FS_CardinalityType, FS_EmptySet
  <2>3. PhaseTypeOK' /\ mainPc' \in {"idle", "sleep"} /\ (mainPc' = "idle" => GCThreads = {})
    BY <1>ctor, <2>2 DEF Construct, WaitForInactivity, PhaseTypeOK, MainPcs, ThreadPcs, Phases
  <2>4. ActiveCounted' /\ QuiescentBetweenPhases'
    BY <1>ctor, <2>1, <2>3 DEF Construct, ActiveCounted, QuiescentBetweenPhases
  <2>5. WorkBelongsToPhase' /\ PhaseOfMain' /\ RanIsActive'
    BY <1>ctor, <2>3 DEF Construct, WorkBelongsToPhase, PhaseOfMain, RanIsActive
  <2> QED BY <2>3, <2>4, <2>5
<1>check. CASE CheckInactivity
  <2>1. ActiveThreads' = ActiveThreads
    BY <1>check DEF CheckInactivity, ActiveThreads
  <2>2. PhaseTypeOK' /\ mainPc' \in {"idle", "sleep"}
        /\ (mainPc' = "idle" => ActiveThreads = {})
    BY <1>check, ZeroActive DEF CheckInactivity, WaitForInactivity, PhaseTypeOK, MainPcs
  <2>3. WorkBelongsToPhase'
    <3> SUFFICES ASSUME NEW t \in GCThreads
                 PROVE  /\ threadPc'[t] \in {"Mark", "Copy"} => mainPc' = "sleep"
      BY DEF WorkBelongsToPhase
    <3> QED BY <1>check, <2>2 DEF ActiveThreads, CheckInactivity
  <2> QED BY <1>check, <2>1, <2>2, <2>3 DEF CheckInactivity, ActiveCounted,
            QuiescentBetweenPhases, PhaseOfMain, RanIsActive
<1>start. ASSUME NEW phase \in {"Mark", "Copy"}, StartNextPhase(phase) PROVE PhaseInv'
  <2>1. ActiveThreads' = ActiveThreads /\ ActiveThreads = {}
    BY <1>start, ActiveSetKept DEF StartNextPhase, QuiescentBetweenPhases
  <2>2. PhaseTypeOK'
    BY ZenonT(60), <1>start, ActiveBroadcast DEF StartNextPhase, PhaseTypeOK, MainPcs, Phases
  <2>3. WorkBelongsToPhase'
    BY <2>1 DEF WorkBelongsToPhase, ActiveThreads
  <2> QED BY <1>start, <2>1, <2>2, <2>3 DEF StartNextPhase, ActiveCounted,
            QuiescentBetweenPhases, PhaseOfMain, RanIsActive
<1>stop. CASE StopMarkers
  <2>1. ActiveThreads' = ActiveThreads
    BY <1>stop DEF StopMarkers, ActiveThreads
  <2> QED BY <1>stop, <2>1 DEF StopMarkers, PhaseTypeOK, MainPcs, ActiveCounted,
            QuiescentBetweenPhases, WorkBelongsToPhase, PhaseOfMain, RanIsActive
<1>end. CASE EndCurrentPhase
  <2>1. ActiveThreads' = ActiveThreads
    BY <1>end, ActiveSetKept DEF EndCurrentPhase
  <2>2. PhaseTypeOK' /\ mainPc' \in {"idle", "sleep"}
        /\ (mainPc' = "idle" => ActiveThreads = {})
    BY ZenonT(60), <1>end, ZeroActive, ActiveBroadcast
    DEF EndCurrentPhase, WaitForInactivity, PhaseTypeOK, MainPcs, Phases
  <2>3. WorkBelongsToPhase'
    <3> SUFFICES ASSUME NEW t \in GCThreads
                 PROVE  /\ threadPc'[t] \in {"Mark", "Copy"} => mainPc' = "sleep"
      BY DEF WorkBelongsToPhase
    <3> QED BY <2>1, <2>2 DEF ActiveThreads
  <2> QED BY <1>end, <2>1, <2>2, <2>3 DEF EndCurrentPhase, ActiveCounted,
            QuiescentBetweenPhases, PhaseOfMain, RanIsActive
<1>destroy. CASE Destroy
  <2>1. ActiveThreads' = ActiveThreads /\ ActiveThreads = {}
    BY <1>destroy, ActiveSetKept DEF Destroy, QuiescentBetweenPhases
  <2>2. PhaseTypeOK'
    BY ZenonT(60), <1>destroy, ActiveBroadcast DEF Destroy, PhaseTypeOK, MainPcs, Phases
  <2>3. WorkBelongsToPhase'
    BY <2>1 DEF WorkBelongsToPhase, ActiveThreads
  <2> QED BY <1>destroy, <2>1, <2>2, <2>3 DEF Destroy, ActiveCounted,
            QuiescentBetweenPhases, PhaseOfMain, RanIsActive
<1>join. CASE Join
  <2>1. ActiveThreads' = ActiveThreads
    BY <1>join DEF Join, ActiveThreads
  <2> QED BY <1>join, <2>1 DEF Join, PhaseTypeOK, MainPcs, ActiveCounted,
            QuiescentBetweenPhases, WorkBelongsToPhase, PhaseOfMain, RanIsActive
<1>spurious. CASE SpuriousMainWake
  <2>1. ActiveThreads' = ActiveThreads
    BY <1>spurious DEF SpuriousMainWake, ActiveThreads
  <2> QED BY <1>spurious, <2>1 DEF SpuriousMainWake, PhaseTypeOK, MainPcs, ActiveCounted,
            QuiescentBetweenPhases, WorkBelongsToPhase, PhaseOfMain, RanIsActive
<1>thread. ASSUME NEW t \in GCThreads, ThreadStep(t) \/ SpuriousWake(t) PROVE PhaseInv'
  <2>1. ASSUME NEW p \in ThreadPcs \ {"none"}, threadPc[t] \in ActivePcs <=> p \in ActivePcs,
               threadPc' = [threadPc EXCEPT ![t] = p], p \in {"Mark", "Copy"} => threadPc[t] = p,
               mainPc # "ctor",
               UNCHANGED <<currentPhase, gcThreadsShouldWait, numberOfActiveGCThreads,
                           parallelMarkersShouldExit, mainPc, ran>>
        PROVE  PhaseInv'
    <3>1. ActiveThreads' = ActiveThreads
      BY <2>1, ActiveStep DEF ActiveThreads, ActivePcs
    <3>2. PhaseTypeOK' /\ WorkBelongsToPhase'
      BY <2>1 DEF PhaseTypeOK, WorkBelongsToPhase
    <3> QED BY <2>1, <3>1, <3>2 DEF ActiveCounted, QuiescentBetweenPhases, PhaseOfMain,
              RanIsActive
  <2>2. threadPc[t] # "none" => mainPc # "ctor"
    BY DEF PhaseOfMain
  <2>3. threadPc[t] \in ThreadPcs /\ IsFiniteSet(ActiveThreads)
    BY ActiveFinite DEF PhaseTypeOK
  <2>4. CASE AwaitPhaseEnd(t) \/ LeaveMark(t) \/ LeaveCopy(t)
    BY <2>1, <2>2, <2>4 DEF AwaitPhaseEnd, LeaveMark, LeaveCopy, ThreadPcs, ActivePcs
  <2>5. CASE AwaitNextPhase(t) \/ SpuriousWake(t)
    BY <2>1, <2>2, <2>5 DEF AwaitNextPhase, SpuriousWake, Woken, ThreadPcs, ActivePcs
  <2>6. CASE BecomeInactive(t)
    <3>1. PICK p \in {"sleepB", "wokenB"} : threadPc' = [threadPc EXCEPT ![t] = p]
      BY ZenonT(60), <2>6 DEF BecomeInactive
    <3>2. ActiveThreads' = ActiveThreads \ {t} /\ t \in ActiveThreads
      BY ZenonT(60), <2>6, <3>1, ActiveStep DEF BecomeInactive, ThreadPcs, ActivePcs, ActiveThreads
    <3>3. numberOfActiveGCThreads \in Nat /\ numberOfActiveGCThreads # 0
      BY <3>2, ZeroActive DEF PhaseTypeOK
    <3>4. ActiveCounted'
      BY <2>3, <2>6, <3>2, <3>3, FS_RemoveElement DEF ActiveCounted, BecomeInactive
    <3>5. mainPc \notin {"Mark", "marked", "Copy", "ctor", "idle"}
      BY <2>6, <3>2, <2>2 DEF BecomeInactive, PhaseOfMain, QuiescentBetweenPhases
    <3>6. mainPc' = mainPc \/ (mainPc = "sleep" /\ mainPc' = "check")
      BY <2>6 DEF BecomeInactive, ActivitySignal
    <3>7. PhaseTypeOK'
      BY <2>6, <3>1, <3>3, <3>6 DEF BecomeInactive, PhaseTypeOK, MainPcs, ThreadPcs
    <3> QED BY <2>6, <3>1, <3>4, <3>5, <3>6, <3>7 DEF BecomeInactive, QuiescentBetweenPhases,
              PhaseOfMain, RanIsActive, WorkBelongsToPhase, PhaseTypeOK
  <2>7. CASE JoinPhase(t)
    <3>1. currentPhase \in {"Mark", "Copy", "Exit"} /\ mainPc \in {"Mark", "marked", "Copy", "join", "destroyed"}
      BY <2>7 DEF JoinPhase, PhaseTypeOK, Phases, MainPcs, PhaseOfMain
    <3>2. ActiveThreads' = ActiveThreads \cup {t} /\ t \notin ActiveThreads
      BY ZenonT(60), <2>7, <3>1, ActiveStep DEF JoinPhase, ThreadPcs, ActivePcs, ActiveThreads
    <3>3. ActiveCounted'
      BY ZenonT(60), <2>3, <2>7, <3>2, FS_AddElement DEF ActiveCounted, JoinPhase, PhaseTypeOK
    <3>4. PhaseTypeOK'
      BY <2>7, <3>1 DEF JoinPhase, PhaseTypeOK, ThreadPcs
    <3>5. WorkBelongsToPhase'
      BY <2>7, <3>1 DEF JoinPhase, PhaseTypeOK, WorkBelongsToPhase, PhaseOfMain
    <3> QED BY <2>7, <3>1, <3>2, <3>3, <3>4, <3>5 DEF JoinPhase, QuiescentBetweenPhases,
              PhaseOfMain, RanIsActive
  <2> QED BY <1>thread, <2>4, <2>5, <2>6, <2>7 DEF ThreadStep
<1>stutter. CASE UNCHANGED phaseVars
  BY <1>stutter DEF phaseVars, PhaseTypeOK, ActiveCounted, ActiveThreads,
     QuiescentBetweenPhases, WorkBelongsToPhase, PhaseOfMain, RanIsActive
<1> QED BY <1>ctor, <1>check, <1>start, <1>stop, <1>end, <1>destroy, <1>join,
          <1>spurious, <1>thread, <1>stutter DEF PhaseNext, MainStep, Destroyed

(* The strengthened invariant holds in every reachable state.              *)
THEOREM PhaseInvariance == PhaseSpec => []PhaseInv
BY PhaseInvInit, PhaseInvStep, PTL DEF PhaseSpec

(* With any number of GC threads, when the collector is between phases no  *)
(* GC thread is inside one: endCurrentPhase really waited for all of them. *)
THEOREM PhasesQuiesce == PhaseSpec => [](QuiescentBetweenPhases /\ WorkBelongsToPhase)
<1>1. PhaseInv => QuiescentBetweenPhases /\ WorkBelongsToPhase
  BY DEF PhaseInv
<1> QED BY <1>1, PhaseInvariance, PTL

(* With any number of GC threads, none joins the same phase twice.         *)
THEOREM PhasesJoinedOnce == PhaseSpec => OncePerPhase
<1> DEFINE Once == \A t \in GCThreads :
              threadPc[t] = "wokenB" /\ threadPc'[t] \in {"Mark", "Copy"} => t \notin ran
<1>1. PhaseInv /\ [PhaseNext]_phaseVars => [Once]_phaseVars
  <2> SUFFICES ASSUME PhaseInv, PhaseNext, NEW t \in GCThreads,
                      threadPc[t] = "wokenB", threadPc'[t] \in {"Mark", "Copy"}, t \in ran
               PROVE  FALSE
    OBVIOUS
  <2>1. mainPc \notin {"Mark", "marked", "Copy"}
    BY DEF PhaseInv, RanIsActive, ActiveThreads
  <2>2. currentPhase \notin {"Mark", "Copy"}
    BY <2>1 DEF PhaseInv, PhaseOfMain, PhaseTypeOK, MainPcs
  <2>3. ASSUME NEW u \in GCThreads, ThreadStep(u) \/ SpuriousWake(u) PROVE FALSE
    <3>1. PICK p : threadPc' = [threadPc EXCEPT ![u] = p] /\ p \notin {"Mark", "Copy"}
      BY <2>2, <2>3 DEF ThreadStep, SpuriousWake, AwaitPhaseEnd, BecomeInactive, AwaitNextPhase,
         JoinPhase, LeaveMark, LeaveCopy, Woken
    <3> QED BY <3>1 DEF PhaseInv, PhaseTypeOK
  <2>4. CASE \/ Construct \/ CheckInactivity \/ StopMarkers \/ Join
             \/ SpuriousMainWake \/ Destroyed
    BY <2>4 DEF Construct, CheckInactivity, StopMarkers, Join, SpuriousMainWake, Destroyed,
       phaseVars
  <2>5. PhaseBroadcast => FALSE
    BY ActiveBroadcast DEF PhaseInv
  <2> QED BY ZenonT(60), <2>3, <2>4, <2>5 DEF PhaseNext, MainStep, EndCurrentPhase, StartNextPhase, Destroy
<1> QED BY <1>1, PhaseInvariance, PTL DEF PhaseSpec, OncePerPhase
=============================================================================
