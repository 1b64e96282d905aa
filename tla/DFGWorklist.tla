---------------------------- MODULE DFGWorklist ----------------------------
(***************************************************************************)
(* Optimizing compilation: the process-wide worklist of DFG plans and its  *)
(* compilation threads (dfg/DFGWorklist.cpp), a plan's life from enqueue   *)
(* to finalization (dfg/DFGPlan.cpp), the watchpoint sets its code relies  *)
(* on (bytecode/Watchpoint.h, VariableWatchpointSet.h) and the virtual     *)
(* machines that tier up, jettison, collect and die around it              *)
(* (jit/JITOperations.cpp, bytecode/CodeBlock.cpp, runtime/VM.cpp).        *)
(*                                                                         *)
(* A plan and the code block it produces are one number.  A critical       *)
(* section of Worklist::m_lock is one step; so is a stretch of a VM's own  *)
(* thread during which compilation threads can only read what it writes.   *)
(* The configuration modelled is ENABLE(CONCURRENT_JIT); execution         *)
(* counters keep only whether a function has been given up on.             *)
(***************************************************************************)
EXTENDS Integers, Sequences, FiniteSets, Functions

CONSTANTS VMs,         \* virtual machines sharing the worklist
          Functions,   \* baseline code blocks: the keys of m_plans
          Threads,     \* compilation threads
          WatchSets,   \* watchpoint sets
          Values,      \* what a watched location may hold
          Null,        \* the empty JSValue, the null pointer
          VMOf,        \* the VM of a function and of a watchpoint set
          DependsOn,   \* the sets the compiler consults for a function
          Kind,        \* how a set is created, fired and consulted
          MaxPlans     \* bound: plans created in a behaviour

ASSUME DFGAssumption ==
    /\ MaxPlans \in Nat /\ IsFiniteSet(Threads)
    /\ Values \subseteq Nat /\ 0 \in Values
    /\ Null \notin Functions /\ Null \notin Values
    /\ VMOf \in [Functions \union WatchSets -> VMs]
    /\ DependsOn \in [Functions -> SUBSET WatchSets]
    /\ \A f \in Functions : \A s \in DependsOn[f] : VMOf[s] = VMOf[f]
    /\ Kind \in [WatchSets -> {"variable", "entry"}]
    /\ \A s \in WatchSets : Kind[s] = "entry" => 0..2 \subseteq Values

VARIABLES
    queue,        \* m_queue
    plans,        \* m_plans: the plans known to the worklist
    ready,        \* m_readyPlans
    active,       \* m_numberOfActiveThreads
    compiled,     \* plans with isCompiled
    fnOf,         \* a plan's baseline code block, Null before it is created
    assumed,      \* what a plan's code assumes of each set's location
    built,        \* plans whose finalizer will succeed
    threadPC, threadPlan, unread,
    vmPC, vmFn, vmMine,
    replacement,  \* the optimized code installed for a function, or 0
    givenUp,      \* dontOptimizeAnytimeSoon() is in force
    valid,        \* finalized code not yet invalidated
    state, watchers, value, inferred

worklistVars == <<queue, plans, ready, active, compiled>>
planVars == <<fnOf, built>>
threadVars == <<threadPC, threadPlan, unread>>
vmVars == <<vmPC, vmFn, vmMine>>
codeVars == <<replacement, givenUp, valid, assumed>>
setVars == <<state, watchers, value, inferred>>
vars == <<worklistVars, planVars, threadVars, vmVars, codeVars, setVars>>

Codes == 1..MaxPlans
PlansOf(v) == {n \in Codes : fnOf[n] # Null /\ VMOf[fnOf[n]] = v}
Known(f) == \E n \in plans : fnOf[n] = f
Compiling(n) == \E t \in Threads : threadPlan[t] = n

Init ==
    /\ queue = <<>> /\ plans = {} /\ ready = {} /\ active = 0 /\ compiled = {}
    /\ fnOf = [n \in Codes |-> Null]
    /\ assumed = [n \in Codes |-> [s \in WatchSets |-> Values]]
    /\ built = {}
    /\ threadPC = [t \in Threads |-> "take"]
    /\ threadPlan = [t \in Threads |-> 0]
    /\ unread = [t \in Threads |-> {}]
    /\ vmPC = [v \in VMs |-> "run"]
    /\ vmFn = [v \in VMs |-> Null]
    /\ vmMine = [v \in VMs |-> FALSE]
    /\ replacement = [f \in Functions |-> 0]
    /\ givenUp = [f \in Functions |-> FALSE]
    /\ valid = {}
    /\ state = [s \in WatchSets |-> "Clear"]
    /\ watchers = [s \in WatchSets |-> {}]
    /\ value = [s \in WatchSets |-> 0]
    /\ inferred = [s \in WatchSets |-> Null]
-----------------------------------------------------------------------------
(***************************************************************************)
(* Watchpoints and jettisoning, all on the VM's own thread.                *)
(***************************************************************************)

(* What code assumed is forgotten with the code or its invalidation.       *)
Forget(N) ==
    [n \in Codes |-> IF n \in N THEN [s \in WatchSets |-> Values] ELSE assumed[n]]

(* CodeBlock::jettison of every code block in the set N: invalidate it,    *)
(* and when it is the function's replacement install the baseline code     *)
(* again with a fresh warm-up threshold.                                   *)
Jettison(N) ==
    /\ valid' = valid \ N
    /\ assumed' = Forget(N)
    /\ replacement' = [f \in Functions |->
           IF replacement[f] \in N THEN 0 ELSE replacement[f]]
    /\ givenUp' = [f \in Functions |->
           IF replacement[f] \in N THEN FALSE ELSE givenUp[f]]

(* WatchpointSet::fireAll, a no-op unless the set IsWatched.               *)
FireAll(s) ==
    IF state[s] = "Watched"
    THEN /\ Jettison(watchers[s])
         /\ state' = [state EXCEPT ![s] = "Invalidated"]
         /\ watchers' = [watchers EXCEPT ![s] = {}]
    ELSE UNCHANGED <<codeVars, state, watchers>>

(* WatchpointSet::startWatching.                                           *)
StartWatching(s) ==
    /\ state' = [state EXCEPT ![s] = "Watched"]
    /\ UNCHANGED <<codeVars, watchers>>

(* VariableWatchpointSet::notifyWrite, before the variable is stored to.   *)
NotifyWrite(s, x) ==
    /\ x # 0
    /\ CASE state[s] = "Clear" ->
              StartWatching(s) /\ inferred' = [inferred EXCEPT ![s] = x]
         [] state[s] = "Watched" /\ x # inferred[s] ->
              FireAll(s) /\ inferred' = [inferred EXCEPT ![s] = Null]
         [] OTHER -> UNCHANGED <<codeVars, state, watchers, inferred>>

(* WatchpointSet::touch by a function's entry; the location counts how     *)
(* often it was entered, and stays at 2.                                   *)
Touch(s, x) ==
    /\ x = IF value[s] = 2 THEN 2 ELSE value[s] + 1
    /\ IF state[s] = "Clear" THEN StartWatching(s) ELSE FireAll(s)
    /\ UNCHANGED inferred

(* A write to a watched location.  Bound: once its set is invalidated      *)
(* nobody may rely on a location, and it is left alone.                    *)
Write(s, x) ==
    /\ vmPC[VMOf[s]] = "run"
    /\ state[s] # "Invalidated"
    /\ \/ Kind[s] = "variable" /\ NotifyWrite(s, x)
       \/ Kind[s] = "entry" /\ Touch(s, x)
    /\ value' = [value EXCEPT ![s] = x]
    /\ UNCHANGED <<worklistVars, planVars, threadVars, vmVars>>

-----------------------------------------------------------------------------
(***************************************************************************)
(* Compilation threads: Worklist::runThread.                               *)
(***************************************************************************)

(* Take the first plan of the queue, or wait on m_planEnqueued.            *)
Take(t) ==
    /\ threadPC[t] = "take"
    /\ IF queue = <<>>
       THEN /\ threadPC' = [threadPC EXCEPT ![t] = "asleep"]
            /\ UNCHANGED <<queue, active, threadPlan, unread>>
       ELSE /\ queue' = Tail(queue)
            /\ active' = active + 1
            /\ threadPlan' = [threadPlan EXCEPT ![t] = Head(queue)]
            /\ unread' = [unread EXCEPT ![t] = DependsOn[fnOf[Head(queue)]]]
            /\ threadPC' = [threadPC EXCEPT ![t] = "compile"]
    /\ UNCHANGED <<plans, ready, compiled, planVars, vmVars, codeVars, setVars>>

(* A condition variable may wake its waiter for no reason.                 *)
ThreadWakesSpuriously(t) ==
    /\ threadPC[t] = "asleep"
    /\ threadPC' = [threadPC EXCEPT ![t] = "take"]
    /\ UNCHANGED <<worklistVars, planVars, threadPlan, unread, vmVars,
                   codeVars, setVars>>

(* What the byte-code parser concludes from a set it consults: the         *)
(* inferred value of a variable, when there is one; that a function was    *)
(* entered once, if the set of its entry has not been invalidated.         *)
Assumption(s) ==
    CASE Kind[s] = "variable" /\ inferred[s] # Null -> {inferred[s]}
      [] Kind[s] = "entry" /\ state[s] # "Invalidated" -> {0, 1}
      [] OTHER -> Values

(* The compiler consults one set of the VM that is still running.          *)
Consult(t, s) ==
    /\ threadPC[t] = "compile" /\ s \in unread[t]
    /\ assumed' = [assumed EXCEPT ![threadPlan[t]][s] = Assumption(s)]
    /\ unread' = [unread EXCEPT ![t] = @ \ {s}]
    /\ UNCHANGED <<worklistVars, planVars, threadPC, threadPlan, vmVars,
                   replacement, givenUp, valid, setVars>>

(* The compilation ends with a finalizer that will succeed or fail.        *)
Compile(t) ==
    /\ threadPC[t] = "compile" /\ unread[t] = {}
    /\ \/ built' = built \union {threadPlan[t]}
       \/ built' = built
    /\ threadPC' = [threadPC EXCEPT ![t] = "publish"]
    /\ UNCHANGED <<worklistVars, fnOf, threadPlan, unread, vmVars, codeVars,
                   setVars>>

(* Mutant: m_planCompiled.signal() wakes one of the waiting VMs.           *)
SignalPlanCompiled ==
    LET asleep == {v \in VMs : vmPC[v] = "asleep"}
    IN  IF asleep = {} THEN UNCHANGED vmPC
        ELSE vmPC' = [vmPC EXCEPT ![CHOOSE v \in asleep : TRUE] = "wait"]

(* m_planCompiled.broadcast(): every VM asleep on it tests again.          *)
BroadcastPlanCompiled ==
    vmPC' = [v \in VMs |-> IF vmPC[v] = "asleep" THEN "wait" ELSE vmPC[v]]

(* notifyReady, append to m_readyPlans and broadcast, under the lock.      *)
Publish(t) ==
    /\ threadPC[t] = "publish"
    /\ compiled' = compiled \union {threadPlan[t]}
    /\ ready' = ready \union {threadPlan[t]}
    /\ active' = active - 1
    /\ threadPC' = [threadPC EXCEPT ![t] = "take"]
    /\ threadPlan' = [threadPlan EXCEPT ![t] = 0]
    /\ BroadcastPlanCompiled
    /\ UNCHANGED <<queue, plans, planVars, unread, vmFn, vmMine, codeVars,
                   setVars>>
-----------------------------------------------------------------------------
(***************************************************************************)
(* Tier-up on a VM's thread: operationOptimize.                            *)
(***************************************************************************)

(* Mutant: finalization trusts the compiler's reading of the sets.         *)
IsStillValidUnchecked(n) == TRUE

(* Plan::isStillValid.                                                     *)
IsStillValid(n) ==
    \A s \in WatchSets : assumed[n][s] # Values => state[s] # "Invalidated"

(* Mutant: a plan completed stays in m_plans.                              *)
RemoveAllReadyKeepingKeys(v) ==
    /\ ready' = ready \ PlansOf(v)
    /\ compiled' = compiled \ (ready \intersect PlansOf(v))
    /\ UNCHANGED <<queue, plans, active>>

(* Worklist::removeAllReadyPlansForVM.                                     *)
RemoveAllReadyPlansForVM(v) ==
    /\ ready' = ready \ PlansOf(v)
    /\ plans' = plans \ (ready \intersect PlansOf(v))
    /\ compiled' = compiled \ (ready \intersect PlansOf(v))
    /\ UNCHANGED <<queue, active>>

(* Plan::finalizeWithoutNotifyingCallback, CompilationSuccessful or not.   *)
Succeeds(n) == IsStillValid(n) /\ n \in built

(* CompilationFailed, for which                                            *)
(* setOptimizationThresholdBasedOnCompilationResult gives the function up. *)
Fails(n) == IsStillValid(n) /\ n \notin built

(* DesiredWatchpoints::reallyAdd: does n's code watch s?                   *)
Watches(n, s) == assumed[n][s] # Values

(* Worklist::completeAllReadyPlansForVM: each ready plan that is still     *)
(* valid and was built is finalized, its watchpoints added and its code    *)
(* installed; a failed one is given up on, an invalidated one retried.     *)
CompleteAllReadyPlansForVM(v) ==
    LET mine == ready \intersect PlansOf(v)
        installed == {n \in mine : Succeeds(n)}
    IN  /\ RemoveAllReadyPlansForVM(v)
        /\ replacement' = [f \in Functions |->
               IF \E n \in installed : fnOf[n] = f
               THEN CHOOSE n \in installed : fnOf[n] = f ELSE replacement[f]]
        /\ givenUp' = [f \in Functions |->
               IF \E n \in mine : fnOf[n] = f
               THEN \E n \in mine : fnOf[n] = f /\ Fails(n) ELSE givenUp[f]]
        /\ valid' = valid \union installed
        /\ assumed' = Forget(mine \ installed)
        /\ built' = built \ mine
        /\ watchers' = [s \in WatchSets |->
               watchers[s] \union {n \in installed : Watches(n, s)}]
        /\ state' = [s \in WatchSets |->
               IF \E n \in installed : Watches(n, s) THEN "Watched" ELSE state[s]]
        /\ UNCHANGED <<value, inferred>>

(* Entering the slow path.  checkIfOptimizationThresholdReached holds when *)
(* the plan is compiled, and may hold whenever the function has not been   *)
(* given up on; then whatever is ready is completed, remembering whether   *)
(* it included this function's plan.                                       *)
Optimize(f) ==
    LET v == VMOf[f] IN
    /\ vmPC[v] = "run"
    /\ givenUp[f] => \E n \in compiled : fnOf[n] = f
    /\ CompleteAllReadyPlansForVM(v)
    /\ vmMine' = [vmMine EXCEPT ![v] = \E n \in ready : fnOf[n] = f]
    /\ vmFn' = [vmFn EXCEPT ![v] = f]
    /\ vmPC' = [vmPC EXCEPT ![v] = "decide"]
    /\ UNCHANGED <<fnOf, threadVars>>

Return(v) ==
    /\ vmPC' = [vmPC EXCEPT ![v] = "run"]
    /\ vmFn' = [vmFn EXCEPT ![v] = Null]
    /\ vmMine' = [vmMine EXCEPT ![v] = FALSE]

(* Nothing more: the plan is still being compiled, its compilation did not *)
(* produce code, profiling is insufficient, or control enters the          *)
(* optimized code, now or after another warm-up.                           *)
OptimizeReturns(v) ==
    /\ vmPC[v] = "decide"
    /\ Return(v)
    /\ UNCHANGED <<worklistVars, planVars, threadVars, codeVars, setVars>>

(* The replacement exited too often, or could not be entered too often.    *)
OptimizeJettisons(v) ==
    /\ vmPC[v] = "decide"
    /\ ~Known(vmFn[v]) /\ replacement[vmFn[v]] # 0
    /\ Jettison({replacement[vmFn[v]]})
    /\ Return(v)
    /\ UNCHANGED <<worklistVars, planVars, threadVars, setVars>>

(* DFG::compile with the worklist: create a plan and Worklist::enqueue it, *)
(* waking one compilation thread.                                          *)
OptimizeEnqueues(v) ==
    /\ vmPC[v] = "decide"
    /\ ~vmMine[v] /\ ~Known(vmFn[v]) /\ replacement[vmFn[v]] = 0
    /\ \E n \in Codes :
          /\ fnOf[n] = Null /\ \A m \in 1..(n - 1) : fnOf[m] # Null
          /\ fnOf' = [fnOf EXCEPT ![n] = vmFn[v]]
          /\ plans' = plans \union {n}
          /\ queue' = Append(queue, n)
    /\ LET asleep == {t \in Threads : threadPC[t] = "asleep"}
       IN  IF asleep = {} THEN UNCHANGED threadPC
           ELSE \E t \in asleep : threadPC' = [threadPC EXCEPT ![t] = "take"]
    /\ Return(v)
    /\ UNCHANGED <<ready, active, compiled, built, threadPlan, unread,
                   codeVars, setVars>>

(* triggerReoptimizationNow, from an OSR exit.                             *)
TriggerReoptimization(f) ==
    /\ vmPC[VMOf[f]] = "run" /\ replacement[f] # 0
    /\ Jettison({replacement[f]})
    /\ UNCHANGED <<worklistVars, planVars, threadVars, vmVars, setVars>>
-----------------------------------------------------------------------------
(***************************************************************************)
(* Collection, discarding of code and destruction of a VM.                 *)
(***************************************************************************)

(* Heap::collect and VM::discardAllCode begin with prepareToDiscardCode,   *)
(* ~VM with a wait of its own.  vmMine tells ~VM from the other two.       *)
StartWaiting(v, dying) ==
    /\ vmPC[v] = "run"
    /\ vmPC' = [vmPC EXCEPT ![v] = "wait"]
    /\ vmMine' = [vmMine EXCEPT ![v] = dying]
    /\ UNCHANGED <<worklistVars, planVars, threadVars, vmFn, codeVars, setVars>>

(* Mutant: one plan compiled is taken for all of them.                     *)
SomeAreCompiled(v) ==
    plans \intersect PlansOf(v) # {} => compiled # {}

(* The test of Worklist::waitUntilAllPlansForVMAreReady.                   *)
AllAreCompiled(v) == plans \intersect PlansOf(v) \subseteq compiled

(* Its loop goes back to sleep on m_planCompiled.                          *)
WaitUntilAllPlansForVMAreReady(v) ==
    /\ vmPC[v] = "wait" /\ ~AllAreCompiled(v)
    /\ vmPC' = [vmPC EXCEPT ![v] = "asleep"]
    /\ UNCHANGED <<worklistVars, planVars, threadVars, vmFn, vmMine, codeVars,
                   setVars>>

(* Worklist::completeAllPlansForVM: once the wait is over, complete what   *)
(* was waited for.                                                         *)
CompleteAllPlansForVM(v) ==
    /\ vmPC[v] = "wait" /\ ~vmMine[v] /\ AllAreCompiled(v)
    /\ CompleteAllReadyPlansForVM(v)
    /\ vmPC' = [vmPC EXCEPT ![v] = "collect"]
    /\ UNCHANGED <<fnOf, threadVars, vmFn, vmMine>>

(* Deletion of the code blocks in D: their watchpoints leave their sets.   *)
DeleteCode(D, w) == [s \in WatchSets |-> w[s] \ D]

(* The rest of a collection as far as code goes: code with dead weak       *)
(* references is jettisoned, then code that neither is installed nor may   *)
(* be executing is deleted.                                                *)
CollectCode(v) ==
    /\ vmPC[v] = "collect"
    /\ \E dead, executing \in SUBSET {n \in PlansOf(v) : n \in valid
                                          \/ \E s \in WatchSets : n \in watchers[s]} :
          LET installed == {replacement[f] : f \in Functions} \ dead
          IN  /\ Jettison(dead)
              /\ watchers' = DeleteCode(PlansOf(v) \ (installed \union executing),
                                        watchers)
    /\ vmPC' = [vmPC EXCEPT ![v] = "run"]
    /\ UNCHANGED <<worklistVars, planVars, threadVars, vmFn, vmMine, state, value,
                   inferred>>

(* Heap::deleteAllCompiledCode, from discardAllCode or a collection a      *)
(* minute after the last time: no JavaScript is on the stack, and every    *)
(* function starts over without code.                                      *)
DeleteAllCompiledCode(v) ==
    /\ vmPC[v] = "collect"
    /\ LET clear(g, x) == [f \in Functions |-> IF VMOf[f] = v THEN x ELSE g[f]]
       IN  /\ replacement' = clear(replacement, 0)
           /\ givenUp' = clear(givenUp, FALSE)
    /\ valid' = valid \ PlansOf(v)
    /\ assumed' = Forget(PlansOf(v))
    /\ watchers' = DeleteCode(PlansOf(v), watchers)
    /\ vmPC' = [vmPC EXCEPT ![v] = "run"]
    /\ UNCHANGED <<worklistVars, planVars, threadVars, vmFn, vmMine, state, value,
                   inferred>>

(* ~VM drops its ready plans without installing them; its code, functions  *)
(* and watchpoint sets go with it.                                         *)
DestroyVM(v) ==
    /\ vmPC[v] = "wait" /\ vmMine[v] /\ AllAreCompiled(v)
    /\ RemoveAllReadyPlansForVM(v)
    /\ LET clear(g, x) == [y \in DOMAIN g |-> IF VMOf[y] = v THEN x ELSE g[y]]
       IN  /\ replacement' = clear(replacement, 0)
           /\ givenUp' = clear(givenUp, FALSE)
           /\ state' = clear(state, "Invalidated")
           /\ value' = clear(value, 0)
           /\ inferred' = clear(inferred, Null)
    /\ valid' = valid \ PlansOf(v)
    /\ assumed' = Forget(PlansOf(v))
    /\ watchers' = DeleteCode(PlansOf(v), watchers)
    /\ vmPC' = [vmPC EXCEPT ![v] = "gone"]
    /\ built' = built \ PlansOf(v)
    /\ UNCHANGED <<fnOf, threadVars, vmFn, vmMine>>

VMWakesSpuriously(v) ==
    /\ vmPC[v] = "asleep"
    /\ vmPC' = [vmPC EXCEPT ![v] = "wait"]
    /\ UNCHANGED <<worklistVars, planVars, threadVars, vmFn, vmMine, codeVars,
                   setVars>>

Thread(t) == Take(t) \/ Compile(t) \/ Publish(t) \/ \E s \in WatchSets : Consult(t, s)
Waiter(v) == WaitUntilAllPlansForVMAreReady(v) \/ CompleteAllPlansForVM(v)
             \/ DestroyVM(v)

Next ==
    \/ \E t \in Threads : Thread(t) \/ ThreadWakesSpuriously(t)
    \/ \E s \in WatchSets, x \in Values : Write(s, x)
    \/ \E f \in Functions : Optimize(f) \/ TriggerReoptimization(f)
    \/ \E v \in VMs : \/ OptimizeReturns(v) \/ OptimizeJettisons(v)
                      \/ OptimizeEnqueues(v)
                      \/ Waiter(v) \/ VMWakesSpuriously(v)
                      \/ CollectCode(v) \/ DeleteAllCompiledCode(v)
                      \/ \E dying \in BOOLEAN : StartWaiting(v, dying)

Spec == Init /\ [][Next]_vars

(* Compilation threads run, and a VM that has begun to wait goes on with   *)
(* it (each such step changes threadVars, or vmPC); nothing makes a VM      *)
(* optimize, write, collect or die.                                        *)
FairSpec == /\ Spec
            /\ \A t \in Threads : WF_threadVars(Thread(t))
            /\ \A v \in VMs : WF_vmPC(Waiter(v))
-----------------------------------------------------------------------------
TypeOK ==
    /\ queue \in Seq(Codes) /\ plans \subseteq Codes /\ ready \subseteq Codes
    /\ compiled \subseteq Codes /\ active \in 0..Cardinality(Threads)
    /\ fnOf \in [Codes -> Functions \union {Null}]
    /\ assumed \in [Codes -> [WatchSets -> SUBSET Values]]
    /\ built \subseteq Codes /\ valid \subseteq Codes
    /\ threadPC \in [Threads -> {"take", "asleep", "compile", "publish"}]
    /\ threadPlan \in [Threads -> Codes \union {0}]
    /\ unread \in [Threads -> SUBSET WatchSets]
    /\ vmPC \in [VMs -> {"run", "decide", "wait", "asleep", "collect", "gone"}]
    /\ vmFn \in [VMs -> Functions \union {Null}] /\ vmMine \in [VMs -> BOOLEAN]
    /\ replacement \in [Functions -> Codes \union {0}]
    /\ givenUp \in [Functions -> BOOLEAN]
    /\ state \in [WatchSets -> {"Clear", "Watched", "Invalidated"}]
    /\ watchers \in [WatchSets -> SUBSET Codes]
    /\ value \in [WatchSets -> Values]
    /\ inferred \in [WatchSets -> Values \union {Null}]

(* A plan the worklist knows is in exactly one place: queued, held by one  *)
(* compilation thread, or ready; m_numberOfActiveThreads counts the        *)
(* threads that hold one.  A function has at most one plan, and a function *)
(* with a plan has no optimized replacement: "We cannot be in the process  *)
(* of asynchronous compilation and also have an optimized replacement"     *)
(* (the RELEASE_ASSERTs of operationOptimize and of                        *)
(* setOptimizationThresholdBasedOnCompilationResult).                      *)
WorklistConsistent ==
    /\ TypeOK
    /\ plans = Range(queue) \union ready \union {n \in Codes : Compiling(n)}
    /\ IsInjective(queue) /\ ready = compiled
    /\ Range(queue) \intersect ready = {}
    /\ \A n \in Codes : Compiling(n) =>
          /\ n \notin ready /\ n \notin Range(queue)
          /\ Cardinality({t \in Threads : threadPlan[t] = n}) = 1
    /\ active = Cardinality({t \in Threads : threadPlan[t] # 0})
    /\ \A m, n \in plans : fnOf[m] = fnOf[n] => m = n
    /\ \A n \in plans : replacement[fnOf[n]] = 0

(* Optimized code that can still run without leaving it assumes only what  *)
(* is true: whatever the compilation thread read of a variable or of a     *)
(* function's entry while the program ran, no valid code contradicts it,   *)
(* and installed code is valid (jettison's                                 *)
(* RELEASE_ASSERT(this != replacement())).                                 *)
NoStaleSpeculation ==
    /\ \A f \in Functions : replacement[f] # 0 => replacement[f] \in valid
    /\ \A n \in valid : \A s \in WatchSets : value[s] \in assumed[n][s]

(* When a VM discards code or is gone no plan of it is queued, being       *)
(* compiled or ready, so that no compilation thread reads code blocks that *)
(* are deleted under it.                                                   *)
QuietWhenDiscarding ==
    \A v \in VMs : vmPC[v] \in {"collect", "gone"} =>
        /\ plans \intersect PlansOf(v) = {}
        /\ \A t \in Threads : threadPlan[t] \notin PlansOf(v)

(* A VM that waits for its plans is released, whatever the other VMs on    *)
(* the worklist do: waitUntilAllPlansForVMAreReady always returns.         *)
WaitersReleased ==
    \A v \in VMs : []<>(vmPC[v] \notin {"wait", "asleep"})
=============================================================================
