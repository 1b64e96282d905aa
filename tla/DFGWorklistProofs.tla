------------------------- MODULE DFGWorklistProofs -------------------------
(***************************************************************************)
(* The invariants of DFGWorklist, for any number of virtual machines,      *)
(* compilation threads, functions and watchpoint sets.                     *)
(***************************************************************************)
EXTENDS DFGWorklist, FiniteSetTheorems, TLAPS

(* A plan is in one place, known by its function, and the function has no  *)
(* other code; a thread holds a plan while it compiles.                    *)
PlansInv ==
    /\ plans = Range(queue) \union ready \union {n \in Codes : Compiling(n)}
    /\ IsInjective(queue) /\ ready = compiled
    /\ Range(queue) \intersect ready = {}
    /\ \A t \in Threads : threadPlan[t] # 0 =>
          /\ threadPlan[t] \notin ready /\ threadPlan[t] \notin Range(queue)
          /\ \A u \in Threads : threadPlan[u] = threadPlan[t] => u = t
    /\ \A t \in Threads : threadPlan[t] # 0 <=> threadPC[t] \in {"compile", "publish"}
    /\ active = Cardinality({t \in Threads : threadPlan[t] # 0})
    /\ \A n \in plans : fnOf[n] # Null /\ replacement[fnOf[n]] = 0
    /\ \A m, n \in plans : fnOf[m] = fnOf[n] => m = n
    /\ \A v \in VMs : vmPC[v] = "decide" => vmFn[v] # Null /\ VMOf[vmFn[v]] = v
    /\ \A v \in VMs : vmPC[v] \in {"collect", "gone"} => plans \intersect PlansOf(v) = {}

(* Code is valid if and only if it is installed for its function.          *)
InstalledInv ==
    /\ \A f \in Functions : replacement[f] # 0 => replacement[f] \in valid /\ fnOf[replacement[f]] = f
    /\ \A n \in valid : fnOf[n] # Null /\ replacement[fnOf[n]] = n

(* What a watchpoint set knows of its location.                            *)
SetsInv ==
    \A s \in WatchSets :
        /\ Kind[s] = "variable" =>
              /\ state[s] = "Watched" <=> inferred[s] # Null
              /\ state[s] = "Watched" => inferred[s] = value[s]
        /\ Kind[s] = "entry" =>
              /\ state[s] = "Clear" => value[s] = 0
              /\ state[s] = "Watched" => value[s] \in {0, 1}

(* Code and plans assume something only of sets of their own VM; what they *)
(* assume is true unless the set is invalidated, and valid code watches    *)
(* what it assumes.                                                        *)
AssumedInv ==
    /\ \A t \in Threads : threadPlan[t] # 0 => unread[t] \subseteq DependsOn[fnOf[threadPlan[t]]]
    /\ \A n \in Codes, s \in WatchSets : assumed[n][s] # Values =>
          /\ fnOf[n] # Null /\ VMOf[s] = VMOf[fnOf[n]]
          /\ state[s] # "Invalidated" =>
                /\ value[s] \in assumed[n][s]
                /\ Kind[s] = "variable" => assumed[n][s] = {inferred[s]} /\ state[s] = "Watched"
                /\ Kind[s] = "entry" => assumed[n][s] = {0, 1}
          /\ n \in valid => n \in watchers[s] /\ state[s] = "Watched"

(* The ready plans of v, and those that are installed when it completes    *)
(* them.                                                                   *)
Mine(v) == ready \intersect PlansOf(v)
Installed(v) == {n \in Mine(v) : Succeeds(n)}

IInv == TypeOK /\ PlansInv /\ InstalledInv /\ SetsInv /\ AssumedInv

-----------------------------------------------------------------------------
(* Queues                                                                  *)

(* What a compilation thread leaves in the queue when it takes a plan.     *)
LEMMA TakeFromQueue ==
    ASSUME NEW q \in Seq(Codes), q # <<>>, IsInjective(q)
    PROVE  /\ Head(q) \in Codes /\ Head(q) \in Range(q)
           /\ Tail(q) \in Seq(Codes) /\ IsInjective(Tail(q))
           /\ Range(Tail(q)) = Range(q) \ {Head(q)}
<1>1. Len(q) \in Nat \ {0} /\ DOMAIN q = 1 .. Len(q) /\ 1 \in DOMAIN q /\ Head(q) = q[1]
  BY SMTT(30)
<1>2. Tail(q) \in Seq(Codes) /\ DOMAIN Tail(q) = 1 .. (Len(q) - 1)
      /\ \A i \in DOMAIN Tail(q) : i + 1 \in DOMAIN q /\ Tail(q)[i] = q[i + 1]
  BY <1>1, SMTT(30)
<1>3. \A i, j \in DOMAIN q : q[i] = q[j] => i = j
  BY Zenon DEF IsInjective
<1>4. Head(q) \in Codes /\ Head(q) \in Range(q)
  BY <1>1, SMTT(30) DEF Range
<1>5. IsInjective(Tail(q))
  BY <1>1, <1>2, <1>3, SMTT(30) DEF IsInjective
<1>6. ASSUME NEW x \in Range(Tail(q)) PROVE x \in Range(q) \ {Head(q)}
  <2>1. PICK i \in DOMAIN Tail(q) : x = Tail(q)[i]
    BY <1>6, Zenon DEF Range
  <2>2. x = q[i + 1] /\ i + 1 \in DOMAIN q /\ i + 1 # 1
    BY <1>1, <1>2, <2>1, SMTT(30)
  <2> QED BY <1>1, <1>3, <2>2, Zenon DEF Range
<1>7. ASSUME NEW x \in Range(q) \ {Head(q)} PROVE x \in Range(Tail(q))
  <2>1. PICK i \in DOMAIN q : x = q[i] /\ i # 1
    BY <1>1, <1>7, Zenon DEF Range
  <2>2. i - 1 \in DOMAIN Tail(q) /\ Tail(q)[i - 1] = q[i]
    BY <1>1, <1>2, <2>1, SMTT(30)
  <2> QED BY <2>1, <2>2, Zenon DEF Range
<1> QED BY <1>2, <1>4, <1>5, <1>6, <1>7, Zenon

(* A plan that is new to the queue is enqueued.                            *)
LEMMA AppendToQueue ==
    ASSUME NEW q \in Seq(Codes), NEW n \in Codes, n \notin Range(q), IsInjective(q)
    PROVE  /\ Append(q, n) \in Seq(Codes) /\ IsInjective(Append(q, n))
           /\ Range(Append(q, n)) = Range(q) \union {n}
<1> DEFINE r == Append(q, n)
<1>1. /\ Len(q) \in Nat /\ DOMAIN q = 1 .. Len(q) /\ r \in Seq(Codes)
      /\ DOMAIN r = 1 .. (Len(q) + 1) /\ r[Len(q) + 1] = n
      /\ \A i \in DOMAIN q : i \in DOMAIN r /\ r[i] = q[i]
  BY SMTT(30)
<1>2. \A i \in DOMAIN r : i = Len(q) + 1 \/ i \in DOMAIN q
  BY <1>1, SMTT(30)
<1>3. \A i \in DOMAIN q : q[i] # n
  BY Zenon DEF Range
<1> HIDE DEF r
<1>4. IsInjective(r)
  BY <1>1, <1>2, <1>3, Zenon DEF IsInjective
<1>5. Len(q) + 1 \in DOMAIN r
  BY <1>1, SMTT(30)
<1>6. Range(r) = Range(q) \union {n}
  BY <1>1, <1>2, <1>5, Zenon DEF Range
<1> QED BY <1>1, <1>4, <1>6, Zenon DEF r

-----------------------------------------------------------------------------
(* Types                                                                   *)

(* Plans are numbered from 1.                                              *)
LEMMA CodesFacts == 0 \notin Codes /\ Codes \subseteq Nat /\ 0 \in Values /\ Values \subseteq Nat
BY DFGAssumption, SMTT(30) DEF Codes

(* What an invalidated code assumed is forgotten.                          *)
LEMMA ForgetFacts ==
    ASSUME TypeOK, NEW N
    PROVE  /\ Forget(N) \in [Codes -> [WatchSets -> SUBSET Values]]
           /\ \A n \in Codes, s \in WatchSets :
                 Forget(N)[n][s] = IF n \in N THEN Values ELSE assumed[n][s]
BY Zenon DEF TypeOK, Forget

(* CodeBlock::jettison of the codes in N.                                  *)
LEMMA JettisonFacts ==
    ASSUME TypeOK, NEW N, Jettison(N)
    PROVE  /\ valid' \subseteq Codes /\ valid' = valid \ N
           /\ assumed' \in [Codes -> [WatchSets -> SUBSET Values]]
           /\ \A n \in Codes, s \in WatchSets :
                 assumed'[n][s] = IF n \in N THEN Values ELSE assumed[n][s]
           /\ replacement' \in [Functions -> Codes \union {0}]
           /\ \A f \in Functions : replacement'[f] = IF replacement[f] \in N THEN 0 ELSE replacement[f]
           /\ givenUp' \in [Functions -> BOOLEAN]
<1>1. assumed' = Forget(N) /\ valid' = valid \ N
  BY Zenon DEF Jettison
<1>2. replacement' \in [Functions -> Codes \union {0}] /\ givenUp' \in [Functions -> BOOLEAN]
  BY Zenon DEF Jettison, TypeOK
<1>3. \A f \in Functions : replacement'[f] = IF replacement[f] \in N THEN 0 ELSE replacement[f]
  BY Zenon DEF Jettison
<1> QED BY <1>1, <1>2, <1>3, ForgetFacts, SMTT(30) DEF TypeOK

(* WatchpointSet::fireAll jettisons those that watch the set, if any.      *)
LEMMA FireAllFacts ==
    ASSUME TypeOK, NEW s \in WatchSets, FireAll(s)
    PROVE  /\ valid' \subseteq Codes
           /\ assumed' \in [Codes -> [WatchSets -> SUBSET Values]]
           /\ replacement' \in [Functions -> Codes \union {0}]
           /\ givenUp' \in [Functions -> BOOLEAN]
           /\ state' \in [WatchSets -> {"Clear", "Watched", "Invalidated"}]
           /\ watchers' \in [WatchSets -> SUBSET Codes]
<1>1. CASE state[s] = "Watched"
  <2>1. /\ Jettison(watchers[s]) /\ watchers' = [watchers EXCEPT ![s] = {}]
        /\ state' = [state EXCEPT ![s] = "Invalidated"]
    BY <1>1, Zenon DEF FireAll
  <2>2. /\ state' \in [WatchSets -> {"Clear", "Watched", "Invalidated"}]
        /\ watchers' \in [WatchSets -> SUBSET Codes]
    BY <2>1, Zenon DEF TypeOK
  <2> QED BY <2>1, <2>2, JettisonFacts, Zenon
<1>2. CASE state[s] # "Watched"
  BY <1>2, Zenon DEF FireAll, TypeOK, codeVars
<1> QED BY <1>1, <1>2, Zenon

(* What a slow path that completes the ready plans of v does to them.      *)
LEMMA CompleteFacts ==
    ASSUME TypeOK, NEW v \in VMs, CompleteAllReadyPlansForVM(v)
    PROVE  /\ queue' = queue /\ active' = active /\ value' = value /\ inferred' = inferred
           /\ ready' = ready \ Mine(v) /\ plans' = plans \ Mine(v) /\ compiled' = compiled \ Mine(v)
           /\ built' = built \ Mine(v)
           /\ valid' = valid \union Installed(v)
           /\ assumed' \in [Codes -> [WatchSets -> SUBSET Values]]
           /\ \A n \in Codes, s \in WatchSets :
                 assumed'[n][s] = IF n \in Mine(v) \ Installed(v) THEN Values ELSE assumed[n][s]
           /\ replacement' \in [Functions -> Codes \union {0}]
           /\ \A f \in Functions :
                 \/ \E n \in Installed(v) : fnOf[n] = f /\ replacement'[f] = n
                 \/ (\A n \in Installed(v) : fnOf[n] # f) /\ replacement'[f] = replacement[f]
           /\ givenUp' \in [Functions -> BOOLEAN]
           /\ watchers' \in [WatchSets -> SUBSET Codes]
           /\ \A s \in WatchSets :
                 watchers'[s] = watchers[s] \union {n \in Installed(v) : assumed[n][s] # Values}
           /\ state' \in [WatchSets -> {"Clear", "Watched", "Invalidated"}]
           /\ \A s \in WatchSets :
                 state'[s] = IF \E n \in Installed(v) : assumed[n][s] # Values
                             THEN "Watched" ELSE state[s]
<1>1. Mine(v) \subseteq Codes /\ Installed(v) \subseteq Mine(v)
  BY Zenon DEF TypeOK, Mine, Installed
<1>2. /\ queue' = queue /\ active' = active /\ value' = value /\ inferred' = inferred
      /\ ready' = ready \ Mine(v) /\ plans' = plans \ Mine(v) /\ compiled' = compiled \ Mine(v)
  BY Zenon DEF CompleteAllReadyPlansForVM, RemoveAllReadyPlansForVM, Mine
<1>3. built' = built \ Mine(v) /\ valid' = valid \union Installed(v) /\ assumed' = Forget(Mine(v) \ Installed(v))
  BY Zenon DEF CompleteAllReadyPlansForVM, Mine, Installed
<1>4. replacement' = [f \in Functions |->
               IF \E n \in Installed(v) : fnOf[n] = f
               THEN CHOOSE n \in Installed(v) : fnOf[n] = f ELSE replacement[f]]
  BY Zenon DEF CompleteAllReadyPlansForVM, Mine, Installed
<1>5. ASSUME NEW f \in Functions
      PROVE  \/ \E n \in Installed(v) : fnOf[n] = f /\ replacement'[f] = n
             \/ (\A n \in Installed(v) : fnOf[n] # f) /\ replacement'[f] = replacement[f]
  BY <1>4, Zenon
<1>6. replacement' \in [Functions -> Codes \union {0}]
  BY <1>1, <1>4, <1>5, Zenon DEF TypeOK
<1>7. givenUp' \in [Functions -> BOOLEAN]
  <2>1. givenUp' = [f \in Functions |->
               IF \E n \in Mine(v) : fnOf[n] = f
               THEN \E n \in Mine(v) : fnOf[n] = f /\ Fails(n) ELSE givenUp[f]]
    BY Zenon DEF CompleteAllReadyPlansForVM, Mine, Installed
  <2>2. givenUp \in [Functions -> BOOLEAN]
    BY Zenon DEF TypeOK
  <2> QED BY <2>1, <2>2, Zenon
<1>8. /\ watchers' = [s \in WatchSets |-> watchers[s] \union {n \in Installed(v) : assumed[n][s] # Values}]
      /\ state' = [s \in WatchSets |->
            IF \E n \in Installed(v) : assumed[n][s] # Values THEN "Watched" ELSE state[s]]
  BY Zenon DEF CompleteAllReadyPlansForVM, Watches, Mine, Installed
<1>9. /\ watchers' \in [WatchSets -> SUBSET Codes]
      /\ state' \in [WatchSets -> {"Clear", "Watched", "Invalidated"}]
  BY <1>1, <1>8, Zenon DEF TypeOK
<1> QED BY <1>2, <1>3, <1>5, <1>6, <1>7, <1>8, <1>9, ForgetFacts, SMTT(30)

(* Compilation threads keep the types.                                     *)
LEMMA ThreadsTyped ==
    ASSUME TypeOK, PlansInv, NEW t \in Threads, Thread(t) \/ ThreadWakesSpuriously(t)
    PROVE  TypeOK'
<1> USE DEF planVars, vmVars, codeVars, setVars, worklistVars
<1>1. CASE ThreadWakesSpuriously(t)
  BY <1>1, Zenon DEF ThreadWakesSpuriously, TypeOK
<1>2. CASE Take(t)
  <2>1. CASE queue = <<>>
    BY <1>2, <2>1, Zenon DEF Take, TypeOK
  <2>2. CASE queue # <<>>
    <3>1. /\ Head(queue) \in Codes /\ Head(queue) \in Range(queue) /\ Tail(queue) \in Seq(Codes)
      BY <2>2, TakeFromQueue, Zenon DEF TypeOK, PlansInv
    <3>2. fnOf[Head(queue)] \in Functions
      BY <3>1, SMTT(30) DEF TypeOK, PlansInv
    <3>3. DependsOn[fnOf[Head(queue)]] \in SUBSET WatchSets
      BY <3>2, DFGAssumption, Zenon
    <3>4. threadPlan[t] = 0
      BY <1>2, Zenon DEF Take, PlansInv
    <3>5. active' \in 0 .. Cardinality(Threads)
      <4> DEFINE S == {u \in Threads : threadPlan[u] # 0}
      <4>1. IsFiniteSet(Threads) /\ S \subseteq Threads /\ S # Threads
        BY <3>4, DFGAssumption, Zenon
      <4>2. IsFiniteSet(S) /\ Cardinality(S) <= Cardinality(Threads) /\ Cardinality(S) # Cardinality(Threads)
        BY <4>1, FS_Subset, Zenon
      <4>3. Cardinality(S) \in Nat /\ Cardinality(Threads) \in Nat
        BY <4>1, <4>2, FS_CardinalityType, Zenon
      <4>4. active = Cardinality(S) /\ active' = active + 1
        BY <1>2, <2>2, Zenon DEF PlansInv, Take
      <4> HIDE DEF S
      <4> QED BY <4>2, <4>3, <4>4, SMTT(30)
    <3> QED BY <1>2, <2>2, <3>1, <3>3, <3>5, ZenonT(40) DEF Take, TypeOK
  <2> QED BY <2>1, <2>2, Zenon
<1>3. CASE Compile(t)
  <2>1. threadPlan[t] \in Codes
    BY <1>3, SMTT(30) DEF Compile, TypeOK, PlansInv
  <2> QED BY <1>3, <2>1, Zenon DEF Compile, TypeOK
<1>4. CASE Publish(t)
  <2>1. threadPlan[t] \in Codes /\ threadPlan[t] # 0
    BY <1>4, CodesFacts, SMTT(30) DEF Publish, TypeOK, PlansInv
  <2>2. active' \in 0 .. Cardinality(Threads)
    <3> DEFINE S == {u \in Threads : threadPlan[u] # 0}
    <3>1. IsFiniteSet(S) /\ S # {}
      BY <2>1, DFGAssumption, FS_Subset, Zenon
    <3>2. Cardinality(S) \in Nat \ {0}
      BY <3>1, FS_CardinalityType, FS_EmptySet, Zenon
    <3>3. active = Cardinality(S) /\ active' = active - 1 /\ active \in 0 .. Cardinality(Threads)
      BY <1>4, Zenon DEF PlansInv, Publish, TypeOK
    <3>4. Cardinality(Threads) \in Nat
      BY DFGAssumption, FS_CardinalityType, Zenon
    <3> HIDE DEF S
    <3> QED BY <3>2, <3>3, <3>4, SMTT(30)
  <2>3. vmPC' \in [VMs -> {"run", "decide", "wait", "asleep", "collect", "gone"}]
    BY <1>4, Zenon DEF Publish, BroadcastPlanCompiled, TypeOK
  <2> QED BY <1>4, <2>1, <2>2, <2>3, Zenon DEF Publish, TypeOK
<1>5. ASSUME NEW s \in WatchSets, Consult(t, s) PROVE TypeOK'
  <2>1. threadPlan[t] \in Codes
    BY <1>5, SMTT(30) DEF Consult, TypeOK, PlansInv
  <2>2. Assumption(s) \in SUBSET Values
    <3>1. inferred[s] # Null => inferred[s] \in Values
      BY Zenon DEF TypeOK
    <3>2. Kind[s] = "entry" => {0, 1} \subseteq Values
      BY DFGAssumption, SMTT(30)
    <3> QED BY <3>1, <3>2, Zenon DEF Assumption
  <2>3. assumed' \in [Codes -> [WatchSets -> SUBSET Values]]
    BY <1>5, <2>1, <2>2, Zenon DEF Consult, TypeOK
  <2>4. unread' \in [Threads -> SUBSET WatchSets]
    BY <1>5, Zenon DEF Consult, TypeOK
  <2> QED BY <1>5, <2>3, <2>4, ZenonT(40) DEF Consult, TypeOK
<1> QED BY <1>1, <1>2, <1>3, <1>4, <1>5, Zenon DEF Thread

(* The slow paths that complete plans, jettison code or enqueue a plan do. *)
LEMMA TierUpTyped ==
    ASSUME TypeOK, PlansInv,
           \/ \E f \in Functions : Optimize(f) \/ TriggerReoptimization(f)
           \/ \E v \in VMs : OptimizeReturns(v) \/ OptimizeJettisons(v) \/ OptimizeEnqueues(v)
    PROVE  TypeOK'
<1> USE DEF planVars, vmVars, codeVars, setVars, worklistVars, threadVars
<1>1. ASSUME NEW f \in Functions, Optimize(f) PROVE TypeOK'
  <2>1. VMOf[f] \in VMs
    BY DFGAssumption, Zenon
  <2>2. CompleteAllReadyPlansForVM(VMOf[f])
    BY <1>1, Zenon DEF Optimize
  <2>3. /\ ready' \subseteq ready /\ plans' \subseteq plans /\ compiled' \subseteq compiled
        /\ queue' = queue /\ active' = active /\ value' = value /\ inferred' = inferred
        /\ built' \subseteq built /\ valid' \subseteq Codes
        /\ assumed' \in [Codes -> [WatchSets -> SUBSET Values]]
        /\ replacement' \in [Functions -> Codes \union {0}]
        /\ givenUp' \in [Functions -> BOOLEAN]
        /\ watchers' \in [WatchSets -> SUBSET Codes]
        /\ state' \in [WatchSets -> {"Clear", "Watched", "Invalidated"}]
    <3>1. Installed(VMOf[f]) \subseteq Codes /\ valid \subseteq Codes
      BY Zenon DEF TypeOK, Mine, Installed
    <3> QED BY <2>1, <2>2, <3>1, CompleteFacts, SMTT(30)
  <2>4. /\ vmMine' \in [VMs -> BOOLEAN] /\ vmFn' \in [VMs -> Functions \union {Null}]
        /\ vmPC' \in [VMs -> {"run", "decide", "wait", "asleep", "collect", "gone"}]
    BY <1>1, <2>1, Zenon DEF Optimize, TypeOK
  <2> QED BY <1>1, <2>3, <2>4, Zenon DEF Optimize, TypeOK
<1>2. ASSUME NEW f \in Functions, TriggerReoptimization(f) PROVE TypeOK'
  <2>1. Jettison({replacement[f]})
    BY <1>2, Zenon DEF TriggerReoptimization
  <2>2. /\ valid' \subseteq Codes
        /\ assumed' \in [Codes -> [WatchSets -> SUBSET Values]]
        /\ replacement' \in [Functions -> Codes \union {0}]
        /\ givenUp' \in [Functions -> BOOLEAN]
    BY <2>1, JettisonFacts, Zenon
  <2> QED BY <1>2, <2>2, Zenon DEF TriggerReoptimization, TypeOK
<1>3. ASSUME NEW v \in VMs, Return(v)
      PROVE  /\ vmMine' \in [VMs -> BOOLEAN] /\ vmFn' \in [VMs -> Functions \union {Null}]
             /\ vmPC' \in [VMs -> {"run", "decide", "wait", "asleep", "collect", "gone"}]
  BY <1>3, Zenon DEF Return, TypeOK
<1>4. ASSUME NEW v \in VMs, OptimizeReturns(v) PROVE TypeOK'
  BY <1>3, <1>4, Zenon DEF OptimizeReturns, TypeOK
<1>5. ASSUME NEW v \in VMs, OptimizeJettisons(v) PROVE TypeOK'
  <2>1. Jettison({replacement[vmFn[v]]})
    BY <1>5, Zenon DEF OptimizeJettisons
  <2>2. /\ valid' \subseteq Codes
        /\ assumed' \in [Codes -> [WatchSets -> SUBSET Values]]
        /\ replacement' \in [Functions -> Codes \union {0}]
        /\ givenUp' \in [Functions -> BOOLEAN]
    BY <2>1, JettisonFacts, ZenonT(40)
  <2> QED BY <1>3, <1>5, <2>2, Zenon DEF OptimizeJettisons, TypeOK
<1>6. ASSUME NEW v \in VMs, OptimizeEnqueues(v) PROVE TypeOK'
  <2>1. PICK n \in Codes : /\ fnOf' = [fnOf EXCEPT ![n] = vmFn[v]] /\ plans' = plans \union {n}
                           /\ queue' = Append(queue, n)
    BY <1>6, Zenon DEF OptimizeEnqueues
  <2>2. queue' \in Seq(Codes) /\ plans' \subseteq Codes /\ fnOf' \in [Codes -> Functions \union {Null}]
    BY <2>1, SMTT(30) DEF TypeOK
  <2>3. threadPC' \in [Threads -> {"take", "asleep", "compile", "publish"}]
    <3>1. threadPC' = threadPC \/ \E t \in Threads : threadPC' = [threadPC EXCEPT ![t] = "take"]
      BY <1>6, Zenon DEF OptimizeEnqueues
    <3> QED BY <3>1, Zenon DEF TypeOK
  <2> QED BY <1>3, <1>6, <2>2, <2>3, SMTT(30) DEF OptimizeEnqueues, TypeOK
<1> QED BY <1>1, <1>2, <1>4, <1>5, <1>6, Zenon

(* A write does, which may fire a watchpoint set.                          *)
LEMMA WriteTyped ==
    ASSUME TypeOK, NEW s \in WatchSets, NEW x \in Values, Write(s, x)
    PROVE  TypeOK'
<1> USE DEF planVars, vmVars, codeVars, worklistVars, threadVars
<1>1. value' \in [WatchSets -> Values]
  BY Zenon DEF Write, TypeOK
<1>2. ASSUME StartWatching(s)
      PROVE  /\ state' \in [WatchSets -> {"Clear", "Watched", "Invalidated"}]
             /\ UNCHANGED <<codeVars, watchers>>
  BY <1>2, Zenon DEF StartWatching, TypeOK
<1>3. /\ valid' \subseteq Codes
      /\ assumed' \in [Codes -> [WatchSets -> SUBSET Values]]
      /\ replacement' \in [Functions -> Codes \union {0}]
      /\ givenUp' \in [Functions -> BOOLEAN]
      /\ state' \in [WatchSets -> {"Clear", "Watched", "Invalidated"}]
      /\ watchers' \in [WatchSets -> SUBSET Codes]
  <2>1. StartWatching(s) \/ FireAll(s) \/ UNCHANGED <<codeVars, state, watchers>>
    BY Zenon DEF Write, NotifyWrite, Touch
  <2>2. CASE StartWatching(s)
    BY <1>2, <2>2, SMTT(30) DEF TypeOK
  <2>3. CASE FireAll(s)
    BY <2>3, FireAllFacts, Zenon
  <2>4. CASE UNCHANGED <<codeVars, state, watchers>>
    BY <2>4, Zenon DEF TypeOK
  <2> QED BY <2>1, <2>2, <2>3, <2>4, Zenon
<1>4. inferred' \in [WatchSets -> Values \union {Null}]
  <2>1. inferred' = inferred \/ inferred' = [inferred EXCEPT ![s] = x] \/ inferred' = [inferred EXCEPT ![s] = Null]
    BY Zenon DEF Write, NotifyWrite, Touch
  <2> QED BY <2>1, ZenonT(40) DEF TypeOK
<1> QED BY <1>1, <1>3, <1>4, Zenon DEF Write, TypeOK

(* So do waiting, collecting, discarding code and destroying a VM.         *)
LEMMA DiscardingTyped ==
    ASSUME TypeOK, NEW v \in VMs,
           \/ Waiter(v) \/ VMWakesSpuriously(v) \/ CollectCode(v) \/ DeleteAllCompiledCode(v)
           \/ \E dying \in BOOLEAN : StartWaiting(v, dying)
    PROVE  TypeOK'
<1> USE DEF planVars, vmVars, codeVars, setVars, worklistVars, threadVars
<1>1. CASE VMWakesSpuriously(v) \/ WaitUntilAllPlansForVMAreReady(v)
  BY <1>1, Zenon DEF VMWakesSpuriously, WaitUntilAllPlansForVMAreReady, TypeOK
<1>2. CASE \E dying \in BOOLEAN : StartWaiting(v, dying)
  BY <1>2, SMTT(30) DEF StartWaiting, TypeOK
<1>3. CASE CompleteAllPlansForVM(v)
  <2>1. CompleteAllReadyPlansForVM(v)
    BY <1>3, Zenon DEF CompleteAllPlansForVM
  <2>2. /\ ready' \subseteq ready /\ plans' \subseteq plans /\ compiled' \subseteq compiled
        /\ queue' = queue /\ active' = active /\ value' = value /\ inferred' = inferred
        /\ built' \subseteq built /\ valid' \subseteq Codes
        /\ assumed' \in [Codes -> [WatchSets -> SUBSET Values]]
        /\ replacement' \in [Functions -> Codes \union {0}]
        /\ givenUp' \in [Functions -> BOOLEAN]
        /\ watchers' \in [WatchSets -> SUBSET Codes]
        /\ state' \in [WatchSets -> {"Clear", "Watched", "Invalidated"}]
    <3>1. Installed(v) \subseteq Codes /\ valid \subseteq Codes
      BY Zenon DEF TypeOK, Mine, Installed
    <3> QED BY <2>1, <3>1, CompleteFacts, SMTT(30)
  <2>3. vmPC' \in [VMs -> {"run", "decide", "wait", "asleep", "collect", "gone"}]
    BY <1>3, Zenon DEF CompleteAllPlansForVM, TypeOK
  <2> QED BY <1>3, <2>2, <2>3, Zenon DEF CompleteAllPlansForVM, TypeOK
<1>4. CASE CollectCode(v)
  <2>1. PICK dead, D \in SUBSET Codes :
           Jettison(dead) /\ watchers' = DeleteCode(D, watchers)
    <3>1. PICK dead \in SUBSET {n \in PlansOf(v) : n \in valid \/ \E s \in WatchSets : n \in watchers[s]},
               executing \in SUBSET {n \in PlansOf(v) : n \in valid \/ \E s \in WatchSets : n \in watchers[s]} :
             /\ Jettison(dead)
             /\ watchers' = DeleteCode(PlansOf(v) \ (({replacement[f] : f \in Functions} \ dead)
                                                      \union executing), watchers)
      BY <1>4, Zenon DEF CollectCode
    <3>2. PlansOf(v) \subseteq Codes
      BY Zenon DEF PlansOf
    <3>3. dead \in SUBSET Codes
          /\ PlansOf(v) \ (({replacement[f] : f \in Functions} \ dead) \union executing) \in SUBSET Codes
      BY <3>1, <3>2, Zenon
    <3> QED BY <3>1, <3>3, Zenon
  <2>2. watchers' \in [WatchSets -> SUBSET Codes]
    BY <2>1, Zenon DEF DeleteCode, TypeOK
  <2>3. /\ valid' \subseteq Codes
        /\ assumed' \in [Codes -> [WatchSets -> SUBSET Values]]
        /\ replacement' \in [Functions -> Codes \union {0}]
        /\ givenUp' \in [Functions -> BOOLEAN]
    BY <2>1, JettisonFacts, Zenon
  <2>4. vmPC' \in [VMs -> {"run", "decide", "wait", "asleep", "collect", "gone"}]
    BY <1>4, Zenon DEF CollectCode, TypeOK
  <2> QED BY <1>4, <2>2, <2>3, <2>4, Zenon DEF CollectCode, TypeOK
<1>5. ASSUME watchers' = DeleteCode(PlansOf(v), watchers), assumed' = Forget(PlansOf(v)),
             valid' = valid \ PlansOf(v)
      PROVE  /\ watchers' \in [WatchSets -> SUBSET Codes] /\ valid' \subseteq Codes
             /\ assumed' \in [Codes -> [WatchSets -> SUBSET Values]]
  BY <1>5, ForgetFacts, ZenonT(40) DEF DeleteCode, TypeOK
<1>6. CASE DeleteAllCompiledCode(v)
  <2>1. /\ replacement' = [f \in Functions |-> IF VMOf[f] = v THEN 0 ELSE replacement[f]]
        /\ givenUp' = [f \in Functions |-> IF VMOf[f] = v THEN FALSE ELSE givenUp[f]]
    BY <1>6, Zenon DEF DeleteAllCompiledCode
  <2>2. replacement' \in [Functions -> Codes \union {0}] /\ givenUp' \in [Functions -> BOOLEAN]
    BY <2>1, Zenon DEF TypeOK
  <2>3. vmPC' \in [VMs -> {"run", "decide", "wait", "asleep", "collect", "gone"}]
    BY <1>6, Zenon DEF DeleteAllCompiledCode, TypeOK
  <2>4. /\ watchers' \in [WatchSets -> SUBSET Codes] /\ valid' \subseteq Codes
        /\ assumed' \in [Codes -> [WatchSets -> SUBSET Values]]
    BY <1>5, <1>6, Zenon DEF DeleteAllCompiledCode
  <2> QED BY <1>6, <2>2, <2>3, <2>4, ZenonT(40) DEF DeleteAllCompiledCode, TypeOK
<1>7. CASE DestroyVM(v)
  <2>1. /\ replacement' = [f \in Functions |-> IF VMOf[f] = v THEN 0 ELSE replacement[f]]
        /\ givenUp' = [f \in Functions |-> IF VMOf[f] = v THEN FALSE ELSE givenUp[f]]
        /\ state' = [s \in WatchSets |-> IF VMOf[s] = v THEN "Invalidated" ELSE state[s]]
        /\ value' = [s \in WatchSets |-> IF VMOf[s] = v THEN 0 ELSE value[s]]
        /\ inferred' = [s \in WatchSets |-> IF VMOf[s] = v THEN Null ELSE inferred[s]]
    BY <1>7, Zenon DEF DestroyVM, TypeOK
  <2>2. /\ replacement' \in [Functions -> Codes \union {0}] /\ givenUp' \in [Functions -> BOOLEAN]
        /\ state' \in [WatchSets -> {"Clear", "Watched", "Invalidated"}]
        /\ value' \in [WatchSets -> Values] /\ inferred' \in [WatchSets -> Values \union {Null}]
    BY <2>1, DFGAssumption, Zenon DEF TypeOK
  <2>3. vmPC' \in [VMs -> {"run", "decide", "wait", "asleep", "collect", "gone"}]
    BY <1>7, Zenon DEF DestroyVM, TypeOK
  <2>4. /\ watchers' \in [WatchSets -> SUBSET Codes] /\ valid' \subseteq Codes
        /\ assumed' \in [Codes -> [WatchSets -> SUBSET Values]]
    BY <1>5, <1>7, Zenon DEF DestroyVM
  <2>5. /\ ready' \subseteq ready /\ plans' \subseteq plans /\ compiled' \subseteq compiled
        /\ queue' = queue /\ active' = active /\ built' \subseteq built
    BY <1>7, Zenon DEF DestroyVM, RemoveAllReadyPlansForVM
  <2> QED BY <1>7, <2>2, <2>3, <2>4, <2>5, ZenonT(40) DEF DestroyVM, TypeOK
<1> QED BY <1>1, <1>2, <1>3, <1>4, <1>6, <1>7, Zenon DEF Waiter

(* Every step keeps the types.                                             *)
LEMMA TypeStep == ASSUME TypeOK, PlansInv, [Next]_vars PROVE TypeOK'
<1>1. CASE UNCHANGED vars
  BY <1>1, Zenon DEF vars, planVars, vmVars, codeVars, setVars, worklistVars, threadVars, TypeOK
<1>2. CASE Next
  BY <1>2, ThreadsTyped, TierUpTyped, WriteTyped, DiscardingTyped, ZenonT(40) DEF Next
<1> QED BY <1>1, <1>2, Zenon

-----------------------------------------------------------------------------
(* Plans                                                                   *)

(* A step that moves no plan, installs no code, and lets no VM begin to    *)
(* decide or to discard its code.                                          *)
LEMMA PlansKept ==
    ASSUME TypeOK, PlansInv, UNCHANGED <<plans, queue, ready, compiled, threadPlan, active, fnOf>>,
           \A t \in Threads : threadPC'[t] \in {"compile", "publish"} <=> threadPC[t] \in {"compile", "publish"},
           \A f \in Functions : replacement[f] = 0 => replacement'[f] = 0,
           \A v \in VMs : vmPC'[v] = "decide" => vmPC[v] = "decide" /\ vmFn'[v] = vmFn[v],
           \A v \in VMs : vmPC'[v] \in {"collect", "gone"} => vmPC[v] \in {"collect", "gone"}
    PROVE  PlansInv'
<1>1. \A n \in plans : fnOf[n] \in Functions
  BY SMTT(30) DEF PlansInv, TypeOK
<1>2. \A v \in VMs : PlansOf(v)' = PlansOf(v)
  BY Zenon DEF PlansOf
<1>3. \A n : Compiling(n)' = Compiling(n)
  BY Zenon DEF Compiling
<1> QED BY <1>1, <1>2, <1>3, SMTT(30) DEF PlansInv

(* A step that takes the ready plans of v from the worklist, and installs  *)
(* code only for their functions.                                          *)
LEMMA PlansRemoved ==
    ASSUME TypeOK, PlansInv, NEW v \in VMs, UNCHANGED <<queue, threadPC, threadPlan, active, fnOf>>,
           plans' = plans \ Mine(v), ready' = ready \ Mine(v), compiled' = compiled \ Mine(v),
           \A f \in Functions : \/ replacement'[f] \in {0, replacement[f]}
                                \/ \E n \in Mine(v) : fnOf[n] = f,
           \A w \in VMs : vmPC'[w] = "decide" => vmFn'[w] # Null /\ VMOf[vmFn'[w]] = w,
           \A w \in VMs : vmPC'[w] \in {"collect", "gone"} =>
               vmPC[w] \in {"collect", "gone"} \/ (w = v /\ AllAreCompiled(v))
    PROVE  PlansInv'
<1>1. \A n \in plans : fnOf[n] \in Functions
  BY SMTT(30) DEF PlansInv, TypeOK
<1>2. \A w \in VMs : PlansOf(w)' = PlansOf(w)
  BY Zenon DEF PlansOf
<1>3. \A n : Compiling(n)' = Compiling(n)
  BY Zenon DEF Compiling
<1>4. Mine(v) \subseteq ready /\ ready \subseteq plans /\ Mine(v) \intersect Range(queue) = {}
      /\ \A n \in Mine(v) : ~Compiling(n)
  <2>1. Mine(v) \subseteq ready /\ ready \subseteq plans /\ Mine(v) \intersect Range(queue) = {}
    BY Zenon DEF Mine, PlansInv
  <2>2. ASSUME NEW n \in Mine(v), NEW t \in Threads, threadPlan[t] = n PROVE FALSE
    <3>1. n # 0
      BY CodesFacts, Zenon DEF Mine, PlansOf
    <3> QED BY <2>1, <2>2, <3>1, Zenon DEF PlansInv
  <2> QED BY <2>1, <2>2, Zenon DEF Compiling
<1>5. /\ plans' = (Range(queue) \union ready \union {n \in Codes : Compiling(n)})'
      /\ (Range(queue) \intersect ready = {})' /\ ready' = compiled' /\ IsInjective(queue)'
  BY <1>3, <1>4, Zenon DEF PlansInv
<1>6. ASSUME NEW n \in plans' PROVE fnOf'[n] # Null /\ replacement'[fnOf'[n]] = 0
  <2>1. n \in plans /\ n \notin Mine(v) /\ fnOf[n] \in Functions /\ fnOf[n] # Null /\ replacement[fnOf[n]] = 0
    BY <1>1, Zenon DEF PlansInv
  <2>2. ~ \E m \in Mine(v) : fnOf[m] = fnOf[n]
    BY <1>4, <2>1, Zenon DEF PlansInv
  <2> QED BY <2>1, <2>2, Zenon
<1>7. ASSUME NEW w \in VMs, vmPC'[w] \in {"collect", "gone"} PROVE plans' \intersect PlansOf(w) = {}
  <2>1. CASE vmPC[w] \in {"collect", "gone"}
    BY <2>1, Zenon DEF PlansInv
  <2>2. CASE w = v /\ AllAreCompiled(v)
    BY <2>2, ZenonT(40) DEF AllAreCompiled, Mine, PlansInv
  <2> QED BY <1>7, <2>1, <2>2, Zenon
<1>8. /\ (\A t \in Threads : threadPlan[t] # 0 =>
          /\ threadPlan[t] \notin ready /\ threadPlan[t] \notin Range(queue)
          /\ \A u \in Threads : threadPlan[u] = threadPlan[t] => u = t)'
      /\ (\A t \in Threads : threadPlan[t] # 0 <=> threadPC[t] \in {"compile", "publish"})'
      /\ (active = Cardinality({t \in Threads : threadPlan[t] # 0}))'
      /\ (\A m, n \in plans : fnOf[m] = fnOf[n] => m = n)'
  BY SMTT(30) DEF PlansInv
<1> QED BY <1>2, <1>5, <1>6, <1>7, <1>8, ZenonT(40) DEF PlansInv

(* Worklist::runThread takes a plan from the queue.                        *)
LEMMA TakeKeepsPlans ==
    ASSUME TypeOK, PlansInv, NEW t \in Threads, Take(t), queue # <<>>
    PROVE  PlansInv'
<1> DEFINE n == Head(queue)
<1> USE DEF planVars, vmVars, codeVars, setVars
<1>1. /\ n \in Codes /\ n \in Range(queue) /\ Range(Tail(queue)) = Range(queue) \ {n}
      /\ IsInjective(Tail(queue))
  BY TakeFromQueue, Zenon DEF TypeOK, PlansInv
<1>2. /\ queue' = Tail(queue) /\ active' = active + 1 /\ threadPlan' = [threadPlan EXCEPT ![t] = n]
      /\ threadPC' = [threadPC EXCEPT ![t] = "compile"]
      /\ UNCHANGED <<plans, ready, compiled, fnOf, replacement, vmPC, vmFn>>
  BY Zenon DEF Take
<1> HIDE DEF n
<1>3. n # 0 /\ n \notin ready /\ threadPlan[t] = 0 /\ \A u \in Threads : threadPlan[u] # n
  <2>1. n # 0 /\ n \notin ready
    BY <1>1, CodesFacts, Zenon DEF PlansInv
  <2>2. threadPlan[t] = 0
    BY Zenon DEF PlansInv, Take
  <2> QED BY <1>1, <2>1, <2>2, SMTT(30) DEF PlansInv
<1>4. \A u \in Threads : threadPlan'[u] = IF u = t THEN n ELSE threadPlan[u]
  BY <1>2, Zenon DEF TypeOK
<1>5. \A u \in Threads : threadPC'[u] = IF u = t THEN "compile" ELSE threadPC[u]
  BY <1>2, Zenon DEF TypeOK
<1>6. {m \in Codes : Compiling(m)}' = {m \in Codes : Compiling(m)} \union {n}
  BY <1>1, <1>3, <1>4, CodesFacts, Zenon DEF Compiling
<1>7. (active = Cardinality({u \in Threads : threadPlan[u] # 0}))'
  <2> DEFINE S == {u \in Threads : threadPlan[u] # 0}
  <2>1. S' = S \union {t} /\ t \notin S
    BY <1>3, <1>4, Zenon
  <2>2. IsFiniteSet(S)
    BY DFGAssumption, FS_Subset, Zenon
  <2>3. Cardinality(S \union {t}) = Cardinality(S) + 1
    BY <2>1, <2>2, FS_AddElement, Zenon
  <2>4. active = Cardinality(S)
    BY Zenon DEF PlansInv
  <2> QED BY <1>2, <2>1, <2>3, <2>4, Zenon
<1>8. \A v \in VMs : PlansOf(v)' = PlansOf(v)
  BY <1>2, Zenon DEF PlansOf
<1>9. plans' = (Range(queue) \union ready \union {m \in Codes : Compiling(m)})'
  BY <1>1, <1>2, <1>6, SMTT(30) DEF PlansInv
<1>10. (\A u \in Threads : threadPlan[u] # 0 =>
          /\ threadPlan[u] \notin ready /\ threadPlan[u] \notin Range(queue)
          /\ \A w \in Threads : threadPlan[w] = threadPlan[u] => w = u)'
  BY <1>1, <1>2, <1>3, <1>4, SMTT(30) DEF PlansInv
<1>11. (\A u \in Threads : threadPlan[u] # 0 <=> threadPC[u] \in {"compile", "publish"})'
  BY <1>3, <1>4, <1>5, ZenonT(40) DEF PlansInv
<1>12. /\ IsInjective(queue)' /\ ready' = compiled' /\ (Range(queue) \intersect ready = {})'
       /\ (\A m \in plans : fnOf[m] # Null /\ replacement[fnOf[m]] = 0)'
       /\ (\A m, k \in plans : fnOf[m] = fnOf[k] => m = k)'
       /\ (\A v \in VMs : vmPC[v] = "decide" => vmFn[v] # Null /\ VMOf[vmFn[v]] = v)'
       /\ (\A v \in VMs : vmPC[v] \in {"collect", "gone"} => plans \intersect PlansOf(v) = {})'
  BY <1>1, <1>2, <1>8, SMTT(30) DEF PlansInv
<1> QED BY <1>7, <1>9, <1>10, <1>11, <1>12, Zenon DEF PlansInv

(* It publishes a plan that it has compiled.                               *)
LEMMA PublishKeepsPlans ==
    ASSUME TypeOK, PlansInv, NEW t \in Threads, Publish(t)
    PROVE  PlansInv'
<1> USE DEF planVars, vmVars, codeVars, setVars
<1> DEFINE n == threadPlan[t]
<1>1. /\ ready' = ready \union {n} /\ compiled' = compiled \union {n} /\ active' = active - 1
      /\ threadPlan' = [threadPlan EXCEPT ![t] = 0] /\ threadPC' = [threadPC EXCEPT ![t] = "take"]
      /\ UNCHANGED <<queue, plans, fnOf, replacement, vmFn>>
  BY Zenon DEF Publish
<1>2. \A v \in VMs : vmPC'[v] = IF vmPC[v] = "asleep" THEN "wait" ELSE vmPC[v]
  BY Zenon DEF Publish, BroadcastPlanCompiled
<1>3. n \in Codes /\ n # 0 /\ n \notin ready /\ n \notin Range(queue)
      /\ \A u \in Threads : threadPlan[u] = n => u = t
  <2>1. n \in Codes \union {0} /\ n # 0
    BY Zenon DEF TypeOK, PlansInv, Publish
  <2> QED BY <2>1, Zenon DEF PlansInv
<1>4. \A u \in Threads : threadPlan'[u] = IF u = t THEN 0 ELSE threadPlan[u]
  BY <1>1, Zenon DEF TypeOK
<1>5. \A u \in Threads : threadPC'[u] = IF u = t THEN "take" ELSE threadPC[u]
  BY <1>1, Zenon DEF TypeOK
<1>6. {m \in Codes : Compiling(m)}' = {m \in Codes : Compiling(m)} \ {n} /\ Compiling(n)
  BY <1>3, <1>4, CodesFacts, Zenon DEF Compiling
<1>7. (active = Cardinality({u \in Threads : threadPlan[u] # 0}))'
  <2> DEFINE S == {u \in Threads : threadPlan[u] # 0}
  <2>1. S' = S \ {t} /\ t \in S
    BY <1>3, <1>4, Zenon
  <2>2. IsFiniteSet(S)
    BY DFGAssumption, FS_Subset, Zenon
  <2>3. Cardinality(S \ {t}) = Cardinality(S) - 1
    BY <2>1, <2>2, FS_RemoveElement, Zenon
  <2>4. active = Cardinality(S)
    BY Zenon DEF PlansInv
  <2> QED BY <1>1, <2>1, <2>3, <2>4, Zenon
<1>8. \A v \in VMs : PlansOf(v)' = PlansOf(v)
  BY <1>1, Zenon DEF PlansOf
<1> HIDE DEF n
<1>9. plans' = (Range(queue) \union ready \union {m \in Codes : Compiling(m)})'
  BY <1>1, <1>3, <1>6, SMTT(30) DEF PlansInv
<1>10. (\A u \in Threads : threadPlan[u] # 0 =>
          /\ threadPlan[u] \notin ready /\ threadPlan[u] \notin Range(queue)
          /\ \A w \in Threads : threadPlan[w] = threadPlan[u] => w = u)'
  BY <1>1, <1>3, <1>4, SMTT(30) DEF PlansInv
<1>11. (\A u \in Threads : threadPlan[u] # 0 <=> threadPC[u] \in {"compile", "publish"})'
  BY <1>4, <1>5, Zenon DEF PlansInv
<1>12. /\ IsInjective(queue)' /\ ready' = compiled' /\ (Range(queue) \intersect ready = {})'
       /\ (\A m \in plans : fnOf[m] # Null /\ replacement[fnOf[m]] = 0)'
       /\ (\A m, k \in plans : fnOf[m] = fnOf[k] => m = k)'
  BY <1>1, <1>3, SMTT(30) DEF PlansInv
<1>13. /\ (\A v \in VMs : vmPC[v] = "decide" => vmFn[v] # Null /\ VMOf[vmFn[v]] = v)'
       /\ (\A v \in VMs : vmPC[v] \in {"collect", "gone"} => plans \intersect PlansOf(v) = {})'
  BY <1>1, <1>2, <1>8, Zenon DEF PlansInv
<1> QED BY <1>7, <1>9, <1>10, <1>11, <1>12, <1>13, Zenon DEF PlansInv

(* The slow path enqueues a plan for a function that has none.             *)
LEMMA EnqueueKeepsPlans ==
    ASSUME TypeOK, PlansInv, NEW v \in VMs, OptimizeEnqueues(v)
    PROVE  PlansInv'
<1> USE DEF codeVars, setVars
<1>1. PICK n \in Codes : /\ fnOf[n] = Null /\ fnOf' = [fnOf EXCEPT ![n] = vmFn[v]]
                         /\ plans' = plans \union {n} /\ queue' = Append(queue, n)
  BY Zenon DEF OptimizeEnqueues
<1>2. UNCHANGED <<ready, active, compiled, threadPlan, replacement>>
  BY Zenon DEF OptimizeEnqueues
<1>3. \A u \in Threads : threadPC'[u] \in {"compile", "publish"} <=> threadPC[u] \in {"compile", "publish"}
  <2>1. threadPC' = threadPC \/ \E t \in Threads : threadPC[t] = "asleep" /\ threadPC' = [threadPC EXCEPT ![t] = "take"]
    BY ZenonT(40) DEF OptimizeEnqueues
  <2> QED BY <2>1, Zenon DEF TypeOK
<1>4. /\ vmPC[v] = "decide" /\ vmFn[v] # Null /\ VMOf[vmFn[v]] = v /\ vmFn[v] \in Functions
      /\ ~Known(vmFn[v]) /\ replacement[vmFn[v]] = 0
  BY SMTT(30) DEF OptimizeEnqueues, PlansInv, TypeOK
<1>5. /\ \A w \in VMs : vmPC'[w] = IF w = v THEN "run" ELSE vmPC[w]
      /\ \A w \in VMs : vmFn'[w] = IF w = v THEN Null ELSE vmFn[w]
  BY Zenon DEF OptimizeEnqueues, Return, TypeOK
<1>6. \A m \in Codes : fnOf'[m] = IF m = n THEN vmFn[v] ELSE fnOf[m]
  BY <1>1, Zenon DEF TypeOK
<1>7. n \notin plans /\ plans \subseteq Codes
  BY <1>1, Zenon DEF PlansInv, TypeOK
<1>8. n \notin Range(queue) /\ n \notin ready /\ n # 0 /\ \A u \in Threads : threadPlan[u] # n
  BY <1>7, CodesFacts, ZenonT(40) DEF PlansInv, Compiling
<1>9. IsInjective(queue') /\ Range(queue') = Range(queue) \union {n}
  BY <1>1, <1>8, AppendToQueue, SMTT(30) DEF TypeOK, PlansInv
<1>10. {m \in Codes : Compiling(m)}' = {m \in Codes : Compiling(m)}
  BY <1>2, Zenon DEF Compiling
<1>11. plans' = (Range(queue) \union ready \union {m \in Codes : Compiling(m)})'
  BY <1>1, <1>2, <1>9, <1>10, Zenon DEF PlansInv
<1>12. (\A t \in Threads : threadPlan[t] # 0 =>
          /\ threadPlan[t] \notin ready /\ threadPlan[t] \notin Range(queue)
          /\ \A u \in Threads : threadPlan[u] = threadPlan[t] => u = t)'
  BY <1>2, <1>8, <1>9, ZenonT(40) DEF PlansInv
<1>13. (\A t \in Threads : threadPlan[t] # 0 <=> threadPC[t] \in {"compile", "publish"})'
       /\ (active = Cardinality({t \in Threads : threadPlan[t] # 0}))'
       /\ ready' = compiled' /\ (Range(queue) \intersect ready = {})'
  BY <1>2, <1>3, <1>8, <1>9, SMTT(30) DEF PlansInv
<1>14. (\A m \in plans : fnOf[m] # Null /\ replacement[fnOf[m]] = 0)'
  BY <1>1, <1>2, <1>4, <1>6, <1>7, SMTT(30) DEF PlansInv
<1>15. (\A m, k \in plans : fnOf[m] = fnOf[k] => m = k)'
  BY <1>1, <1>4, <1>6, <1>7, SMTT(30) DEF PlansInv, Known
<1>16. (\A w \in VMs : vmPC[w] = "decide" => vmFn[w] # Null /\ VMOf[vmFn[w]] = w)'
  BY <1>5, Zenon DEF PlansInv
<1>17. (\A w \in VMs : vmPC[w] \in {"collect", "gone"} => plans \intersect PlansOf(w) = {})'
  <2> SUFFICES ASSUME NEW w \in VMs, vmPC'[w] \in {"collect", "gone"}, NEW m \in plans', m \in PlansOf(w)'
               PROVE FALSE
    BY Zenon
  <2>1. w # v /\ vmPC[w] \in {"collect", "gone"}
    BY <1>5, Zenon
  <2>2. m # n
    BY <1>1, <1>4, <1>6, <2>1, Zenon DEF PlansOf
  <2>3. m \in plans /\ m \in PlansOf(w)
    BY <1>1, <1>6, <2>2, Zenon DEF PlansOf
  <2> QED BY <2>1, <2>3, Zenon DEF PlansInv
<1> QED BY <1>9, <1>11, <1>12, <1>13, <1>14, <1>15, <1>16, <1>17, Zenon DEF PlansInv

(* A write installs no code.                                               *)
LEMMA WriteReplaces ==
    ASSUME TypeOK, NEW s \in WatchSets, NEW x \in Values, Write(s, x)
    PROVE  \A f \in Functions : replacement'[f] \in {0, replacement[f]}
<1>1. StartWatching(s) \/ FireAll(s) \/ UNCHANGED codeVars
  BY Zenon DEF Write, NotifyWrite, Touch
<1>2. CASE FireAll(s)
  BY <1>2, Zenon DEF FireAll, Jettison, codeVars
<1> QED BY <1>1, <1>2, Zenon DEF StartWatching, codeVars

(* Every step keeps the plans in their places.                             *)
LEMMA PlansStep == ASSUME TypeOK, PlansInv, [Next]_vars PROVE PlansInv'
<1> USE DEF planVars, vmVars, codeVars, setVars, worklistVars, threadVars
<1>1. CASE UNCHANGED vars
  BY <1>1, PlansKept, Zenon DEF vars
<1>2. ASSUME NEW t \in Threads, Thread(t) \/ ThreadWakesSpuriously(t) PROVE PlansInv'
  <2>1. CASE Take(t) /\ queue # <<>>
    BY <2>1, TakeKeepsPlans, Zenon
  <2>2. CASE Publish(t)
    BY <2>2, PublishKeepsPlans, Zenon
  <2>3. CASE \/ (Take(t) /\ queue = <<>>) \/ Compile(t) \/ ThreadWakesSpuriously(t)
             \/ \E s \in WatchSets : Consult(t, s)
    <3>1. UNCHANGED <<plans, queue, ready, compiled, threadPlan, active, fnOf, replacement, vmPC, vmFn>>
      BY <2>3, Zenon DEF Take, Compile, ThreadWakesSpuriously, Consult
    <3>2. \A u \in Threads : threadPC'[u] \in {"compile", "publish"} <=> threadPC[u] \in {"compile", "publish"}
      BY <2>3, ZenonT(40) DEF Take, Compile, ThreadWakesSpuriously, Consult, TypeOK
    <3> QED BY <3>1, <3>2, PlansKept, Zenon
  <2> QED BY <1>2, <2>1, <2>2, <2>3, Zenon DEF Thread
<1>3. ASSUME NEW s \in WatchSets, NEW x \in Values, Write(s, x) PROVE PlansInv'
  <2>1. UNCHANGED <<plans, queue, ready, compiled, threadPlan, active, fnOf, threadPC, vmPC, vmFn>>
    BY <1>3, Zenon DEF Write
  <2>2. \A f \in Functions : replacement[f] = 0 => replacement'[f] = 0
    BY <1>3, WriteReplaces, Zenon
  <2> QED BY <2>1, <2>2, PlansKept, Zenon
<1>4. ASSUME NEW f \in Functions, Optimize(f) PROVE PlansInv'
  <2> DEFINE v == VMOf[f]
  <2>1. v \in VMs /\ f # Null
    BY DFGAssumption, Zenon
  <2>2. CompleteAllReadyPlansForVM(v)
    BY <1>4, Zenon DEF Optimize
  <2>3. UNCHANGED <<queue, threadPC, threadPlan, active, fnOf>>
    BY <1>4, <2>1, <2>2, CompleteFacts, ZenonT(40) DEF Optimize
  <2>4. /\ plans' = plans \ Mine(v) /\ ready' = ready \ Mine(v) /\ compiled' = compiled \ Mine(v)
        /\ \A g \in Functions : replacement'[g] \in {0, replacement[g]} \/ \E n \in Mine(v) : fnOf[n] = g
    BY <2>1, <2>2, CompleteFacts, SMTT(30) DEF Installed
  <2>5. /\ \A w \in VMs : vmPC'[w] = "decide" => vmFn'[w] # Null /\ VMOf[vmFn'[w]] = w
        /\ \A w \in VMs : vmPC'[w] \in {"collect", "gone"} => vmPC[w] \in {"collect", "gone"}
    BY <1>4, <2>1, SMTT(30) DEF Optimize, PlansInv, TypeOK
  <2> HIDE DEF v
  <2>6. \A w \in VMs : vmPC'[w] \in {"collect", "gone"} =>
            vmPC[w] \in {"collect", "gone"} \/ (w = v /\ AllAreCompiled(v))
    BY <2>5, Zenon
  <2> QED BY <2>1, <2>3, <2>4, <2>5, <2>6, PlansRemoved, Zenon
<1>5. ASSUME NEW f \in Functions, TriggerReoptimization(f) PROVE PlansInv'
  <2>1. UNCHANGED <<plans, queue, ready, compiled, threadPlan, active, fnOf, threadPC, vmPC, vmFn>>
    BY <1>5, Zenon DEF TriggerReoptimization
  <2>2. \A g \in Functions : replacement[g] = 0 => replacement'[g] = 0
    BY <1>5, Zenon DEF TriggerReoptimization, Jettison
  <2> QED BY <2>1, <2>2, PlansKept, Zenon
<1>6. ASSUME NEW v \in VMs, OptimizeReturns(v) \/ OptimizeJettisons(v) PROVE PlansInv'
  <2>1. UNCHANGED <<plans, queue, ready, compiled, threadPlan, active, fnOf, threadPC>>
    BY <1>6, Zenon DEF OptimizeReturns, OptimizeJettisons
  <2>2. \A g \in Functions : replacement[g] = 0 => replacement'[g] = 0
    BY <1>6, Zenon DEF OptimizeReturns, OptimizeJettisons, Jettison
  <2>3. Return(v)
    BY <1>6, Zenon DEF OptimizeReturns, OptimizeJettisons
  <2>4. \A w \in VMs : vmPC'[w] = (IF w = v THEN "run" ELSE vmPC[w]) /\ vmFn'[w] = (IF w = v THEN Null ELSE vmFn[w])
    BY <2>3, Zenon DEF Return, TypeOK
  <2> QED BY <2>1, <2>2, <2>4, PlansKept, Zenon
<1>7. ASSUME NEW v \in VMs, \/ WaitUntilAllPlansForVMAreReady(v) \/ VMWakesSpuriously(v)
                            \/ CollectCode(v) \/ DeleteAllCompiledCode(v)
                            \/ \E dying \in BOOLEAN : StartWaiting(v, dying)
      PROVE PlansInv'
  <2> USE DEF WaitUntilAllPlansForVMAreReady, VMWakesSpuriously, CollectCode, DeleteAllCompiledCode, StartWaiting
  <2>1. UNCHANGED <<plans, queue, ready, compiled, threadPlan, active, fnOf, threadPC, vmFn>>
    BY <1>7, Zenon
  <2>2. \A g \in Functions : replacement[g] = 0 => replacement'[g] = 0
    BY <1>7, Zenon DEF Jettison
  <2>3. \A w \in VMs : vmPC'[w] \in {vmPC[w], "asleep", "wait", "run"}
    BY <1>7, ZenonT(40) DEF TypeOK
  <2> QED BY <2>1, <2>2, <2>3, PlansKept, Zenon
<1>8. ASSUME NEW v \in VMs, CompleteAllPlansForVM(v) PROVE PlansInv'
  <2>2. CompleteAllReadyPlansForVM(v)
    BY <1>8, Zenon DEF CompleteAllPlansForVM
  <2>3. UNCHANGED <<queue, threadPC, threadPlan, active, fnOf>>
    BY <1>8, <2>2, CompleteFacts, ZenonT(40) DEF CompleteAllPlansForVM
  <2>4. /\ plans' = plans \ Mine(v) /\ ready' = ready \ Mine(v) /\ compiled' = compiled \ Mine(v)
        /\ \A g \in Functions : replacement'[g] \in {0, replacement[g]} \/ \E n \in Mine(v) : fnOf[n] = g
    BY <2>2, CompleteFacts, SMTT(30) DEF Installed
  <2>5. /\ \A w \in VMs : vmPC'[w] = "decide" => vmFn'[w] # Null /\ VMOf[vmFn'[w]] = w
        /\ \A w \in VMs : vmPC'[w] \in {"collect", "gone"} =>
              vmPC[w] \in {"collect", "gone"} \/ (w = v /\ AllAreCompiled(v))
    BY <1>8, SMTT(30) DEF CompleteAllPlansForVM, PlansInv, TypeOK
  <2> QED BY <2>3, <2>4, <2>5, PlansRemoved, Zenon
<1>9. ASSUME NEW v \in VMs, DestroyVM(v) PROVE PlansInv'
  <2>1. UNCHANGED <<queue, threadPC, threadPlan, active, fnOf>>
    BY <1>9, Zenon DEF DestroyVM, RemoveAllReadyPlansForVM
  <2>2. plans' = plans \ Mine(v) /\ ready' = ready \ Mine(v) /\ compiled' = compiled \ Mine(v)
    BY <1>9, Zenon DEF DestroyVM, RemoveAllReadyPlansForVM, Mine
  <2>3. \A g \in Functions : replacement'[g] \in {0, replacement[g]}
    BY <1>9, ZenonT(40) DEF DestroyVM, TypeOK
  <2>4. /\ \A w \in VMs : vmPC'[w] = "decide" => vmFn'[w] # Null /\ VMOf[vmFn'[w]] = w
        /\ \A w \in VMs : vmPC'[w] \in {"collect", "gone"} =>
              vmPC[w] \in {"collect", "gone"} \/ (w = v /\ AllAreCompiled(v))
    BY <1>9, SMTT(30) DEF DestroyVM, PlansInv, TypeOK
  <2> QED BY <2>1, <2>2, <2>3, <2>4, PlansRemoved, Zenon
<1> QED BY <1>1, <1>2, <1>3, <1>4, <1>5, <1>6, <1>7, <1>8, <1>9, EnqueueKeepsPlans, Zenon DEF Next, Waiter

-----------------------------------------------------------------------------
(* Installed code                                                          *)

(* Jettisoning takes code out of its function when it invalidates it.      *)
LEMMA JettisonKeepsInstalled ==
    ASSUME TypeOK, InstalledInv, NEW N, Jettison(N), UNCHANGED fnOf
    PROVE  InstalledInv'
<1>1. /\ valid' = valid \ N
      /\ \A f \in Functions : replacement'[f] = IF replacement[f] \in N THEN 0 ELSE replacement[f]
  BY JettisonFacts, Zenon
<1>2. \A n \in valid : fnOf[n] \in Functions
  BY SMTT(30) DEF InstalledInv, TypeOK
<1> QED BY <1>1, <1>2, SMTT(30) DEF InstalledInv

(* Completing the ready plans of v installs at most one code per function, *)
(* and only where there was none.                                          *)
LEMMA CompleteKeepsInstalled ==
    ASSUME TypeOK, PlansInv, InstalledInv, NEW v \in VMs, CompleteAllReadyPlansForVM(v), UNCHANGED fnOf
    PROVE  InstalledInv'
<1>1. /\ valid' = valid \union Installed(v)
      /\ \A f \in Functions :
            \/ \E n \in Installed(v) : fnOf[n] = f /\ replacement'[f] = n
            \/ (\A n \in Installed(v) : fnOf[n] # f) /\ replacement'[f] = replacement[f]
  BY CompleteFacts, ZenonT(40)
<1>2. /\ Installed(v) \subseteq plans
      /\ \A n \in plans \union valid : n \in Codes /\ n # 0 /\ fnOf[n] \in Functions /\ fnOf[n] # Null
  BY CodesFacts, SMTT(30) DEF Installed, Mine, PlansInv, InstalledInv, TypeOK
<1>3. \A n \in valid, m \in Installed(v) : fnOf[m] # fnOf[n]
  BY <1>2, SMTT(30) DEF PlansInv, InstalledInv
<1>4. \A m, n \in Installed(v) : fnOf[m] = fnOf[n] => m = n
  BY <1>2, ZenonT(40) DEF PlansInv
<1>5. ASSUME NEW f \in Functions, replacement'[f] # 0
      PROVE  replacement'[f] \in valid' /\ fnOf'[replacement'[f]] = f
  BY <1>1, <1>5, SMTT(30) DEF InstalledInv
<1>6. ASSUME NEW n \in valid' PROVE fnOf'[n] # Null /\ replacement'[fnOf'[n]] = n
  <2>1. fnOf[n] \in Functions /\ fnOf[n] # Null
    BY <1>1, <1>2, Zenon
  <2>2. CASE n \in valid
    BY <1>1, <1>3, <2>1, <2>2, SMTT(30) DEF InstalledInv
  <2>3. CASE n \in Installed(v)
    BY <1>1, <1>4, <2>1, <2>3, Zenon
  <2> QED BY <1>1, <2>2, <2>3, Zenon
<1> QED BY <1>5, <1>6, Zenon DEF InstalledInv

(* Discarding the code of v leaves that of the other VMs.                  *)
LEMMA DiscardKeepsInstalled ==
    ASSUME TypeOK, InstalledInv, NEW v \in VMs, UNCHANGED fnOf, valid' = valid \ PlansOf(v),
           replacement' = [f \in Functions |-> IF VMOf[f] = v THEN 0 ELSE replacement[f]]
    PROVE  InstalledInv'
<1>1. \A n \in valid : n \in Codes /\ fnOf[n] \in Functions /\ fnOf[n] # Null
  BY SMTT(30) DEF InstalledInv, TypeOK
<1>2. \A n \in valid : n \in PlansOf(v) <=> VMOf[fnOf[n]] = v
  BY <1>1, Zenon DEF PlansOf
<1> QED BY <1>1, <1>2, SMTT(30) DEF InstalledInv

(* Every step keeps code valid exactly as long as it is installed.         *)
LEMMA InstalledStep == ASSUME TypeOK, PlansInv, InstalledInv, [Next]_vars PROVE InstalledInv'
<1> USE DEF planVars, vmVars, codeVars, setVars, worklistVars, threadVars
<1>1. ASSUME UNCHANGED <<replacement, valid, fnOf>> PROVE InstalledInv'
  BY <1>1, Zenon DEF InstalledInv
<1>2. CASE UNCHANGED vars
  BY <1>1, <1>2, Zenon DEF vars
<1>3. ASSUME NEW t \in Threads, Thread(t) \/ ThreadWakesSpuriously(t) PROVE InstalledInv'
  BY <1>1, <1>3, Zenon DEF Thread, Take, Compile, Publish, Consult, ThreadWakesSpuriously
<1>4. ASSUME NEW s \in WatchSets, NEW x \in Values, Write(s, x) PROVE InstalledInv'
  <2>1. StartWatching(s) \/ FireAll(s) \/ UNCHANGED codeVars
    BY <1>4, Zenon DEF Write, NotifyWrite, Touch
  <2>2. UNCHANGED fnOf
    BY <1>4, Zenon DEF Write
  <2> QED BY <1>1, <2>1, <2>2, JettisonKeepsInstalled, Zenon DEF FireAll, StartWatching
<1>5. ASSUME NEW f \in Functions, Optimize(f) PROVE InstalledInv'
  BY <1>5, CompleteKeepsInstalled, DFGAssumption, Zenon DEF Optimize
<1>6. ASSUME NEW f \in Functions, TriggerReoptimization(f) PROVE InstalledInv'
  BY <1>6, JettisonKeepsInstalled, Zenon DEF TriggerReoptimization
<1>7. ASSUME NEW v \in VMs, OptimizeReturns(v) \/ OptimizeJettisons(v) PROVE InstalledInv'
  BY <1>1, <1>7, JettisonKeepsInstalled, Zenon DEF OptimizeReturns, OptimizeJettisons
<1>8. ASSUME NEW v \in VMs, OptimizeEnqueues(v) PROVE InstalledInv'
  <2>1. PICK n \in Codes : fnOf[n] = Null /\ fnOf' = [fnOf EXCEPT ![n] = vmFn[v]]
    BY <1>8, Zenon DEF OptimizeEnqueues
  <2>2. n \notin valid /\ UNCHANGED <<valid, replacement>>
    BY <1>8, <2>1, Zenon DEF OptimizeEnqueues, InstalledInv
  <2>3. \A m \in valid : fnOf'[m] = fnOf[m]
    BY <2>1, <2>2, Zenon DEF TypeOK
  <2> QED BY <2>2, <2>3, Zenon DEF InstalledInv
<1>9. ASSUME NEW v \in VMs, \/ WaitUntilAllPlansForVMAreReady(v) \/ VMWakesSpuriously(v)
                            \/ \E dying \in BOOLEAN : StartWaiting(v, dying)
      PROVE  InstalledInv'
  BY <1>1, <1>9, Zenon DEF WaitUntilAllPlansForVMAreReady, VMWakesSpuriously, StartWaiting
<1>10. ASSUME NEW v \in VMs, CollectCode(v) PROVE InstalledInv'
  BY <1>10, JettisonKeepsInstalled, Zenon DEF CollectCode
<1>11. ASSUME NEW v \in VMs, DeleteAllCompiledCode(v) PROVE InstalledInv'
  BY <1>11, DiscardKeepsInstalled, Zenon DEF DeleteAllCompiledCode
<1>12. ASSUME NEW v \in VMs, CompleteAllPlansForVM(v) PROVE InstalledInv'
  BY <1>12, CompleteKeepsInstalled, Zenon DEF CompleteAllPlansForVM
<1>13. ASSUME NEW v \in VMs, DestroyVM(v) PROVE InstalledInv'
  <2>1. replacement' = [f \in Functions |-> IF VMOf[f] = v THEN 0 ELSE replacement[f]]
    BY <1>13, Zenon DEF DestroyVM, TypeOK
  <2> QED BY <1>13, <2>1, DiscardKeepsInstalled, Zenon DEF DestroyVM
<1> QED BY <1>2, <1>3, <1>4, <1>5, <1>6, <1>7, <1>8, <1>9, <1>10, <1>11, <1>12, <1>13, SMTT(30) DEF Next, Waiter

-----------------------------------------------------------------------------
(* Watchpoint sets and what code assumes of them                           *)

(* What a write does to its set: it starts to be watched, is fired, or     *)
(* learns nothing new.                                                     *)
LEMMA WriteFacts ==
    ASSUME TypeOK, NEW s \in WatchSets, NEW x \in Values, Write(s, x)
    PROVE  /\ \A r \in WatchSets : value'[r] = IF r = s THEN x ELSE value[r]
           /\ state[s] # "Invalidated" /\ Kind[s] \in {"variable", "entry"}
           /\ UNCHANGED <<worklistVars, planVars, threadVars, vmVars>>
           /\ \A r \in WatchSets : r # s => inferred'[r] = inferred[r]
           /\ Kind[s] = "entry" => inferred'[s] = inferred[s] /\ x = IF value[s] = 2 THEN 2 ELSE value[s] + 1
           /\ \/ /\ state[s] = "Clear" /\ StartWatching(s)
                 /\ Kind[s] = "variable" => inferred'[s] = x
              \/ /\ state[s] = "Watched" /\ FireAll(s)
                 /\ Kind[s] = "variable" => inferred'[s] = Null
              \/ /\ state[s] = "Watched" /\ UNCHANGED <<codeVars, state, watchers>>
                 /\ Kind[s] = "variable" /\ inferred'[s] = inferred[s] /\ x = inferred[s]
<1>1. /\ \A r \in WatchSets : value'[r] = IF r = s THEN x ELSE value[r]
      /\ state[s] # "Invalidated" /\ Kind[s] \in {"variable", "entry"}
      /\ UNCHANGED <<worklistVars, planVars, threadVars, vmVars>>
  BY DFGAssumption, Zenon DEF Write, TypeOK
<1>2. state[s] \in {"Clear", "Watched"} /\ s \in DOMAIN inferred
  BY <1>1, Zenon DEF TypeOK
<1>3. CASE Kind[s] = "entry"
  <2>1. Touch(s, x)
    BY <1>3, Zenon DEF Write
  <2> QED BY <1>1, <1>2, <1>3, <2>1, Zenon DEF Touch
<1>4. CASE Kind[s] = "variable"
  <2>1. NotifyWrite(s, x)
    BY <1>4, Zenon DEF Write
  <2>2. CASE state[s] = "Clear"
    <3>1. StartWatching(s) /\ inferred' = [inferred EXCEPT ![s] = x]
      BY <2>1, <2>2, Zenon DEF NotifyWrite
    <3> QED BY <1>1, <1>2, <1>4, <2>2, <3>1, ZenonT(40) DEF TypeOK
  <2>3. CASE state[s] = "Watched" /\ x # inferred[s]
    <3>1. FireAll(s) /\ inferred' = [inferred EXCEPT ![s] = Null]
      BY <2>1, <2>3, Zenon DEF NotifyWrite
    <3> QED BY <1>1, <1>2, <1>4, <2>3, <3>1, SMTT(30) DEF TypeOK
  <2>4. CASE state[s] = "Watched" /\ x = inferred[s]
    <3>1. UNCHANGED <<codeVars, state, watchers, inferred>>
      BY <2>1, <2>4, Zenon DEF NotifyWrite
    <3> QED BY <1>1, <1>2, <1>4, <2>4, <3>1, Zenon
  <2> QED BY <1>2, <2>2, <2>3, <2>4, Zenon
<1> QED BY <1>1, <1>3, <1>4, Zenon

(* A write leaves a set consistent with its location.                      *)
LEMMA WriteKeepsSets ==
    ASSUME TypeOK, SetsInv, NEW s \in WatchSets, NEW x \in Values, Write(s, x)
    PROVE  SetsInv'
<1>1. x # Null /\ x \in Nat
  BY DFGAssumption, ZenonT(40)
<1>2. \A r \in WatchSets : r # s => state'[r] = state[r] /\ value'[r] = value[r] /\ inferred'[r] = inferred[r]
  <2>1. \A r \in WatchSets : r # s => state'[r] = state[r]
    <3>1. StartWatching(s) \/ FireAll(s) \/ state' = state
      BY WriteFacts, Zenon
    <3>2. state \in [WatchSets -> {"Clear", "Watched", "Invalidated"}]
      BY Zenon DEF TypeOK
    <3>3. StartWatching(s) => state' = [state EXCEPT ![s] = "Watched"]
      BY Zenon DEF StartWatching
    <3>4. FireAll(s) => state' = state \/ state' = [state EXCEPT ![s] = "Invalidated"]
      BY Zenon DEF FireAll
    <3> QED BY <3>1, <3>2, <3>3, <3>4, SMTT(30)
  <2>2. \A r \in WatchSets : value'[r] = IF r = s THEN x ELSE value[r]
    BY WriteFacts, SMTT(30)
  <2>3. \A r \in WatchSets : r # s => inferred'[r] = inferred[r]
    BY WriteFacts, Zenon
  <2> QED BY <2>1, <2>2, <2>3, SMTT(30)
<1>3. value'[s] = x
  BY WriteFacts, Zenon
<1>4. CASE state[s] = "Clear"
  <2>1. StartWatching(s) /\ (Kind[s] = "variable" => inferred'[s] = x)
    BY <1>4, WriteFacts, Zenon
  <2>2. state'[s] = "Watched"
    BY <2>1, Zenon DEF StartWatching, TypeOK
  <2>3. Kind[s] = "entry" => x = 1
    <3>1. Kind[s] = "entry" => value[s] = 0 /\ x = IF value[s] = 2 THEN 2 ELSE value[s] + 1
      BY <1>4, WriteFacts, ZenonT(40) DEF SetsInv
    <3> QED BY <3>1, SMTT(30)
  <2> QED BY <1>1, <1>2, <1>3, <2>1, <2>2, <2>3, Zenon DEF SetsInv
<1>5. CASE state[s] = "Watched" /\ FireAll(s) /\ (Kind[s] = "variable" => inferred'[s] = Null)
  <2>1. state'[s] = "Invalidated"
    BY <1>5, ZenonT(40) DEF FireAll, TypeOK
  <2> QED BY <1>2, <1>5, <2>1, Zenon DEF SetsInv
<1>6. CASE /\ state[s] = "Watched" /\ UNCHANGED state
           /\ Kind[s] = "variable" /\ inferred'[s] = inferred[s] /\ x = inferred[s]
  BY <1>2, <1>3, <1>6, SMTT(30) DEF SetsInv
<1> QED BY <1>4, <1>5, <1>6, WriteFacts, Zenon

(* The plans that are installed rely only on sets that have not fired.     *)
LEMMA InstalledWatch ==
    ASSUME NEW v \in VMs, NEW n \in Installed(v), NEW s \in WatchSets, assumed[n][s] # Values
    PROVE  state[s] # "Invalidated"
BY Zenon DEF Installed, Succeeds, IsStillValid

(* Completing plans makes a set watched only if that is true of it.        *)
LEMMA CompleteKeepsSets ==
    ASSUME TypeOK, SetsInv, AssumedInv, NEW v \in VMs, CompleteAllReadyPlansForVM(v)
    PROVE  SetsInv'
<1>1. /\ value' = value /\ inferred' = inferred
      /\ \A s \in WatchSets :
            state'[s] = IF \E n \in Installed(v) : assumed[n][s] # Values THEN "Watched" ELSE state[s]
  BY CompleteFacts, Zenon
<1>2. Installed(v) \subseteq Codes
  BY ZenonT(40) DEF Installed, Mine, TypeOK
<1>3. ASSUME NEW s \in WatchSets, NEW n \in Installed(v), assumed[n][s] # Values
      PROVE  /\ state[s] # "Invalidated"
             /\ Kind[s] = "variable" => state[s] = "Watched"
             /\ Kind[s] = "entry" => value[s] \in {0, 1}
  BY <1>2, <1>3, InstalledWatch, SMTT(30) DEF AssumedInv
<1> QED BY <1>1, <1>3, Zenon DEF SetsInv

(* Every step keeps the sets consistent with their locations.              *)
LEMMA SetsStep == ASSUME TypeOK, SetsInv, AssumedInv, [Next]_vars PROVE SetsInv'
<1> USE DEF planVars, vmVars, codeVars, setVars, worklistVars, threadVars
<1>1. ASSUME UNCHANGED <<state, value, inferred>> PROVE SetsInv'
  BY <1>1, Zenon DEF SetsInv
<1>2. CASE UNCHANGED vars
  BY <1>1, <1>2, Zenon DEF vars
<1>3. ASSUME NEW t \in Threads, Thread(t) \/ ThreadWakesSpuriously(t) PROVE SetsInv'
  BY <1>1, <1>3, Zenon DEF Thread, Take, Compile, Publish, Consult, ThreadWakesSpuriously
<1>4. ASSUME NEW f \in Functions, Optimize(f) PROVE SetsInv'
  BY <1>4, CompleteKeepsSets, DFGAssumption, Zenon DEF Optimize
<1>5. ASSUME NEW f \in Functions, TriggerReoptimization(f) PROVE SetsInv'
  BY <1>1, <1>5, Zenon DEF TriggerReoptimization
<1>6. ASSUME NEW v \in VMs, OptimizeReturns(v) \/ OptimizeJettisons(v) \/ OptimizeEnqueues(v) PROVE SetsInv'
  BY <1>1, <1>6, Zenon DEF OptimizeReturns, OptimizeJettisons, OptimizeEnqueues
<1>7. ASSUME NEW v \in VMs, \/ WaitUntilAllPlansForVMAreReady(v) \/ VMWakesSpuriously(v)
                            \/ CollectCode(v) \/ DeleteAllCompiledCode(v)
                            \/ \E dying \in BOOLEAN : StartWaiting(v, dying)
      PROVE  SetsInv'
  BY <1>1, <1>7, Zenon DEF WaitUntilAllPlansForVMAreReady, VMWakesSpuriously, CollectCode, DeleteAllCompiledCode,
                    StartWaiting
<1>8. ASSUME NEW v \in VMs, CompleteAllPlansForVM(v) PROVE SetsInv'
  BY <1>8, CompleteKeepsSets, Zenon DEF CompleteAllPlansForVM
<1>9. ASSUME NEW v \in VMs, DestroyVM(v) PROVE SetsInv'
  <2>1. /\ state' = [s \in WatchSets |-> IF VMOf[s] = v THEN "Invalidated" ELSE state[s]]
        /\ value' = [s \in WatchSets |-> IF VMOf[s] = v THEN 0 ELSE value[s]]
        /\ inferred' = [s \in WatchSets |-> IF VMOf[s] = v THEN Null ELSE inferred[s]]
    BY <1>9, Zenon DEF DestroyVM, TypeOK
  <2> QED BY <2>1, Zenon DEF SetsInv
<1> QED BY <1>2, <1>3, <1>4, <1>5, <1>6, <1>7, <1>8, <1>9, WriteKeepsSets, ZenonT(40) DEF Next, Waiter

(* What the byte-code parser may conclude from a set it consults.          *)
LEMMA AssumptionCases ==
    ASSUME NEW s \in WatchSets
    PROVE  \/ Assumption(s) = {inferred[s]} /\ Kind[s] = "variable" /\ inferred[s] # Null
           \/ Assumption(s) = {0, 1} /\ Kind[s] = "entry" /\ state[s] # "Invalidated"
           \/ Assumption(s) = Values
BY Zenon DEF Assumption

(* A compiler that consults a set assumes what is true now.                *)
LEMMA ConsultKeepsAssumed ==
    ASSUME IInv, NEW t \in Threads, NEW s \in WatchSets, Consult(t, s)
    PROVE  AssumedInv'
<1> DEFINE p == threadPlan[t]
<1>1. p \in Codes /\ p \in plans /\ p # 0
  <2>1. p \in Codes \union {0} /\ p # 0
    BY ZenonT(40) DEF Consult, IInv, TypeOK, PlansInv
  <2> QED BY <2>1, Zenon DEF IInv, PlansInv, Compiling
<1>2. fnOf[p] \in Functions /\ fnOf[p] # Null /\ p \notin valid
  BY <1>1, SMTT(30) DEF IInv, TypeOK, PlansInv, InstalledInv
<1>3. s \in DependsOn[fnOf[p]]
  BY <1>1, Zenon DEF IInv, AssumedInv, Consult
<1>4. VMOf[s] = VMOf[fnOf[p]]
  BY <1>2, <1>3, DFGAssumption, Zenon
<1>5. /\ UNCHANGED <<threadPlan, fnOf, valid, state, watchers, value, inferred>>
      /\ assumed' = [assumed EXCEPT ![p][s] = Assumption(s)]
      /\ unread' = [unread EXCEPT ![t] = @ \ {s}]
  BY Zenon DEF Consult, setVars, planVars
<1> HIDE DEF p
<1>6. \A n \in Codes, r \in WatchSets :
          assumed'[n][r] = IF n = p /\ r = s THEN Assumption(s) ELSE assumed[n][r]
  BY <1>1, <1>5, Zenon DEF IInv, TypeOK
<1>7. \A u \in Threads : unread'[u] \subseteq unread[u]
  BY <1>5, Zenon DEF IInv, TypeOK
<1>8. (\A u \in Threads : threadPlan[u] # 0 => unread[u] \subseteq DependsOn[fnOf[threadPlan[u]]])'
  <2>1. \A u \in Threads : threadPlan[u] # 0 => unread[u] \subseteq DependsOn[fnOf[threadPlan[u]]]
    BY Zenon DEF IInv, AssumedInv
  <2> QED BY <1>5, <1>7, <2>1, Zenon
<1>9. ASSUME Assumption(s) # Values
      PROVE  /\ state[s] # "Invalidated" => value[s] \in Assumption(s)
             /\ Kind[s] = "variable" => Assumption(s) = {inferred[s]} /\ state[s] = "Watched"
             /\ Kind[s] = "entry" => Assumption(s) = {0, 1}
  <2>1. CASE Assumption(s) = {inferred[s]} /\ Kind[s] = "variable" /\ inferred[s] # Null
    BY <2>1, Zenon DEF IInv, SetsInv
  <2>2. CASE Assumption(s) = {0, 1} /\ Kind[s] = "entry" /\ state[s] # "Invalidated"
    <3>1. state[s] \in {"Clear", "Watched"}
      BY <2>2, Zenon DEF IInv, TypeOK
    <3> QED BY <2>2, <3>1, Zenon DEF IInv, SetsInv
  <2> QED BY <1>9, <2>1, <2>2, AssumptionCases, Zenon
<1>10. ASSUME NEW n \in Codes, NEW r \in WatchSets, assumed'[n][r] # Values
       PROVE  /\ fnOf'[n] # Null /\ VMOf[r] = VMOf[fnOf'[n]]
              /\ state'[r] # "Invalidated" =>
                    /\ value'[r] \in assumed'[n][r]
                    /\ Kind[r] = "variable" => assumed'[n][r] = {inferred'[r]} /\ state'[r] = "Watched"
                    /\ Kind[r] = "entry" => assumed'[n][r] = {0, 1}
              /\ n \in valid' => n \in watchers'[r] /\ state'[r] = "Watched"
  <2>1. CASE n = p /\ r = s
    BY <1>2, <1>4, <1>5, <1>6, <1>9, <1>10, <2>1, Zenon
  <2>2. CASE ~(n = p /\ r = s)
    <3>1. assumed'[n][r] = assumed[n][r]
      BY <1>6, <2>2, ZenonT(40)
    <3> QED BY <1>5, <1>10, <3>1, Zenon DEF IInv, AssumedInv
  <2> QED BY <2>1, <2>2, Zenon
<1> QED BY <1>8, <1>10, Zenon DEF AssumedInv

(* Jettisoning and deleting code leaves the watchpoints of valid code.     *)
LEMMA JettisonKeepsAssumed ==
    ASSUME TypeOK, AssumedInv, NEW N, Jettison(N),
           UNCHANGED <<threadPlan, unread, fnOf, state, value, inferred>>,
           \A n \in valid \ N, s \in WatchSets : n \in watchers[s] => n \in watchers'[s]
    PROVE  AssumedInv'
<1>1. valid' = valid \ N
      /\ \A n \in Codes, s \in WatchSets : assumed'[n][s] = IF n \in N THEN Values ELSE assumed[n][s]
  BY JettisonFacts, SMTT(30)
<1> QED BY <1>1, SMTT(30) DEF AssumedInv

(* Discarding the code of v: what the other code assumes is not of v's     *)
(* sets, which may go with it.                                             *)
LEMMA DiscardKeepsAssumed ==
    ASSUME TypeOK, AssumedInv, NEW v \in VMs, UNCHANGED <<threadPlan, unread, fnOf>>,
           valid' = valid \ PlansOf(v), assumed' = Forget(PlansOf(v)),
           watchers' = DeleteCode(PlansOf(v), watchers),
           \A s \in WatchSets : VMOf[s] # v =>
               state'[s] = state[s] /\ value'[s] = value[s] /\ inferred'[s] = inferred[s]
    PROVE  AssumedInv'
<1>1. \A n \in Codes, s \in WatchSets : assumed'[n][s] = IF n \in PlansOf(v) THEN Values ELSE assumed[n][s]
  BY ForgetFacts, SMTT(30)
<1>2. \A n \in Codes \ PlansOf(v), s \in WatchSets : n \in watchers[s] => n \in watchers'[s]
  BY Zenon DEF DeleteCode
<1>3. \A n \in Codes \ PlansOf(v) : fnOf[n] # Null => VMOf[fnOf[n]] # v
  BY Zenon DEF PlansOf
<1>4. ASSUME NEW n \in Codes, NEW r \in WatchSets, assumed'[n][r] # Values
      PROVE  /\ fnOf'[n] # Null /\ VMOf[r] = VMOf[fnOf'[n]]
             /\ state'[r] # "Invalidated" =>
                   /\ value'[r] \in assumed'[n][r]
                   /\ Kind[r] = "variable" => assumed'[n][r] = {inferred'[r]} /\ state'[r] = "Watched"
                   /\ Kind[r] = "entry" => assumed'[n][r] = {0, 1}
             /\ n \in valid' => n \in watchers'[r] /\ state'[r] = "Watched"
  <2>1. n \notin PlansOf(v) /\ assumed'[n][r] = assumed[n][r]
    BY <1>1, <1>4, ZenonT(40)
  <2>2. fnOf[n] # Null /\ VMOf[r] = VMOf[fnOf[n]] /\ VMOf[r] # v
    BY <1>3, <1>4, <2>1, SMTT(30) DEF AssumedInv
  <2> QED BY <1>2, <1>4, <2>1, <2>2, SMTT(30) DEF AssumedInv
<1> QED BY <1>4, Zenon DEF AssumedInv

(* A write that contradicts what code assumes fires the code's watchpoint. *)
LEMMA WriteKeepsAssumed ==
    ASSUME TypeOK, SetsInv, AssumedInv, NEW s \in WatchSets, NEW x \in Values, Write(s, x)
    PROVE  AssumedInv'
<1>1. /\ \A r \in WatchSets : value'[r] = IF r = s THEN x ELSE value[r]
      /\ UNCHANGED <<threadPlan, unread, fnOf>>
      /\ \A r \in WatchSets : r # s => inferred'[r] = inferred[r]
  BY WriteFacts, SMTT(30) DEF threadVars, planVars
<1>2. (\A u \in Threads : threadPlan[u] # 0 => unread[u] \subseteq DependsOn[fnOf[threadPlan[u]]])'
  BY <1>1, ZenonT(40) DEF AssumedInv
<1>3. CASE state[s] = "Clear" /\ StartWatching(s)
  <2>1. UNCHANGED <<valid, assumed, watchers>>
        /\ \A r \in WatchSets : state'[r] = IF r = s THEN "Watched" ELSE state[r]
    BY <1>3, Zenon DEF StartWatching, codeVars, TypeOK
  <2>2. ASSUME NEW n \in Codes, assumed[n][s] # Values
        PROVE  Kind[s] = "entry" /\ n \notin valid /\ assumed[n][s] = {0, 1} /\ x = 1
    <3>1. Kind[s] = "entry" /\ n \notin valid /\ assumed[n][s] = {0, 1}
      BY <1>3, <2>2, WriteFacts, Zenon DEF AssumedInv
    <3>2. value[s] = 0 /\ x = IF value[s] = 2 THEN 2 ELSE value[s] + 1
      BY <1>3, <3>1, WriteFacts, ZenonT(40) DEF SetsInv
    <3> QED BY <3>1, <3>2, SMTT(30)
  <2>3. \A n \in Codes, r \in WatchSets : assumed'[n][r] # Values /\ r # s =>
          /\ fnOf'[n] # Null /\ VMOf[r] = VMOf[fnOf'[n]]
          /\ state'[r] # "Invalidated" =>
                /\ value'[r] \in assumed'[n][r]
                /\ Kind[r] = "variable" => assumed'[n][r] = {inferred'[r]} /\ state'[r] = "Watched"
                /\ Kind[r] = "entry" => assumed'[n][r] = {0, 1}
          /\ n \in valid' => n \in watchers'[r] /\ state'[r] = "Watched"
    BY <1>1, <2>1, SMTT(30) DEF AssumedInv
  <2>4. \A n \in Codes : assumed'[n][s] # Values =>
          /\ fnOf'[n] # Null /\ VMOf[s] = VMOf[fnOf'[n]]
          /\ value'[s] \in assumed'[n][s] /\ Kind[s] = "entry" /\ assumed'[n][s] = {0, 1} /\ n \notin valid'
    <3>1. \A n \in Codes : assumed[n][s] # Values => fnOf[n] # Null /\ VMOf[s] = VMOf[fnOf[n]]
      BY Zenon DEF AssumedInv
    <3> QED BY <1>1, <2>1, <2>2, <3>1, SMTT(30)
  <2> QED BY <1>2, <2>3, <2>4, SMTT(30) DEF AssumedInv
<1>4. CASE state[s] = "Watched" /\ FireAll(s)
  <2>1. Jettison(watchers[s]) /\ state' = [state EXCEPT ![s] = "Invalidated"] /\ watchers' = [watchers EXCEPT ![s] = {}]
    BY <1>4, Zenon DEF FireAll
  <2>2. \A r \in WatchSets : /\ state'[r] = IF r = s THEN "Invalidated" ELSE state[r]
                             /\ r # s => watchers'[r] = watchers[r]
    BY <2>1, Zenon DEF TypeOK
  <2>3. valid' = valid \ watchers[s] /\ \A n \in Codes, r \in WatchSets :
            assumed'[n][r] = IF n \in watchers[s] THEN Values ELSE assumed[n][r]
    BY <2>1, JettisonFacts, SMTT(30)
  <2>4. ASSUME NEW n \in Codes, NEW r \in WatchSets, assumed'[n][r] # Values
        PROVE  /\ fnOf'[n] # Null /\ VMOf[r] = VMOf[fnOf'[n]]
               /\ state'[r] # "Invalidated" =>
                     /\ value'[r] \in assumed'[n][r]
                     /\ Kind[r] = "variable" => assumed'[n][r] = {inferred'[r]} /\ state'[r] = "Watched"
                     /\ Kind[r] = "entry" => assumed'[n][r] = {0, 1}
               /\ n \in valid' => n \in watchers'[r] /\ state'[r] = "Watched"
    <3>1. n \notin watchers[s] /\ assumed'[n][r] = assumed[n][r] /\ assumed[n][r] # Values
      BY <2>3, <2>4, ZenonT(40)
    <3>2. CASE r = s
      BY <1>1, <2>2, <2>3, <3>1, <3>2, SMTT(30) DEF AssumedInv
    <3>3. CASE r # s
      BY <1>1, <2>2, <2>3, <3>1, <3>3, SMTT(30) DEF AssumedInv
    <3> QED BY <3>2, <3>3, Zenon
  <2> QED BY <1>2, <2>4, Zenon DEF AssumedInv
<1>5. CASE /\ state[s] = "Watched" /\ UNCHANGED <<codeVars, state, watchers>>
           /\ Kind[s] = "variable" /\ inferred'[s] = inferred[s] /\ x = inferred[s]
  <2>1. UNCHANGED <<valid, assumed, state, watchers>> /\ \A r \in WatchSets : inferred'[r] = inferred[r]
    BY <1>1, <1>5, Zenon DEF codeVars
  <2>2. value[s] = inferred[s]
    BY <1>5, Zenon DEF SetsInv
  <2>3. \A r \in WatchSets : value'[r] = value[r]
    BY <1>1, <1>5, <2>2, Zenon
  <2> QED BY <1>1, <1>2, <2>1, <2>3, SMTT(30) DEF AssumedInv
<1> QED BY <1>3, <1>4, <1>5, WriteFacts, ZenonT(40)

(* Plans that are completed are still valid, and their code watches.       *)
LEMMA CompleteKeepsAssumed ==
    ASSUME TypeOK, AssumedInv, NEW v \in VMs, CompleteAllReadyPlansForVM(v),
           UNCHANGED <<threadPlan, unread, fnOf>>
    PROVE  AssumedInv'
<1>1. /\ value' = value /\ inferred' = inferred /\ valid' = valid \union Installed(v)
      /\ \A n \in Codes, s \in WatchSets :
            assumed'[n][s] = IF n \in Mine(v) \ Installed(v) THEN Values ELSE assumed[n][s]
      /\ \A s \in WatchSets :
            watchers'[s] = watchers[s] \union {n \in Installed(v) : assumed[n][s] # Values}
      /\ \A s \in WatchSets :
            state'[s] = IF \E n \in Installed(v) : assumed[n][s] # Values THEN "Watched" ELSE state[s]
  BY CompleteFacts, Zenon
<1>2. \A s \in WatchSets : state'[s] # "Invalidated" => state[s] # "Invalidated"
  BY <1>1, InstalledWatch, ZenonT(40)
<1>3. \A s \in WatchSets : state[s] = "Watched" => state'[s] = "Watched"
  BY <1>1, Zenon
<1>4. ASSUME NEW n \in Codes, NEW r \in WatchSets, assumed'[n][r] # Values
      PROVE  /\ fnOf'[n] # Null /\ VMOf[r] = VMOf[fnOf'[n]]
             /\ state'[r] # "Invalidated" =>
                   /\ value'[r] \in assumed'[n][r]
                   /\ Kind[r] = "variable" => assumed'[n][r] = {inferred'[r]} /\ state'[r] = "Watched"
                   /\ Kind[r] = "entry" => assumed'[n][r] = {0, 1}
             /\ n \in valid' => n \in watchers'[r] /\ state'[r] = "Watched"
  <2>1. assumed'[n][r] = assumed[n][r] /\ assumed[n][r] # Values
    BY <1>1, <1>4, Zenon
  <2>2. n \in valid' => n \in watchers'[r] /\ state'[r] = "Watched"
    <3>1. CASE n \in Installed(v)
      BY <1>1, <2>1, <3>1, ZenonT(40)
    <3>2. CASE n \in valid
      BY <1>1, <1>3, <2>1, <3>2, SMTT(30) DEF AssumedInv
    <3> QED BY <1>1, <3>1, <3>2, Zenon
  <2> QED BY <1>1, <1>2, <1>3, <2>1, <2>2, SMTT(30) DEF AssumedInv
<1> QED BY <1>4, Zenon DEF AssumedInv

(* Every step keeps what code assumes true of the sets that it watches.    *)
LEMMA AssumedStep == ASSUME IInv, [Next]_vars PROVE AssumedInv'
<1> USE DEF planVars, vmVars, codeVars, setVars, worklistVars, threadVars
<1>0. TypeOK /\ PlansInv /\ InstalledInv /\ SetsInv /\ AssumedInv
  BY Zenon DEF IInv
<1>1. ASSUME UNCHANGED <<threadPlan, unread, fnOf, assumed, valid, watchers, state, value, inferred>>
      PROVE  AssumedInv'
  BY <1>0, <1>1, SMTT(30) DEF AssumedInv
<1>2. CASE UNCHANGED vars
  BY <1>1, <1>2, ZenonT(40) DEF vars
<1>3. ASSUME NEW t \in Threads, Take(t), queue # <<>> PROVE AssumedInv'
  <2>1. /\ threadPlan' = [threadPlan EXCEPT ![t] = Head(queue)]
        /\ unread' = [unread EXCEPT ![t] = DependsOn[fnOf[Head(queue)]]]
        /\ UNCHANGED <<fnOf, assumed, valid, watchers, state, value, inferred>>
    BY <1>3, Zenon DEF Take
  <2>2. \A u \in Threads : /\ threadPlan'[u] = IF u = t THEN Head(queue) ELSE threadPlan[u]
                           /\ unread'[u] = IF u = t THEN DependsOn[fnOf[Head(queue)]] ELSE unread[u]
    BY <1>0, <2>1, ZenonT(40) DEF TypeOK
  <2> QED BY <1>0, <2>1, <2>2, SMTT(30) DEF AssumedInv
<1>4. ASSUME NEW t \in Threads, Publish(t) PROVE AssumedInv'
  <2>1. /\ threadPlan' = [threadPlan EXCEPT ![t] = 0]
        /\ UNCHANGED <<unread, fnOf, assumed, valid, watchers, state, value, inferred>>
    BY <1>4, Zenon DEF Publish
  <2>2. \A u \in Threads : threadPlan'[u] = IF u = t THEN 0 ELSE threadPlan[u]
    BY <1>0, <2>1, Zenon DEF TypeOK
  <2> QED BY <1>0, <2>1, <2>2, SMTT(30) DEF AssumedInv
<1>5. ASSUME NEW t \in Threads, \/ (Take(t) /\ queue = <<>>) \/ Compile(t) \/ ThreadWakesSpuriously(t)
      PROVE  AssumedInv'
  BY <1>1, <1>5, Zenon DEF Take, Compile, ThreadWakesSpuriously
<1>6. ASSUME NEW f \in Functions, Optimize(f) PROVE AssumedInv'
  BY <1>0, <1>6, CompleteKeepsAssumed, DFGAssumption, Zenon DEF Optimize
<1>7. ASSUME NEW f \in Functions, TriggerReoptimization(f) PROVE AssumedInv'
  BY <1>0, <1>7, JettisonKeepsAssumed, Zenon DEF TriggerReoptimization
<1>8. ASSUME NEW v \in VMs, OptimizeReturns(v) \/ OptimizeJettisons(v) PROVE AssumedInv'
  BY <1>0, <1>1, <1>8, JettisonKeepsAssumed, ZenonT(40) DEF OptimizeReturns, OptimizeJettisons
<1>9. ASSUME NEW v \in VMs, OptimizeEnqueues(v) PROVE AssumedInv'
  <2>1. PICK n \in Codes : fnOf[n] = Null /\ fnOf' = [fnOf EXCEPT ![n] = vmFn[v]]
    BY <1>9, Zenon DEF OptimizeEnqueues
  <2>2. \A m \in Codes : fnOf[m] # Null => fnOf'[m] = fnOf[m]
    BY <1>0, <2>1, Zenon DEF TypeOK
  <2>3. UNCHANGED <<threadPlan, unread, assumed, valid, watchers, state, value, inferred>>
    BY <1>9, Zenon DEF OptimizeEnqueues
  <2>4. \A u \in Threads : threadPlan[u] # 0 => threadPlan[u] \in Codes /\ fnOf[threadPlan[u]] # Null
    <3> SUFFICES ASSUME NEW u \in Threads, threadPlan[u] # 0
                 PROVE  threadPlan[u] \in Codes /\ fnOf[threadPlan[u]] # Null
      BY Zenon
    <3>1. threadPlan[u] \in Codes
      BY <1>0, Zenon DEF TypeOK
    <3>2. threadPlan[u] \in plans
      BY <1>0, <3>1, Zenon DEF PlansInv, Compiling
    <3> QED BY <1>0, <3>1, <3>2, Zenon DEF PlansInv
  <2> QED BY <1>0, <2>2, <2>3, <2>4, SMTT(30) DEF AssumedInv
<1>10. ASSUME NEW v \in VMs, \/ WaitUntilAllPlansForVMAreReady(v) \/ VMWakesSpuriously(v)
                             \/ \E dying \in BOOLEAN : StartWaiting(v, dying)
       PROVE  AssumedInv'
  BY <1>1, <1>10, Zenon DEF WaitUntilAllPlansForVMAreReady, VMWakesSpuriously, StartWaiting
<1>11. ASSUME NEW v \in VMs, CollectCode(v) PROVE AssumedInv'
  <2>1. PICK dead, executing :
           /\ Jettison(dead)
           /\ watchers' = DeleteCode(PlansOf(v) \ (({replacement[f] : f \in Functions} \ dead)
                                                    \union executing), watchers)
    BY <1>11, Zenon DEF CollectCode
  <2>2. \A n \in valid : fnOf[n] \in Functions /\ replacement[fnOf[n]] = n
    BY <1>0, SMTT(30) DEF InstalledInv, TypeOK
  <2>3. \A n \in valid \ dead, s \in WatchSets : n \in watchers[s] => n \in watchers'[s]
    BY <2>1, <2>2, ZenonT(40) DEF DeleteCode
  <2>4. UNCHANGED <<threadPlan, unread, fnOf, state, value, inferred>>
    BY <1>11, Zenon DEF CollectCode
  <2> QED BY <1>0, <2>1, <2>3, <2>4, JettisonKeepsAssumed, Zenon
<1>12. ASSUME NEW v \in VMs, DeleteAllCompiledCode(v) PROVE AssumedInv'
  BY <1>0, <1>12, DiscardKeepsAssumed, Zenon DEF DeleteAllCompiledCode
<1>13. ASSUME NEW v \in VMs, CompleteAllPlansForVM(v) PROVE AssumedInv'
  BY <1>0, <1>13, CompleteKeepsAssumed, Zenon DEF CompleteAllPlansForVM
<1>14. ASSUME NEW v \in VMs, DestroyVM(v) PROVE AssumedInv'
  <2>1. /\ UNCHANGED <<threadPlan, unread, fnOf>> /\ valid' = valid \ PlansOf(v)
        /\ assumed' = Forget(PlansOf(v)) /\ watchers' = DeleteCode(PlansOf(v), watchers)
    BY <1>14, Zenon DEF DestroyVM
  <2>2. \A s \in WatchSets : VMOf[s] # v =>
            state'[s] = state[s] /\ value'[s] = value[s] /\ inferred'[s] = inferred[s]
    BY <1>0, <1>14, ZenonT(40) DEF DestroyVM, TypeOK
  <2> QED BY <1>0, <2>1, <2>2, DiscardKeepsAssumed, Zenon
<1>15. ASSUME NEW s \in WatchSets, NEW x \in Values, Write(s, x) PROVE AssumedInv'
  BY <1>0, <1>15, WriteKeepsAssumed, Zenon
<1>16. ASSUME NEW t \in Threads, NEW s \in WatchSets, Consult(t, s) PROVE AssumedInv'
  BY <1>16, ConsultKeepsAssumed, Zenon
<1> QED BY <1>2, <1>3, <1>4, <1>5, <1>6, <1>7, <1>8, <1>9, <1>10, <1>11, <1>12, <1>13, <1>14, <1>15, <1>16, ZenonT(40)
        DEF Next, Thread, Waiter

-----------------------------------------------------------------------------
(* The theorems                                                            *)

(* An empty worklist, no code, and every set clear.                        *)
LEMMA InitInv == Init => IInv
<1> SUFFICES ASSUME Init PROVE IInv
  BY Zenon
<1>1. 0 \in Values /\ IsFiniteSet(Threads) /\ Cardinality(Threads) \in Nat
  BY DFGAssumption, FS_CardinalityType, ZenonT(40)
<1>2. TypeOK
  BY <1>1, SMTT(30) DEF Init, TypeOK
<1>3. Range(queue) = {} /\ IsInjective(queue)
  BY SMTT(30) DEF Init, Range, IsInjective
<1>4. \A n \in Codes : ~Compiling(n)
  BY CodesFacts, Zenon DEF Init, Compiling
<1>5. {t \in Threads : threadPlan[t] # 0} = {}
  BY Zenon DEF Init
<1>6. PlansInv
  BY <1>3, <1>4, <1>5, FS_EmptySet, Zenon DEF Init, PlansInv
<1>7. InstalledInv /\ SetsInv /\ AssumedInv
  BY Zenon DEF Init, InstalledInv, SetsInv, AssumedInv
<1> QED BY <1>2, <1>6, <1>7, Zenon DEF IInv

(* The inductive invariant, of all steps.                                  *)
LEMMA Invariance == Spec => []IInv
<1>1. IInv /\ [Next]_vars => IInv'
  BY TypeStep, PlansStep, InstalledStep, SetsStep, AssumedStep, ZenonT(40) DEF IInv
<1> QED BY <1>1, InitInv, PTL DEF Spec

(* A plan is in exactly one place, the count of active threads is right,   *)
(* and a function is never compiled twice or while it has optimized code,  *)
(* for any number of VMs and compilation threads.                          *)
THEOREM WorklistIsConsistent == Spec => []WorklistConsistent
<1>1. IInv => WorklistConsistent
  <2> SUFFICES ASSUME IInv PROVE WorklistConsistent
    BY Zenon
  <2>1. TypeOK /\ PlansInv
    BY Zenon DEF IInv
  <2>2. ASSUME NEW n \in Codes, Compiling(n)
        PROVE  /\ n \notin ready /\ n \notin Range(queue)
               /\ Cardinality({t \in Threads : threadPlan[t] = n}) = 1
    <3>1. PICK t \in Threads : threadPlan[t] = n /\ n # 0
      BY <2>2, CodesFacts, Zenon DEF Compiling
    <3>2. n \notin ready /\ n \notin Range(queue) /\ \A u \in Threads : threadPlan[u] = n => u = t
      BY <2>1, <3>1, Zenon DEF PlansInv
    <3>3. {u \in Threads : threadPlan[u] = n} = {t}
      BY <3>1, <3>2, Zenon
    <3> QED BY <3>2, <3>3, FS_Singleton, Zenon
  <2> QED BY <2>1, <2>2, Zenon DEF PlansInv, WorklistConsistent
<1> QED BY <1>1, Invariance, PTL

(* No valid code contradicts a watched location, whatever a compilation    *)
(* thread read, and when.                                                  *)
THEOREM SpeculationIsNeverStale == Spec => []NoStaleSpeculation
<1>1. IInv => NoStaleSpeculation
  <2> SUFFICES ASSUME IInv PROVE NoStaleSpeculation
    BY Zenon
  <2>1. TypeOK /\ InstalledInv /\ AssumedInv
    BY Zenon DEF IInv
  <2>2. ASSUME NEW n \in valid, NEW s \in WatchSets PROVE value[s] \in assumed[n][s]
    <3>1. n \in Codes /\ value[s] \in Values
      BY <2>1, Zenon DEF TypeOK
    <3>2. CASE assumed[n][s] # Values
      BY <2>1, <3>1, <3>2, Zenon DEF AssumedInv
    <3> QED BY <3>1, <3>2, Zenon
  <2> QED BY <2>1, <2>2, Zenon DEF NoStaleSpeculation, InstalledInv
<1> QED BY <1>1, Invariance, PTL

(* A VM discards code or dies only when the worklist has none of its plans *)
(* and no thread compiles one.                                             *)
THEOREM DiscardingIsQuiet == Spec => []QuietWhenDiscarding
<1>1. IInv => QuietWhenDiscarding
  <2> SUFFICES ASSUME IInv, NEW v \in VMs, vmPC[v] \in {"collect", "gone"}
               PROVE  /\ plans \intersect PlansOf(v) = {}
                      /\ \A t \in Threads : threadPlan[t] \notin PlansOf(v)
    BY Zenon DEF QuietWhenDiscarding
  <2>1. plans \intersect PlansOf(v) = {}
    BY Zenon DEF IInv, PlansInv
  <2>2. ASSUME NEW t \in Threads, threadPlan[t] \in PlansOf(v) PROVE FALSE
    <3>1. threadPlan[t] \in Codes
      BY <2>2, Zenon DEF PlansOf
    <3>2. threadPlan[t] \in plans
      BY <3>1, Zenon DEF IInv, PlansInv, Compiling
    <3> QED BY <2>1, <2>2, <3>2, Zenon
  <2> QED BY <2>1, <2>2, Zenon
<1> QED BY <1>1, Invariance, PTL
=============================================================================
