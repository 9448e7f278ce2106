---------------------- MODULE SchedulerLifecycleProofs ----------------------
(***************************************************************************)
(* Theorems about SchedulerLifecycle, for every set of agents, pool of     *)
(* threads and bound on edits and failures.                                *)
(***************************************************************************)
EXTENDS SchedulerLifecycle, TLAPS

-----------------------------------------------------------------------------
(* Type correctness.                                                       *)

\* Forgetting finished threads keeps the registry typed.
LEMMA CleanedType ==
  ASSUME TypeOK
  PROVE  Cleaned \in [Agents -> Threads \cup {None}]
BY DEF TypeOK, Cleaned, Registered

\* An operation that begins is well typed.
LEMMA OperationType ==
  ASSUME TypeOK, NEW kind \in OpKinds, NEW wait \in BOOLEAN,
         NEW stops \in SUBSET Agents, NEW starts \in SUBSET Agents
  PROVE  Operation(kind, wait, stops, starts) \in OpType
BY DEF TypeOK, Operation, OpType

\* New and dead threads are well typed.
LEMMA ThreadFacts ==
  /\ Dead \in ThreadType
  /\ \A a \in Agents, v \in Nat : NewThread(a, v) \in ThreadType
BY DEF Dead, NewThread, ThreadType

\* Asking a thread to stop keeps the threads typed.
LEMMA SetStopType ==
  ASSUME TypeOK, NEW i \in Threads
  PROVE  [thread EXCEPT ![i].stop = TRUE] \in [Threads -> ThreadType]
BY DEF TypeOK, ThreadType

\* The idle operation is an operation.
LEMMA IdleType == Idle \in OpType
BY DEF Idle, OpKinds, OpType

\* Creating a thread keeps the types.
LEMMA CreateType ==
  ASSUME TypeOK, NEW a \in Agents, NEW v \in Nat, CreateScheduler(a, v)
  PROVE  /\ schedulers' \in [Agents -> Threads \cup {None}]
         /\ thread' \in [Threads -> ThreadType]
         /\ faults' \in Nat
<1>1. Cleaned \in [Agents -> Threads \cup {None}]
  BY CleanedType
<1>2. CASE Cleaned[a] # None
  BY <1>1, <1>2 DEF CreateScheduler, TypeOK
<1>3. CASE Cleaned[a] = None
  <2>1. ASSUME NEW i \in Unused,
               thread' = [thread EXCEPT ![i] = NewThread(a, v)],
               schedulers' = [Cleaned EXCEPT ![a] = i],
               UNCHANGED faults
        PROVE  /\ schedulers' \in [Agents -> Threads \cup {None}]
               /\ thread' \in [Threads -> ThreadType]
               /\ faults' \in Nat
    BY <1>1, <2>1, ThreadFacts DEF TypeOK, Unused
  <2>2. CASE schedulers' = Cleaned /\ faults' = faults + 1 /\ UNCHANGED thread
    BY <1>1, <2>2 DEF TypeOK
  <2>3. QED
    BY <1>3, <2>1, <2>2 DEF CreateScheduler
<1>4. QED
  BY <1>2, <1>3

\* Deferring a restart keeps the types.
LEMMA ScheduleType ==
  ASSUME TypeOK, NEW a \in Agents, Registered(a), ScheduleDeferredRestart(a)
  PROVE  /\ deferred' \in [Agents -> Threads \cup {None}]
         /\ workers' \subseteq Agents \X Threads
         /\ targets' \subseteq Agents
BY DEF TypeOK, ScheduleDeferredRestart, Registered

\* The kinds of values the variables hold (TypeOK), for every instance.
THEOREM TypeCorrect == Spec => []TypeOK
<1>1. Init => TypeOK
  <2> SUFFICES ASSUME Init PROVE TypeOK
    OBVIOUS
  <2>1. decay \in [kept: BOOLEAN, leaving: BOOLEAN]
    BY DEF Init
  <2>2. op \in OpType /\ thread \in [Threads -> ThreadType]
    BY IdleType, ThreadFacts DEF Init
  <2>3. QED
    BY <2>1, <2>2 DEF Init, TypeOK
<1>2. TypeOK /\ [Next]_vars => TypeOK'
  <2> SUFFICES ASSUME TypeOK, [Next]_vars PROVE TypeOK'
    OBVIOUS
  <2> USE DEF threadVars, workerVars, raVars, dbVars, historyVars
  <2>a. /\ Cleaned \in [Agents -> Threads \cup {None}]
        /\ Idle \in OpType
        /\ ActiveAgents \in SUBSET Agents
        /\ {a \in Agents : Registered(a)} \in SUBSET Agents
        /\ {a \in Agents : Cleaned[a] # None} \in SUBSET Agents
    BY CleanedType, IdleType DEF ActiveAgents
  <2>b. OpKinds = {"idle", "start", "stop", "restart", "restart_all"}
    BY DEF OpKinds
  <2>1. CASE Start
    <3>1. op' \in OpType
      BY <2>1, <2>a, <2>b, OperationType DEF Start
    <3>2. QED
      BY <2>1, <3>1 DEF Start, TypeOK
  <2>2. ASSUME NEW wait \in BOOLEAN, Stop(wait) PROVE TypeOK'
    <3>1. op' \in OpType
      BY <2>2, <2>a, <2>b, OperationType DEF Stop
    <3>2. QED
      BY <2>2, <3>1 DEF Stop, TypeOK
  <2>3. ASSUME NEW a \in Agents, RestartAgent(a) PROVE TypeOK'
    <3>1. op' \in OpType
      <4>1. CASE UNCHANGED op
        BY <4>1 DEF TypeOK
      <4>2. CASE ~UNCHANGED op
        <5>1. PICK stops \in SUBSET Agents, starts \in SUBSET Agents :
                op' = Operation("restart", TRUE, stops, starts)
          BY <2>3, <4>2 DEF RestartAgent
        <5>2. QED
          BY <5>1, <2>b, OperationType
      <4>3. QED
        BY <4>1, <4>2
    <3>2. QED
      BY <2>3, <2>a, <3>1 DEF RestartAgent, TypeOK
  <2>4. ASSUME NEW a \in Agents, StartAgent(a) PROVE TypeOK'
    <3>1. op' \in OpType
      BY <2>4, <2>b, OperationType DEF StartAgent
    <3>2. QED
      BY <2>4, <3>1 DEF StartAgent, TypeOK
  <2>5. ASSUME NEW a \in Agents, StopAgent(a) PROVE TypeOK'
    <3>1. thread' \in [Threads -> ThreadType]
      <4>1. CASE Cleaned[a] = None
        BY <2>5, <4>1 DEF StopAgent, TypeOK
      <4>2. CASE Cleaned[a] # None
        BY <2>5, <2>a, <4>2, SetStopType DEF StopAgent
      <4>3. QED
        BY <4>1, <4>2
    <3>2. QED
      BY <2>5, <2>a, <3>1 DEF StopAgent, TypeOK
  <2>6. CASE RequestRestartAll
    BY <2>6 DEF RequestRestartAll, TypeOK
  <2>7. ASSUME NEW a \in Agents, RequestStop(a) PROVE TypeOK'
    <3>1. op' \in OpType
      BY <2>7 DEF RequestStop, TypeOK, OpType
    <3>2. thread' \in [Threads -> ThreadType]
      <4>1. CASE Registered(a)
        <5>1. schedulers[a] \in Threads
          BY <4>1 DEF Registered, TypeOK
        <5>2. QED
          BY <2>7, <5>1, SetStopType DEF RequestStop, TypeOK
      <4>2. CASE ~Registered(a)
        BY <2>7, <4>2 DEF RequestStop, TypeOK
      <4>3. QED
        BY <4>1, <4>2
    <3>3. QED
      BY <2>7, <3>1, <3>2 DEF RequestStop, TypeOK
  <2>8. ASSUME NEW a \in Agents, StopSucceeded(a) PROVE TypeOK'
    BY <2>8 DEF StopSucceeded, TypeOK, OpType
  <2>9. ASSUME NEW a \in Agents, StopTimedOut(a) PROVE TypeOK'
    <3>1. op' \in OpType
      BY <2>9 DEF StopTimedOut, TypeOK, OpType
    <3>2. /\ deferred' \in [Agents -> Threads \cup {None}]
          /\ workers' \subseteq Agents \X Threads
          /\ targets' \subseteq Agents
      <4>1. CASE ScheduleDeferredRestart(a)
        BY <2>9, <4>1, ScheduleType DEF StopTimedOut
      <4>2. CASE UNCHANGED <<deferred, workers>> /\ targets' \subseteq targets
        BY <4>2 DEF TypeOK
      <4>3. QED
        BY <2>9, <4>1, <4>2 DEF StopTimedOut
    <3>3. QED
      BY <2>9, <3>1, <3>2 DEF StopTimedOut, TypeOK
  <2>10. ASSUME NEW a \in Agents, PickOrCreate(a) PROVE TypeOK'
    <3>1. op.ver[a] \in Nat
      BY DEF TypeOK, OpType
    <3>2. op' \in OpType
      BY <2>10 DEF PickOrCreate, TypeOK, OpType
    <3>3. /\ schedulers' \in [Agents -> Threads \cup {None}]
          /\ thread' \in [Threads -> ThreadType]
          /\ faults' \in Nat
      <4>1. CASE Cleaned[a] = None
        BY <2>10, <3>1, <4>1, CreateType DEF PickOrCreate
      <4>2. CASE Cleaned[a] # None
        BY <2>10, <2>a, <4>2 DEF PickOrCreate, TypeOK
      <4>3. QED
        BY <4>1, <4>2
    <3>4. QED
      BY <2>10, <3>2, <3>3 DEF PickOrCreate, TypeOK
  <2>11. ASSUME NEW a \in Agents, CheckPicked(a) PROVE TypeOK'
    <3>1. op' \in OpType
      BY <2>11 DEF CheckPicked, TypeOK, OpType
    <3>2. /\ deferred' \in [Agents -> Threads \cup {None}]
          /\ workers' \subseteq Agents \X Threads
          /\ targets' \subseteq Agents
      <4>1. CASE Registered(a) /\ ScheduleDeferredRestart(a)
        BY <4>1, ScheduleType
      <4>2. CASE UNCHANGED workerVars
        BY <4>2 DEF TypeOK
      <4>3. QED
        BY <2>11, <4>1, <4>2 DEF CheckPicked
    <3>3. QED
      BY <2>11, <3>1, <3>2 DEF CheckPicked, TypeOK
  <2>12. CASE Return
    BY <2>12, <2>a DEF Return, TypeOK
  <2>13. CASE RestartAll
    <3>1. op' \in OpType
      BY <2>13, <2>a, <2>b, OperationType DEF RestartAll
    <3>2. QED
      BY <2>13, <2>a, <3>1 DEF RestartAll, TypeOK
  <2>14. CASE DrainTop \/ RestartAllIgnored \/ RestartAllRaises \/ DrainFinally
    <3>1. /\ raPc' \in {"none", "top", "run", "busy", "failed"}
          /\ raPending' \in BOOLEAN
          /\ faults' \in Nat
      <4>1. CASE DrainTop
        BY <4>1, Zenon DEF DrainTop, TypeOK
      <4>2. CASE RestartAllIgnored
        BY <4>2 DEF RestartAllIgnored, TypeOK
      <4>3. CASE RestartAllRaises
        BY <4>3 DEF RestartAllRaises, TypeOK
      <4>4. CASE DrainFinally
        BY <4>4 DEF DrainFinally, TypeOK
      <4>5. QED
        BY <2>14, <4>1, <4>2, <4>3, <4>4
    <3>2. QED
      BY <2>14, <3>1
      DEF DrainTop, RestartAllIgnored, RestartAllRaises, DrainFinally, TypeOK
  <2>15. ASSUME NEW a \in Agents, NEW i \in Threads, RestartAfterExit(a, i)
         PROVE  TypeOK'
    <3>1. version[a] \in Nat
      BY DEF TypeOK
    <3>2. /\ schedulers' \in [Agents -> Threads \cup {None}]
          /\ thread' \in [Threads -> ThreadType]
          /\ faults' \in Nat
      <4>1. CASE CreateScheduler(a, version[a])
        BY <3>1, <4>1, CreateType
      <4>2. CASE UNCHANGED <<thread, faults>> /\
                 schedulers' = [schedulers EXCEPT ![a] =
                                  IF schedulers[a] = i THEN None ELSE schedulers[a]]
        BY <4>2 DEF TypeOK
      <4>3. QED
        BY <2>15, <4>1, <4>2 DEF RestartAfterExit
    <3>3. QED
      BY <2>15, <3>2 DEF RestartAfterExit, TypeOK
  <2>16. ASSUME NEW i \in Threads, AgentThread(i) PROVE TypeOK'
    BY <2>16, ThreadFacts DEF AgentThread, LogIn, EndSession, Exit, Crash, TypeOK, ThreadType
  <2>17. CASE DecayExit
    BY <2>17 DEF DecayExit, TypeOK
  <2>18. CASE ReadStatus
    BY <2>18, <2>a DEF ReadStatus, TypeOK
  <2>19. ASSUME NEW a \in Agents, NEW status \in ConfigStatus, EditConfig(a, status)
         PROVE  TypeOK'
    BY <2>19 DEF EditConfig, TypeOK
  <2>20. CASE UNCHANGED vars
    BY <2>20 DEF vars, TypeOK
  <2>21. QED
    BY <2>1, <2>2, <2>3, <2>4, <2>5, <2>6, <2>7, <2>8, <2>9, <2>10, <2>11, <2>12,
       <2>13, <2>14, <2>15, <2>16, <2>17, <2>18, <2>19, <2>20
    DEF Next, HolderStep, Request, RestartAllWorker
<1>3. QED
  BY <1>1, <1>2, PTL DEF Spec
-----------------------------------------------------------------------------
(* The registry, and with it: at most one live thread per agent.           *)

\* Threads may end and registrations of ended threads may go.
LEMMA RegistryKept ==
  ASSUME TypeOK, Registry,
         \A i \in Threads : Alive(i)' => Alive(i) /\ thread'[i].agent = thread[i].agent,
         \A a \in Agents : \/ schedulers'[a] = schedulers[a]
                           \/ schedulers'[a] = None /\ ~(Registered(a) /\ Alive(schedulers[a]))
  PROVE  Registry'
<1>1. ASSUME NEW i \in Threads, Alive(i)'
      PROVE  thread'[i].agent \in Agents /\ schedulers'[thread'[i].agent] = i
  <2>1. Alive(i) /\ thread'[i].agent = thread[i].agent
    BY <1>1
  <2>2. thread[i].agent \in Agents /\ schedulers[thread[i].agent] = i
    BY <2>1 DEF Registry
  <2>3. QED
    BY <2>1, <2>2, SchedulerAssumption DEF Registered
<1>2. ASSUME NEW a \in Agents, schedulers'[a] # None, Alive(schedulers[a])'
      PROVE  thread'[schedulers'[a]].agent = a
  <2>1. schedulers'[a] = schedulers[a] /\ schedulers[a] \in Threads
    BY <1>2 DEF TypeOK
  <2>2. QED
    BY <1>2, <2>1 DEF Registry, Registered
<1>3. QED
  BY <1>1, <1>2 DEF Registry, Registered

\* Cleaning keeps exactly the registered threads that are alive.
LEMMA CleanedFacts ==
  ASSUME NEW a \in Agents
  PROVE  \/ Cleaned[a] = schedulers[a] /\ Registered(a) /\ Alive(schedulers[a])
         \/ Cleaned[a] = None /\ ~(Registered(a) /\ Alive(schedulers[a]))
BY DEF Cleaned

\* A thread is created only for an agent none of whose threads is alive.
LEMMA RegistryCreated ==
  ASSUME TypeOK, Registry, NEW a \in Agents, NEW v \in Nat, CreateScheduler(a, v)
  PROVE  Registry'
<1>1. CASE UNCHANGED thread /\ schedulers' = Cleaned
  BY <1>1, CleanedFacts, RegistryKept DEF Alive
<1>2. CASE /\ Cleaned[a] = None
           /\ \E i \in Unused : /\ thread' = [thread EXCEPT ![i] = NewThread(a, v)]
                                /\ schedulers' = [Cleaned EXCEPT ![a] = i]
  <2>1. PICK i \in Unused : /\ thread' = [thread EXCEPT ![i] = NewThread(a, v)]
                            /\ schedulers' = [Cleaned EXCEPT ![a] = i]
    BY <1>2
  <2>2. /\ i \in Threads
        /\ ~Alive(i)
        /\ \A b \in Agents : schedulers[b] # i
    BY DEF Unused
  <2>3. thread'[i] = NewThread(a, v) /\ \A j \in Threads \ {i} : thread'[j] = thread[j]
    BY <2>1, <2>2 DEF TypeOK
  <2>4. schedulers'[a] = i /\ \A b \in Agents \ {a} : schedulers'[b] = Cleaned[b]
    BY <2>1, CleanedType
  <2>5. ASSUME NEW j \in Threads, Alive(j)'
        PROVE  thread'[j].agent \in Agents /\ schedulers'[thread'[j].agent] = j
    <3>1. CASE j = i
      BY <2>3, <2>4, <3>1 DEF NewThread
    <3>2. CASE j # i
      <4>1. Alive(j) /\ thread'[j] = thread[j]
        BY <2>3, <2>5, <3>2 DEF Alive
      <4>2. thread[j].agent \in Agents /\ schedulers[thread[j].agent] = j
        BY <4>1 DEF Registry
      <4>3. Cleaned[thread[j].agent] = j
        BY <4>1, <4>2, SchedulerAssumption, CleanedFacts DEF Registered
      <4>4. thread[j].agent # a
        BY <1>2, <4>3, SchedulerAssumption
      <4>5. QED
        BY <2>4, <4>1, <4>2, <4>3, <4>4
    <3>3. QED
      BY <3>1, <3>2
  <2>6. ASSUME NEW b \in Agents, schedulers'[b] # None, Alive(schedulers[b])'
        PROVE  thread'[schedulers'[b]].agent = b
    <3>1. CASE b = a
      BY <2>3, <2>4, <3>1 DEF NewThread
    <3>2. CASE b # a
      <4>1. /\ schedulers'[b] = schedulers[b]
            /\ Registered(b)
            /\ Alive(schedulers[b])
        BY <2>4, <2>6, <3>2, CleanedFacts
      <4>2. schedulers[b] \in Threads \ {i}
        BY <2>2, <4>1 DEF TypeOK, Registered
      <4>3. QED
        BY <2>3, <4>1, <4>2 DEF Registry
    <3>3. QED
      BY <3>1, <3>2
  <2>7. QED
    BY <2>5, <2>6 DEF Registry, Registered
<1>3. QED
  BY <1>1, <1>2 DEF CreateScheduler

\* Every step keeps registry and threads in agreement.
LEMMA RegistryStep ==
  ASSUME TypeOK, Registry, [Next]_vars
  PROVE  Registry'
<1> USE DEF threadVars, Alive
<1>1. CASE UNCHANGED threadVars
  BY <1>1, RegistryKept
<1>2. CASE UNCHANGED thread /\ schedulers' = Cleaned
  BY <1>2, CleanedFacts, RegistryKept
<1>3. ASSUME NEW a \in Agents, StopAgent(a) PROVE Registry'
  <2>1. schedulers' = Cleaned
    BY <1>3 DEF StopAgent
  <2>2. \A i \in Threads : thread'[i].st = thread[i].st /\ thread'[i].agent = thread[i].agent
    BY <1>3 DEF StopAgent, TypeOK, ThreadType
  <2>3. QED
    BY <2>1, <2>2, CleanedFacts, RegistryKept
<1>4. ASSUME NEW a \in Agents, RequestStop(a) PROVE Registry'
  <2>1. schedulers' = schedulers
    BY <1>4 DEF RequestStop
  <2>2. \A i \in Threads : thread'[i].st = thread[i].st /\ thread'[i].agent = thread[i].agent
    BY <1>4 DEF RequestStop, TypeOK, ThreadType
  <2>3. QED
    BY <2>1, <2>2, RegistryKept
<1>5. ASSUME NEW a \in Agents, StopSucceeded(a) PROVE Registry'
  BY <1>5, RegistryKept DEF StopSucceeded, TypeOK
<1>6. ASSUME NEW a \in Agents, PickOrCreate(a) PROVE Registry'
  <2>1. op.ver[a] \in Nat
    BY DEF TypeOK, OpType
  <2>2. CreateScheduler(a, op.ver[a]) \/ (UNCHANGED thread /\ schedulers' = Cleaned)
    <3>1. CASE Cleaned[a] = None
      BY <1>6, <3>1 DEF PickOrCreate
    <3>2. CASE Cleaned[a] # None
      BY <1>6, <3>2 DEF PickOrCreate
    <3>3. QED
      BY <3>1, <3>2
  <2>3. QED
    BY <1>2, <2>1, <2>2, RegistryCreated
<1>7. ASSUME NEW a \in Agents, NEW i \in Threads, RestartAfterExit(a, i)
      PROVE  Registry'
  <2>1. CASE CreateScheduler(a, version[a])
    BY <2>1, RegistryCreated DEF TypeOK
  <2>2. CASE /\ UNCHANGED thread
             /\ schedulers' = [schedulers EXCEPT ![a] =
                                 IF schedulers[a] = i THEN None ELSE schedulers[a]]
    <3>1. ~Alive(i)
      BY <1>7 DEF RestartAfterExit
    <3>2. \A b \in Agents : \/ schedulers'[b] = schedulers[b]
                            \/ schedulers'[b] = None /\ schedulers[b] = i
      BY <2>2 DEF TypeOK
    <3>3. QED
      BY <2>2, <3>1, <3>2, RegistryKept
  <2>3. QED
    BY <1>7, <2>1, <2>2 DEF RestartAfterExit
<1>8. ASSUME NEW i \in Threads, AgentThread(i) PROVE Registry'
  <2>1. schedulers' = schedulers
    BY <1>8 DEF AgentThread, LogIn, EndSession, Exit, Crash
  <2>2. \A j \in Threads :
          thread'[j].st # "dead" => /\ thread[j].st # "dead"
                                    /\ thread'[j].agent = thread[j].agent
    BY <1>8 DEF AgentThread, LogIn, EndSession, Exit, Crash, Dead, TypeOK, ThreadType
  <2>3. QED
    BY <2>1, <2>2, RegistryKept
<1>9. ASSUME NEW a \in Agents, RestartAgent(a) PROVE Registry'
  BY <1>2, <1>9 DEF RestartAgent
<1>10. CASE RestartAll
  BY <1>2, <1>10 DEF RestartAll
<1>11. CASE ReadStatus
  BY <1>2, <1>11 DEF ReadStatus
<1>12. QED
  BY <1>1, <1>3, <1>4, <1>5, <1>6, <1>7, <1>8, <1>9, <1>10, <1>11
  DEF Next, HolderStep, Request, RestartAllWorker, Start, Stop, StartAgent,
      RequestRestartAll, StopTimedOut, CheckPicked, Return, DrainTop,
      RestartAllIgnored, RestartAllRaises, DrainFinally, DecayExit, EditConfig, vars

\* A live thread is always the registered thread of its agent (Registry).
THEOREM RegistryInvariant == Spec => []Registry
<1>1. Init => Registry
  BY DEF Init, Registry, Registered, Alive, Dead
<1>2. TypeOK /\ Registry /\ [Next]_vars => Registry'
  BY RegistryStep
<1>3. QED
  BY <1>1, <1>2, TypeCorrect, PTL DEF Spec

\* No agent ever acts through two threads at once (OneLiveThread).
THEOREM SingleThread == Spec => []OneLiveThread
<1>1. Registry => OneLiveThread
  BY DEF Registry, OneLiveThread
<1>2. QED
  BY <1>1, RegistryInvariant, PTL
-----------------------------------------------------------------------------
(* The deferred-restart workers.                                           *)

\* Deferring a restart leaves a live worker behind the target.
LEMMA ScheduleWorkers ==
  ASSUME TypeOK, WorkerRegistry, TargetHasWorker,
         NEW a \in Agents, Registered(a), ScheduleDeferredRestart(a)
  PROVE  WorkerRegistry' /\ TargetHasWorker'
<1>1. schedulers[a] \in Threads /\ schedulers[a] # None
  BY DEF TypeOK, Registered
<1>2. CASE deferred[a] # None
  <2>1. <<a, deferred[a]>> \in workers
    BY <1>2 DEF WorkerRegistry
  <2>2. UNCHANGED <<deferred, workers>> /\ targets' = targets \cup {a}
    BY <1>2, <2>1 DEF ScheduleDeferredRestart
  <2>3. QED
    BY <1>2, <2>1, <2>2 DEF WorkerRegistry, TargetHasWorker
<1>3. CASE deferred[a] = None
  <2>1. /\ deferred' = [deferred EXCEPT ![a] = schedulers[a]]
        /\ workers' = workers \cup {<<a, schedulers[a]>>}
        /\ targets' = targets \cup {a}
    BY <1>3 DEF ScheduleDeferredRestart
  <2>2. \A i \in Threads : <<a, i>> \notin workers
    BY <1>3, SchedulerAssumption DEF WorkerRegistry
  <2>3. deferred'[a] = schedulers[a] /\ \A b \in Agents \ {a} : deferred'[b] = deferred[b]
    BY <2>1 DEF TypeOK
  <2>4. ASSUME NEW b \in Agents, deferred'[b] # None PROVE <<b, deferred'[b]>> \in workers'
    BY <2>1, <2>3, <2>4 DEF WorkerRegistry
  <2>5. ASSUME NEW b \in Agents, NEW i \in Threads, <<b, i>> \in workers'
        PROVE  deferred'[b] = i
    BY <2>1, <2>2, <2>3, <2>5 DEF WorkerRegistry
  <2>6. ASSUME NEW b \in targets' PROVE deferred'[b] # None /\ <<b, deferred'[b]>> \in workers'
    <3>1. b \in Agents
      BY <2>1 DEF TypeOK
    <3>2. QED
      BY <1>1, <2>1, <2>3, <3>1 DEF TargetHasWorker
  <2>7. QED
    BY <2>4, <2>5, <2>6 DEF WorkerRegistry, TargetHasWorker
<1>4. QED
  BY <1>2, <1>3

\* Every step keeps a live worker behind each target.
LEMMA WorkerStep ==
  ASSUME TypeOK, WorkerRegistry, TargetHasWorker, [Next]_vars
  PROVE  WorkerRegistry' /\ TargetHasWorker'
<1> USE DEF workerVars
<1>1. CASE UNCHANGED <<deferred, workers>> /\ targets' \subseteq targets
  BY <1>1 DEF WorkerRegistry, TargetHasWorker
<1>2. ASSUME NEW a \in Agents, RestartAgent(a) PROVE WorkerRegistry' /\ TargetHasWorker'
  <2>1. UNCHANGED <<deferred, workers>>
    BY <1>2 DEF RestartAgent
  <2>2. CASE deferred[a] # None
    <3>1. targets' \subseteq targets \cup {a} /\ <<a, deferred[a]>> \in workers
      BY <1>2, <2>2 DEF RestartAgent, WorkerRegistry
    <3>2. QED
      BY <2>1, <2>2, <3>1 DEF WorkerRegistry, TargetHasWorker
  <2>3. CASE deferred[a] = None
    BY <1>1, <1>2, <2>1, <2>3 DEF RestartAgent
  <2>4. QED
    BY <2>2, <2>3
<1>3. ASSUME NEW a \in Agents, StopTimedOut(a) PROVE WorkerRegistry' /\ TargetHasWorker'
  <2>1. CASE ScheduleDeferredRestart(a)
    BY <1>3, <2>1, ScheduleWorkers DEF StopTimedOut
  <2>2. CASE UNCHANGED <<deferred, workers>> /\ targets' \subseteq targets
    BY <1>1, <2>2
  <2>3. QED
    BY <1>3, <2>1, <2>2 DEF StopTimedOut
<1>4. ASSUME NEW a \in Agents, CheckPicked(a) PROVE WorkerRegistry' /\ TargetHasWorker'
  <2>1. CASE Registered(a) /\ ScheduleDeferredRestart(a)
    BY <2>1, ScheduleWorkers
  <2>2. QED
    BY <1>1, <1>4, <2>1 DEF CheckPicked
<1>5. ASSUME NEW a \in Agents, NEW i \in Threads, RestartAfterExit(a, i)
      PROVE  WorkerRegistry' /\ TargetHasWorker'
  <2>1. /\ <<a, i>> \in workers
        /\ workers' = workers \ {<<a, i>>}
        /\ targets' = targets \ {a}
        /\ deferred' = IF deferred[a] = i THEN [deferred EXCEPT ![a] = None] ELSE deferred
    BY <1>5 DEF RestartAfterExit
  <2>2. deferred[a] = i
    BY <2>1 DEF WorkerRegistry
  <2>3. deferred'[a] = None /\ \A b \in Agents \ {a} : deferred'[b] = deferred[b]
    BY <2>1, <2>2 DEF TypeOK
  <2>4. ASSUME NEW b \in Agents, deferred'[b] # None PROVE <<b, deferred'[b]>> \in workers'
    BY <2>1, <2>3, <2>4 DEF WorkerRegistry
  <2>5. ASSUME NEW b \in Agents, NEW j \in Threads, <<b, j>> \in workers'
        PROVE  deferred'[b] = j
    BY <2>1, <2>2, <2>3, <2>5 DEF WorkerRegistry
  <2>6. ASSUME NEW b \in targets' PROVE deferred'[b] # None /\ <<b, deferred'[b]>> \in workers'
    <3>1. b \in targets /\ b \in Agents /\ b # a
      BY <2>1 DEF TypeOK
    <3>2. QED
      BY <2>1, <2>3, <3>1 DEF TargetHasWorker
  <2>7. QED
    BY <2>4, <2>5, <2>6 DEF WorkerRegistry, TargetHasWorker
<1>6. ASSUME NEW wait \in BOOLEAN, Stop(wait) PROVE WorkerRegistry' /\ TargetHasWorker'
  BY <1>1, <1>6 DEF Stop
<1>7. ASSUME NEW a \in Agents, StopAgent(a) \/ StopSucceeded(a)
      PROVE  WorkerRegistry' /\ TargetHasWorker'
  BY <1>1, <1>7 DEF StopAgent, StopSucceeded
<1>8. CASE UNCHANGED workerVars
  BY <1>1, <1>8
<1>9. QED
  BY <1>2, <1>3, <1>4, <1>5, <1>6, <1>7, <1>8
  DEF Next, HolderStep, Request, RestartAllWorker, AgentThread, Start, StartAgent,
      RequestRestartAll, RequestStop, PickOrCreate, Return, DrainTop, RestartAll,
      RestartAllIgnored, RestartAllRaises, DrainFinally, LogIn, EndSession, Exit,
      Crash, DecayExit, ReadStatus, EditConfig, vars

\* A pending deferred restart always has its live, registered worker
\* (TargetHasWorker), and no agent ever has two of them.
THEOREM PendingRestartHasWorker == Spec => [](WorkerRegistry /\ TargetHasWorker)
<1>1. Init => WorkerRegistry /\ TargetHasWorker
  BY DEF Init, WorkerRegistry, TargetHasWorker
<1>2. TypeOK /\ WorkerRegistry /\ TargetHasWorker /\ [Next]_vars
        => WorkerRegistry' /\ TargetHasWorker'
  BY WorkerStep
<1>3. QED
  BY <1>1, <1>2, TypeCorrect, PTL DEF Spec
-----------------------------------------------------------------------------
(* The holder of the lifecycle lock.                                       *)

\* Creating a thread changes none that is alive.
LEMMA CreateFacts ==
  ASSUME TypeOK, NEW a \in Agents, NEW v \in Nat, CreateScheduler(a, v)
  PROVE  \A i \in Threads : \/ thread'[i] = thread[i]
                            \/ ~Alive(i) /\ thread'[i] = NewThread(a, v)
<1>1. CASE UNCHANGED thread
  BY <1>1
<1>2. CASE \E i \in Unused : thread' = [thread EXCEPT ![i] = NewThread(a, v)]
  BY <1>2 DEF TypeOK, Unused
<1>3. QED
  BY <1>1, <1>2 DEF CreateScheduler

\* Every step keeps the shape of the running operation.
LEMMA ShapeStep ==
  ASSUME TypeOK, HolderShape, [Next]_vars
  PROVE  HolderShape'
<1> USE DEF HolderShape, LockFree
<1>1. ASSUME UNCHANGED op, isRunning' = isRunning PROVE HolderShape'
  BY <1>1
<1>2. CASE Start
  BY <1>2 DEF Start, Operation
<1>3. ASSUME NEW wait \in BOOLEAN, Stop(wait) PROVE HolderShape'
  BY <1>3 DEF Stop, Operation
<1>4. ASSUME NEW a \in Agents, RestartAgent(a) PROVE HolderShape'
  <2>1. isRunning' = isRunning
    BY <1>4 DEF RestartAgent
  <2>2. CASE UNCHANGED op
    BY <1>1, <2>1, <2>2
  <2>3. CASE ~UNCHANGED op
    <3>1. PICK stops \in SUBSET Agents, starts \in SUBSET Agents :
            /\ op' = Operation("restart", TRUE, stops, starts)
            /\ starts # {} => isRunning
      BY <1>4, <2>3 DEF RestartAgent
    <3>2. QED
      BY <2>1, <3>1 DEF Operation
  <2>4. QED
    BY <2>2, <2>3
<1>5. ASSUME NEW a \in Agents, StartAgent(a) PROVE HolderShape'
  BY <1>5 DEF StartAgent, Operation
<1>6. ASSUME NEW a \in Agents, RequestStop(a) PROVE HolderShape'
  BY <1>6 DEF RequestStop, TypeOK, OpType
<1>7. ASSUME NEW a \in Agents, StopSucceeded(a) PROVE HolderShape'
  BY <1>7 DEF StopSucceeded, TypeOK, OpType
<1>8. ASSUME NEW a \in Agents, StopTimedOut(a) PROVE HolderShape'
  BY <1>8 DEF StopTimedOut, TypeOK, OpType
<1>9. ASSUME NEW a \in Agents, PickOrCreate(a) PROVE HolderShape'
  BY <1>9 DEF PickOrCreate, TypeOK, OpType
<1>10. ASSUME NEW a \in Agents, CheckPicked(a) PROVE HolderShape'
  BY <1>10 DEF CheckPicked, TypeOK, OpType
<1>11. CASE Return
  BY <1>11 DEF Return, Idle
<1>12. CASE RestartAll
  BY <1>12 DEF RestartAll, Operation
<1>13. QED
  BY <1>1, <1>2, <1>3, <1>4, <1>5, <1>6, <1>7, <1>8, <1>9, <1>10, <1>11, <1>12
  DEF Next, HolderStep, Request, RestartAllWorker, AgentThread, StopAgent,
      RequestRestartAll, DrainTop, RestartAllIgnored, RestartAllRaises, DrainFinally,
      RestartAfterExit, LogIn, EndSession, Exit, Crash, DecayExit, ReadStatus,
      EditConfig, vars

\* While the manager is stopped its threads only come closer to their end.
LEMMA StoppingKept ==
  ASSUME StoppingManager, ~isRunning, ~isRunning',
         targets' \subseteq targets, raPending' => raPending, decay'.kept => decay.kept,
         op'.stops = op.stops, op'.cur = op.cur,
         \A i \in Threads : Alive(i)' => /\ Alive(i)
                                         /\ thread'[i].agent = thread[i].agent
                                         /\ thread[i].stop => thread'[i].stop
  PROVE  StoppingManager'
BY DEF StoppingManager

\* Every step keeps a stopped manager quiet, as stop() left it.
LEMMA StoppingStep ==
  ASSUME TypeOK, Registry, HolderShape, StoppingManager, [Next]_vars
  PROVE  StoppingManager'
<1> USE DEF threadVars, workerVars, raVars, dbVars, historyVars
<1>1. CASE isRunning'
  BY <1>1 DEF StoppingManager
<1>2. ASSUME NEW wait \in BOOLEAN, Stop(wait) PROVE StoppingManager'
  <2>1. /\ ~isRunning' /\ targets' = {} /\ ~raPending' /\ ~decay'.kept
        /\ UNCHANGED threadVars
        /\ op'.stops = {a \in Agents : Registered(a)}
        /\ op'.cur = None
    BY <1>2 DEF Stop, Operation
  <2>2. ASSUME NEW i \in Threads, Alive(i)
        PROVE  thread[i].agent \in Agents /\ Registered(thread[i].agent)
    BY <2>2, SchedulerAssumption DEF Registry, Registered
  <2>3. \A i \in Threads : Alive(i) => /\ thread[i].agent \in op'.stops
                                       /\ thread[i].agent # op'.cur
    BY <2>1, <2>2, SchedulerAssumption
  <2>4. QED
    BY <2>1, <2>3 DEF StoppingManager, Alive
<1>3. CASE ~isRunning /\ ~isRunning' /\ ~\E wait \in BOOLEAN : Stop(wait)
  <2>1. /\ op.starts = {} /\ targets = {} /\ ~raPending /\ ~decay.kept
        /\ op.cur # None => op.cur \in op.stops
    BY <1>3 DEF HolderShape, StoppingManager
  <2>2. ASSUME NEW a \in Agents, RestartAgent(a) PROVE StoppingManager'
    <3>1. /\ targets' \subseteq targets
          /\ UNCHANGED <<thread, raVars, decay>>
          /\ LockFree
      BY <1>3, <2>2 DEF RestartAgent
    <3>2. \A i \in Threads : Alive(i) => thread[i].stop
      BY <1>3, <3>1 DEF HolderShape, StoppingManager
    <3>3. QED
      BY <2>1, <3>1, <3>2 DEF StoppingManager, Alive
  <2>3. ASSUME NEW a \in Agents, StopAgent(a) PROVE StoppingManager'
    <3>1. \A i \in Threads : /\ thread'[i].st = thread[i].st
                             /\ thread'[i].agent = thread[i].agent
                             /\ thread[i].stop => thread'[i].stop
      BY <2>3 DEF StopAgent, TypeOK, ThreadType
    <3>2. QED
      BY <1>3, <2>3, <3>1, StoppingKept DEF StopAgent, Alive
  <2>4. ASSUME NEW a \in Agents, RequestStop(a) PROVE StoppingManager'
    <3>1. op'.stops = op.stops /\ op'.cur = a
      BY <2>4 DEF RequestStop, TypeOK, OpType
    <3>2. \A i \in Threads : /\ thread'[i].st = thread[i].st
                             /\ thread'[i].agent = thread[i].agent
                             /\ thread[i].stop => thread'[i].stop
      BY <2>4 DEF RequestStop, TypeOK, ThreadType
    <3>3. ASSUME NEW i \in Threads, Alive(i), thread[i].agent = a
          PROVE  thread'[i].stop
      <4>1. schedulers[a] = i /\ Registered(a)
        BY <3>3, SchedulerAssumption DEF Registry, Registered
      <4>2. thread' = [thread EXCEPT ![i].stop = TRUE]
        BY <2>4, <3>3, <4>1 DEF RequestStop
      <4>3. QED
        BY <4>2 DEF TypeOK, ThreadType
    <3>4. QED
      BY <1>3, <2>1, <2>4, <3>1, <3>2, <3>3 DEF RequestStop, StoppingManager, Alive
  <2>5. ASSUME NEW a \in Agents, StopSucceeded(a) PROVE StoppingManager'
    <3>1. op'.stops = op.stops \ {a} /\ op'.cur = None /\ op.cur = a
      BY <2>5 DEF StopSucceeded, TypeOK, OpType
    <3>2. UNCHANGED <<thread, raVars, decay>> /\ targets' \subseteq targets
      BY <2>5 DEF StopSucceeded
    <3>3. ASSUME NEW i \in Threads, Alive(i), ~thread[i].stop
          PROVE  thread[i].agent \in op'.stops /\ thread[i].agent # op'.cur
      BY <1>3, <3>1, <3>3, SchedulerAssumption DEF StoppingManager, Registry
    <3>4. QED
      BY <1>3, <2>1, <3>2, <3>3 DEF StoppingManager, Alive
  <2>6. ASSUME NEW a \in Agents, StopTimedOut(a) PROVE StoppingManager'
    <3>1. op'.stops = op.stops \ {a} /\ op'.cur = None /\ op.cur = a
      BY <2>6 DEF StopTimedOut, TypeOK, OpType
    <3>2. UNCHANGED <<thread, raVars, decay>> /\ targets' \subseteq targets
      BY <2>1, <2>6 DEF StopTimedOut
    <3>3. ASSUME NEW i \in Threads, Alive(i), ~thread[i].stop
          PROVE  thread[i].agent \in op'.stops /\ thread[i].agent # op'.cur
      BY <1>3, <3>1, <3>3, SchedulerAssumption DEF StoppingManager, Registry
    <3>4. QED
      BY <1>3, <2>1, <3>2, <3>3 DEF StoppingManager, Alive
  <2>7. ASSUME NEW a \in Agents, PickOrCreate(a) \/ CheckPicked(a) \/ StartAgent(a)
        PROVE  StoppingManager'
    BY <1>3, <2>1, <2>7, SchedulerAssumption DEF PickOrCreate, CheckPicked, StartAgent
  <2>8. CASE Return
    <3>1. op'.stops = op.stops /\ op'.cur = op.cur
      BY <2>8 DEF Return, Idle
    <3>2. QED
      BY <1>3, <2>8, <3>1, StoppingKept DEF Return, Alive
  <2>9. CASE DrainTop \/ RestartAllIgnored \/ RestartAllRaises \/ DrainFinally
    BY <1>3, <2>9, StoppingKept
    DEF DrainTop, RestartAllIgnored, RestartAllRaises, DrainFinally, Alive
  <2>10. ASSUME NEW a \in Agents, NEW i \in Threads, RestartAfterExit(a, i)
         PROVE  StoppingManager'
    BY <1>3, <2>10, StoppingKept DEF RestartAfterExit, Alive
  <2>11. ASSUME NEW i \in Threads, AgentThread(i) PROVE StoppingManager'
    <3>1. \A j \in Threads :
            thread'[j].st # "dead" => /\ thread[j].st # "dead"
                                      /\ thread'[j].agent = thread[j].agent
                                      /\ thread'[j].stop = thread[j].stop
      BY <2>11 DEF AgentThread, LogIn, EndSession, Exit, Crash, Dead, TypeOK,
                   ThreadType, Alive
    <3>2. UNCHANGED <<targets, raVars, decay, op>>
      BY <2>11 DEF AgentThread, LogIn, EndSession, Exit, Crash
    <3>3. QED
      BY <1>3, <3>1, <3>2, StoppingKept DEF Alive
  <2>12. CASE DecayExit
    <3>1. decay'.kept = decay.kept
      BY <2>12 DEF DecayExit, TypeOK
    <3>2. QED
      BY <1>3, <2>12, <3>1, StoppingKept DEF DecayExit, Alive
  <2>13. CASE UNCHANGED <<targets, raVars, decay, op, thread>>
    BY <1>3, <2>13, StoppingKept DEF Alive
  <2>14. QED
    BY <1>3, <2>2, <2>3, <2>4, <2>5, <2>6, <2>7, <2>8, <2>9, <2>10, <2>11, <2>12, <2>13
    DEF Next, HolderStep, Request, RestartAllWorker, Start, RequestRestartAll,
        RestartAll, ReadStatus, EditConfig, vars
<1>4. CASE isRunning /\ ~isRunning' /\ ~\E wait \in BOOLEAN : Stop(wait)
  BY <1>4
  DEF Next, HolderStep, Request, RestartAllWorker, AgentThread, Start, RestartAgent,
      StartAgent, StopAgent, RequestRestartAll, RequestStop, StopSucceeded,
      StopTimedOut, PickOrCreate, CheckPicked, Return, DrainTop, RestartAll,
      RestartAllIgnored, RestartAllRaises, DrainFinally, RestartAfterExit, LogIn,
      EndSession, Exit, Crash, DecayExit, ReadStatus, EditConfig, vars
<1>5. QED
  BY <1>1, <1>2, <1>3, <1>4

\* After stop() returned nothing runs without a stop request, and no accepted
\* restart is left that could start a thread (StoppedManagerIsQuiet).
THEOREM StopIsFinal == Spec => []StoppedManagerIsQuiet
<1>1. Init => HolderShape /\ StoppingManager
  BY DEF Init, HolderShape, StoppingManager, Idle, LockFree, Alive, Dead
<1>2. TypeOK /\ Registry /\ HolderShape /\ StoppingManager /\ [Next]_vars
        => HolderShape' /\ StoppingManager'
  BY ShapeStep, StoppingStep
<1>3. HolderShape /\ StoppingManager => StoppedManagerIsQuiet
  BY DEF HolderShape, StoppingManager, StoppedManagerIsQuiet
<1>4. QED
  BY <1>1, <1>2, <1>3, TypeCorrect, RegistryInvariant, PTL DEF Spec
-----------------------------------------------------------------------------
(* Held agents and stale snapshots.                                        *)

\* A thread is created only for an agent the lock holder starts or a worker
\* replaces; every other step creates none.
LEMMA HeldStep ==
  ASSUME TypeOK, Registry, HolderShape, HeldNotWanted, HeldAgentsStayStopped,
         [Next]_vars
  PROVE  HeldNotWanted' /\ HeldAgentsStayStopped'
<1> USE DEF threadVars, workerVars, raVars, dbVars, historyVars
<1>1. ASSUME held' \subseteq held, op'.starts \subseteq op.starts,
             targets' \subseteq targets \cup op.starts,
             \A i \in Threads : Alive(i)' =>
               \/ /\ Alive(i)
                  /\ thread'[i].agent = thread[i].agent
                  /\ thread[i].stop => thread'[i].stop
               \/ thread'[i].agent \in op.starts \cup targets
      PROVE  HeldNotWanted' /\ HeldAgentsStayStopped'
  BY <1>1 DEF HeldNotWanted, HeldAgentsStayStopped
<1>2. CASE Start
  <2>1. op'.starts = ActiveAgents /\ held' = held \ ActiveAgents
    BY <1>2 DEF Start, Operation
  <2>2. UNCHANGED <<thread, targets>>
    BY <1>2 DEF Start
  <2>3. QED
    BY <2>1, <2>2 DEF HeldNotWanted, HeldAgentsStayStopped, Alive
<1>3. ASSUME NEW wait \in BOOLEAN, Stop(wait)
      PROVE  HeldNotWanted' /\ HeldAgentsStayStopped'
  <2>1. op'.starts = {} /\ targets' = {} /\ UNCHANGED <<thread, held>>
    BY <1>3 DEF Stop, Operation
  <2>2. QED
    BY <2>1 DEF HeldNotWanted, HeldAgentsStayStopped, Alive
<1>4. ASSUME NEW a \in Agents, RestartAgent(a)
      PROVE  HeldNotWanted' /\ HeldAgentsStayStopped'
  <2>1. UNCHANGED thread /\ held' \subseteq held /\ op.starts = {}
    BY <1>4 DEF RestartAgent, HolderShape
  <2>2. CASE config[a] = "active" /\ isRunning
    <3>1. op'.starts \subseteq {a} /\ targets' \subseteq targets \cup {a} /\ a \notin held'
      BY <1>4, <2>1, <2>2 DEF RestartAgent, Operation
    <3>2. QED
      BY <2>1, <3>1 DEF HeldNotWanted, HeldAgentsStayStopped, Alive
  <2>3. CASE ~(config[a] = "active" /\ isRunning)
    <3>1. op'.starts = {} /\ targets' \subseteq targets
      BY <1>4, <2>1, <2>3 DEF RestartAgent, Operation
    <3>2. QED
      BY <2>1, <3>1 DEF HeldNotWanted, HeldAgentsStayStopped, Alive
  <2>4. QED
    BY <2>2, <2>3
<1>5. ASSUME NEW a \in Agents, StartAgent(a)
      PROVE  HeldNotWanted' /\ HeldAgentsStayStopped'
  <2>1. op'.starts = {a} /\ held' = held \ {a} /\ UNCHANGED <<thread, targets>>
    BY <1>5 DEF StartAgent, Operation
  <2>2. QED
    BY <2>1 DEF HeldNotWanted, HeldAgentsStayStopped, Alive
<1>6. ASSUME NEW a \in Agents, StopAgent(a)
      PROVE  HeldNotWanted' /\ HeldAgentsStayStopped'
  <2>1. /\ op' = op /\ op.starts = {}
        /\ targets' = targets \ {a}
        /\ held' = held \cup {a}
    BY <1>6 DEF StopAgent, HolderShape
  <2>2. \A i \in Threads : /\ thread'[i].st = thread[i].st
                           /\ thread'[i].agent = thread[i].agent
                           /\ thread[i].stop => thread'[i].stop
    BY <1>6 DEF StopAgent, TypeOK, ThreadType
  <2>3. ASSUME NEW i \in Threads, Alive(i), thread[i].agent = a
        PROVE  thread'[i].stop
    <3>1. schedulers[a] = i
      BY <2>3 DEF Registry
    <3>2. Cleaned[a] = i /\ i # None
      BY <2>3, <3>1, SchedulerAssumption DEF Cleaned, Registered
    <3>3. thread' = [thread EXCEPT ![i].stop = TRUE]
      BY <1>6, <3>2 DEF StopAgent
    <3>4. QED
      BY <3>3 DEF TypeOK, ThreadType
  <2>4. HeldNotWanted'
    BY <2>1 DEF HeldNotWanted
  <2>5. HeldAgentsStayStopped'
    BY <2>1, <2>2, <2>3 DEF HeldAgentsStayStopped, Alive
  <2>6. QED
    BY <2>4, <2>5
<1>7. ASSUME NEW a \in Agents, RequestStop(a)
      PROVE  HeldNotWanted' /\ HeldAgentsStayStopped'
  <2>1. op'.starts = op.starts /\ UNCHANGED <<held, targets>>
    BY <1>7 DEF RequestStop, TypeOK, OpType
  <2>2. \A i \in Threads : /\ thread'[i].st = thread[i].st
                           /\ thread'[i].agent = thread[i].agent
                           /\ thread[i].stop => thread'[i].stop
    BY <1>7 DEF RequestStop, TypeOK, ThreadType
  <2>3. QED
    BY <1>1, <2>1, <2>2 DEF Alive
<1>8. ASSUME NEW a \in Agents, StopSucceeded(a) \/ StopTimedOut(a) \/ CheckPicked(a)
      PROVE  HeldNotWanted' /\ HeldAgentsStayStopped'
  <2>1. op'.starts \subseteq op.starts
    BY <1>8 DEF StopSucceeded, StopTimedOut, CheckPicked, TypeOK, OpType
  <2>2. UNCHANGED <<thread, held>>
    BY <1>8 DEF StopSucceeded, StopTimedOut, CheckPicked
  <2>3. targets' \subseteq targets \cup op.starts
    <3>1. CASE StopSucceeded(a)
      BY <3>1 DEF StopSucceeded
    <3>2. CASE StopTimedOut(a)
      BY <3>2 DEF StopTimedOut, ScheduleDeferredRestart
    <3>3. CASE CheckPicked(a)
      <4>1. a \in op.starts
        BY <3>3, SchedulerAssumption DEF CheckPicked, HolderShape
      <4>2. QED
        BY <3>3, <4>1 DEF CheckPicked, ScheduleDeferredRestart
    <3>4. QED
      BY <1>8, <3>1, <3>2, <3>3
  <2>4. QED
    BY <1>1, <2>1, <2>2, <2>3 DEF Alive
<1>9. ASSUME NEW a \in Agents, PickOrCreate(a)
      PROVE  HeldNotWanted' /\ HeldAgentsStayStopped'
  <2>1. op'.starts \subseteq op.starts /\ UNCHANGED <<held, targets>> /\ a \in op.starts
    BY <1>9 DEF PickOrCreate, TypeOK, OpType
  <2>2. op.ver[a] \in Nat
    BY DEF TypeOK, OpType
  <2>3. CASE CreateScheduler(a, op.ver[a])
    <3>1. \A i \in Threads : \/ thread'[i] = thread[i]
                             \/ ~Alive(i) /\ thread'[i] = NewThread(a, op.ver[a])
      BY <2>2, <2>3, CreateFacts
    <3>2. QED
      BY <1>1, <2>1, <3>1 DEF Alive, NewThread
  <2>4. CASE UNCHANGED thread
    BY <1>1, <2>1, <2>4 DEF Alive
  <2>5. QED
    <3>1. CASE Cleaned[a] = None
      BY <1>9, <2>3, <3>1 DEF PickOrCreate
    <3>2. CASE Cleaned[a] # None
      BY <1>9, <2>4, <3>2 DEF PickOrCreate
    <3>3. QED
      BY <3>1, <3>2
<1>10. CASE Return
  <2>1. op'.starts = {} /\ UNCHANGED <<held, targets, thread>>
    BY <1>10 DEF Return, Idle
  <2>2. QED
    BY <1>1, <2>1 DEF Alive
<1>11. CASE RestartAll
  <2>1. op'.starts = ActiveAgents /\ held' = held \ ActiveAgents
    BY <1>11 DEF RestartAll, Operation
  <2>2. UNCHANGED <<thread, targets>>
    BY <1>11 DEF RestartAll
  <2>3. QED
    BY <2>1, <2>2 DEF HeldNotWanted, HeldAgentsStayStopped, Alive
<1>12. ASSUME NEW a \in Agents, NEW i \in Threads, RestartAfterExit(a, i)
       PROVE  HeldNotWanted' /\ HeldAgentsStayStopped'
  <2>1. UNCHANGED <<op, held>> /\ targets' = targets \ {a}
    BY <1>12 DEF RestartAfterExit
  <2>2. CASE a \in targets /\ CreateScheduler(a, version[a])
    <3>1. \A j \in Threads : \/ thread'[j] = thread[j]
                             \/ ~Alive(j) /\ thread'[j] = NewThread(a, version[a])
      BY <2>2, CreateFacts DEF TypeOK
    <3>2. QED
      BY <1>1, <2>1, <2>2, <3>1 DEF Alive, NewThread
  <2>3. CASE UNCHANGED thread
    BY <1>1, <2>1, <2>3 DEF Alive
  <2>4. QED
    BY <1>12, <2>2, <2>3 DEF RestartAfterExit
<1>13. ASSUME NEW i \in Threads, AgentThread(i)
       PROVE  HeldNotWanted' /\ HeldAgentsStayStopped'
  <2>1. \A j \in Threads :
          thread'[j].st # "dead" => /\ thread[j].st # "dead"
                                    /\ thread'[j].agent = thread[j].agent
                                    /\ thread'[j].stop = thread[j].stop
    BY <1>13 DEF AgentThread, LogIn, EndSession, Exit, Crash, Dead, TypeOK,
                 ThreadType, Alive
  <2>2. UNCHANGED <<op, held, targets>>
    BY <1>13 DEF AgentThread, LogIn, EndSession, Exit, Crash
  <2>3. QED
    BY <1>1, <2>1, <2>2 DEF Alive
<1>14. CASE UNCHANGED <<op, held, targets, thread>>
  BY <1>1, <1>14 DEF Alive
<1>15. QED
  BY <1>2, <1>3, <1>4, <1>5, <1>6, <1>7, <1>8, <1>9, <1>10, <1>11, <1>12, <1>13, <1>14
  DEF Next, HolderStep, Request, RestartAllWorker, RequestRestartAll, DrainTop,
      RestartAllIgnored, RestartAllRaises, DrainFinally, DecayExit, ReadStatus,
      EditConfig, vars

\* stop_agent() wins over every restart accepted before it
\* (HeldAgentsStayStopped).
THEOREM StopAgentWins == Spec => []HeldAgentsStayStopped
<1>1. Init => HolderShape /\ HeldNotWanted /\ HeldAgentsStayStopped
  BY DEF Init, HolderShape, HeldNotWanted, HeldAgentsStayStopped, Idle, LockFree,
         Alive, Dead
<1>2. TypeOK /\ Registry /\ HolderShape /\ HeldNotWanted /\ HeldAgentsStayStopped
        /\ [Next]_vars
        => HolderShape' /\ HeldNotWanted' /\ HeldAgentsStayStopped'
  BY ShapeStep, HeldStep
<1>3. QED
  BY <1>1, <1>2, TypeCorrect, RegistryInvariant, PTL DEF Spec
\* Every step keeps the configurations an operation read as new as the last
\* acknowledged request.
LEMMA FreshStep ==
  ASSUME TypeOK, HolderShape, FreshSnapshot, [Next]_vars
  PROVE  FreshSnapshot'
<1> USE DEF threadVars, workerVars, raVars, dbVars, historyVars
<1>1. ASSUME UNCHANGED <<acked, version>>, op'.starts \subseteq op.starts,
             op'.starts = {} \/ op'.ver = op.ver
      PROVE  FreshSnapshot'
  BY <1>1 DEF FreshSnapshot
<1>2. ASSUME NEW kind, NEW wait, NEW stops, NEW starts \in SUBSET Agents,
             op' = Operation(kind, wait, stops, starts), UNCHANGED version,
             \A a \in Agents : acked'[a] <= version[a]
      PROVE  FreshSnapshot'
  BY <1>2 DEF FreshSnapshot, Operation
<1>a. \A a \in Agents : acked[a] <= version[a] /\ acked[a] \in Nat /\ version[a] \in Nat
  BY DEF FreshSnapshot, TypeOK
<1>b. \A a \in Agents : version[a] <= version[a]
  BY <1>a
<1>3. CASE Start
  BY <1>2, <1>3, <1>a DEF Start, ActiveAgents
<1>4. ASSUME NEW wait \in BOOLEAN, Stop(wait) PROVE FreshSnapshot'
  BY <1>2, <1>4, <1>a DEF Stop
<1>5. ASSUME NEW a \in Agents, RestartAgent(a) PROVE FreshSnapshot'
  <2>1. UNCHANGED version /\ \A b \in Agents : acked'[b] <= version[b]
    BY <1>5, <1>a, <1>b DEF RestartAgent, TypeOK
  <2>2. CASE UNCHANGED op
    <3>1. op.starts = {}
      BY <1>5 DEF RestartAgent, HolderShape
    <3>2. QED
      BY <2>1, <2>2, <3>1 DEF FreshSnapshot
  <2>3. CASE ~UNCHANGED op
    <3>1. PICK stops, starts \in SUBSET Agents :
            op' = Operation("restart", TRUE, stops, starts)
      BY <1>5, <2>3 DEF RestartAgent
    <3>2. QED
      BY <1>2, <2>1, <3>1
  <2>4. QED
    BY <2>2, <2>3
<1>6. ASSUME NEW a \in Agents, StartAgent(a) PROVE FreshSnapshot'
  BY <1>2, <1>6, <1>a DEF StartAgent
<1>7. ASSUME NEW a \in Agents,
             RequestStop(a) \/ StopSucceeded(a) \/ StopTimedOut(a)
               \/ PickOrCreate(a) \/ CheckPicked(a)
      PROVE  FreshSnapshot'
  <2>1. op'.starts \subseteq op.starts /\ op'.ver = op.ver
    BY <1>7 DEF RequestStop, StopSucceeded, StopTimedOut, PickOrCreate, CheckPicked,
                TypeOK, OpType
  <2>2. UNCHANGED <<acked, version>>
    BY <1>7 DEF RequestStop, StopSucceeded, StopTimedOut, PickOrCreate, CheckPicked
  <2>3. QED
    BY <1>1, <2>1, <2>2
<1>8. CASE Return
  BY <1>1, <1>8 DEF Return, Idle
<1>9. CASE RestartAll
  <2>1. \A a \in Agents : acked'[a] <= version[a]
    BY <1>9, <1>a, <1>b DEF RestartAll
  <2>2. QED
    BY <1>2, <1>9, <2>1 DEF RestartAll, ActiveAgents
<1>10. ASSUME NEW a \in Agents, NEW status \in ConfigStatus, EditConfig(a, status)
       PROVE  FreshSnapshot'
  <2>1. UNCHANGED <<acked, op>> /\ version' = [version EXCEPT ![a] = version[a] + 1]
    BY <1>10 DEF EditConfig
  <2>2. \A b \in Agents : acked'[b] <= version'[b]
    BY <1>a, <2>1 DEF TypeOK
  <2>3. QED
    BY <2>1, <2>2 DEF FreshSnapshot
<1>11. CASE UNCHANGED <<acked, version, op>>
  BY <1>1, <1>11
<1>12. QED
  BY <1>3, <1>4, <1>5, <1>6, <1>7, <1>8, <1>9, <1>10, <1>11
  DEF Next, HolderStep, Request, RestartAllWorker, AgentThread, StopAgent,
      RequestRestartAll, DrainTop, RestartAllIgnored, RestartAllRaises, DrainFinally,
      RestartAfterExit, LogIn, EndSession, Exit, Crash, DecayExit, ReadStatus, vars

\* A thread that becomes alive in a step was created by it, from a version at
\* least as new as the last restart request.
LEMMA NoStaleStep ==
  ASSUME TypeOK, HolderShape, FreshSnapshot, [Next]_vars,
         NEW i \in Threads, ~Alive(i), Alive(i)'
  PROVE  thread'[i].ver >= acked[thread'[i].agent]
<1> USE DEF threadVars, workerVars, raVars, dbVars, historyVars
<1>1. ASSUME NEW a \in Agents, PickOrCreate(a)
      PROVE  thread'[i].ver >= acked[thread'[i].agent]
  <2>1. op.ver[a] \in Nat /\ acked[a] \in Nat /\ acked[a] <= op.ver[a]
    BY <1>1 DEF PickOrCreate, TypeOK, OpType, FreshSnapshot
  <2>2. CASE Cleaned[a] = None
    <3>1. CreateScheduler(a, op.ver[a])
      BY <1>1, <2>2 DEF PickOrCreate
    <3>2. thread'[i] = NewThread(a, op.ver[a])
      BY <2>1, <3>1, CreateFacts DEF Alive
    <3>3. QED
      BY <2>1, <3>2 DEF NewThread
  <2>3. CASE Cleaned[a] # None
    BY <1>1, <2>3 DEF PickOrCreate, Alive
  <2>4. QED
    BY <2>2, <2>3
<1>2. ASSUME NEW a \in Agents, NEW j \in Threads, RestartAfterExit(a, j)
      PROVE  thread'[i].ver >= acked[thread'[i].agent]
  <2>1. version[a] \in Nat /\ acked[a] \in Nat /\ acked[a] <= version[a]
    BY DEF TypeOK, FreshSnapshot
  <2>2. CreateScheduler(a, version[a])
    BY <1>2 DEF RestartAfterExit, Alive
  <2>3. thread'[i] = NewThread(a, version[a])
    BY <2>1, <2>2, CreateFacts DEF Alive
  <2>4. QED
    BY <2>1, <2>3 DEF NewThread
<1>3. ASSUME NEW a \in Agents, StopAgent(a) \/ RequestStop(a) PROVE FALSE
  BY <1>3 DEF StopAgent, RequestStop, TypeOK, ThreadType, Alive
<1>4. ASSUME NEW j \in Threads, AgentThread(j) PROVE FALSE
  BY <1>4 DEF AgentThread, LogIn, EndSession, Exit, Crash, Dead, TypeOK, ThreadType, Alive
<1>5. CASE UNCHANGED thread
  BY <1>5 DEF Alive
<1>6. QED
  BY <1>1, <1>2, <1>3, <1>4, <1>5
  DEF Next, HolderStep, Request, RestartAllWorker, Start, Stop, RestartAgent,
      StartAgent, RequestRestartAll, StopSucceeded, StopTimedOut, CheckPicked,
      Return, DrainTop, RestartAll, RestartAllIgnored, RestartAllRaises,
      DrainFinally, DecayExit, ReadStatus, EditConfig, vars

\* No thread starts from a configuration older than the one the latest restart
\* request read (NoStaleReplacement).
THEOREM ReplacementIsFresh == Spec => NoStaleReplacement
<1>1. Init => HolderShape /\ FreshSnapshot
  BY DEF Init, HolderShape, FreshSnapshot, Idle, LockFree
<1>2. TypeOK /\ HolderShape /\ FreshSnapshot /\ [Next]_vars
        => HolderShape' /\ FreshSnapshot'
  BY ShapeStep, FreshStep
<1>3. TypeOK /\ HolderShape /\ FreshSnapshot /\ [Next]_vars
        => [\A i \in Threads : ~Alive(i) /\ Alive(i)' =>
              thread'[i].ver >= acked[thread'[i].agent]]_vars
  BY NoStaleStep
<1>4. QED
  BY <1>1, <1>2, <1>3, TypeCorrect, PTL DEF Spec, NoStaleReplacement
-----------------------------------------------------------------------------
(* The scheduler implements AgentLifecycle (its safety part).              *)

phases == [a \in Agents |-> Phase(a)]

\* The phase of an agent is the state of its only live thread.
LEMMA PhaseOfThread ==
  ASSUME Registry, NEW i \in Threads, Alive(i)
  PROVE  Phase(thread[i].agent) = IF thread[i].stop THEN "stopping" ELSE "running"
<1>1. \A j \in Threads : Alive(j) /\ thread[j].agent = thread[i].agent => j = i
  BY DEF Registry
<1>2. QED
  BY <1>1 DEF Phase, RunsAgain

\* An agent without live threads is stopped.
LEMMA PhaseOfNone ==
  ASSUME NEW a \in Agents, \A i \in Threads : Alive(i) => thread[i].agent # a
  PROVE  Phase(a) = "stopped"
BY DEF Phase, RunsAgain

\* Agents none of whose threads changed keep their phase.
LEMMA PhaseKept ==
  ASSUME NEW a \in Agents,
         \A i \in Threads :
           \/ /\ Alive(i)' <=> Alive(i)
              /\ thread'[i].agent = thread[i].agent
              /\ thread'[i].stop <=> thread[i].stop
           \/ /\ Alive(i) => thread[i].agent # a
              /\ Alive(i)' => thread'[i].agent # a
  PROVE  Phase(a)' = Phase(a)
<1>1. RunsAgain(a)' <=> RunsAgain(a)
  BY DEF RunsAgain
<1>2. (\E i \in Threads : Alive(i) /\ thread[i].agent = a)'
        <=> (\E i \in Threads : Alive(i) /\ thread[i].agent = a)
  OBVIOUS
<1>3. QED
  BY <1>1, <1>2 DEF Phase

\* If only the phase of a changes, the phase function changes at a.
LEMMA PhasesExcept ==
  ASSUME NEW a \in Agents, \A b \in Agents \ {a} : Phase(b)' = Phase(b)
  PROVE  phases' = [phases EXCEPT ![a] = Phase(a)']
BY DEF phases

\* When the phase of each agent is kept, so is the function of phases.
LEMMA PhasesSame ==
  ASSUME \A b \in Agents : Phase(b)' = Phase(b)
  PROVE  phases' = phases
BY DEF phases

\* Asking a thread to stop is a move of the abstract lifecycle.
LEMMA SetStopMoves ==
  ASSUME TypeOK, Registry, Registry', NEW i \in Threads, Alive(i),
         thread' = [thread EXCEPT ![i].stop = TRUE], UNCHANGED isRunning
  PROVE  (\E a \in Agents : Lifecycle!AskToStop(a)) \/ UNCHANGED <<isRunning, phases>>
<1>1. PICK a \in Agents : a = thread[i].agent
  BY DEF Registry
<1>2. /\ \A j \in Threads \ {i} : thread'[j] = thread[j]
      /\ thread'[i].st = thread[i].st /\ thread'[i].agent = a /\ thread'[i].stop
  BY <1>1 DEF TypeOK, ThreadType
<1>3. \A b \in Agents \ {a} : Phase(b)' = Phase(b)
  <2> SUFFICES ASSUME NEW b \in Agents \ {a} PROVE Phase(b)' = Phase(b)
    OBVIOUS
  <2>1. \A j \in Threads :
          \/ /\ Alive(j)' <=> Alive(j)
             /\ thread'[j].agent = thread[j].agent
             /\ thread'[j].stop <=> thread[j].stop
          \/ /\ Alive(j) => thread[j].agent # b
             /\ Alive(j)' => thread'[j].agent # b
    BY <1>2 DEF Alive
  <2>2. QED
    BY <2>1, PhaseKept
<1>4. Phase(a)' = "stopping"
  BY <1>2, PhaseOfThread DEF Alive, Phase, RunsAgain, Registry
<1>5. CASE thread[i].stop
  <2>1. Phase(a) = "stopping"
    BY <1>1, <1>5, PhaseOfThread
  <2>2. \A b \in Agents : Phase(b)' = Phase(b)
    BY <1>3, <1>4, <2>1
  <2>3. QED
    BY <2>2, PhasesSame
<1>6. CASE ~thread[i].stop
  <2>1. Phase(a) = "running"
    BY <1>1, <1>6, PhaseOfThread
  <2>2. phases' = [phases EXCEPT ![a] = "stopping"]
    BY <1>1, <1>3, <1>4, PhasesExcept
  <2>3. Lifecycle!AskToStop(a)
    BY <1>1, <2>1, <2>2 DEF Lifecycle!AskToStop, Lifecycle!Move, phases
  <2>4. QED
    BY <1>1, <2>3
<1>7. QED
  BY <1>5, <1>6

\* The end of a thread is a move of the abstract lifecycle.
LEMMA ThreadEndMoves ==
  ASSUME TypeOK, Registry, NEW i \in Threads, Alive(i),
         thread' = [thread EXCEPT ![i] = Dead], UNCHANGED isRunning
  PROVE  \E a \in Agents : Lifecycle!Finish(a) \/ Lifecycle!Fail(a)
<1>1. PICK a \in Agents : a = thread[i].agent
  BY DEF Registry
<1>2. (\A j \in Threads \ {i} : thread'[j] = thread[j]) /\ ~Alive(i)'
  BY DEF TypeOK, Alive, Dead
<1>3. \A b \in Agents \ {a} : Phase(b)' = Phase(b)
  <2> SUFFICES ASSUME NEW b \in Agents \ {a} PROVE Phase(b)' = Phase(b)
    OBVIOUS
  <2>1. \A j \in Threads :
          \/ /\ Alive(j)' <=> Alive(j)
             /\ thread'[j].agent = thread[j].agent
             /\ thread'[j].stop <=> thread[j].stop
          \/ /\ Alive(j) => thread[j].agent # b
             /\ Alive(j)' => thread'[j].agent # b
    BY <1>1, <1>2 DEF Alive
  <2>2. QED
    BY <2>1, PhaseKept
<1>4. \A j \in Threads : Alive(j)' => thread'[j].agent # a
  BY <1>1, <1>2 DEF Registry, Alive
<1>5. Phase(a)' = "stopped"
  BY <1>4 DEF Phase, RunsAgain
<1>6. phases' = [phases EXCEPT ![a] = "stopped"]
  BY <1>1, <1>3, <1>5, PhasesExcept
<1>7. phases[a] \in {"running", "stopping"}
  BY <1>1, PhaseOfThread DEF phases
<1>8. Lifecycle!Finish(a) \/ Lifecycle!Fail(a)
  BY <1>6, <1>7 DEF Lifecycle!Finish, Lifecycle!Fail, Lifecycle!Move, phases
<1>9. QED
  BY <1>1, <1>8

\* Creating a thread is a move of the abstract lifecycle.
LEMMA CreateMoves ==
  ASSUME TypeOK, Registry, Registry', NEW a \in Agents, NEW v \in Nat,
         CreateScheduler(a, v), isRunning, UNCHANGED isRunning
  PROVE  Lifecycle!Launch(a) \/ UNCHANGED <<isRunning, phases>>
<1>1. CASE UNCHANGED thread
  BY <1>1 DEF phases, Phase, RunsAgain, Alive
<1>2. ASSUME NEW i \in Unused, thread' = [thread EXCEPT ![i] = NewThread(a, v)],
             Cleaned[a] = None
      PROVE  Lifecycle!Launch(a)
  <2>1. /\ i \in Threads
        /\ ~Alive(i)
        /\ thread'[i] = NewThread(a, v)
        /\ \A j \in Threads \ {i} : thread'[j] = thread[j]
    BY <1>2 DEF Unused, TypeOK
  <2>2. \A j \in Threads : Alive(j) => thread[j].agent # a
    BY <1>2, SchedulerAssumption, CleanedFacts DEF Registry, Registered
  <2>3. phases[a] = "stopped"
    BY <2>2, PhaseOfNone DEF phases
  <2>4. Phase(a)' = "running"
    BY <2>1 DEF Phase, RunsAgain, Alive, NewThread
  <2>5. \A b \in Agents \ {a} : Phase(b)' = Phase(b)
    <3> SUFFICES ASSUME NEW b \in Agents \ {a} PROVE Phase(b)' = Phase(b)
      OBVIOUS
    <3>1. \A j \in Threads :
            \/ /\ Alive(j)' <=> Alive(j)
               /\ thread'[j].agent = thread[j].agent
               /\ thread'[j].stop <=> thread[j].stop
            \/ /\ Alive(j) => thread[j].agent # b
               /\ Alive(j)' => thread'[j].agent # b
      BY <2>1 DEF Alive, NewThread
    <3>2. QED
      BY <3>1, PhaseKept
  <2>6. phases' = [phases EXCEPT ![a] = "running"]
    BY <2>4, <2>5, PhasesExcept
  <2>7. QED
    BY <2>3, <2>6 DEF Lifecycle!Launch, Lifecycle!Move, phases
<1>3. QED
  BY <1>1, <1>2 DEF CreateScheduler

\* Every step is a step of AgentLifecycle or a stutter.
LEMMA RefinementStep ==
  ASSUME TypeOK, Registry, Registry', HolderShape, [Next]_vars
  PROVE  [Lifecycle!Next]_<<isRunning, phases>>
<1> USE DEF threadVars, workerVars, raVars, dbVars, historyVars
<1>1. CASE UNCHANGED <<isRunning, thread>>
  BY <1>1 DEF phases, Phase, RunsAgain, Alive
<1>2. ASSUME UNCHANGED thread, Start \/ (\E wait \in BOOLEAN : Stop(wait))
      PROVE  [Lifecycle!Next]_<<isRunning, phases>>
  <2>1. phases' = phases
    BY <1>2 DEF phases, Phase, RunsAgain, Alive
  <2>2. Lifecycle!SwitchOn \/ Lifecycle!SwitchOff
    BY <1>2, <2>1 DEF Start, Stop, Lifecycle!SwitchOn, Lifecycle!SwitchOff, phases
  <2>3. QED
    BY <2>2 DEF Lifecycle!Next
<1>3. ASSUME NEW i \in Threads, Alive(i), UNCHANGED isRunning,
             thread' = [thread EXCEPT ![i].stop = TRUE]
      PROVE  [Lifecycle!Next]_<<isRunning, phases>>
  BY <1>3, SetStopMoves DEF Lifecycle!Next
<1>4. ASSUME NEW a \in Agents, StopAgent(a)
      PROVE  [Lifecycle!Next]_<<isRunning, phases>>
  <2>1. CASE Cleaned[a] = None
    BY <1>1, <1>4, <2>1 DEF StopAgent
  <2>2. CASE Cleaned[a] # None
    <3>1. Cleaned[a] \in Threads /\ Alive(Cleaned[a])
      BY <2>2, CleanedFacts, CleanedType
    <3>2. QED
      BY <1>3, <1>4, <2>2, <3>1 DEF StopAgent
  <2>3. QED
    BY <2>1, <2>2
<1>5. ASSUME NEW a \in Agents, RequestStop(a)
      PROVE  [Lifecycle!Next]_<<isRunning, phases>>
  <2>1. CASE Registered(a) /\ Alive(schedulers[a])
    <3>1. schedulers[a] \in Threads
      BY <2>1 DEF TypeOK, Registered
    <3>2. QED
      BY <1>3, <1>5, <2>1, <3>1 DEF RequestStop
  <2>2. CASE ~(Registered(a) /\ Alive(schedulers[a]))
    BY <1>1, <1>5, <2>2 DEF RequestStop
  <2>3. QED
    BY <2>1, <2>2
<1>6. ASSUME NEW a \in Agents, PickOrCreate(a)
      PROVE  [Lifecycle!Next]_<<isRunning, phases>>
  <2>1. op.ver[a] \in Nat /\ isRunning /\ UNCHANGED isRunning
    BY <1>6 DEF PickOrCreate, TypeOK, OpType, HolderShape
  <2>2. CASE Cleaned[a] = None
    <3>1. CreateScheduler(a, op.ver[a])
      BY <1>6, <2>2 DEF PickOrCreate
    <3>2. QED
      BY <2>1, <3>1, CreateMoves DEF Lifecycle!Next
  <2>3. CASE Cleaned[a] # None
    BY <1>1, <1>6, <2>3 DEF PickOrCreate
  <2>4. QED
    BY <2>2, <2>3
<1>7. ASSUME NEW a \in Agents, NEW i \in Threads, RestartAfterExit(a, i)
      PROVE  [Lifecycle!Next]_<<isRunning, phases>>
  <2>1. version[a] \in Nat /\ UNCHANGED isRunning
    BY <1>7 DEF RestartAfterExit, TypeOK
  <2>2. CASE isRunning /\ CreateScheduler(a, version[a])
    BY <2>1, <2>2, CreateMoves DEF Lifecycle!Next
  <2>3. CASE UNCHANGED thread
    BY <1>1, <2>1, <2>3
  <2>4. QED
    BY <1>7, <2>2, <2>3 DEF RestartAfterExit
<1>8. ASSUME NEW i \in Threads, AgentThread(i)
      PROVE  [Lifecycle!Next]_<<isRunning, phases>>
  <2>1. CASE Exit(i) \/ Crash(i)
    <3>1. Alive(i) /\ thread' = [thread EXCEPT ![i] = Dead] /\ UNCHANGED isRunning
      BY <2>1 DEF Exit, Crash, Alive
    <3>2. QED
      BY <3>1, ThreadEndMoves DEF Lifecycle!Next
  <2>2. CASE LogIn(i) \/ EndSession(i)
    <3>1. \A j \in Threads : /\ thread'[j].st # "dead" <=> thread[j].st # "dead"
                             /\ thread'[j].agent = thread[j].agent
                             /\ thread'[j].stop <=> thread[j].stop
      BY <2>2 DEF LogIn, EndSession, TypeOK, ThreadType
    <3>2. \A b \in Agents : Phase(b)' = Phase(b)
      BY <3>1, PhaseKept DEF Alive
    <3>3. QED
      BY <2>2, <3>2, PhasesSame DEF LogIn, EndSession
  <2>3. QED
    BY <1>8, <2>1, <2>2 DEF AgentThread
<1>9. QED
  BY <1>1, <1>2, <1>4, <1>5, <1>6, <1>7, <1>8
  DEF Next, HolderStep, Request, RestartAllWorker, Start, Stop, RestartAgent,
      StartAgent, RequestRestartAll, StopSucceeded, StopTimedOut, CheckPicked,
      Return, DrainTop, RestartAll, RestartAllIgnored, RestartAllRaises,
      DrainFinally, DecayExit, ReadStatus, EditConfig, vars

\* Every behaviour of the scheduler is one of AgentLifecycle: an agent is
\* launched only while the manager runs and none of its threads lives.
THEOREM SchedulerImplementsLifecycle == Spec => Lifecycle!Spec
<1>1. Init => Lifecycle!Init
  BY DEF Init, Lifecycle!Init, Phase, RunsAgain, Alive, Dead
<1>2. TypeOK /\ Registry /\ Registry' /\ HolderShape /\ [Next]_vars
        => [Lifecycle!Next]_Lifecycle!vars
  BY RefinementStep DEF Lifecycle!vars, phases
<1>3. Init => HolderShape
  BY DEF Init, HolderShape, Idle, LockFree
<1>4. TypeOK /\ HolderShape /\ [Next]_vars => HolderShape'
  BY ShapeStep
<1>5. QED
  BY <1>1, <1>2, <1>3, <1>4, TypeCorrect, RegistryInvariant, PTL
  DEF Spec, Lifecycle!Spec
=============================================================================
