------------------------- MODULE SchedulerLifecycle -------------------------
(***************************************************************************)
(* The thread lifecycle of the AI agents: AgentSchedulerManager and its    *)
(* AIUserScheduler threads (agents_scheduler/scheduler/scheduler.py).      *)
(*                                                                         *)
(* Every public operation of the manager runs under _lifecycle_lock, so at *)
(* most one of them is under way: "op" is the continuation of the holder   *)
(* of that lock, and the holder lets the other threads run while it joins  *)
(* an agent thread or between two of its sections under _thread_lock.  The *)
(* agent threads, the deferred-restart workers, the restart-all worker,    *)
(* the status readers and the editors of the configuration never hold the  *)
(* lifecycle lock while they do what the actions below let them do.        *)
(***************************************************************************)
EXTENDS Naturals, FiniteSets

CONSTANTS
  Agents,      (* agent ids of the management database                     *)
  Threads,     (* pool of AIUserScheduler objects, reused when forgotten   *)
  None,        (* Python's None                                            *)
  MaxVersion,  (* bound: edits of one agent's configuration row            *)
  MaxFaults,   (* bound: failed database reads and failed thread starts    *)
  Crashes      (* TRUE: an agent thread may end although nobody stopped it *)

ASSUME SchedulerAssumption ==
  /\ None \notin Agents
  /\ None \notin Threads
  /\ MaxVersion \in Nat
  /\ MaxFaults \in Nat
  /\ Crashes \in BOOLEAN

VARIABLES
  isRunning,   (* _is_running                                              *)
  schedulers,  (* the registered thread of each agent, or None             *)
  thread,      (* the AIUserScheduler objects                              *)
  deferred,    (* _deferred_restarts: the thread its worker waits for      *)
  workers,     (* live deferred-restart workers, <<agent, thread>>         *)
  targets,     (* _deferred_restart_targets                                *)
  op,          (* continuation of the holder of _lifecycle_lock            *)
  raPending,   (* _restart_all_pending                                     *)
  raPc,        (* the restart-all worker, "none" when there is none        *)
  decay,       (* the memory-decay thread of the manager                   *)
  config,      (* the agent's row: absent, inactive or active              *)
  version,     (* how often the row was edited                             *)
  faults,      (* failures so far                                          *)
  acked,       (* history: the version the last restart request read       *)
  held         (* history: agents stopped and not asked to run since       *)

vars == <<isRunning, schedulers, thread, deferred, workers, targets, op,
          raPending, raPc, decay, config, version, faults, acked, held>>

threadVars  == <<schedulers, thread>>
workerVars  == <<deferred, workers, targets>>
raVars      == <<raPending, raPc>>
dbVars      == <<config, version>>
historyVars == <<acked, held>>

-----------------------------------------------------------------------------
(* Threads and the registry.                                               *)

\* A thread that was not started, or whose run() returned.
Dead == [st |-> "dead", agent |-> None, stop |-> FALSE, ver |-> 0]

NewThread(a, v) == [st |-> "waiting", agent |-> a, stop |-> FALSE, ver |-> v]

Alive(i) == thread[i].st # "dead"

\* AIUserScheduler.is_stopping
IsStopping(i) == thread[i].stop /\ Alive(i)

Registered(a) == schedulers[a] # None

\* Mutation of Cleaned: threads that are only stopping are forgotten too.
CleanedForgetsStopping ==
  [a \in Agents |-> IF Registered(a) /\ Alive(schedulers[a])
                       /\ ~thread[schedulers[a]].stop
                    THEN schedulers[a] ELSE None]

\* _cleanup_finished_locked: forget the registered threads that ended.
Cleaned == [a \in Agents |-> IF Registered(a) /\ Alive(schedulers[a])
                             THEN schedulers[a] ELSE None]

\* Thread objects nothing refers to any more.
Unused == {i \in Threads : /\ ~Alive(i)
                           /\ \A a \in Agents : /\ schedulers[a] # i
                                                /\ deferred[a] # i
                                                /\ <<a, i>> \notin workers}

\* _create_scheduler_locked: register and start a thread for a, when no
\* registered thread of a is alive; a failed start leaves no registration.
CreateScheduler(a, v) ==
  IF Cleaned[a] # None
  THEN schedulers' = Cleaned /\ UNCHANGED <<thread, faults>>
  ELSE \/ \E i \in Unused :
            /\ thread' = [thread EXCEPT ![i] = NewThread(a, v)]
            /\ schedulers' = [Cleaned EXCEPT ![a] = i]
            /\ UNCHANGED faults
       \/ /\ faults < MaxFaults
          /\ faults' = faults + 1
          /\ schedulers' = Cleaned
          /\ UNCHANGED thread

\* Mutation of ScheduleDeferredRestart: the worker is registered, not started.
ScheduleWithoutWorker(a) ==
  /\ targets' = targets \cup {a}
  /\ deferred' = [deferred EXCEPT ![a] = schedulers[a]]
  /\ UNCHANGED workers

\* Mutation of ScheduleDeferredRestart: the worker's arguments are swapped.
ScheduleSwapped(a) ==
  /\ targets' = targets \cup {a}
  /\ deferred' = [deferred EXCEPT ![a] = schedulers[a]]
  /\ workers' = workers \cup {<<schedulers[a], a>>}

\* _schedule_deferred_restart_locked: one worker per agent waits for the old
\* thread; while it lives, a new request only marks the agent as a target.
ScheduleDeferredRestart(a) ==
  /\ targets' = targets \cup {a}
  /\ IF deferred[a] # None /\ <<a, deferred[a]>> \in workers
     THEN UNCHANGED <<deferred, workers>>
     ELSE /\ deferred' = [deferred EXCEPT ![a] = schedulers[a]]
          /\ workers' = workers \cup {<<a, schedulers[a]>>}

-----------------------------------------------------------------------------
(* The holder of the lifecycle lock: which agents it still stops (stops),  *)
(* which it then starts (starts), the one it is at (cur), whether it joins *)
(* the threads it stops (wait) and the versions it read (ver).             *)

Idle == [kind |-> "idle", wait |-> FALSE, stops |-> {}, starts |-> {},
         cur |-> None, ver |-> [a \in Agents |-> 0]]

LockFree == op.kind = "idle"

Operation(kind, wait, stops, starts) ==
  [kind |-> kind, wait |-> wait, stops |-> stops, starts |-> starts,
   cur |-> None, ver |-> [a \in Agents |-> IF a \in starts THEN version[a] ELSE 0]]

ActiveAgents == {a \in Agents : config[a] = "active"}

\* start(): mark the manager running, keep a memory-decay thread, then start
\* every active agent.
Start ==
  /\ LockFree
  /\ ~isRunning
  /\ isRunning' = TRUE
  /\ decay' = [decay EXCEPT !.kept = TRUE]
  /\ op' = Operation("start", FALSE, {}, ActiveAgents)
  /\ held' = held \ ActiveAgents
  /\ UNCHANGED <<threadVars, workerVars, raVars, dbVars, faults, acked>>

\* Mutation of Stop: the pending targets survive.
StopKeepsTargets(wait) ==
  /\ LockFree
  /\ isRunning' = FALSE
  /\ raPending' = FALSE
  /\ decay' = [kept |-> FALSE, leaving |-> decay.kept]
  /\ op' = Operation("stop", wait, {a \in Agents : Registered(a)}, {})
  /\ UNCHANGED <<threadVars, workerVars, raPc, dbVars, faults, historyVars>>

\* stop(): refuse everything pending, stop the memory-decay thread (which may
\* outlive the call), then stop every registered thread.
Stop(wait) ==
  /\ LockFree
  /\ isRunning' = FALSE
  /\ targets' = {}
  /\ raPending' = FALSE
  /\ decay' \in [kept: {FALSE},
                leaving: {decay.leaving} \cup (IF decay.kept THEN {TRUE} ELSE {})]
  /\ op' = Operation("stop", wait, {a \in Agents : Registered(a)}, {})
  /\ UNCHANGED <<threadVars, deferred, workers, raPc, dbVars, faults, acked, held>>

\* restart_agent(): a stopping agent that already has a worker only changes
\* its mind about being a target; otherwise stop the thread and start again.
RestartAgent(a) ==
  LET i     == Cleaned[a]
      wants == config[a] = "active" /\ isRunning
  IN /\ LockFree
     /\ config[a] # "absent"
     /\ schedulers' = Cleaned
     /\ held' = IF wants THEN held \ {a} ELSE held
     /\ acked' = IF wants THEN [acked EXCEPT ![a] = version[a]] ELSE acked
     /\ \/ /\ i # None
           /\ IsStopping(i)
           /\ deferred[a] # None
           /\ targets' = IF wants THEN targets \cup {a} ELSE targets \ {a}
           /\ UNCHANGED op
        \/ /\ ~(i # None /\ IsStopping(i) /\ deferred[a] # None)
           /\ op' = Operation("restart", TRUE,
                              IF i = None THEN {} ELSE {a},
                              IF wants THEN {a} ELSE {})
           /\ targets' = IF i = None /\ ~wants THEN targets \ {a} ELSE targets
     /\ UNCHANGED <<isRunning, thread, deferred, workers, raVars, decay, dbVars, faults>>

\* start_agent(): returns at once unless the manager runs and a is active.
StartAgent(a) ==
  /\ LockFree
  /\ isRunning
  /\ config[a] = "active"
  /\ op' = Operation("start", FALSE, {}, {a})
  /\ held' = held \ {a}
  /\ UNCHANGED <<isRunning, threadVars, workerVars, raVars, decay, dbVars, faults,
                 acked>>

\* Mutation of StopAgent: the deferred restart is not cancelled.
StopAgentKeepsTarget(a) ==
  /\ LockFree
  /\ Cleaned[a] # None
  /\ schedulers' = Cleaned
  /\ thread' = [thread EXCEPT ![schedulers[a]].stop = TRUE]
  /\ held' = held \cup {a}
  /\ UNCHANGED <<isRunning, workerVars, op, raVars, decay, dbVars, faults, acked>>

\* stop_agent(): cancel a deferred restart and ask the thread to stop, without
\* waiting for it; an agent with neither a row nor a thread is refused.
StopAgent(a) ==
  LET i == Cleaned[a]
  IN /\ LockFree
     /\ config[a] # "absent" \/ i # None
     /\ schedulers' = Cleaned
     /\ targets' = targets \ {a}
     /\ thread' = IF i = None THEN thread ELSE [thread EXCEPT ![i].stop = TRUE]
     /\ held' = held \cup {a}
     /\ UNCHANGED <<isRunning, deferred, workers, op, raVars, decay, dbVars, faults, acked>>

\* scheduler.stop(): set the stop event of the next thread of the list.
RequestStop(a) ==
  /\ a \in op.stops
  /\ op.cur = None
  /\ op' = [op EXCEPT !.cur = a]
  /\ thread' = IF Registered(a) /\ Alive(schedulers[a])
               THEN [thread EXCEPT ![schedulers[a]].stop = TRUE] ELSE thread
  /\ UNCHANGED <<isRunning, schedulers, workerVars, raVars, decay, dbVars, faults,
                 historyVars>>

\* scheduler.stop() returned True: the thread ended; deregister it.
StopSucceeded(a) ==
  /\ a \in op.stops
  /\ op.cur = a
  /\ ~(Registered(a) /\ Alive(schedulers[a]))
  /\ schedulers' = [schedulers EXCEPT ![a] = None]
  /\ targets' = IF op.kind = "restart" /\ a \notin op.starts
                THEN targets \ {a} ELSE targets
  /\ op' = [op EXCEPT !.cur = None, !.stops = @ \ {a}]
  /\ UNCHANGED <<isRunning, thread, deferred, workers, raVars, decay, dbVars, faults,
                 historyVars>>

\* scheduler.stop() returned False: it did not wait, or the thread is still in
\* a session after the timeout; the restarts leave the rest to a worker.
StopTimedOut(a) ==
  /\ a \in op.stops
  /\ op.cur = a
  /\ Registered(a)
  /\ Alive(schedulers[a])
  /\ op.wait => thread[schedulers[a]].st = "session"
  /\ op' = [op EXCEPT !.cur = None, !.stops = @ \ {a},
                      !.starts = IF op.kind = "restart" THEN @ \ {a} ELSE @]
  /\ CASE op.kind = "stop" -> UNCHANGED workerVars
       [] op.kind # "stop" /\ a \in op.starts -> ScheduleDeferredRestart(a)
       [] OTHER -> /\ targets' = targets \ {a}
                   /\ UNCHANGED <<deferred, workers>>
  /\ UNCHANGED <<isRunning, threadVars, raVars, decay, dbVars, faults, acked, held>>

\* _start_agent_from_config_locked, first half (and the creation that ends
\* restart_agent): look the agent up; create its thread when it has none.
PickOrCreate(a) ==
  /\ op.stops = {}
  /\ op.cur = None
  /\ a \in op.starts
  /\ IF Cleaned[a] = None
     THEN /\ CreateScheduler(a, op.ver[a])
          /\ op' = [op EXCEPT !.starts = @ \ {a}]
     ELSE /\ schedulers' = Cleaned
          /\ op' = [op EXCEPT !.cur = a]
          /\ UNCHANGED <<thread, faults>>
  /\ UNCHANGED <<isRunning, workerVars, raVars, decay, dbVars, acked, held>>

\* Second half: the looked-up thread is stopping (arrange a deferred start) or
\* is taken to be running; either way the caller is told True.
CheckPicked(a) ==
  /\ op.stops = {}
  /\ op.cur = a
  /\ op' = [op EXCEPT !.cur = None, !.starts = @ \ {a}]
  /\ IF Registered(a) /\ IsStopping(schedulers[a])
     THEN ScheduleDeferredRestart(a)
     ELSE UNCHANGED workerVars
  /\ UNCHANGED <<isRunning, threadVars, raVars, decay, dbVars, faults, acked, held>>

\* Mutation of Return: the worker runs restart_all once and does not loop.
ReturnEndsWorker ==
  /\ ~LockFree
  /\ op.stops = {}
  /\ op.starts = {}
  /\ op.cur = None
  /\ op' = Idle
  /\ raPc' = IF op.kind = "restart_all" THEN "none" ELSE raPc
  /\ UNCHANGED <<isRunning, threadVars, workerVars, raPending, decay, dbVars, faults,
                 historyVars>>

\* The operation releases the lifecycle lock.
Return ==
  /\ ~LockFree
  /\ op.stops = {}
  /\ op.starts = {}
  /\ op.cur = None
  /\ op' = Idle
  /\ raPc' = IF op.kind = "restart_all" THEN "top" ELSE raPc
  /\ UNCHANGED <<isRunning, threadVars, workerVars, raPending, decay, dbVars, faults,
                 historyVars>>

-----------------------------------------------------------------------------
(* The restart-all worker.                                                 *)

\* request_restart_all(): mark a request, start the worker if there is none.
RequestRestartAll ==
  /\ LockFree
  /\ isRunning
  /\ raPending' = TRUE
  /\ raPc' = IF raPc = "none" THEN "top" ELSE raPc
  /\ UNCHANGED <<isRunning, threadVars, workerVars, op, decay, dbVars, faults, historyVars>>

\* _drain_restart_all_requests, under _restart_all_lock: take the request or
\* end when there is none.
DrainTop ==
  /\ raPc = "top"
  /\ raPending' = FALSE
  /\ raPc' = IF raPending THEN "run" ELSE "none"
  /\ UNCHANGED <<isRunning, threadVars, workerVars, op, decay, dbVars, faults, historyVars>>

\* restart_all(): stop every registered thread, then start every active agent.
RestartAll ==
  /\ raPc = "run"
  /\ LockFree
  /\ isRunning
  /\ raPc' = "busy"
  /\ schedulers' = Cleaned
  /\ op' = Operation("restart_all", TRUE, {a \in Agents : Cleaned[a] # None},
                     ActiveAgents)
  /\ held' = held \ ActiveAgents
  /\ acked' = [a \in Agents |-> IF a \in ActiveAgents THEN version[a] ELSE acked[a]]
  /\ UNCHANGED <<isRunning, thread, workerVars, raPending, decay, dbVars, faults>>

\* restart_all() of a stopped manager returns at once.
RestartAllIgnored ==
  /\ raPc = "run"
  /\ LockFree
  /\ ~isRunning
  /\ raPc' = "top"
  /\ UNCHANGED <<isRunning, threadVars, workerVars, op, raPending, decay, dbVars, faults,
                 historyVars>>

\* restart_all() raises when it reads the configurations.
RestartAllRaises ==
  /\ raPc = "run"
  /\ LockFree
  /\ isRunning
  /\ faults < MaxFaults
  /\ faults' = faults + 1
  /\ raPc' = "failed"
  /\ UNCHANGED <<isRunning, threadVars, workerVars, op, raPending, decay, dbVars, historyVars>>

\* The finally clause forgets the worker whose loop an exception ended.
DrainFinally ==
  /\ raPc = "failed"
  /\ raPc' = "none"
  /\ UNCHANGED <<isRunning, threadVars, workerVars, op, raPending, decay, dbVars, faults,
                 historyVars>>

-----------------------------------------------------------------------------
(* The deferred-restart workers.                                           *)

\* Mutations of RestartAfterExit: the replacement gets the configuration the
\* worker captured; the worker does not deregister the old thread first; it
\* forgets to give up the request.
RestartAfterExitStale(a, i) ==
  /\ <<a, i>> \in workers /\ ~Alive(i) /\ LockFree
  /\ workers' = workers \ {<<a, i>>}
  /\ targets' = targets \ {a}
  /\ deferred' = [deferred EXCEPT ![a] = None]
  /\ IF a \in targets /\ isRunning /\ config[a] = "active"
     THEN CreateScheduler(a, thread[i].ver)
     ELSE UNCHANGED <<schedulers, thread, faults>>
  /\ UNCHANGED <<isRunning, op, raVars, decay, dbVars, historyVars>>

RestartAfterExitKeepsOld(a, i) ==
  /\ <<a, i>> \in workers /\ ~Alive(i) /\ LockFree
  /\ workers' = workers \ {<<a, i>>}
  /\ targets' = targets \ {a}
  /\ deferred' = [deferred EXCEPT ![a] = None]
  /\ IF schedulers[a] = None /\ a \in targets /\ isRunning /\ config[a] = "active"
     THEN CreateScheduler(a, version[a])
     ELSE UNCHANGED <<schedulers, thread, faults>>
  /\ UNCHANGED <<isRunning, op, raVars, decay, dbVars, historyVars>>

RestartAfterExitKeepsTarget(a, i) ==
  /\ <<a, i>> \in workers /\ ~Alive(i) /\ LockFree
  /\ workers' = workers \ {<<a, i>>}
  /\ deferred' = [deferred EXCEPT ![a] = None]
  /\ UNCHANGED <<isRunning, threadVars, targets, op, raVars, decay, dbVars, faults,
                 historyVars>>

\* _restart_after_exit once the old thread i ended and the lock is free: give
\* up the request, and create the replacement when it is still wanted.
RestartAfterExit(a, i) ==
  LET left == IF schedulers[a] = i THEN None ELSE schedulers[a]
  IN /\ <<a, i>> \in workers
     /\ ~Alive(i)
     /\ LockFree
     /\ workers' = workers \ {<<a, i>>}
     /\ targets' = targets \ {a}
     /\ deferred' = IF deferred[a] = i THEN [deferred EXCEPT ![a] = None] ELSE deferred
     /\ \/ /\ left = None /\ a \in targets /\ isRunning /\ config[a] = "active"
           /\ CreateScheduler(a, version[a])
        \/ /\ ~(left = None /\ a \in targets /\ isRunning /\ config[a] = "active")
           /\ schedulers' = [schedulers EXCEPT ![a] = left]
           /\ UNCHANGED <<thread, faults>>
     /\ UNCHANGED <<isRunning, op, raVars, decay, dbVars, acked, held>>

-----------------------------------------------------------------------------
(* The agent threads, the status readers and the administrators.           *)

\* _wait_until_login_time saw the stop event clear and the time reached.
LogIn(i) ==
  /\ thread[i].st = "waiting"
  /\ ~thread[i].stop
  /\ thread' = [thread EXCEPT ![i].st = "session"]
  /\ UNCHANGED <<isRunning, schedulers, workerVars, op, raVars, decay, dbVars, faults,
                 historyVars>>

\* _execute_login_and_session returned to the loop.
EndSession(i) ==
  /\ thread[i].st = "session"
  /\ thread' = [thread EXCEPT ![i].st = "waiting"]
  /\ UNCHANGED <<isRunning, schedulers, workerVars, op, raVars, decay, dbVars, faults,
                 historyVars>>

\* The loop saw the stop event.
Exit(i) ==
  /\ thread[i].st = "waiting"
  /\ thread[i].stop
  /\ thread' = [thread EXCEPT ![i] = Dead]
  /\ UNCHANGED <<isRunning, schedulers, workerVars, op, raVars, decay, dbVars, faults,
                 historyVars>>

\* An exception ends run(), or monthly_logins <= 0 ends the loop.
Crash(i) ==
  /\ Crashes
  /\ Alive(i)
  /\ thread' = [thread EXCEPT ![i] = Dead]
  /\ UNCHANGED <<isRunning, schedulers, workerVars, op, raVars, decay, dbVars, faults,
                 historyVars>>

\* get_agent_status and get_all_statuses clean up under _thread_lock alone.
ReadStatus ==
  /\ schedulers' = Cleaned
  /\ UNCHANGED <<isRunning, thread, workerVars, op, raVars, decay, dbVars, faults, historyVars>>

\* A memory-decay thread whose stop event is set leaves its loop.
DecayExit ==
  /\ decay.leaving
  /\ decay' = [decay EXCEPT !.leaving = FALSE]
  /\ UNCHANGED <<isRunning, threadVars, workerVars, op, raVars, dbVars, faults,
                 historyVars>>

\* The management backend edits, deletes or creates the agent's row.
EditConfig(a, status) ==
  /\ version[a] < MaxVersion
  /\ version' = [version EXCEPT ![a] = @ + 1]
  /\ config' = [config EXCEPT ![a] = status]
  /\ UNCHANGED <<isRunning, threadVars, workerVars, op, raVars, decay, faults, historyVars>>

-----------------------------------------------------------------------------
ConfigStatus == {"absent", "inactive", "active"}

Init ==
  /\ isRunning = FALSE
  /\ schedulers = [a \in Agents |-> None]
  /\ thread = [i \in Threads |-> Dead]
  /\ deferred = [a \in Agents |-> None]
  /\ workers = {}
  /\ targets = {}
  /\ op = Idle
  /\ raPending = FALSE
  /\ raPc = "none"
  /\ decay = [kept |-> FALSE, leaving |-> FALSE]
  /\ config \in [Agents -> ConfigStatus]
  /\ version = [a \in Agents |-> 0]
  /\ faults = 0
  /\ acked = [a \in Agents |-> 0]
  /\ held = {}

\* What the holder of the lifecycle lock does next.
HolderStep ==
  \/ \E a \in Agents : \/ RequestStop(a)
                       \/ StopSucceeded(a)
                       \/ StopTimedOut(a)
                       \/ PickOrCreate(a)
                       \/ CheckPicked(a)
  \/ Return

\* Requests of the internal HTTP server and of the main thread.
Request ==
  \/ Start
  \/ \E wait \in BOOLEAN : Stop(wait)
  \/ \E a \in Agents : RestartAgent(a) \/ StartAgent(a) \/ StopAgent(a)
  \/ RequestRestartAll

RestartAllWorker ==
  DrainTop \/ RestartAll \/ RestartAllIgnored \/ RestartAllRaises \/ DrainFinally

AgentThread(i) == LogIn(i) \/ EndSession(i) \/ Exit(i) \/ Crash(i)

Next ==
  \/ HolderStep
  \/ Request
  \/ RestartAllWorker
  \/ \E a \in Agents, i \in Threads : RestartAfterExit(a, i)
  \/ \E i \in Threads : AgentThread(i)
  \/ DecayExit
  \/ ReadStatus
  \/ \E a \in Agents, status \in ConfigStatus : EditConfig(a, status)

Spec == Init /\ [][Next]_vars

\* The lock holder, the workers and the loops of the threads keep running, a
\* session ends, and no thread waits for a free lock for ever.  Requests,
\* edits, status reads, crashes and failures need not happen.
Fairness ==
  /\ WF_vars(HolderStep)
  /\ WF_vars(DrainTop)
  /\ WF_vars(DrainFinally)
  /\ SF_vars(RestartAll \/ RestartAllIgnored)
  /\ \A a \in Agents, i \in Threads : SF_vars(RestartAfterExit(a, i))
  /\ \A i \in Threads : WF_vars(EndSession(i)) /\ WF_vars(Exit(i))
  /\ WF_vars(DecayExit)

FairSpec == Spec /\ Fairness

-----------------------------------------------------------------------------
(* Properties.                                                             *)

OpKinds == {"idle", "start", "stop", "restart", "restart_all"}

ThreadType == [st: {"dead", "waiting", "session"}, agent: Agents \cup {None},
               stop: BOOLEAN, ver: Nat]

OpType == [kind: OpKinds, wait: BOOLEAN, stops: SUBSET Agents,
           starts: SUBSET Agents, cur: Agents \cup {None}, ver: [Agents -> Nat]]

TypeOK ==
  /\ isRunning \in BOOLEAN
  /\ schedulers \in [Agents -> Threads \cup {None}]
  /\ thread \in [Threads -> ThreadType]
  /\ deferred \in [Agents -> Threads \cup {None}]
  /\ workers \subseteq Agents \X Threads
  /\ targets \subseteq Agents
  /\ op \in OpType
  /\ raPending \in BOOLEAN
  /\ raPc \in {"none", "top", "run", "busy", "failed"}
  /\ decay \in [kept: BOOLEAN, leaving: BOOLEAN]
  /\ config \in [Agents -> ConfigStatus]
  /\ version \in [Agents -> Nat]
  /\ faults \in Nat
  /\ acked \in [Agents -> Nat]
  /\ held \subseteq Agents

\* The registry and the live threads agree: a live thread is the registered
\* one of its agent, however often the registry was cleaned and refilled.
Registry ==
  /\ \A i \in Threads : Alive(i) => /\ thread[i].agent \in Agents
                                    /\ schedulers[thread[i].agent] = i
  /\ \A a \in Agents : Registered(a) /\ Alive(schedulers[a])
                         => thread[schedulers[a]].agent = a

\* The registry of deferred workers and the live workers agree.
WorkerRegistry ==
  /\ \A a \in Agents : deferred[a] # None => <<a, deferred[a]>> \in workers
  /\ \A a \in Agents, i \in Threads : <<a, i>> \in workers => deferred[a] = i

\* What the holder of the lifecycle lock may still have to do.
HolderShape ==
  /\ LockFree => op.stops = {} /\ op.starts = {} /\ op.cur = None
  /\ op.kind = "stop" => op.starts = {} /\ ~isRunning
  /\ op.kind = "restart_all" => isRunning
  /\ op.starts # {} => isRunning
  /\ op.cur # None => op.cur \in op.stops \cup op.starts

\* While a stopped manager still works through stop(), the threads not asked
\* to stop yet are those it still has to ask.
StoppingManager ==
  ~isRunning =>
    /\ targets = {}
    /\ ~raPending
    /\ ~decay.kept
    /\ \A i \in Threads : Alive(i) => \/ thread[i].stop
                                      \/ /\ thread[i].agent \in op.stops
                                         /\ thread[i].agent # op.cur

\* Nobody is about to start a held agent.
HeldNotWanted == held \cap op.starts = {} /\ held \cap targets = {}

\* What the lock holder will start from is as recent as the last request.
FreshSnapshot ==
  \A a \in Agents : /\ acked[a] <= version[a]
                    /\ a \in op.starts => acked[a] <= op.ver[a]

\* No agent ever acts through two threads at once: whatever restarts, starts,
\* time-outs, late exits and status reads are interleaved, a replacement is
\* started only after the old thread ended (_create_scheduler_locked).
OneLiveThread ==
  \A i, j \in Threads :
    Alive(i) /\ Alive(j) /\ thread[i].agent = thread[j].agent => i = j

\* When stop() has returned the manager stays quiet: every thread still alive
\* was told to stop, and no deferred or full restart can revive one.
StoppedManagerIsQuiet ==
  ~isRunning /\ LockFree =>
    /\ \A i \in Threads : Alive(i) => thread[i].stop
    /\ targets = {}
    /\ ~raPending
    /\ ~decay.kept

\* stop_agent() wins over every restart accepted before it: until somebody asks
\* for the agent again, no thread of it runs without a stop request.
HeldAgentsStayStopped ==
  \A i \in Threads : Alive(i) /\ thread[i].agent \in held => thread[i].stop

\* A deferred restart that was accepted is never orphaned: as long as it is
\* pending, a live worker is registered that will look at it.
TargetHasWorker ==
  \A a \in targets : deferred[a] # None /\ <<a, deferred[a]>> \in workers

\* A thread never starts from a configuration older than the one the latest
\* restart request read: a deferred replacement reads the row again, and a
\* snapshot read before a long join is not used after a newer restart.
NoStaleReplacement ==
  [][\A i \in Threads : ~Alive(i) /\ Alive(i)' =>
       thread'[i].ver >= acked[thread'[i].agent]]_vars

\* A requested deferred restart is decided in the end, whatever other
\* operations do with the lock the worker needs.
DeferredRestartDecided == \A a \in Agents : a \in targets ~> a \notin targets

\* The inductive strengthening of the invariants above.
IInv ==
  /\ TypeOK
  /\ Registry
  /\ WorkerRegistry
  /\ HolderShape
  /\ StoppingManager
  /\ HeldNotWanted
  /\ HeldAgentsStayStopped
  /\ TargetHasWorker
  /\ FreshSnapshot

RunsAgain(a) == \E i \in Threads : /\ Alive(i)
                                   /\ thread[i].agent = a
                                   /\ ~thread[i].stop

\* The reasons for which a pending restart of a may rightly come to nothing.
Cancelled(a) == config[a] # "active" \/ ~isRunning \/ a \in held

\* While its worker waits for the registered thread, a deferred restart ends in
\* a new thread, unless it is cancelled.
DeferredRestartReplaces ==
  \A a \in Agents :
    (a \in targets /\ deferred[a] = schedulers[a]) ~> (RunsAgain(a) \/ Cancelled(a))

\* Every accepted request for a full restart is followed by a run of
\* restart_all that began after it, or by the stop of the manager.
RestartAllHonoured == raPending ~> (raPc = "busy" \/ ~isRunning)

\* What restart_agent promises when the stop times out (scheduler.py:404-417):
\* after the old thread ended, a thread with the latest configuration runs.
DeferredRestartNotLost ==
  \A a \in Agents : a \in targets ~> (RunsAgain(a) \/ Cancelled(a))

-----------------------------------------------------------------------------
(* Refinement: what the threads of an agent amount to.                     *)

Phase(a) ==
  CASE RunsAgain(a) -> "running"
    [] ~RunsAgain(a) /\ (\E i \in Threads : Alive(i) /\ thread[i].agent = a) -> "stopping"
    [] OTHER -> "stopped"

Lifecycle == INSTANCE AgentLifecycle
             WITH on <- isRunning, phase <- [a \in Agents |-> Phase(a)]

\* The scheduler implements AgentLifecycle: no launch of an agent whose old
\* thread lives or while the manager is stopped, and every stop completes.
ImplementsLifecycle == Lifecycle!FairSpec
=============================================================================
