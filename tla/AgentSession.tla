---------------------------- MODULE AgentSession ----------------------------
(***************************************************************************)
(* The login sessions of one AI agent: the session graph that its thread   *)
(* runs (langgraph/nodes.py, session_graph.py, executor.py), the one-shot  *)
(* prompt injections it consumes (scheduler/session_injections.py) and the *)
(* short-term memory it shares with the administrators (db_client.py,      *)
(* short_term_memory_service.py).                                          *)
(*                                                                         *)
(* The thread runs one graph node at a time; a stop request, an edit by an *)
(* administrator and a new injection may come between any two steps, and   *)
(* while the language model answers or a tool runs.  An answer is reduced  *)
(* to how many tools of each kind it calls.                                *)
(***************************************************************************)
EXTENDS Naturals

CONSTANTS
  MaxSteps,       (* SessionConfig.max_steps                               *)
  ToolCounts,     (* how many tools of one kind an answer may call         *)
  MemoryCounts,   (* how many memories the summary's answer may write      *)
  MaxSessions,    (* bound: logins                                         *)
  MaxAdminEdits,  (* bound: edits by administrators                        *)
  MaxInjections,  (* bound: injections waiting                             *)
  MaxFaults       (* bound: failed reads, writes, lookups and model calls  *)

ASSUME SessionAssumption ==
  /\ MaxSteps \in Nat \ {0}
  /\ ToolCounts \subseteq Nat
  /\ MemoryCounts \subseteq Nat
  /\ MaxSessions \in Nat
  /\ MaxAdminEdits \in Nat
  /\ MaxInjections \in Nat
  /\ MaxFaults \in Nat

VARIABLES
  pc,          (* the node to run next, or the call that is under way      *)
  nodes,       (* graph nodes run so far                                   *)
  steps,       (* step_count                                               *)
  exit,        (* exit_reason                                              *)
  batch,       (* pending_tool and pending_tools                           *)
  running,     (* the tool that is under way                               *)
  acted,       (* action_history has a record                              *)
  writes,      (* write_memory calls of the summary's answer still to end  *)
  view,        (* the short-term memory as the session state has it        *)
  stm,         (* the stored short-term memory                             *)
  stop,        (* the stop event of the thread                             *)
  injections,  (* prompt injections waiting for the next login             *)
  sessions,    (* logins so far                                            *)
  adminEdits,  (* edits of the short-term memory by administrators         *)
  faults,      (* failures so far                                          *)
  carried,     (* history: injections consumed, in no prompt yet           *)
  owed,        (* history: the last answer edits the memory, not done yet  *)
  ownRev,      (* history: revision of the session's own last edit         *)
  late,        (* history: answers and tools that ended after a stop       *)
  caught,      (* history: where the thread was when the stop came         *)
  asked        (* history: write_memory calls in the summary's answer      *)

graphVars   == <<pc, nodes, steps, exit, batch, running, acted, writes>>
memoryVars  == <<view, stm, ownRev>>
outsideVars == <<stop, injections, adminEdits>>
historyVars == <<carried, owed, late, caught, asked>>

stopVars    == <<caught, asked>>

vars == <<graphVars, memoryVars, outsideVars, sessions, faults, historyVars>>

-----------------------------------------------------------------------------
(* Answers of the model and batches of tools.                              *)

\* What one answer calls: edits of the short-term memory, other tools with a
\* return value, tools without one, and logout.
Answers == [edits: ToolCounts, views: ToolCounts, acts: ToolCounts, logout: BOOLEAN]

NoTools == [edit |-> FALSE, view |-> FALSE, acts |-> 0, logout |-> FALSE]

LogoutOnly == [NoTools EXCEPT !.logout = TRUE]

\* Mutation of Normalized: a logout of the same answer is kept beside an edit.
NormalizedKeepsLogout(r) ==
  [edit |-> r.edits > 0, view |-> r.edits = 0 /\ r.views > 0, acts |-> r.acts,
   logout |-> r.logout]

\* Mutation of Normalized: every tool with a return value is kept.
NormalizedKeepsViews(r) ==
  [edit |-> r.edits > 0, view |-> FALSE, acts |-> r.acts + r.views,
   logout |-> r.logout /\ r.edits = 0]

\* _normalize_tool_calls_for_batch: an edit comes first and drops a logout of
\* the same answer; only one tool with a return value is kept.
Normalized(r) ==
  [edit   |-> r.edits > 0,
   view   |-> r.edits = 0 /\ r.views > 0,
   acts   |-> r.acts,
   logout |-> r.logout /\ r.edits = 0]

\* The pending tools after the answer: a logout drops the rest of its batch,
\* and an answer without tools ends a session that has no steps left.
Planned(r) ==
  LET n == Normalized(r)
  IN CASE n.logout                          -> LogoutOnly
       [] n = NoTools /\ steps >= MaxSteps  -> LogoutOnly
       [] OTHER                             -> n

\* The tools of the batch that may be executed next: an edit comes first.
NextTools ==
  IF batch.edit THEN {"edit"}
  ELSE (IF batch.view THEN {"view"} ELSE {}) \cup (IF batch.acts > 0 THEN {"act"} ELSE {})

Without(tool) ==
  CASE tool = "edit" -> [batch EXCEPT !.edit = FALSE]
    [] tool = "view" -> [batch EXCEPT !.view = FALSE]
    [] tool = "act"  -> [batch EXCEPT !.acts = @ - 1]

-----------------------------------------------------------------------------
(* The graph.                                                              *)

\* Mutation of RecursionLimit: nothing is added for the nodes outside the steps.
RecursionLimitOfSteps == MaxSteps * 10

\* The recursion limit the executor gives the graph: 10 nodes per step and 10
\* more, at least 100.
RecursionLimit == IF MaxSteps * 10 + 10 > 100 THEN MaxSteps * 10 + 10 ELSE 100

Nodes == {"start", "recall", "decide", "tool", "summarize", "end"}

\* LangGraph runs one more node.
Enter(n) ==
  /\ pc = n
  /\ nodes < RecursionLimit
  /\ nodes' = nodes + 1

\* Mutation of Route: one step too many.
RouteOneMore(exitReason, pending, count) ==
  IF stop \/ exitReason # "none" THEN "summarize"
  ELSE IF pending # NoTools THEN "tool"
  ELSE IF count > MaxSteps THEN "summarize" ELSE "recall"

\* should_continue_edge, for the state the tool node returns.
Route(exitReason, pending, count) ==
  IF stop \/ exitReason # "none" THEN "summarize"
  ELSE IF pending # NoTools THEN "tool"
  ELSE IF count >= MaxSteps THEN "summarize" ELSE "recall"

\* A failed read looks like an empty memory.
EmptyMemory == [rev |-> 0, admin |-> 0]

\* Mutation of Refreshed: only what is two revisions newer is taken.
RefreshedLate(snapshot) == IF snapshot.rev <= view.rev + 1 THEN view ELSE snapshot

\* _refresh_short_term_memory: take a snapshot that is newer.
Refreshed(snapshot) == IF snapshot.rev <= view.rev THEN view ELSE snapshot

\* get_short_term_memory.
ReadMemory(snapshot) ==
  \/ snapshot = stm /\ UNCHANGED faults
  \/ snapshot = EmptyMemory /\ faults < MaxFaults /\ faults' = faults + 1

Late == late + (IF stop THEN 1 ELSE 0)

-----------------------------------------------------------------------------
(* Login.                                                                  *)

\* _execute_login_and_session up to the reading of the short-term memory.
LogIn ==
  /\ pc = "idle"
  /\ ~stop
  /\ sessions < MaxSessions
  /\ sessions' = sessions + 1
  /\ \E snapshot \in {stm, EmptyMemory} : ReadMemory(snapshot) /\ view' = snapshot
  /\ pc' = "login"
  /\ UNCHANGED <<nodes, steps, exit, batch, running, acted, writes, stm, ownRev,
                 outsideVars, historyVars>>

\* consume_prompt_injection_text, then the model configuration is read and the
\* executor builds the initial state of the graph.
BeginSession ==
  /\ pc = "login"
  /\ pc' = "start"
  /\ injections' = 0
  /\ carried' = injections
  /\ nodes' = 0
  /\ ownRev' = 0
  /\ owed' = FALSE
  /\ UNCHANGED <<steps, exit, batch, running, acted, writes, view, stm, stop,
                 adminEdits, sessions, faults, late, stopVars>>

\* The agent has no usable model configuration: the session is abandoned after
\* its injections were consumed.
ConfigFails ==
  /\ pc = "login"
  /\ faults < MaxFaults
  /\ faults' = faults + 1
  /\ pc' = "idle"
  /\ injections' = 0
  /\ carried' = injections
  /\ UNCHANGED <<nodes, steps, exit, batch, running, acted, writes, memoryVars,
                 stop, adminEdits, sessions, owed, late, stopVars>>

-----------------------------------------------------------------------------
(* The nodes of the graph.                                                 *)

\* start_node
StartNode ==
  /\ Enter("start")
  /\ pc' = "recall"
  /\ steps' = 0
  /\ exit' = "none"
  /\ batch' = NoTools
  /\ acted' = FALSE
  /\ UNCHANGED <<running, writes, memoryVars, outsideVars, sessions, faults,
                 historyVars>>

\* recall_memory_node; what it recalls only changes the prompt.
RecallMemory ==
  /\ Enter("recall")
  /\ pc' = "decide"
  /\ exit' = IF stop THEN "user" ELSE exit
  /\ UNCHANGED <<steps, batch, running, acted, writes, memoryVars, outsideVars,
                 sessions, faults, historyVars>>

\* llm_decision_node of a thread that was asked to stop.
DecideToStop ==
  /\ Enter("decide")
  /\ stop
  /\ pc' = "tool"
  /\ batch' = LogoutOnly
  /\ UNCHANGED <<steps, exit, running, acted, writes, memoryVars, outsideVars,
                 sessions, faults, historyVars>>

\* llm_decision_node: refresh the short-term memory, build the prompt and call
\* the model.
Decide ==
  /\ Enter("decide")
  /\ ~stop
  /\ pc' = "think"
  /\ \E snapshot \in {stm, EmptyMemory} :
       ReadMemory(snapshot) /\ view' = Refreshed(snapshot)
  /\ carried' = 0
  /\ UNCHANGED <<steps, exit, batch, running, acted, writes, stm, ownRev,
                 outsideVars, sessions, owed, late, stopVars>>

\* The model answered.
Answer(r) ==
  /\ pc = "think"
  /\ pc' = "tool"
  /\ batch' = Planned(r)
  /\ owed' = (r.edits > 0)
  /\ late' = Late
  /\ UNCHANGED <<nodes, steps, exit, running, acted, writes, memoryVars,
                 outsideVars, sessions, faults, carried, stopVars>>

\* The call of the model failed.
AnswerFails ==
  /\ pc = "think"
  /\ faults < MaxFaults
  /\ faults' = faults + 1
  /\ pc' = "tool"
  /\ batch' = NoTools
  /\ exit' = "error"
  /\ owed' = FALSE
  /\ late' = Late
  /\ UNCHANGED <<nodes, steps, running, acted, writes, memoryVars, outsideVars,
                 sessions, carried, stopVars>>

\* tool_execution_node without a tool to run: a stop request skips the pending
\* ones, a logout ends the session, and an answer without tools costs a step.
SkipTools ==
  /\ Enter("tool")
  /\ stop \/ batch.logout \/ batch = NoTools
  /\ \/ /\ stop \/ batch.logout
        /\ exit' = "user"
        /\ UNCHANGED steps
     \/ /\ ~stop /\ batch = NoTools
        /\ steps' = IF exit = "none" THEN steps + 1 ELSE steps
        /\ UNCHANGED exit
  /\ batch' = NoTools
  /\ pc' = Route(exit', NoTools, steps')
  /\ UNCHANGED <<running, acted, writes, memoryVars, outsideVars, sessions, faults,
                 historyVars>>

\* Mutation of PickTool: the node does not look for a stop request.
PickToolAnyway(tool) ==
  /\ Enter("tool")
  /\ ~batch.logout
  /\ tool \in NextTools
  /\ pc' = "invoke"
  /\ running' = tool
  /\ batch' = Without(tool)
  /\ owed' = IF tool = "edit" THEN FALSE ELSE owed
  /\ UNCHANGED <<steps, exit, acted, writes, memoryVars, outsideVars, sessions,
                 faults, carried, late, stopVars>>

\* tool_execution_node takes the next tool of the batch and invokes it.
PickTool(tool) ==
  /\ Enter("tool")
  /\ ~stop
  /\ ~batch.logout
  /\ tool \in NextTools
  /\ pc' = "invoke"
  /\ running' = tool
  /\ batch' = Without(tool)
  /\ owed' = IF tool = "edit" THEN FALSE ELSE owed
  /\ UNCHANGED <<steps, exit, acted, writes, memoryVars, outsideVars, sessions,
                 faults, carried, late, stopVars>>

\* The record of the tool, and the step count once its batch is done.
EndTool ==
  /\ acted' = TRUE
  /\ UNCHANGED writes
  /\ running' = "none"
  /\ steps' = IF batch = NoTools THEN steps + 1 ELSE steps
  /\ pc' = Route(exit, batch, steps')

\* A tool other than an edit returned or failed.
ToolReturns ==
  /\ pc = "invoke"
  /\ running # "edit"
  /\ EndTool
  /\ late' = Late
  /\ UNCHANGED <<nodes, exit, batch, memoryVars, outsideVars, sessions, faults,
                 carried, owed, stopVars>>

\* update_short_term_memory: one transaction overwrites the memory with what
\* the model made of the view it was shown.
EditMemory ==
  /\ pc = "invoke"
  /\ running = "edit"
  /\ pc' = "edited"
  /\ stm' = [rev |-> stm.rev + 1, admin |-> view.admin]
  /\ ownRev' = stm.rev + 1
  /\ late' = Late
  /\ UNCHANGED <<nodes, steps, exit, batch, running, acted, writes, view,
                 outsideVars, sessions, faults, carried, owed, stopVars>>

\* The edit could not be saved.
EditFails ==
  /\ pc = "invoke"
  /\ running = "edit"
  /\ faults < MaxFaults
  /\ faults' = faults + 1
  /\ EndTool
  /\ late' = Late
  /\ UNCHANGED <<nodes, exit, batch, memoryVars, outsideVars, sessions, carried,
                 owed, stopVars>>

\* After a saved edit the node refreshes the memory of the session.
RefreshAfterEdit ==
  /\ pc = "edited"
  /\ \E snapshot \in {stm, EmptyMemory} :
       ReadMemory(snapshot) /\ view' = Refreshed(snapshot)
  /\ EndTool
  /\ UNCHANGED <<nodes, exit, batch, stm, ownRev, outsideVars, sessions,
                 historyVars>>

\* summarize_node: nothing to summarise, or the model is asked to write the
\* session's memories.
Summarize ==
  /\ Enter("summarize")
  /\ pc' = IF stop \/ exit = "error" \/ ~acted THEN "end" ELSE "reflect"
  /\ UNCHANGED <<steps, exit, batch, running, acted, writes, memoryVars,
                 outsideVars, sessions, faults, historyVars>>

\* The model answered and asks for k memories to be written.
Reflect(k) ==
  /\ pc = "reflect"
  /\ pc' = IF k = 0 THEN "end" ELSE "remember"
  /\ writes' = k
  /\ asked' = k
  /\ late' = Late
  /\ UNCHANGED <<nodes, steps, exit, batch, running, acted, memoryVars, outsideVars,
                 sessions, faults, carried, owed, caught>>

\* The call of the model failed: the summary is a fixed text.
ReflectFails ==
  /\ pc = "reflect"
  /\ faults < MaxFaults
  /\ faults' = faults + 1
  /\ pc' = "end"
  /\ late' = Late
  /\ UNCHANGED <<nodes, steps, exit, batch, running, acted, writes, memoryVars,
                 outsideVars, sessions, carried, owed, stopVars>>

\* A write_memory call of the summary returned or failed; the next one begins
\* whether or not the thread was asked to stop.
WriteMemory ==
  /\ pc = "remember"
  /\ writes' = writes - 1
  /\ pc' = IF writes' = 0 THEN "end" ELSE "remember"
  /\ late' = Late
  /\ UNCHANGED <<nodes, steps, exit, batch, running, acted, memoryVars, outsideVars,
                 sessions, faults, carried, owed, stopVars>>

\* end_node, and SessionExecutor.run returns.
EndNode ==
  /\ Enter("end")
  /\ pc' = "idle"
  /\ UNCHANGED <<steps, exit, batch, running, acted, writes, memoryVars,
                 outsideVars, sessions, faults, historyVars>>

\* LangGraph raises GraphRecursionError instead of running another node; when
\* exactly is the library's affair, within one node.
RecursionError ==
  /\ pc \in Nodes
  /\ nodes >= RecursionLimit - 1
  /\ pc' = "overflow"
  /\ UNCHANGED <<nodes, steps, exit, batch, running, acted, writes, memoryVars,
                 outsideVars, sessions, faults, historyVars>>

\* SessionExecutor.run turns the error into a failed result.
CatchRecursionError ==
  /\ pc = "overflow"
  /\ pc' = "idle"
  /\ UNCHANGED <<nodes, steps, exit, batch, running, acted, writes, memoryVars,
                 outsideVars, sessions, faults, historyVars>>

-----------------------------------------------------------------------------
(* The rest of the program.                                                *)

\* AIUserScheduler.stop sets the stop event.
RequestStop ==
  /\ ~stop
  /\ stop' = TRUE
  /\ caught' = pc
  /\ UNCHANGED <<graphVars, memoryVars, injections, adminEdits, sessions, faults,
                 carried, owed, late, asked>>

\* SessionInjectionQueue.enqueue
EnqueueInjection ==
  /\ injections < MaxInjections
  /\ injections' = injections + 1
  /\ UNCHANGED <<graphVars, memoryVars, stop, adminEdits, sessions, faults,
                 historyVars>>

\* The management backend overwrites the memory and increments its revision.
AdminEditsMemory ==
  /\ adminEdits < MaxAdminEdits
  /\ adminEdits' = adminEdits + 1
  /\ stm' = [rev |-> stm.rev + 1, admin |-> adminEdits + 1]
  /\ UNCHANGED <<graphVars, view, ownRev, stop, injections, sessions, faults,
                 historyVars>>

-----------------------------------------------------------------------------
Init ==
  /\ pc = "idle"
  /\ nodes = 0
  /\ steps = 0
  /\ exit = "none"
  /\ batch = NoTools
  /\ running = "none"
  /\ acted = FALSE
  /\ writes = 0
  /\ view = EmptyMemory
  /\ stm = EmptyMemory
  /\ stop = FALSE
  /\ injections = 0
  /\ sessions = 0
  /\ adminEdits = 0
  /\ faults = 0
  /\ carried = 0
  /\ owed = FALSE
  /\ ownRev = 0
  /\ late = 0
  /\ caught = "idle"
  /\ asked = 0

\* What the thread of the agent does while a session is under way.
SessionStep ==
  \/ BeginSession
  \/ ConfigFails
  \/ StartNode
  \/ RecallMemory
  \/ DecideToStop
  \/ Decide
  \/ \E r \in Answers : Answer(r)
  \/ AnswerFails
  \/ SkipTools
  \/ \E tool \in {"edit", "view", "act"} : PickTool(tool)
  \/ ToolReturns
  \/ EditMemory
  \/ EditFails
  \/ RefreshAfterEdit
  \/ Summarize
  \/ \E k \in MemoryCounts : Reflect(k)
  \/ ReflectFails
  \/ WriteMemory
  \/ EndNode
  \/ RecursionError
  \/ CatchRecursionError

Outside == RequestStop \/ EnqueueInjection \/ AdminEditsMemory

Next == LogIn \/ SessionStep \/ Outside

Spec == Init /\ [][Next]_vars

\* A session runs on; nobody need log in, stop, inject or edit anything.
FairSpec == Spec /\ WF_vars(SessionStep)

-----------------------------------------------------------------------------
(* Properties.                                                             *)

Memory == [rev: Nat, admin: Nat]

BatchType == [edit: BOOLEAN, view: BOOLEAN, acts: Nat, logout: BOOLEAN]

Calls == {"idle", "login", "think", "invoke", "edited", "reflect", "remember",
          "overflow"}

TypeOK ==
  /\ pc \in Nodes \cup Calls
  /\ nodes \in 0..RecursionLimit
  /\ steps \in 0..MaxSteps
  /\ exit \in {"none", "user", "error"}
  /\ batch \in BatchType
  /\ running \in {"none", "edit", "view", "act"}
  /\ acted \in BOOLEAN
  /\ view \in Memory
  /\ stm \in Memory
  /\ stop \in BOOLEAN
  /\ injections \in Nat
  /\ sessions \in Nat
  /\ adminEdits \in Nat
  /\ faults \in Nat
  /\ carried \in Nat
  /\ owed \in BOOLEAN
  /\ ownRev \in Nat
  /\ writes \in Nat
  /\ late \in Nat
  /\ caught \in Nodes \cup Calls
  /\ asked \in Nat

\* Inside the graph a step is left for the batch that is being decided or run.
StepsLeft ==
  pc \in {"recall", "decide", "think", "tool", "invoke", "edited"} => steps < MaxSteps

\* A memory is under way for as long as the answer's calls are not through.
WritesLeft == pc = "remember" => writes > 0 /\ writes <= asked

\* The answers and tools that may end after a stop request, by what was under
\* way when it came.
MayStillEnd ==
  CASE caught \in {"think", "invoke"} -> 1
    [] caught = "reflect"             -> 1 + asked
    [] caught = "remember"            -> asked
    [] OTHER                          -> 0

\* What is under way after the stop request was under way when it came, or is
\* a memory of the summary that was.
LateShape ==
  /\ ~stop => late = 0
  /\ stop /\ pc \in {"think", "invoke", "reflect"} => caught = pc /\ late = 0
  /\ stop /\ pc = "remember" =>
       \/ caught = "reflect" /\ late + writes <= 1 + asked
       \/ caught = "remember" /\ late + writes <= asked
  /\ late <= MayStillEnd

\* An edit that is owed is still the next tool of the batch.
OwedShape ==
  owed => \/ stop
          \/ pc \in {"idle", "login", "overflow"}
          \/ pc = "tool" /\ batch.edit /\ ~batch.logout

\* Without failed reads the session has seen its own last edit, except between
\* the edit and the refresh that follows it.
SeenShape ==
  /\ ownRev <= stm.rev
  /\ faults = 0 /\ pc # "edited" => view.rev >= ownRev

Size(b) == (IF b.edit THEN 1 ELSE 0) + (IF b.view THEN 1 ELSE 0) + b.acts

\* How many nodes were run at most when each node is reached, if no batch has
\* more than 8 tools.
NodeBudget ==
  /\ pc = "start" => nodes = 0
  /\ pc = "recall" => nodes <= 10 * steps + 1
  /\ pc = "decide" => nodes <= 10 * steps + 2
  /\ pc = "think" => nodes <= 10 * steps + 3
  /\ pc = "tool" => /\ nodes + Size(batch) <= 10 * steps + 11
                    /\ batch = NoTools => nodes <= 10 * steps + 3
  /\ pc \in {"invoke", "edited"} => nodes + Size(batch) <= 10 * steps + 11
  /\ pc = "summarize" => nodes <= 10 * MaxSteps + 2
  /\ pc \in {"reflect", "remember", "end"} => nodes <= 10 * MaxSteps + 3
  /\ pc # "overflow"

\* The graph never runs into LangGraph's recursion limit, which would end the
\* session without a summary: 10 nodes per step are enough for every answer
\* whose batch keeps at most 8 tools (executor.py:20-25, 258-262).
BudgetSuffices == pc # "overflow"

\* Once the thread was asked to stop, only the model call or the tool that was
\* under way still ends, since every node looks for the request before it acts;
\* the exception is the summary, whose one answer has all its memories written
\* although the request came while the model wrote it (nodes.py:797-847).
OnlyPendingWorkEnds == late <= MayStillEnd

\* An edit of the short-term memory that the model asked for is tried before
\* the session ends, unless the thread was asked to stop: neither a logout of
\* the same answer nor the last step drops it (nodes.py:169-185).
EditNotPreempted == pc \in {"summarize", "reflect", "remember", "end"} /\ owed => stop

\* A prompt never shows the model a memory older than its own last edit, which
\* it would then overwrite (nodes.py:271-307), unless a read failed.
DecisionSeesOwnEdit == pc = "think" /\ faults = 0 => view.rev >= ownRev

\* Every session whose graph starts comes to its regular end, whatever the model
\* answers, whatever fails and whoever interferes, if it never calls more than 8
\* tools at once: an answer without tools costs a step, and the steps run out
\* before LangGraph's recursion limit cuts the session off (nodes.py:606-613,
\* executor.py:258-262).
SessionEnds == [](Size(batch) <= 8) => (pc = "start" ~> pc = "end")

\* What nodes.py:274-277 says of an edit by an administrator during a login:
\* the next decision sees it.
AdminEditReachesDecision ==
  [][pc = "decide" /\ pc' = "think" /\ faults' = 0 => view'.admin = adminEdits]_vars

\* What docs/use/start-to-use-agent-manager.md:104-105 says of an injection:
\* the session that consumes it has it in its prompt, unless it is stopped.
InjectionReachesPrompt ==
  [][pc # "idle" /\ pc' = "idle" => carried' = 0 \/ stop]_vars
=============================================================================
