----------------------------- MODULE AgentRegistry -----------------------------
(***************************************************************************)
(* The agents of the management backend (management/backend/api/agents.py, *)
(* services/registrar.py, services/agent_service.py), their accounts on    *)
(* the platform, and what the scheduler knows of them                      *)
(* (scheduler/internal_server.py, relation_map.py).                        *)
(*                                                                         *)
(* Each of the three keeps the name of an agent; no transaction spans two  *)
(* of them.  A request changes the platform, commits the row, then tells   *)
(* the scheduler, which may be down; an agent in a session changes its     *)
(* name the other way round.                                               *)
(*                                                                         *)
(* Abstractions: the thread of an agent is the configuration it runs with  *)
(* (SchedulerLifecycle models the threads); memories are those of an       *)
(* account or none; signatures and avatars are left out, and so is whom an *)
(* agent knows.                                                            *)
(***************************************************************************)
EXTENDS Integers, FiniteSets, Platform

CONSTANTS
  Names,        \* user names
  MaxAgent,     \* bound: agents ever created
  MaxPlatform   \* bound: platform accounts of agents

ASSUME RegistryAssumption ==
  /\ None \notin Names
  /\ MaxAgent \in Nat /\ MaxPlatform \in Nat

VARIABLES
  rows,      \* AgentConfig
  names,     \* the user name of each platform account, None before it exists
  threads,   \* the user name an agent's thread logs in with, None without one
  mapped,    \* UsernameMap
  memories,  \* accounts with memories
  editing,   \* requests of administrators in progress
  session,   \* what an agent is doing
  torn,      \* history: accounts whose rename stopped or was met half-way
  orphans,   \* history: accounts written to while their agent was deleted
  unsynced   \* history: agents the scheduler was not told of, or out of order

registryVars == <<rows, names, threads, mapped, memories, editing, session,
                  torn, orphans, unsynced>>

AgentIds == 1..MaxAgent
AccountIds == 1..MaxPlatform

NoAgent == [status |-> "none", name |-> None, account |-> 0, active |-> FALSE]
NotEditing == [stage |-> "idle", agent |-> 0, account |-> 0, old |-> None, new |-> None,
               action |-> "restart"]
NoSession == [stage |-> "out", account |-> 0, old |-> None, new |-> None]

Here(i) == rows[i].status = "here"
IsFresh(i) == \A j \in AgentIds : rows[j].status = "none" <=> j >= i
Linked(i) == Here(i) /\ rows[i].account # 0
AgentsOf(a) == {i \in AgentIds : Linked(i) /\ rows[i].account = a}
\* get_agent_by_username, and the unique key of the table
Taken(n, i) == \E j \in AgentIds \ {i} : Here(j) /\ rows[j].name = n
AccountOf(n) == {a \in AccountIds : names[a] = n}

\* Changes of a name that have reached the platform and not the row.
Renaming(a) == \/ \E q \in Requests : editing[q].stage = "local" /\ editing[q].account = a
               \/ \E i \in AgentIds : session[i].stage \in {"sync", "revert"}
                                      /\ session[i].account = a

\* A name that changes now meets another change of it, or a deletion.
Unsettled(a) == AgentsOf(a) = {} \/ Renaming(a)

Quiet == torn = {} /\ orphans = {} /\ unsynced = {}

\* A bound: after something a property excepts the requests in progress end
\* and no other starts, but for a restart of the scheduler.
Begins(q, new) ==
  /\ editing[q].stage = "idle" /\ Quiet
  /\ editing' = [editing EXCEPT ![q] = new]

Goes(q, stage) == editing' = [editing EXCEPT ![q].stage = stage]
Ends(q) == editing' = [editing EXCEPT ![q] = NotEditing]

-----------------------------------------------------------------------------
(* Creation and import                                                     *)

\* create_agent: the row comes first.
Create(q, i, n, active) ==
  /\ IsFresh(i) /\ ~Taken(n, i)
  /\ rows' = [rows EXCEPT ![i] = [NoAgent EXCEPT !.status = "here", !.name = n,
                                                 !.active = active]]
  /\ Begins(q, [NotEditing EXCEPT !.stage = "register", !.agent = i, !.new = n,
                  !.action = IF active THEN "start" ELSE "none"])
  /\ UNCHANGED <<names, threads, mapped, memories, session, torn, orphans, unsynced>>

\* A bound: what is imported is the first agent.
Imports(q, i, n, action) ==
  /\ i = 1 /\ IsFresh(i) /\ ~Taken(n, i)
  /\ rows' = [rows EXCEPT ![i] = [NoAgent EXCEPT !.status = "here", !.name = n,
                                                 !.active = TRUE]]
  /\ Begins(q, [NotEditing EXCEPT !.stage = "register", !.agent = i, !.new = n,
                  !.action = action])
  /\ UNCHANGED <<names, threads, mapped, memories, session, torn, orphans, unsynced>>

\* import_agents: the same for each user of the file, and everything is
\* reloaded at the end.
Import(q, i, n) == Imports(q, i, n, "all")

\* import_agents_stream
ImportStream(q, i, n) == Imports(q, i, n, "stream")

\* It goes on after an error with a user, whose row stays.
SkipUser(q) ==
  /\ editing[q].action = "stream" /\ editing[q].stage \in {"register", "link", "undo"}
  /\ Goes(q, "notify")
  /\ UNCHANGED <<rows, names, threads, mapped, memories, session, torn, orphans, unsynced>>

Everything(q) == editing[q].action \in {"all", "stream"}

\* register_agent: a name that exists is taken to be the agent's own account
\* (an earlier attempt whose answer was lost, or an agent deleted since).
Register(q) ==
  LET found == AccountOf(editing[q].new)
      new == CHOOSE a \in AccountIds : \A b \in AccountIds : names[b] = None <=> b >= a
      a == IF found # {} THEN CHOOSE b \in found : TRUE ELSE new
  IN /\ editing[q].stage = "register"
     /\ found = {} => \E b \in AccountIds : names[b] = None
     /\ names' = [names EXCEPT ![a] = editing[q].new]
     /\ \E heard \in BOOLEAN :
          editing' = [editing EXCEPT ![q].stage = IF heard THEN "link" ELSE "undo",
                                     ![q].account = a]
     /\ torn' = torn \cup {b \in {a} : AgentsOf(b) # {}}
     /\ UNCHANGED <<rows, threads, mapped, memories, session, orphans, unsynced>>

\* Three attempts without effect.
RegisterFails(q) ==
  /\ editing[q].stage = "register"
  /\ Goes(q, "undo")
  /\ UNCHANGED <<rows, names, threads, mapped, memories, session, torn, orphans, unsynced>>

Links(i, a) == [rows EXCEPT ![i].account = a]

\* The account is written to the row, if that is still there.  One taken over
\* may still be mapped to its last name, which nothing tells the scheduler.
Link(q) ==
  LET e == editing[q] IN
  /\ e.stage = "link" /\ Here(e.agent)
  /\ rows' = Links(e.agent, e.account)
  /\ torn' = torn \cup {a \in {e.account} : names[a] # rows[e.agent].name \/ AgentsOf(a) # {}
                                             \/ \E n \in Names \ {names[a]} : <<a, n>> \in mapped}
  /\ IF e.action = "none" THEN Ends(q) ELSE Goes(q, "notify")
  /\ UNCHANGED <<names, threads, mapped, memories, session, orphans, unsynced>>

\* delete_agent takes back the row; an import goes on to the reload.
Undo(q) ==
  LET i == editing[q].agent IN
  /\ editing[q].stage = "undo"
  /\ rows' = [rows EXCEPT ![i] = [NoAgent EXCEPT !.status = "gone"]]
  /\ unsynced' = unsynced \cup {j \in {i} : threads[j] # None}
  /\ IF Everything(q) THEN Goes(q, "notify") ELSE Ends(q)
  /\ UNCHANGED <<names, threads, mapped, memories, session, torn, orphans>>

-----------------------------------------------------------------------------
(* Changes                                                                 *)

\* update_agent with another user name: the platform is asked first.
Rename(q, i, n) ==
  /\ Here(i) /\ n # rows[i].name /\ ~Taken(n, i)
  /\ Begins(q, [NotEditing EXCEPT !.stage = IF Linked(i) THEN "platform" ELSE "local",
                  !.agent = i, !.account = rows[i].account, !.old = rows[i].name, !.new = n])
  /\ UNCHANGED <<rows, names, threads, mapped, memories, session, torn, orphans, unsynced>>

\* update_user_username logs in with the old name, compares the account and
\* changes the name, which is unique there.
RenameAtPlatform(q) ==
  LET e == editing[q] IN
  /\ e.stage = "platform"
  /\ names[e.account] = e.old /\ AccountOf(e.new) = {}
  /\ names' = [names EXCEPT ![e.account] = e.new]
  /\ \/ Goes(q, "local") /\ torn' = torn \cup {a \in {e.account} : Unsettled(a)}
     \/ Ends(q) /\ torn' = torn \cup {e.account}
  /\ UNCHANGED <<rows, threads, mapped, memories, session, orphans, unsynced>>

\* Mutation of SavesName: the row keeps the old name.
KeepsName(i, n) == rows

SavesName(i, n) == [rows EXCEPT ![i].name = n]

UpdateRow(q) ==
  LET e == editing[q] IN
  /\ e.stage = "local" /\ Here(e.agent) /\ ~Taken(e.new, e.agent)
  /\ rows' = SavesName(e.agent, e.new)
  /\ torn' = torn \cup {a \in {rows[e.agent].account} \ {0} : names[a] # e.new}
  /\ Goes(q, "notify")
  /\ UNCHANGED <<names, threads, mapped, memories, session, orphans, unsynced>>

\* start_agent, stop_agent, their batches, update_agent with is_active
SetActive(q, i, active) ==
  /\ Here(i)
  /\ rows' = [rows EXCEPT ![i].active = active]
  /\ Begins(q, [NotEditing EXCEPT !.stage = "notify", !.agent = i,
                  !.action = IF active THEN "start" ELSE "stop"])
  /\ UNCHANGED <<names, threads, mapped, memories, session, torn, orphans, unsynced>>

\* restart_agent
RestartAgent(q, i) ==
  /\ Here(i)
  /\ Begins(q, [NotEditing EXCEPT !.stage = "notify", !.agent = i])
  /\ UNCHANGED <<rows, names, threads, mapped, memories, session, torn, orphans, unsynced>>

\* delete_agent, batch_delete_agents: the scheduler is told first.
DeleteAgent(q, i) ==
  /\ Here(i)
  /\ Begins(q, [NotEditing EXCEPT !.stage = "halt", !.agent = i, !.account = rows[i].account,
                  !.action = "stop"])
  /\ UNCHANGED <<rows, names, threads, mapped, memories, session, torn, orphans, unsynced>>

\* Mutation of Cleared: the memories of a deleted agent stay.
ClearsNothing(a) == memories

\* _clear_agent_memories
Cleared(a) == memories \ {a}

Clear(q) ==
  /\ editing[q].stage = "clear"
  /\ memories' = Cleared(editing[q].account)
  /\ Goes(q, "drop")
  /\ UNCHANGED <<rows, names, threads, mapped, session, torn, orphans, unsynced>>

\* Linked or started again meanwhile.
Drop(q) ==
  LET i == editing[q].agent IN
  /\ editing[q].stage = "drop"
  /\ rows' = [rows EXCEPT ![i] = [NoAgent EXCEPT !.status = "gone"]]
  /\ orphans' = orphans \cup ({rows[i].account} \ {0, editing[q].account})
  /\ unsynced' = unsynced \cup {j \in {i} : threads[j] # None}
  /\ torn' = torn \cup {a \in {editing[q].account} \ {0} :
                          Renaming(a) \/ \E r \in Requests \ {q} : editing[r].agent = i}
  /\ Ends(q)
  /\ UNCHANGED <<names, threads, mapped, memories, session>>

-----------------------------------------------------------------------------
(* The scheduler                                                           *)

\* build_from_db
Mapping == {<<rows[i].account, rows[i].name>> : i \in {i \in AgentIds : Linked(i)}}

Wanted(i) == Here(i) /\ rows[i].active
Target(i) == IF Wanted(i) THEN rows[i].name ELSE None

\* Mutation of ReadAgain: a thread keeps what it was started with.
KeepsThread(i) == IF threads[i] # None /\ Wanted(i) THEN threads[i] ELSE Target(i)

\* restart_agent of the manager: the row is read again.
ReadAgain(i) == IF Here(i) THEN Target(i) ELSE threads[i]

\* start_agent, stop_agent, restart_agent, request_restart_all
After(i, action) ==
  CASE action = "start" -> IF threads[i] # None THEN threads[i] ELSE Target(i)
    [] action = "stop" -> None
    [] action = "restart" -> ReadAgain(i)

Continues(q) == IF editing[q].stage = "halt" THEN Goes(q, "clear") ELSE Ends(q)

\* _handle_reload_agent, _handle_reload_agents, _handle_reload_all: the maps
\* are rebuilt, then the threads follow.
Notify(q) ==
  LET e == editing[q] IN
  /\ e.stage \in {"notify", "halt"}
  /\ mapped' = Mapping
  /\ threads' = [i \in AgentIds |->
       IF Everything(q) THEN (IF Here(i) THEN Target(i) ELSE threads[i])
       ELSE IF i = e.agent THEN After(i, e.action) ELSE threads[i]]
  /\ unsynced' = unsynced \cup {i \in {e.agent} : e.stage = "notify" /\ e.action = "stop"
                                                  /\ Wanted(i)}
  /\ Continues(q)
  /\ UNCHANGED <<rows, names, memories, session, torn, orphans>>

\* The scheduler is down or does not answer in time: the request goes on.
LoseNotice(q) ==
  /\ editing[q].stage \in {"notify", "halt"}
  /\ unsynced' = unsynced \cup {i \in AgentIds : i = editing[q].agent
                                                  \/ Everything(q)}
  /\ Continues(q)
  /\ UNCHANGED <<rows, names, threads, mapped, memories, session, torn, orphans>>

\* start() reads the rows again; requests of administrators are not affected,
\* those that told the old process something else are over.
RestartScheduler ==
  /\ threads' = [i \in AgentIds |-> Target(i)]
  /\ mapped' = Mapping
  /\ torn' = torn \cup {session[i].account : i \in {j \in AgentIds :
                                              session[j].stage \in {"sync", "revert"}}}
  /\ session' = [i \in AgentIds |-> NoSession]
  /\ unsynced' = {i \in unsynced : \E q \in Requests : editing[q].stage # "idle"}
  /\ UNCHANGED <<rows, names, memories, editing, orphans>>

\* A refusal, an error of the database, the end of the process.
Abandon(q) ==
  LET e == editing[q] IN
  /\ e.stage # "idle"
  /\ torn' = torn \cup {a \in {e.account} \ {0} : e.stage = "local"}
  /\ unsynced' = unsynced \cup {i \in {e.agent} : e.stage \notin {"platform", "local", "halt"}}
  /\ Ends(q)
  /\ UNCHANGED <<rows, names, threads, mapped, memories, session, orphans>>

-----------------------------------------------------------------------------
(* Sessions                                                                *)

\* login_user, _execute_login_and_session: with the name the thread has.  A
\* bound: one agent is in a session at a time, and none logs in after something
\* a property excepts.
Login(i) ==
  /\ \A j \in AgentIds : session[j].stage = "out"
  /\ threads[i] # None /\ Quiet
  /\ \E a \in AccountOf(threads[i]) :
       session' = [session EXCEPT ![i] = [NoSession EXCEPT !.stage = "in", !.account = a,
                                            !.old = threads[i]]]
  /\ UNCHANGED <<rows, names, threads, mapped, memories, editing, torn, orphans, unsynced>>

\* _update_profile: the platform first, unless the name is taken there.
UpdateProfile(i, n) ==
  LET a == session[i].account IN
  /\ session[i].stage = "in" /\ AccountOf(n) = {} /\ Quiet
  /\ names' = [names EXCEPT ![a] = n]
  /\ session' = [session EXCEPT ![i].stage = "sync", ![i].new = n]
  /\ torn' = torn \cup {b \in {a} : Unsettled(b)}
  /\ UNCHANGED <<rows, threads, mapped, memories, editing, orphans, unsynced>>

\* Mutation of OwnRow: the row is found by its id alone.
AnyRow(i, a) == Here(i)

\* update_agent_profile: the row must be the agent's and the account's.
OwnRow(i, a) == Here(i) /\ rows[i].account = a

\* _sync_profile: the row, the thread, the context and the maps.
SyncProfile(i) ==
  LET s == session[i] IN
  /\ s.stage = "sync" /\ OwnRow(i, s.account) /\ ~Taken(s.new, i)
  /\ rows' = [rows EXCEPT ![i].name = s.new]
  /\ threads' = [threads EXCEPT ![i] = IF @ = None THEN None ELSE s.new]
  /\ mapped' = {<<rows'[j].account, rows'[j].name>> : j \in {j \in AgentIds : Linked(j)}}
  /\ session' = [session EXCEPT ![i].stage = "in", ![i].old = s.new, ![i].new = None]
  /\ UNCHANGED <<names, memories, editing, torn, orphans, unsynced>>

\* The row does not fit, or the database is busy.
SyncFails(i) ==
  /\ session[i].stage = "sync"
  /\ session' = [session EXCEPT ![i].stage = "revert"]
  /\ UNCHANGED <<rows, names, threads, mapped, memories, editing, torn, orphans, unsynced>>

\* Mutation of Restores: the platform keeps the new name.
RestoresNothing(s) == names

\* The name of the session is put back, which is not that of the row any more
\* if an administrator has changed it since the login.
Restores(s) == [names EXCEPT ![s.account] = s.old]

Revert(i) ==
  LET s == session[i] IN
  /\ s.stage = "revert" /\ AccountOf(s.old) = {}
  /\ names' = Restores(s)
  /\ torn' = torn \cup {a \in {s.account} : \E j \in AgentsOf(a) : rows[j].name # s.old}
  /\ session' = [session EXCEPT ![i].stage = "in", ![i].new = None]
  /\ UNCHANGED <<rows, threads, mapped, memories, editing, orphans, unsynced>>

RevertFails(i) ==
  /\ session[i].stage = "revert"
  /\ torn' = torn \cup {session[i].account}
  /\ session' = [session EXCEPT ![i].stage = "in", ![i].new = None]
  /\ UNCHANGED <<rows, names, threads, mapped, memories, editing, orphans, unsynced>>

\* write_memory, under the account of the session; a session outlives the
\* stop of its thread.
Remember(i) ==
  LET a == session[i].account IN
  /\ session[i].stage = "in"
  /\ memories' = memories \cup {a}
  /\ orphans' = orphans \cup {b \in {a} :
       \/ AgentsOf(b) = {}
       \/ \E q \in Requests : editing[q].stage = "drop" /\ editing[q].account = b}
  /\ UNCHANGED <<rows, names, threads, mapped, editing, session, torn, unsynced>>

EndSession(i) ==
  /\ session[i].stage = "in"
  /\ session' = [session EXCEPT ![i] = NoSession]
  /\ UNCHANGED <<rows, names, threads, mapped, memories, editing, torn, orphans, unsynced>>

RegistryInit ==
  /\ rows = [i \in AgentIds |-> NoAgent]
  /\ names = [a \in AccountIds |-> None]
  /\ threads = [i \in AgentIds |-> None]
  /\ mapped = {} /\ memories = {}
  /\ editing = [q \in Requests |-> NotEditing]
  /\ session = [i \in AgentIds |-> NoSession]
  /\ torn = {} /\ orphans = {} /\ unsynced = {}

RegistryNext ==
  \/ \E q \in Requests :
       \/ \E i \in AgentIds :
            \/ \E n \in Names : \/ \E active \in BOOLEAN : Create(q, i, n, active)
                                \/ Import(q, i, n) \/ ImportStream(q, i, n)
                                \/ Rename(q, i, n)
            \/ \E active \in BOOLEAN : SetActive(q, i, active)
            \/ RestartAgent(q, i) \/ DeleteAgent(q, i)
       \/ Register(q) \/ RegisterFails(q) \/ Link(q) \/ Undo(q) \/ SkipUser(q)
       \/ RenameAtPlatform(q) \/ UpdateRow(q)
       \/ Clear(q) \/ Drop(q)
       \/ Notify(q) \/ LoseNotice(q) \/ Abandon(q)
  \/ RestartScheduler
  \/ \E i \in AgentIds :
       \/ Login(i) \/ \E n \in Names : UpdateProfile(i, n)
       \/ SyncProfile(i) \/ SyncFails(i) \/ Revert(i) \/ RevertFails(i)
       \/ Remember(i) \/ EndSession(i)

RegistrySpec == RegistryInit /\ [][RegistryNext]_registryVars

-----------------------------------------------------------------------------
(* Properties                                                              *)

AgentRows == [status : {"none", "here", "gone"}, name : Names \cup {None},
              account : 0..MaxPlatform, active : BOOLEAN]

Edits == [stage : {"idle", "register", "link", "undo", "platform", "local", "notify", "halt",
                   "clear", "drop"},
          agent : 0..MaxAgent, account : 0..MaxPlatform, old : Names \cup {None},
          new : Names \cup {None},
          action : {"none", "start", "stop", "restart", "all", "stream"}]

Visits == [stage : {"out", "in", "sync", "revert"}, account : 0..MaxPlatform,
           old : Names \cup {None}, new : Names \cup {None}]

\* The values every variable can take.
RegistryTypeOK ==
  /\ rows \in [AgentIds -> AgentRows]
  /\ names \in [AccountIds -> Names \cup {None}]
  /\ threads \in [AgentIds -> Names \cup {None}]
  /\ mapped \subseteq AccountIds \X Names
  /\ memories \subseteq AccountIds
  /\ editing \in [Requests -> Edits]
  /\ session \in [AgentIds -> Visits]
  /\ torn \subseteq AccountIds /\ orphans \subseteq AccountIds /\ unsynced \subseteq AgentIds

\* An agent is called the same in its row and on the platform, and no other
\* agent has its account, through registrations that are repeated, renames of
\* administrators and of the agent itself with their compensation, and
\* deletions, unless one of these stopped half-way, its compensation failed or
\* put back an older name, or two of them overlapped on the account
\* (api/agents.py:424-462, 521-572, registrar.py:285-339, registry.py:419-476).
NamesAgree ==
  \A i \in AgentIds : Linked(i) /\ rows[i].account \notin torn =>
    /\ AgentsOf(rows[i].account) = {i}
    /\ ~Renaming(rows[i].account) => names[rows[i].account] = rows[i].name

\* No memories are kept of an account without an agent: they go when the agent
\* is deleted, although its thread may still be at work, unless that wrote
\* after they were cleared (api/agents.py:77-92, 575-603).
MemoriesGoWithAgent == \A a \in memories \ orphans : AgentsOf(a) # {}

\* What a request has yet to tell the scheduler of an agent.
Pending(i) == \E q \in Requests : /\ editing[q].stage # "idle"
                                  /\ editing[q].agent = i \/ Everything(q)

\* Once the administrators' requests are over, the scheduler runs the active
\* agents and no other, each with the name of its row, and shows every agent
\* it knows under that name, unless a notice was lost or came out of order;
\* a restart of the scheduler makes up for that
\* (internal_server.py:202-325, relation_map.py:119-151).
SchedulerFollows ==
  \A i \in AgentIds \ unsynced : ~Pending(i) =>
    /\ threads[i] = Target(i)
    /\ Linked(i) => \A n \in Names : <<rows[i].account, n>> \in mapped
                                     => n = rows[i].name \/ rows[i].account \in torn
=============================================================================
