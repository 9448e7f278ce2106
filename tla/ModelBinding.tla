------------------------------ MODULE ModelBinding ------------------------------
(***************************************************************************)
(* Which model an agent's session talks to: the configured models and the  *)
(* agents assigned to them (management/backend/services/model_service.py,  *)
(* api/models.py), the snapshot of the assignment in an agent's thread,    *)
(* the configuration a session reads (langgraph/config.py) and the cache   *)
(* of invokers (langgraph/executor.py).                                    *)
(*                                                                         *)
(* The handlers run on a thread pool: what one of them has read of the     *)
(* agents may have changed when it commits.  Foreign keys are not enforced *)
(* by the database.  The scheduler hears of a change afterwards, or not.   *)
(*                                                                         *)
(* Abstractions: the parameters of a model are a version, new with every   *)
(* edit and for every model that gets the number of a deleted one; the     *)
(* restart of an agent's thread, which SchedulerLifecycle models, is one   *)
(* step here.                                                              *)
(***************************************************************************)
EXTENDS Integers, Platform

CONSTANTS
  Agents,       \* agents, all of them active
  MaxModel,     \* bound: models ever configured
  MaxVersion,   \* bound: versions of a model
  MaxAssign     \* bound: requests made

ASSUME ModelBounds ==
  MaxModel \in Nat \ {0} /\ MaxVersion \in Nat \ {0} /\ MaxAssign \in Nat

VARIABLES
  models,    \* ModelConfig
  assigned,  \* AgentConfig.model_config_id, 0 for none
  snapshot,  \* model_config_id of each agent's thread
  invokers,  \* LLMRegistry._cache
  talks,     \* the session of each agent
  edits,     \* requests in progress
  asked,     \* requests made so far
  dangling   \* history: agents given a model after it or while it was deleted

modelVars == <<models, assigned, snapshot, invokers, talks, edits, asked, dangling>>

ModelIds == 1..MaxModel

NoModel == [status |-> "none", version |-> 0, active |-> FALSE]
NoTalk == [stage |-> "out", model |-> 0, version |-> 0, invoker |-> 0]
NoEdit == [stage |-> "idle", kind |-> "none", model |-> 0, row |-> NoModel,
           sync |-> FALSE, agents |-> {}, seen |-> [i \in Agents |-> 0]]

Configured(m) == models[m].status = "here"

\* SQLite gives a new row the number after the highest one there is: that of a
\* deleted model may be given again.
NewModel(m) ==
  /\ m > 1 => Configured(m - 1)
  /\ \A k \in ModelIds : Configured(k) => k < m

-----------------------------------------------------------------------------
(* Requests                                                                *)

\* A handler has read the model and, to synchronise them, the agents.
StartsEdit(q, edit) ==
  /\ edits[q].stage = "idle" /\ asked < MaxAssign /\ asked' = asked + 1
  /\ edits' = [edits EXCEPT ![q] = [edit EXCEPT !.stage = "commit", !.seen = assigned]]
  /\ UNCHANGED <<models, assigned, snapshot, invokers, talks, dangling>>

\* create_model_config.  sync: the request carries the agents of the model.
AskCreate(q, active, sync, S) ==
  StartsEdit(q, [NoEdit EXCEPT !.kind = "create", !.sync = sync, !.agents = S,
                               !.row = [NoModel EXCEPT !.active = active]])

\* update_model_config, toggle_model_config
AskEdit(q, m, kind, sync, S) ==
  /\ Configured(m)
  /\ StartsEdit(q, [NoEdit EXCEPT !.kind = kind, !.model = m, !.sync = sync, !.agents = S,
                                  !.row = models[m]])

\* Mutation of AskRemove: the agents of the model are not looked for.
AskRemoveAlone(q, m) ==
  /\ Configured(m)
  /\ StartsEdit(q, [NoEdit EXCEPT !.kind = "delete", !.model = m, !.row = models[m]])

\* delete_model_config: no agent keeps it.
AskRemove(q, m) ==
  /\ Configured(m)
  /\ StartsEdit(q, [NoEdit EXCEPT !.kind = "delete", !.model = m, !.sync = TRUE,
                                  !.row = models[m]])

\* Mutation of Synchronised: agents that are not listed any more stay.
SynchronisedOnlyAdds(e, m) ==
  [i \in Agents |-> IF i \in e.agents /\ e.seen[i] # m THEN m ELSE assigned[i]]

\* _sync_assigned_agents: agents listed join, others leave; both by what was read.
Synchronised(e, m) ==
  [i \in Agents |->
     IF ~e.sync THEN assigned[i]
     ELSE IF i \in e.agents /\ e.seen[i] # m THEN m
     ELSE IF i \notin e.agents /\ e.seen[i] = m THEN 0
     ELSE assigned[i]]

\* The row is written where it differs from what was read; a new model or edited
\* parameters are a version there was not before.
EditedModel(e, m) ==
  CASE e.kind = "create" -> [status |-> "here", version |-> models[m].version + 1,
                             active |-> e.row.active]
    [] e.kind = "version" -> [models[m] EXCEPT !.version = @ + 1]
    [] e.kind = "toggle" -> [models[m] EXCEPT !.active = ~e.row.active]
    [] e.kind = "agents" -> models[m]
    [] e.kind = "delete" -> [models[m] EXCEPT !.status = "none", !.active = FALSE]

CommitModel(q, m) ==
  LET e == edits[q] IN
  /\ e.stage = "commit"
  /\ IF e.kind = "create" THEN NewModel(m) ELSE m = e.model /\ Configured(m)
  /\ e.kind \in {"create", "version"} => models[m].version < MaxVersion
  /\ models' = [models EXCEPT ![m] = EditedModel(e, m)]
  /\ assigned' = Synchronised(e, m)
  /\ dangling' = {i \in dangling : assigned'[i] \notin {0, m}} \cup
                 {i \in Agents : e.kind = "delete" /\ e.seen[i] # m /\ assigned[i] = m}
  /\ edits' = [edits EXCEPT ![q].stage = IF e.sync THEN "notify all" ELSE "notify model"]
  /\ UNCHANGED <<snapshot, invokers, talks, asked>>

\* An error: the model is gone, the database is busy.
RefuseEdit(q) ==
  /\ edits[q].stage = "commit"
  /\ edits' = [edits EXCEPT ![q] = NoEdit]
  /\ UNCHANGED <<models, assigned, snapshot, invokers, talks, asked, dangling>>

\* update_agent with a model, which it does not look up: the form may be older
\* than the model's deletion.
AssignModel(q, i, m) ==
  /\ edits[q].stage = "idle" /\ asked < MaxAssign /\ asked' = asked + 1
  /\ assigned' = [assigned EXCEPT ![i] = m]
  /\ dangling' = IF m = 0 \/ Configured(m) THEN dangling \ {i} ELSE dangling \cup {i}
  /\ edits' = [edits EXCEPT ![q] = [NoEdit EXCEPT !.stage = "notify agent", !.agents = {i}]]
  /\ UNCHANGED <<models, snapshot, invokers, talks>>

\* reload_session_config raises an error without an active model, and nothing
\* else of the notice is done.
Reloads == \E m \in ModelIds : Configured(m) /\ models[m].active

\* _handle_reload_model, _handle_reload_all, _handle_reload_agent; or the notice
\* is lost.
NotifyModel(q) ==
  LET stage == edits[q].stage
      heard == {i \in Agents : \/ stage = "notify all" /\ Reloads
                               \/ stage = "notify agent" /\ i \in edits[q].agents}
  IN /\ stage \in {"notify all", "notify model", "notify agent"}
     /\ \/ /\ invokers' = IF stage # "notify agent" /\ Reloads THEN {} ELSE invokers
           /\ snapshot' = [i \in Agents |-> IF i \in heard THEN assigned[i] ELSE snapshot[i]]
        \/ UNCHANGED <<invokers, snapshot>>
     /\ edits' = [edits EXCEPT ![q] = NoEdit]
     /\ UNCHANGED <<models, assigned, talks, asked, dangling>>

-----------------------------------------------------------------------------
(* Sessions                                                                *)

\* SessionConfig.from_db, with the model of the thread: it must be there and
\* active.
ReadConfig(i) ==
  LET m == snapshot[i] IN
  /\ talks[i] = NoTalk /\ m # 0 /\ Configured(m) /\ models[m].active
  /\ talks' = [talks EXCEPT ![i] = [stage |-> "configured", model |-> m,
                                    version |-> models[m].version, invoker |-> 0]]
  /\ UNCHANGED <<models, assigned, snapshot, invokers, edits, asked, dangling>>

\* Mutation of CacheKey: the model alone.
KeyWithoutVersion(t) == <<t.model, 0>>

\* The key of an invoker: the model and everything it is built from.
CacheKey(t) == <<t.model, t.version>>

\* get_invoker: the lock makes lookup and creation one step.
GetInvoker(i) ==
  LET t == talks[i]
      found == {c \in invokers : c.key = CacheKey(t)}
      new == [key |-> CacheKey(t), version |-> t.version]
      c == IF found = {} THEN new ELSE CHOOSE c \in found : TRUE
  IN /\ t.stage = "configured"
     /\ invokers' = invokers \cup {c}
     /\ talks' = [talks EXCEPT ![i].stage = "talking", ![i].invoker = c.version]
     /\ UNCHANGED <<models, assigned, snapshot, edits, asked, dangling>>

EndTalk(i) ==
  /\ talks[i].stage \in {"configured", "talking"}
  /\ talks' = [talks EXCEPT ![i] = NoTalk]
  /\ UNCHANGED <<models, assigned, snapshot, invokers, edits, asked, dangling>>

ModelInit ==
  /\ models = [m \in ModelIds |-> IF m = 1 THEN [status |-> "here", version |-> 1, active |-> TRUE]
                                           ELSE NoModel]
  /\ assigned = [i \in Agents |-> 1] /\ snapshot = assigned
  /\ invokers = {} /\ talks = [i \in Agents |-> NoTalk]
  /\ edits = [q \in Requests |-> NoEdit] /\ asked = 0 /\ dangling = {}

ModelNext ==
  \/ \E q \in Requests :
       \/ \E S \in SUBSET Agents, sync \in BOOLEAN :
            /\ sync \/ S = {}
            /\ \/ \E active \in BOOLEAN : AskCreate(q, active, sync, S)
               \/ \E m \in ModelIds : \/ sync /\ AskEdit(q, m, "agents", sync, S)
                                      \/ AskEdit(q, m, "version", sync, S)
                                      \/ ~sync /\ AskEdit(q, m, "toggle", sync, S)
       \/ \E m \in ModelIds : AskRemove(q, m) \/ CommitModel(q, m)
       \/ RefuseEdit(q) \/ NotifyModel(q)
       \/ \E i \in Agents, m \in 0..MaxModel : AssignModel(q, i, m)
  \/ \E i \in Agents : ReadConfig(i) \/ GetInvoker(i) \/ EndTalk(i)

ModelSpec == ModelInit /\ [][ModelNext]_modelVars

-----------------------------------------------------------------------------
(* Properties                                                              *)

ModelType == [status : {"none", "here"}, version : 0..MaxVersion, active : BOOLEAN]

EditType ==
  [stage : {"idle", "commit", "notify all", "notify model", "notify agent"},
   kind : {"none", "create", "version", "toggle", "agents", "delete"},
   model : 0..MaxModel, row : ModelType, sync : BOOLEAN, agents : SUBSET Agents,
   seen : [Agents -> 0..MaxModel]]

TalkType == [stage : {"out", "configured", "talking"}, model : 0..MaxModel,
             version : 0..MaxVersion, invoker : 0..MaxVersion]

InvokerType == [key : (0..MaxModel) \X (0..MaxVersion), version : 0..MaxVersion]

\* The values every variable can take.
ModelTypeOK ==
  /\ models \in [ModelIds -> ModelType]
  /\ assigned \in [Agents -> 0..MaxModel] /\ snapshot \in [Agents -> 0..MaxModel]
  /\ invokers \subseteq InvokerType
  /\ talks \in [Agents -> TalkType]
  /\ edits \in [Requests -> EditType]
  /\ asked \in 0..MaxAssign /\ dangling \subseteq Agents

\* A session talks to the model it was configured with, in the version it has
\* read, whatever is edited and reloaded between its two steps and whatever
\* other sessions have left in the cache (executor.py:381-430, 440-498).
TalksAsConfigured ==
  \A i \in Agents : talks[i].stage = "talking" => talks[i].invoker = talks[i].version

\* An agent's model exists: a deletion leaves no agent to the model, whatever
\* else is requested meanwhile, except the agents that were given the model
\* after it was deleted or while it was (model_service.py:18-44, 123-132;
\* agent_service.py:74-89).
AssignedModelExists ==
  \A i \in Agents \ dangling : assigned[i] # 0 => Configured(assigned[i])

\* What an agent is assigned to is there, and what it is told to talk to is what
\* it talks to.
ModelsSettled == TalksAsConfigured /\ AssignedModelExists
=============================================================================
