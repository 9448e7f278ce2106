------------------------------ MODULE HotTopics ------------------------------
(***************************************************************************)
(* The list of hot topics (social_platform/app/domains/hot_topic/          *)
(* application.py, admin/api/hot_topics.py): topics in ranked buckets that *)
(* administrators edit, and the agent that generates them, one run at a    *)
(* time, on a thread or as a scheduled job.                                *)
(*                                                                         *)
(* Edits of administrators run one after the other; the agent's writes     *)
(* overlap with them.                                                      *)
(*                                                                         *)
(* Abstractions: what a transaction reads, it reads at once; texts,        *)
(* prompts and searches are left out; a round of the model yields topics   *)
(* or nothing; the settings of a run are any; a topic is the agent's if and *)
(* only if it is of a generation.                                          *)
(***************************************************************************)
EXTENDS Integers, FiniteSets

CONSTANTS
  MaxTopic,      \* bound: topics ever created
  MaxGeneration, \* bound: runs of the agent
  MaxRounds      \* max_llm_rounds

ASSUME HotAssumption == MaxTopic \in Nat /\ MaxGeneration \in Nat /\ MaxRounds \in Nat

VARIABLES
  topics,       \* HotTopic
  generations,  \* HotTopicGeneration
  run,          \* the run that holds _agent_run_lock
  edit,         \* the administrator's transaction
  loose,        \* history: buckets whose last renumbering met another one's
                \* changes, or that lost topics without one
  late          \* history: generations that failed after their commit or were
                \* left by a stop of the process

hotVars == <<topics, generations, run, edit, loose, late>>

TopicIds == 1..MaxTopic
Generations == 1..MaxGeneration
Buckets == {"draft", "active", "archived"}
Policies == {"auto", "draft"}

NoTopic == [status |-> "none", generation |-> 0, rank |-> 0]
NoTx == [open |-> FALSE, seen |-> [i \in TopicIds |-> NoTopic],
         new |-> [i \in TopicIds |-> NoTopic], buckets |-> {}, stale |-> {}, publishes |-> 0]
NoRun == [stage |-> "idle", generation |-> 0, left |-> 0, tx |-> NoTx]

Bucket(rows, b) == {i \in TopicIds : rows[i].status = b}

\* The ids after those of all rows, committed or not.
NewIds(n) ==
  LET taken == {i \in TopicIds : \/ topics[i].status # "none"
                                 \/ edit.new[i].status # "none"
                                 \/ run.tx.new[i].status # "none"}
      last == CHOOSE m \in taken \cup {0} : \A i \in taken : i <= m
  IN (last + 1)..(last + n)

-----------------------------------------------------------------------------
(* Ranks                                                                   *)

\* _ordered_topics_for_status
Before(rows, i, j) ==
  \/ rows[i].rank < rows[j].rank
  \/ rows[i].rank = rows[j].rank /\ i < j
Place(rows, S, i) == 1 + Cardinality({j \in S : Before(rows, j, i)})

\* _renumber_topic_status: 1, 2, ... in the order of the ranks; the focus comes
\* to the rank it asks for, or to the end.
Renumbered(rows, b, focus, desired) ==
  LET others == Bucket(rows, b) \ {focus}
      last == Cardinality(others) + 1
      at == IF focus \notin Bucket(rows, b) THEN last
            ELSE IF desired < last THEN desired ELSE last
      rank(i) == IF i = focus THEN at
                 ELSE LET p == Place(rows, others, i) IN IF p >= at THEN p + 1 ELSE p
  IN [i \in TopicIds |->
        IF i \in Bucket(rows, b) THEN [rows[i] EXCEPT !.rank = rank(i)] ELSE rows[i]]

Tidied(rows, b) == Renumbered(rows, b, 0, 0)

-----------------------------------------------------------------------------
(* Transactions                                                            *)

Open(new, buckets) == [NoTx EXCEPT !.open = TRUE, !.seen = topics, !.new = new,
                                   !.buckets = buckets]

\* Only what has changed is written.
Merged(now, seen, new) == IF new # seen THEN new ELSE now
Written(tx, i) ==
  [status |-> Merged(topics[i].status, tx.seen[i].status, tx.new[i].status),
   generation |-> Merged(topics[i].generation, tx.seen[i].generation, tx.new[i].generation),
   rank |-> Merged(topics[i].rank, tx.seen[i].rank, tx.new[i].rank)]

\* Every topic of a renumbered bucket is updated; if it was deleted meanwhile
\* the transaction fails.
Updated(tx) == {i \in TopicIds : /\ tx.seen[i].status # "none"
                                 /\ tx.new[i].status \in Buckets
                                 /\ (tx.new[i] # tx.seen[i] \/ tx.new[i].status \in tx.buckets)}
CanCommit(tx) == tx.open /\ \A i \in Updated(tx) : topics[i].status # "gone"

Changed == {b \in Buckets : \E i \in TopicIds :
              topics[i] # topics'[i] /\ b \in {topics[i].status, topics'[i].status}}

\* The rows of a commit, and which buckets are in doubt after it.
Commits(tx) ==
  /\ CanCommit(tx)
  /\ topics' = [i \in TopicIds |-> Written(tx, i)]
  /\ loose' = IF tx.stale \cap (tx.buckets \cup {tx.seen[i].status : i \in Updated(tx)}) = {}
              THEN (loose \ tx.buckets) \cup (Changed \ tx.buckets)
              ELSE loose \cup Changed

\* The other transaction has read what is changed now.
Outdated(tx) == IF tx.open THEN [tx EXCEPT !.stale = @ \cup Changed] ELSE tx

-----------------------------------------------------------------------------
(* Administrators                                                          *)

PolicyAfter(tx) == IF tx.publishes = 0 THEN generations
                   ELSE [generations EXCEPT ![tx.publishes].policy = "auto"]

\* An edit that meets no write of the agent is one step.  A bound: while
\* buckets are in doubt one of them is edited.
Carries(tx) ==
  /\ ~edit.open /\ (loose = {} \/ loose \cap tx.buckets # {})
  /\ \/ /\ run.stage \in {"apply", "commit"} /\ edit' = tx
        /\ UNCHANGED <<topics, generations, loose>>
     \/ /\ run.stage \notin {"apply", "commit"} /\ Commits(tx)
        /\ generations' = PolicyAfter(tx) /\ UNCHANGED edit
  /\ UNCHANGED <<run, late>>

Edits(new, buckets) == Carries(Open(new, buckets))

CreateTopic(status, desired) ==
  \E i \in TopicIds :
    /\ NewIds(1) = {i}
    /\ Edits(Renumbered([topics EXCEPT ![i] = [NoTopic EXCEPT !.status = status, !.rank = desired]],
                        status, i, desired), {status})

\* Mutation of TidiesOldBucket: the topics behind a moved one keep their ranks.
LeavesOldBucket(rows, b) == rows

TidiesOldBucket(rows, b) == Tidied(rows, b)

\* update_hot_topic: 0 stands for a rank that is not given.
UpdateTopic(i, status, rank) ==
  LET old == topics[i].status
      desired == IF rank = 0 THEN topics[i].rank ELSE rank
      rows == [topics EXCEPT ![i].status = status, ![i].rank = desired]
  IN /\ old \in Buckets
     /\ IF old # status
        THEN Edits(Renumbered(TidiesOldBucket(rows, old), status, i, desired), {old, status})
        ELSE Edits(IF rank # 0 THEN Renumbered(rows, status, i, rank) ELSE Tidied(rows, status),
                   {status})

\* publish_hot_topic, archive_hot_topic
PublishTopic(i) == UpdateTopic(i, "active", 0)
ArchiveTopic(i) == UpdateTopic(i, "archived", 0)

DeleteTopic(i) ==
  LET old == topics[i].status IN
  /\ old \in Buckets
  /\ Edits(Tidied([topics EXCEPT ![i] = [NoTopic EXCEPT !.status = "gone"]], old), {old})

\* The active topics of earlier generations are archived.
Replaced(rows) ==
  [i \in TopicIds |-> IF rows[i].generation # 0 /\ rows[i].status = "active"
                      THEN [rows[i] EXCEPT !.status = "archived"] ELSE rows[i]]

\* publish_generation, of any generation: the drafts are not renumbered.
PublishGeneration(g) ==
  LET rows == [i \in TopicIds |->
                 IF topics[i].generation = g THEN [topics[i] EXCEPT !.status = "active"]
                 ELSE Replaced(topics)[i]]
  IN /\ generations[g].status # "none"
     /\ Carries([Open(Tidied(Tidied(rows, "active"), "archived"), {"active", "archived"})
                   EXCEPT !.publishes = g])

CommitEdit ==
  /\ Commits(edit)
  /\ run' = [run EXCEPT !.tx = Outdated(@)]
  /\ generations' = PolicyAfter(edit)
  /\ edit' = NoTx
  /\ UNCHANGED late

\* StaleDataError, a deadlock of the two, an error of the database.
RollBackEdit ==
  /\ edit.open
  /\ edit' = NoTx
  /\ UNCHANGED <<topics, generations, run, loose, late>>

-----------------------------------------------------------------------------
(* The agent                                                               *)

\* run_hot_topic_agent, run_scheduled_hot_topic_agent: refused while another
\* run holds the lock; the generation is committed as pending, with the policy
\* of the settings.  A bound: no other run starts after one that failed or met
\* an edit.
StartRun(g, policy) ==
  /\ run.stage = "idle"
  /\ generations[g].status = "none" /\ loose = {}
  /\ \A h \in 1..(g - 1) : generations[h].status = "success" /\ h \notin late
  /\ generations' = [generations EXCEPT ![g] = [status |-> "pending", policy |-> policy]]
  /\ run' = [NoRun EXCEPT !.stage = "rounds", !.generation = g, !.left = MaxRounds]
  /\ UNCHANGED <<topics, edit, loose, late>>

\* generate_hot_topics: an administrator waits for the run, or follows its
\* stream.
Generate(g) == \E policy \in Policies : StartRun(g, policy)

\* A round of the model that submits nothing: it searched, or its answer was
\* of no use.
Round ==
  /\ run.stage = "rounds" /\ run.left > 0
  /\ run' = [run EXCEPT !.left = @ - 1]
  /\ UNCHANGED <<topics, generations, edit, loose, late>>

\* submit_hot_topics, or an answer that is a list of topics
Submit ==
  /\ run.stage = "rounds" /\ run.left > 0
  /\ run' = [run EXCEPT !.left = @ - 1, !.stage = "apply"]
  /\ UNCHANGED <<topics, generations, edit, loose, late>>

\* apply_generated_hot_topics: new topics with the ranks the model gave them.
\* The policy is the one the run began with.
Generated(rows, new, rank, g, status) ==
  [i \in TopicIds |-> IF i \in new
                      THEN [status |-> status, generation |-> g, rank |-> rank] ELSE rows[i]]

Apply(n, rank) ==
  LET g == run.generation
      new == NewIds(n) IN
  /\ run.stage = "apply" /\ new \subseteq TopicIds
  /\ run' = [run EXCEPT !.stage = "commit", !.tx =
       IF generations[g].policy = "auto"
       THEN Open(Tidied(Tidied(Generated(Replaced(topics), new, rank, g, "active"), "active"),
                        "archived"), {"active", "archived"})
       ELSE Open(Tidied(Generated(topics, new, rank, g, "draft"), "draft"), {"draft"})]
  /\ UNCHANGED <<topics, generations, edit, loose, late>>

\* Mutation of Succeeded: the status is left to a later commit.
SucceedsLater(g) == generations

Succeeded(g) == [generations EXCEPT ![g].status = "success"]

\* The topics and the status of the generation in one commit.
CommitRun ==
  /\ run.stage = "commit" /\ Commits(run.tx)
  /\ generations' = Succeeded(run.generation)
  /\ edit' = Outdated(edit)
  /\ run' = [run EXCEPT !.stage = "refresh", !.tx = NoTx]
  /\ UNCHANGED late

FinishRun ==
  /\ run.stage = "refresh"
  /\ run' = NoRun
  /\ UNCHANGED <<topics, generations, edit, loose, late>>

\* Any error, no topics after the last round: _mark_generation_failed rolls
\* back and commits the failure.  An error while the rows are refreshed, after
\* the commit, is such an error too.
FailRun ==
  /\ run.stage # "idle"
  /\ generations' = [generations EXCEPT ![run.generation].status = "failed"]
  /\ late' = late \cup {g \in {run.generation} : run.stage = "refresh"}
  /\ run' = NoRun
  /\ UNCHANGED <<topics, edit, loose>>

\* The process stops, or the failure cannot be written.
StopRun ==
  /\ run.stage # "idle" \/ edit.open
  /\ late' = late \cup ({run.generation} \cap Generations)
  /\ run' = NoRun /\ edit' = NoTx
  /\ UNCHANGED <<topics, generations, loose>>

HotInit ==
  /\ topics = [i \in TopicIds |-> NoTopic]
  /\ generations = [g \in Generations |-> [status |-> "none", policy |-> "draft"]]
  /\ run = NoRun /\ edit = NoTx
  /\ loose = {} /\ late = {}

HotNext ==
  \/ \E b \in Buckets, r \in TopicIds : CreateTopic(b, r)
  \/ \E i \in TopicIds :
       \/ \E b \in Buckets, r \in {0} \cup TopicIds : UpdateTopic(i, b, r)
       \/ PublishTopic(i) \/ ArchiveTopic(i) \/ DeleteTopic(i)
  \/ \E g \in Generations :
       PublishGeneration(g) \/ Generate(g)
  \/ CommitEdit \/ RollBackEdit
  \/ Round \/ Submit
  \/ \E n \in 1..2, rank \in 1..2 : Apply(n, rank)
  \/ CommitRun \/ FinishRun \/ FailRun \/ StopRun

HotSpec == HotInit /\ [][HotNext]_hotVars

-----------------------------------------------------------------------------
(* Properties                                                              *)

TopicRows == [status : {"none", "gone"} \cup Buckets, generation : 0..MaxGeneration, rank : 0..MaxTopic]
TxRows == [open : BOOLEAN, seen : [TopicIds -> TopicRows], new : [TopicIds -> TopicRows],
           buckets : SUBSET Buckets, stale : SUBSET Buckets, publishes : 0..MaxGeneration]

\* The values every variable can take.
HotTypeOK ==
  /\ topics \in [TopicIds -> TopicRows]
  /\ generations \in [Generations -> [status : {"none", "pending", "success", "failed"},
                                      policy : Policies]]
  /\ run \in [stage : {"idle", "rounds", "apply", "commit", "refresh"},
              generation : 0..MaxGeneration, left : 0..MaxRounds, tx : TxRows]
  /\ edit \in TxRows
  /\ loose \subseteq Buckets /\ late \subseteq Generations

\* The topics of a bucket are numbered 1, 2, ... without gaps or doubles
\* through edits, moves, deletions, generations and roll backs; a bucket that
\* two overlapping transactions have disturbed, or that a publication has
\* taken drafts from, is in order again after the next renumbering of its own
\* (application.py:150-165).
RanksRepaired ==
  \A b \in Buckets \ loose :
    {topics[i].rank : i \in Bucket(topics, b)} = 1..Cardinality(Bucket(topics, b))

\* A run is all or nothing: no topic is of a generation that failed or is
\* pending, and only the generation of the current run is pending, unless the
\* error came after the commit or the process stopped
\* (application.py:620-667, 997-1022).
RunsAllOrNothing ==
  \A g \in Generations \ late :
    /\ generations[g].status \in {"pending", "failed"} =>
         \A i \in TopicIds : topics[i].status \in Buckets => topics[i].generation # g
    /\ generations[g].status = "pending" => run.stage # "idle" /\ run.generation = g

\* What the list shows: topics of whole runs, each at a rank of its own.
TopicsInOrder == RanksRepaired /\ RunsAllOrNothing
=============================================================================
