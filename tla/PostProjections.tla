---------------------------- MODULE PostProjections ----------------------------
(***************************************************************************)
(* Posts and what is derived from them: the topics of a post and the       *)
(* number of posts of a topic, kept by event handlers inside the           *)
(* transaction, and the search index, kept by handlers after its commit    *)
(* (social_platform/app/domains/post/application.py, topic/, search/,      *)
(* heat/application.py, feed/queries.py, shared/events.py).                *)
(*                                                                         *)
(* A request reads, flushes its rows and runs the handlers of the event,   *)
(* commits, and then updates the index.  Requests overlap under READ       *)
(* COMMITTED; an uncommitted UPDATE or DELETE of a post holds its row.     *)
(*                                                                         *)
(* Abstractions: the content of a post is the set of topics it names; a    *)
(* document of the index is the id of its post; scores and pages are left  *)
(* out, and so are reposts, likes and comments except that they refresh    *)
(* the topics of their post.                                               *)
(***************************************************************************)
EXTENDS Integers, FiniteSets, Platform

CONSTANTS
  Posts,      \* ids of posts, each used once
  Topics

ASSUME ProjectionAssumption == None \notin Posts /\ IsFiniteSet(Posts)

VARIABLES
  status,    \* of each post: "none", "active", "archived" or "deleted"
  topics,    \* the topics its content names
  tagged,    \* its PostTopic rows
  count,     \* Topic.post_count
  index,     \* the posts that have a document in the content index
  req,       \* requests in progress
  job,       \* the periodic refresh: what it has read and will write
  lost,      \* history: posts whose index update failed
  crossed    \* history: posts for which two requests overlapped, and how

vars == <<status, topics, tagged, count, index, req, job, lost, crossed>>

Unread == [t \in Topics |-> 0]
Idle == [op |-> "idle", stage |-> "none", p |-> None, topics |-> {}, old |-> {},
         seen |-> Unread, new |-> Unread]
Asleep == [on |-> FALSE, seen |-> Unread, new |-> Unread]

On(p) == {q \in Requests : req[q].p = p}
Writers == {"create", "edit", "restore"}
Removers == {"archive", "delete"}

\* What the readers of the site are shown: get_feed, search_content and
\* search_topic all ask the database for the status of the posts.
Feed == {p \in Posts : status[p] = "active"}
SearchResults == {p \in index : status[p] = "active"}
TopicPage(t) == {p \in Posts : status[p] = "active" /\ t \in tagged[p]}

-----------------------------------------------------------------------------
(* Reading: what a request finds before it writes anything                 *)

Read(q, op, p, T) ==
  /\ req[q].op = "idle"
  /\ req' = [req EXCEPT ![q] = [Idle EXCEPT !.op = op, !.stage = "read", !.p = p,
                                  !.topics = T, !.old = tagged[p]]]
  /\ crossed' = crossed
       \cup {<<p, "index">> : r \in {r \in On(p) : \/ op \in Writers /\ req[r].op \in Removers
                                                   \/ op \in Removers /\ req[r].op \in Writers}}
       \cup {<<p, "edit">> : r \in {r \in On(p) : op = "edit" /\ req[r].op = "edit"}}
  /\ UNCHANGED <<status, topics, tagged, count, index, job, lost>>

\* create_post, update_post, delete_post
Create(q, p, T) == status[p] = "none" /\ On(p) = {} /\ Read(q, "create", p, T)
Edit(q, p, T) == status[p] = "active" /\ Read(q, "edit", p, T)
Delete(q, p) == status[p] = "active" /\ Read(q, "delete", p, {})

\* delete_post_as_admin, restore_post_as_admin
Archive(q, p) == status[p] = "active" /\ Read(q, "archive", p, topics[p])
Restore(q, p) == status[p] = "archived" /\ Read(q, "restore", p, topics[p])

\* A like, a comment or a repost: LikeChanged, CommentCreated, ...
Interact(q, p) == status[p] = "active" /\ Read(q, "interact", p, topics[p])

-----------------------------------------------------------------------------
(* The transaction                                                         *)

Holds(r) == req[r].stage = "flushed" /\ req[r].op # "interact"

\* Mutation of Retagged: old associations are kept.
AddsTopics(now, old, new) == now \cup new

\* sync_post_topics deletes the rows it read and inserts those of the content.
Retagged(now, old, new) == (now \ old) \cup new

\* The topics whose statistics the handlers refresh.
Refreshed(r) == CASE r.op \in {"create", "edit"} -> r.old \cup r.topics
                  [] r.op \in {"delete", "interact"} -> r.old
                  [] OTHER -> {}

\* Mutation of PostCount: archived posts are counted.
CountsAll(t, stat, tags) == Cardinality({p \in Posts : t \in tags[p]})

\* refresh_topic_stats
PostCount(t, stat, tags) == Cardinality({p \in Posts : stat[p] = "active" /\ t \in tags[p]})

\* The rows as the transaction of r sees them once it has flushed its own.
OwnStatus(r) == [status EXCEPT ![r.p] = CASE r.op = "create" -> "active"
                                          [] r.op = "delete" -> "deleted"
                                          [] OTHER -> @]
OwnTags(r) == [tagged EXCEPT ![r.p] = CASE r.op \in {"create", "edit"} -> Retagged(@, r.old, r.topics)
                                        [] r.op = "delete" -> {}
                                        [] OTHER -> @]

\* An UPDATE of a row that is gone, or an association that another request
\* inserted, fails.
Fails(r) == \/ r.op \in {"edit", "archive", "restore"} /\ status[r.p] = "deleted"
            \/ r.op = "edit" /\ r.topics \cap (tagged[r.p] \ r.old) # {}

\* The row of the post is written, which waits for another writer, and the
\* handlers count the posts of the topics.
Flush(q) ==
  LET r == req[q] IN
  /\ r.stage = "read"
  /\ r.op # "interact" => \A o \in On(r.p) \ {q} : ~Holds(o)
  /\ req' = [req EXCEPT ![q] =
       IF Fails(r) THEN Idle
       ELSE [r EXCEPT !.stage = "flushed", !.seen = count,
               !.new = [t \in Topics |-> IF t \in Refreshed(r)
                                         THEN PostCount(t, OwnStatus(r), OwnTags(r))
                                         ELSE count[t]]]]
  /\ UNCHANGED <<status, topics, tagged, count, index, job, lost, crossed>>

\* A count is written only if it differs from the one that was read.
Written(now, seen, new) == [t \in Topics |-> IF new[t] = seen[t] THEN now[t] ELSE new[t]]

StatusAfter(r) == CASE r.op \in {"create", "restore"} -> "active"
                    [] r.op = "archive" -> "archived"
                    [] r.op = "delete" -> "deleted"
                    [] OTHER -> status[r.p]

Commit(q) ==
  LET r == req[q] IN
  /\ r.stage = "flushed"
  /\ status' = [status EXCEPT ![r.p] = StatusAfter(r)]
  /\ topics' = [topics EXCEPT ![r.p] = IF r.op \in {"create", "edit"} THEN r.topics ELSE @]
  /\ tagged' = OwnTags(r)
  /\ count' = Written(count, r.seen, r.new)
  /\ req' = [req EXCEPT ![q] =
       IF r.op = "interact" THEN Idle
       ELSE [Idle EXCEPT !.op = r.op, !.stage = "after", !.p = r.p]]
  /\ UNCHANGED <<index, job, lost, crossed>>

RollBack(q) ==
  /\ req[q].stage \in {"read", "flushed"}
  /\ req' = [req EXCEPT ![q] = Idle]
  /\ UNCHANGED <<status, topics, tagged, count, index, job, lost, crossed>>

-----------------------------------------------------------------------------
(* After the commit                                                        *)

\* Mutation of RemovesDocument: an archive leaves the document.
DeletesOnly(op) == op = "delete"

RemovesDocument(op) == op \in Removers

Unindex(q) ==
  /\ req[q].stage = "after" /\ req[q].op \in Removers
  /\ index' = IF RemovesDocument(req[q].op) THEN index \ {req[q].p} ELSE index
  /\ req' = [req EXCEPT ![q] = Idle]
  /\ UNCHANGED <<status, topics, tagged, count, job, lost, crossed>>

\* _index_post_by_id reads the post in a session of its own, whatever its
\* status; a restore refreshes the post it has.
ReadForIndex(q) ==
  /\ req[q].stage = "after" /\ req[q].op \in Writers
  /\ req' = [req EXCEPT ![q] = IF status[req[q].p] = "deleted" THEN Idle
                               ELSE [@ EXCEPT !.stage = "upsert"]]
  /\ UNCHANGED <<status, topics, tagged, count, index, job, lost, crossed>>

Upsert(q) ==
  /\ req[q].stage = "upsert"
  /\ index' = index \cup {req[q].p}
  /\ req' = [req EXCEPT ![q] = Idle]
  /\ UNCHANGED <<status, topics, tagged, count, job, lost, crossed>>

\* Errors after the commit are logged, and a stop of the process loses the
\* event; nothing repeats it.
LoseUpdate(q) ==
  /\ req[q].stage \in {"after", "upsert"}
  /\ lost' = lost \cup {req[q].p}
  /\ req' = [req EXCEPT ![q] = Idle]
  /\ UNCHANGED <<status, topics, tagged, count, index, job, crossed>>

-----------------------------------------------------------------------------
(* refresh_all_heat_scores, refresh_all_topic_stats: every five minutes    *)

JobRead ==
  /\ ~job.on
  /\ job' = [on |-> TRUE, seen |-> count,
             new |-> [t \in Topics |-> PostCount(t, status, tagged)]]
  /\ UNCHANGED <<status, topics, tagged, count, index, req, lost, crossed>>

JobCommit ==
  /\ job.on
  /\ count' = Written(count, job.seen, job.new)
  /\ job' = Asleep
  /\ UNCHANGED <<status, topics, tagged, index, req, lost, crossed>>

Init ==
  /\ status = [p \in Posts |-> "none"]
  /\ topics = [p \in Posts |-> {}]
  /\ tagged = [p \in Posts |-> {}]
  /\ count = Unread
  /\ index = {}
  /\ req = [q \in Requests |-> Idle]
  /\ job = Asleep
  /\ lost = {}
  /\ crossed = {}

Next ==
  \/ \E q \in Requests :
       \/ \E p \in Posts :
            \/ \E T \in SUBSET Topics : Create(q, p, T) \/ Edit(q, p, T)
            \/ Delete(q, p) \/ Archive(q, p) \/ Restore(q, p) \/ Interact(q, p)
       \/ Flush(q) \/ Commit(q) \/ RollBack(q)
       \/ Unindex(q) \/ ReadForIndex(q) \/ Upsert(q) \/ LoseUpdate(q)
  \/ JobRead \/ JobCommit

\* The scheduler of the process starts the job again and again.
Spec == Init /\ [][Next]_vars /\ WF_vars(JobRead) /\ WF_vars(JobCommit)

-----------------------------------------------------------------------------
(* Properties                                                              *)

Counts == [Topics -> Nat]

\* The values every variable can take.
TypeOK ==
  /\ status \in [Posts -> {"none", "active", "archived", "deleted"}]
  /\ topics \in [Posts -> SUBSET Topics]
  /\ tagged \in [Posts -> SUBSET Topics]
  /\ count \in Counts
  /\ index \subseteq Posts /\ lost \subseteq Posts
  /\ crossed \subseteq Posts \X {"index", "edit"}
  /\ job \in [on : BOOLEAN, seen : Counts, new : Counts]
  /\ req \in [Requests ->
       [op : {"idle", "interact"} \cup Writers \cup Removers,
        stage : {"none", "read", "flushed", "after", "upsert"},
        p : Posts \cup {None}, topics : SUBSET Topics, old : SUBSET Topics,
        seen : Counts, new : Counts]]

\* Once the index updates of its requests are done, a post is found by a
\* search exactly while it is in the feed, and has no document otherwise,
\* unless an update of the index was lost or a request that removes the
\* document overlapped with one that writes it (search/subscribers.py:25-62,
\* admin_application.py:136, 283).
SearchAgrees ==
  \A p \in Posts \ lost :
    (\A q \in On(p) : req[q].stage \in {"read", "flushed"}) /\ <<p, "index">> \notin crossed
      => /\ (p \in SearchResults <=> p \in Feed)
         /\ (p \in index => status[p] = "active")

\* The page of a topic shows the public posts whose content names it, across
\* edits, archives and restores, unless two edits of a post overlapped
\* (topic/application.py:201-226).
TopicPagesExact ==
  \A p \in Posts, t \in Topics :
    <<p, "edit">> \notin crossed => (p \in TopicPage(t) <=> p \in Feed /\ t \in topics[p])

\* An archive, a restore and overlapping requests leave wrong counts behind;
\* when the posts rest, the periodic refresh makes every count exact, and it
\* stays exact (heat/application.py:66-92, topic/application.py:114-141).
CountsCatchUp ==
  <>[][JobRead \/ JobCommit]_vars =>
    <>[](\A t \in Topics : count[t] = Cardinality(TopicPage(t)))
=============================================================================
