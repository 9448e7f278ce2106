---------------------------- MODULE CommentThread ----------------------------
(***************************************************************************)
(* The comments of one post: two levels, a root comment and the replies of *)
(* its thread, with the counters Post.comment_count and                    *)
(* Comment.reply_count kept beside them (social_platform/app/domains/      *)
(* comment/application.py, and the administrator's archive and restore in  *)
(* domains/content_safety/admin_application.py).                           *)
(*                                                                         *)
(* Each request is a transaction of its own under PostgreSQL's READ        *)
(* COMMITTED: it reads rows into its session, computes, and writes the     *)
(* numbers it computed.  A request has a step for its first read, for      *)
(* deletions and archives a second one that moves the replies of the       *)
(* comment up (an UPDATE that is visible to others only at the commit, but *)
(* locks its rows) and reads the counters, and one for flush and commit.   *)
(* Neighbouring reads of one step are taken together.                      *)
(*                                                                         *)
(* Which requests overlap follows from the one server process: the users'  *)
(* endpoints run on its thread pool, and so does the review of a report by *)
(* the language model (routers/reports.py:43), which archives comments;    *)
(* the administrators' endpoints (admin/api/content.py) are coroutines     *)
(* that never await, so no two of them overlap.  An archive may be any of  *)
(* these, a restore is always an administrator's.                          *)
(***************************************************************************)
EXTENDS Integers, FiniteSets, Platform

CONSTANTS
  Comments,   \* the ids the database can give out
  MaxAdmin    \* bound on the administrator's archives and restores

ASSUME CommentsFinite == IsFiniteSet(Comments)
ASSUME NoneIsNoComment == None \notin Comments
ASSUME MaxAdminIsNat == MaxAdmin \in Nat

VARIABLES
  status,      \* of each id: "free", "active", "archived" or "gone"
  parent,      \* parent_id: the comment it answers
  root,        \* root_comment_id: the thread it belongs to
  replies,     \* reply_count
  postCount,   \* Post.comment_count
  postActive,  \* Post.moderation_status = "active"
  req,         \* what each request has read and computed
  adminOps,    \* number of archives and restores begun
  history      \* which of these have happened: "overlap", two requests at
               \* once; "mixed", a request on a thread in part archived

vars == <<status, parent, root, replies, postCount, postActive, req, adminOps, history>>

rows == <<status, parent, root, replies, postCount, postActive>>

Live == {c \in Comments : status[c] \in {"active", "archived"}}

RepliesOf(r) == {c \in Live : root[c] = r}

Idle == [op |-> "idle", stage |-> "none", c |-> None, parent |-> None,
         root |-> None, counted |-> None, moved |-> {}, change |-> 0,
         postCount |-> 0, replies |-> 0]

InFlight(p) == req[p].op # "idle"

\* _resolve_thread_root_id: the thread of a comment.
ThreadRoot(c) == IF parent[c] = None THEN c ELSE root[c]

\* The thread of c mixes archived and shown comments in the way that makes
\* the counters ambiguous: c answers in an archived thread, or c is a root
\* with archived replies.
Mixed(c) ==
  IF parent[c] = None
  THEN \E k \in RepliesOf(c) : status[k] = "archived"
  ELSE status[root[c]] # "active"

\* What the beginning of a request adds to the history.
Begin(p, mixed) ==
  history' = history
             \cup {h \in {"mixed"} : mixed}
             \cup {h \in {"overlap"} : \E q \in Requests \ {p} : InFlight(q)}

-----------------------------------------------------------------------------
(* Locks and foreign keys of the database                                  *)

\* Rows that another transaction has updated and not yet committed.
Locked(p) == UNION {req[q].moved : q \in Requests \ {p}}

\* Rows another transaction's uncommitted update refers to as a parent: they
\* cannot be deleted before it ends.
Referred(p) == {req[q].parent : q \in {x \in Requests \ {p} : req[x].moved # {}}}

\* The parents as they are once p's update is visible.
MovedParent(p) ==
  [k \in Comments |-> IF k \in req[p].moved THEN req[p].parent ELSE parent[k]]

\* Mutation of Cascade: the foreign keys do not cascade.
CascadeOnlySelf(c, up) == {c} \cap Live

\* ON DELETE CASCADE of parent_id and root_comment_id, with the ORM's cascade
\* over children: the least set of rows that holds c and every row that
\* refers to one of its members.
Cascade(c, up) ==
  LET closed == {S \in SUBSET Live :
                   /\ c \in Live => c \in S
                   /\ \A k \in Live : up[k] \in S \/ root[k] \in S => k \in S}
  IN  {k \in Live : \A S \in closed : k \in S}

\* The session writes a number only if it differs from the one it read.
Written(now, seen, new) == IF new = seen THEN now ELSE new

\* Mutation of AtLeastZero: no lower bound.
NoLowerBound(n, d) == n - d

AtLeastZero(n, d) == IF n > d THEN n - d ELSE 0

-----------------------------------------------------------------------------
(* create_comment                                                          *)

\* The post and the comment answered must be active; the root is loaded, and
\* counted, only if it is active too, or if it is the comment answered.
ReadCreate(p, c, up) ==
  /\ ~InFlight(p) /\ status[c] = "free" /\ postActive
  /\ \A q \in Requests : req[q].op = "create" => req[q].c # c
  /\ up # None => status[up] = "active"
  /\ LET r == IF up = None THEN None ELSE ThreadRoot(up)
         counted == IF r # None /\ status[r] = "active" THEN r ELSE None
     IN  /\ req' = [req EXCEPT ![p] =
                      [Idle EXCEPT !.op = "create", !.stage = "write", !.c = c,
                         !.parent = up, !.root = r, !.counted = counted,
                         !.change = 1, !.postCount = postCount,
                         !.replies = IF counted = None THEN 0 ELSE replies[counted]]]
         /\ Begin(p, r # None /\ counted = None)
  /\ UNCHANGED <<rows, adminOps>>

\* The row is inserted, which fails if the parent or the root is gone, and
\* both counters are written.
WriteCreate(p) ==
  LET r == req[p] IN
  /\ r.op = "create"
  /\ IF {r.parent, r.root} \subseteq Live \cup {None}
     THEN /\ status' = [status EXCEPT ![r.c] = "active"]
          /\ parent' = [parent EXCEPT ![r.c] = r.parent]
          /\ root' = [root EXCEPT ![r.c] = r.root]
          /\ postCount' = r.postCount + 1
          /\ replies' = [k \in Comments |->
                           IF k = r.counted THEN r.replies + 1 ELSE replies[k]]
     ELSE UNCHANGED <<status, parent, root, replies, postCount>>
  /\ req' = [req EXCEPT ![p] = Idle]
  /\ UNCHANGED <<postActive, adminOps, history>>

-----------------------------------------------------------------------------
(* delete_comment_precise and delete_comment_as_admin                      *)

\* The author deletes, or an administrator archives, a comment that is active.
ReadRemoval(p, c, op) ==
  /\ ~InFlight(p) /\ status[c] = "active"
  /\ op = "archive" => adminOps < MaxAdmin
  /\ req' = [req EXCEPT ![p] =
               [Idle EXCEPT !.op = op, !.stage = "prepare", !.c = c,
                  !.parent = parent[c], !.root = root[c]]]
  /\ adminOps' = IF op = "archive" THEN adminOps + 1 ELSE adminOps
  /\ Begin(p, Mixed(c))
  /\ UNCHANGED rows

\* Mutation of Moves: the replies are not moved up.
MovesNothing(p) == {}

\* The replies that follow from the removed comment: they answer its parent
\* from now on.
Moves(p) ==
  IF req[p].parent = None THEN {} ELSE {k \in Live : parent[k] = req[p].c}

\* Mutation of Subtracted: a thread counts as one comment.
SubtractsOne(p) == 1

\* What the removal takes from the counters: a thread with its replies, or
\* one reply.
Subtracted(p) ==
  IF req[p].parent = None THEN 1 + Cardinality(RepliesOf(req[p].c)) ELSE 1

\* The update of the replies waits for rows others hold; it fails if the
\* parent is gone.  Then the counters are read.
PrepareRemoval(p) ==
  LET r == req[p]
      counted == IF r.root \in Live THEN r.root ELSE None
  IN
  /\ r.stage = "prepare"
  /\ Moves(p) \cap Locked(p) = {}
  /\ req' = [req EXCEPT ![p] =
               IF Moves(p) # {} /\ r.parent \notin Live
               THEN Idle
               ELSE [r EXCEPT !.stage = "write", !.moved = Moves(p),
                       !.counted = counted, !.change = Subtracted(p),
                       !.postCount = postCount,
                       !.replies = IF counted = None THEN 0 ELSE replies[counted]]]
  /\ UNCHANGED <<rows, adminOps, history>>

\* The numbers a removal writes.
RemovalCounters(p) ==
  LET r == req[p] IN
  /\ postCount' = Written(postCount, r.postCount, AtLeastZero(r.postCount, r.change))
  /\ replies' = [k \in Comments |->
                   IF k = r.counted
                   THEN Written(replies[k], r.replies, AtLeastZero(r.replies, r.change))
                   ELSE replies[k]]

\* An UPDATE of a row that is gone fails the whole transaction.
UpdatesMissingRow(p) ==
  LET r == req[p] IN
  \/ /\ r.counted # None /\ r.counted \notin Live
     /\ r.op = "restore" \/ r.replies > 0
  \/ r.op \in {"archive", "restore"} /\ r.c \notin Live

\* The deletion takes with it every row that refers to the comment; deleting
\* a row that is gone already is no error.
WriteDelete(p) ==
  LET r == req[p]
      gone == Cascade(r.c, MovedParent(p))
  IN
  /\ r.op = "delete" /\ r.stage = "write"
  /\ IF UpdatesMissingRow(p)
     THEN UNCHANGED <<status, parent, replies, postCount>>
     ELSE /\ gone \cap (Locked(p) \cup Referred(p)) = {}
          /\ parent' = MovedParent(p)
          /\ status' = [k \in Comments |-> IF k \in gone THEN "gone" ELSE status[k]]
          /\ RemovalCounters(p)
  /\ req' = [req EXCEPT ![p] = Idle]
  /\ UNCHANGED <<root, postActive, adminOps, history>>

WriteArchive(p) ==
  LET r == req[p] IN
  /\ r.op = "archive" /\ r.stage = "write"
  /\ IF UpdatesMissingRow(p)
     THEN UNCHANGED <<status, parent, replies, postCount>>
     ELSE /\ r.c \notin Locked(p)
          /\ parent' = MovedParent(p)
          /\ status' = [status EXCEPT ![r.c] = "archived"]
          /\ RemovalCounters(p)
  /\ req' = [req EXCEPT ![p] = Idle]
  /\ UNCHANGED <<root, postActive, adminOps, history>>

-----------------------------------------------------------------------------
(* restore_comment_as_admin                                                *)

\* Only administrators restore, and their requests run one after another.
NoRestoreInFlight == \A q \in Requests : req[q].op # "restore"

\* The post must be active; the root counts the reply only if it is active.
ReadRestore(p, c) ==
  /\ NoRestoreInFlight /\ ~InFlight(p) /\ status[c] = "archived" /\ postActive
  /\ adminOps < MaxAdmin
  /\ LET counted == IF parent[c] # None /\ status[root[c]] = "active" THEN root[c] ELSE None
     IN  req' = [req EXCEPT ![p] =
                   [Idle EXCEPT !.op = "restore", !.stage = "write", !.c = c,
                      !.counted = counted, !.postCount = postCount,
                      !.change = IF parent[c] = None
                                 THEN 1 + Cardinality(RepliesOf(c)) ELSE 1,
                      !.replies = IF counted = None THEN 0 ELSE replies[counted]]]
  /\ adminOps' = adminOps + 1
  /\ Begin(p, Mixed(c))
  /\ UNCHANGED rows

WriteRestore(p) ==
  LET r == req[p] IN
  /\ r.op = "restore"
  /\ IF UpdatesMissingRow(p)
     THEN UNCHANGED <<status, replies, postCount>>
     ELSE /\ r.c \notin Locked(p)
          /\ status' = [status EXCEPT ![r.c] = "active"]
          /\ postCount' = r.postCount + r.change
          /\ replies' = [k \in Comments |->
                           IF k = r.counted THEN r.replies + r.change ELSE replies[k]]
  /\ req' = [req EXCEPT ![p] = Idle]
  /\ UNCHANGED <<parent, root, postActive, adminOps, history>>

-----------------------------------------------------------------------------
\* delete_post_as_admin and restore_post_as_admin, as far as the thread sees
\* them: the comments keep their own status.
ArchivePost ==
  /\ postActive /\ adminOps < MaxAdmin
  /\ postActive' = FALSE /\ adminOps' = adminOps + 1
  /\ UNCHANGED <<status, parent, root, replies, postCount, req, history>>

RestorePost ==
  /\ ~postActive /\ adminOps < MaxAdmin /\ NoRestoreInFlight
  /\ postActive' = TRUE /\ adminOps' = adminOps + 1
  /\ UNCHANGED <<status, parent, root, replies, postCount, req, history>>

\* A handler of the transaction raises, the server stops, or the database
\* picks the request as the victim of a deadlock: everything is rolled back.
RollBack(p) ==
  /\ InFlight(p)
  /\ req' = [req EXCEPT ![p] = Idle]
  /\ UNCHANGED <<rows, adminOps, history>>

Init ==
  /\ status = [c \in Comments |-> "free"]
  /\ parent = [c \in Comments |-> None]
  /\ root = [c \in Comments |-> None]
  /\ replies = [c \in Comments |-> 0]
  /\ postCount = 0
  /\ postActive = TRUE
  /\ req = [p \in Requests |-> Idle]
  /\ adminOps = 0
  /\ history = {}

Next ==
  \/ \E p \in Requests, c \in Comments, up \in Comments \cup {None} : ReadCreate(p, c, up)
  \/ \E p \in Requests, c \in Comments, op \in {"delete", "archive"} : ReadRemoval(p, c, op)
  \/ \E p \in Requests, c \in Comments : ReadRestore(p, c)
  \/ \E p \in Requests :
       \/ WriteCreate(p)
       \/ PrepareRemoval(p)
       \/ WriteDelete(p)
       \/ WriteArchive(p)
       \/ WriteRestore(p)
       \/ RollBack(p)
  \/ ArchivePost
  \/ RestorePost

Spec == Init /\ [][Next]_vars

-----------------------------------------------------------------------------
(* Properties                                                              *)

\* The values every variable can take.
TypeOK ==
  /\ status \in [Comments -> {"free", "active", "archived", "gone"}]
  /\ parent \in [Comments -> Comments \cup {None}]
  /\ root \in [Comments -> Comments \cup {None}]
  /\ replies \in [Comments -> Nat]
  /\ postCount \in Nat
  /\ postActive \in BOOLEAN
  /\ req \in [Requests ->
       [op : {"idle", "create", "delete", "archive", "restore"},
        stage : {"none", "prepare", "write"},
        c : Comments \cup {None}, parent : Comments \cup {None},
        root : Comments \cup {None}, counted : Comments \cup {None},
        moved : SUBSET Comments, change : Nat, postCount : Nat, replies : Nat]]
  /\ adminOps \in 0..MaxAdmin
  /\ history \subseteq {"overlap", "mixed"}

\* Whatever requests overlap, the comments stay a forest of two-level threads:
\* a reply has a root comment that exists and answers a comment of the same
\* thread that exists.  Moving replies up with parents read before other
\* requests committed must not leave a reply without its thread
\* (application.py:851-877).
Threaded ==
  \A k \in Live :
    IF parent[k] = None
    THEN root[k] = None
    ELSE /\ root[k] \in Live /\ parent[root[k]] = None
         /\ parent[k] \in Live
         /\ parent[k] = root[k] \/ root[parent[k]] = root[k]

\* Comments a reader sees: active, in a thread that is.
Shown == {c \in Comments : status[c] = "active" /\ (root[c] # None => status[root[c]] = "active")}

Exact ==
  /\ postCount = Cardinality(Shown)
  /\ \A r \in Live : parent[r] = None =>
       replies[r] = Cardinality({k \in RepliesOf(r) : status[k] = "active"})

\* As long as requests do not overlap and none works on a thread that is
\* archived in part, every sequence of comments, replies, deletions, archives
\* and restores leaves both counters at what a reader sees.
CountersExact == history = {} => Exact

\* As long as requests do not overlap, a comment vanishes only with its own
\* deletion or that of its root: the deletion of a reply moves the replies to
\* it up before the database's cascade runs (application.py:866-873).
RepliesSurvive ==
  [][\A k \in Live :
       status'[k] = "gone" /\ "overlap" \notin history' =>
         \E p \in Requests : req[p].op = "delete" /\ req[p].c \in {k, root[k]}]_vars

\* Archiving and restoring corrects the counters of post and root
\* (admin_application.py:147, 287): once everything is restored, and although
\* no two requests overlapped, they are exact again.
RestoredCountersExact ==
  "overlap" \notin history /\ (\A c \in Comments : status[c] # "archived") => Exact
=============================================================================
