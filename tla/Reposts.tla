------------------------------- MODULE Reposts -------------------------------
(***************************************************************************)
(* Reposts and the counters of what they repost                            *)
(* (social_platform/app/domains/post/application.py): creation from a post *)
(* or a comment, deletion by the author, archive and restore by the        *)
(* moderation, deletion of comments and of accounts.                       *)
(*                                                                         *)
(* A request reads first and commits later; the counters are changed by    *)
(* UPDATE statements of the database, so that increments are never lost,   *)
(* but what a request changes is decided by the status it has read.        *)
(*                                                                         *)
(* Abstractions: comments belong to somebody who keeps the account; texts  *)
(* of reposts and their chains are left out.                               *)
(***************************************************************************)
EXTENDS Integers, FiniteSets, Platform

CONSTANTS
  MaxPost,    \* bound: number of posts ever created
  CommentIds   \* ids of comments, each used once

ASSUME RepostsAssumption == MaxPost \in Nat /\ None \notin 1..MaxPost

VARIABLES
  post,      \* the rows of posts
  comment,   \* the post of each comment, None when it does not exist
  reposts,     \* Post.repost_count
  counted,   \* history: the posts each repost has been added to
  posting,
  loose      \* history: posts whose count no longer follows its reposts

repostsVars == <<post, comment, reposts, counted, posting, loose>>

PostIds == 1..MaxPost

NoPost == [status |-> "none", author |-> None, kind |-> "original",
           source |-> None, root |-> None]
NotReposting == [op |-> "idle", p |-> None, user |-> None, row |-> NoPost, met |-> {}]

\* Ids are given in turn.
Fresh(p) == \A x \in PostIds : post[x].status = "none" <=> x >= p

Exists(p) == post[p].status \in {"active", "archived"}
Active(p) == post[p].status = "active"
IsRepost(r) == r.kind # "original"
RepostsOf(u) == {p \in PostIds : Exists(p) /\ post[p].author = u /\ IsRepost(post[p])}

\* The root of a repost made from s.
RootOf(s) == IF post[s].root # None THEN post[s].root ELSE s

-----------------------------------------------------------------------------
(* Counting                                                                *)

\* repost_counter_target_ids: the source post, or the post of the source
\* comment if there is one still, and the root if it is still referred to.
Targets(r) ==
  LET source == CASE r.kind = "post" -> r.source
                  [] r.kind = "comment" -> comment[r.source]
                  [] OTHER -> None
  IN {source, r.root} \ {None}

\* Mutation of AtLeast: no lower bound.
AnyNumber(n) == n

AtLeast(n) == IF n < 0 THEN 0 ELSE n

\* adjust_repost_counts, for each of the rows in turn.
Adjusted(R, delta) ==
  [p \in PostIds |->
     IF Exists(p)
     THEN AtLeast(reposts[p] + delta * Cardinality({r \in R : p \in Targets(post[r])}))
     ELSE reposts[p]]

\* Requests that would write the status of one row at the same time.
Overlap(p) == \E q \in Requests : posting[q].p = p \/ p \in posting[q].met

\* A bound: once a count is loose the requests in progress end and no other
\* starts.
Reads(q, new, T) ==
  /\ posting[q].op = "idle" /\ loose = {}
  /\ posting' = [posting EXCEPT ![q] = new]
  /\ loose' = loose \cup T
  /\ UNCHANGED <<post, comment, reposts, counted>>

-----------------------------------------------------------------------------
(* create_post, create_repost                                              *)

CreatePost(p, u) ==
  /\ Fresh(p)
  /\ post' = [post EXCEPT ![p] = [NoPost EXCEPT !.status = "active", !.author = u]]
  /\ UNCHANGED <<comment, reposts, counted, posting, loose>>

\* _build_post_repost: the source must be active, its root need not be.
RepostPost(q, u, s) ==
  /\ Active(s)
  /\ Reads(q, [NotReposting EXCEPT !.op = "create",
                 !.row = [status |-> "active", author |-> u, kind |-> "post",
                          source |-> s, root |-> RootOf(s)]], {})

\* _build_comment_repost: the post of the comment and the root are active.
RepostComment(q, u, c) ==
  /\ comment[c] # None /\ Active(comment[c]) /\ Active(RootOf(comment[c]))
  /\ Reads(q, [NotReposting EXCEPT !.op = "create",
                 !.row = [status |-> "active", author |-> u, kind |-> "comment",
                          source |-> c, root |-> RootOf(comment[c])]], {})

\* The row refers to its root, which must exist still; the row and the
\* counters are written, the source's only if it is there.
CreateRepost(q, new) ==
  LET r == posting[q] IN
  /\ r.op = "create" /\ Exists(r.row.root) /\ Fresh(new)
  /\ post' = [post EXCEPT ![new] = r.row]
  /\ reposts' = [p \in PostIds |-> IF Exists(p) /\ p \in Targets(r.row)
                                    THEN reposts[p] + 1 ELSE reposts[p]]
  /\ counted' = [counted EXCEPT ![new] = {p \in Targets(r.row) : Exists(p)}]
  /\ posting' = [posting EXCEPT ![q] = NotReposting]
  /\ UNCHANGED <<comment, loose>>

-----------------------------------------------------------------------------
(* The status of a repost                                                  *)

Changes == {"delete", "archive", "restore"}

\* delete_post, delete_post_as_admin, restore_post_as_admin read the row.
ReadStatus(q, op, p) ==
  /\ IF op = "restore" THEN post[p].status = "archived" ELSE Active(p)
  /\ Reads(q, [NotReposting EXCEPT !.op = op, !.p = p],
           IF Overlap(p) THEN counted[p] ELSE {})

\* The rows of P are deleted and nothing refers to them as a root any more; a
\* request that has loaded such a row still has it.
WithoutSource(P) == [x \in PostIds |->
  [post[x] EXCEPT !.status = IF x \in P THEN "gone" ELSE @,
                  !.root = IF @ \in P THEN None ELSE @]]

\* What the reposts of the comments C were added to: the comments go, and
\* with them the way back to the posts.
Orphaned(C) == UNION {counted[x] : x \in {x \in PostIds : post[x].kind = "comment"
                                                          /\ post[x].source \in C}}

\* Mutation of Delta: an archive leaves the counters to the deletion.
DeletionsOnly(op) == IF op = "restore" THEN 1 ELSE IF op = "delete" THEN -1 ELSE 0

Delta(op) == IF op = "restore" THEN 1 ELSE -1

\* To delete a row that is gone is no error, to update one is.
ChangeStatus(q) ==
  LET r == posting[q] IN
  /\ r.op \in Changes
  /\ r.op # "delete" => Exists(r.p)
  /\ reposts' = IF IsRepost(post[r.p]) THEN Adjusted({r.p}, Delta(r.op)) ELSE reposts
  /\ post' = CASE r.op = "delete" -> WithoutSource({r.p})
               [] r.op = "archive" -> [post EXCEPT ![r.p].status = "archived"]
               [] r.op = "restore" -> [post EXCEPT ![r.p].status = "active"]
  /\ comment' = IF r.op = "delete"
                THEN [c \in CommentIds |-> IF comment[c] = r.p THEN None ELSE comment[c]]
                ELSE comment
  /\ loose' = IF r.op = "delete"
              THEN loose \cup Orphaned({c \in CommentIds : comment[c] = r.p})
              ELSE loose
  /\ posting' = [posting EXCEPT ![q] = NotReposting]
  /\ UNCHANGED counted

\* Comments come and go; a repost of a comment keeps its number only.
AddComment(c, p) ==
  /\ comment[c] = None /\ Active(p)
  /\ \A x \in PostIds : ~(post[x].kind = "comment" /\ post[x].source = c)
  /\ \A q \in Requests : posting[q].row.source # c
  /\ comment' = [comment EXCEPT ![c] = p]
  /\ UNCHANGED <<post, reposts, counted, posting, loose>>

DeleteComment(c) ==
  /\ comment[c] # None
  /\ comment' = [comment EXCEPT ![c] = None]
  /\ loose' = loose \cup Orphaned({c})
  /\ UNCHANGED <<post, reposts, counted, posting>>

-----------------------------------------------------------------------------
(* delete_user                                                             *)

\* All posts of the account are read; archived reposts are among them.
ReadUserPosts(q, u) ==
  LET P == {p \in PostIds : Exists(p) /\ post[p].author = u} IN
  /\ P # {}
  /\ Reads(q, [NotReposting EXCEPT !.op = "delete user", !.user = u, !.met = P],
           UNION {counted[p] : p \in {p \in P : Overlap(p) \/ post[p].status = "archived"}})

DeleteUserPosts(q) ==
  LET P == posting[q].met IN
  /\ posting[q].op = "delete user"
  /\ reposts' = Adjusted({p \in P : IsRepost(post[p])}, -1)
  /\ post' = WithoutSource(P)
  /\ comment' = [c \in CommentIds |-> IF comment[c] \in P THEN None ELSE comment[c]]
  /\ loose' = loose \cup Orphaned({c \in CommentIds : comment[c] \in P})
  /\ posting' = [posting EXCEPT ![q] = NotReposting]
  /\ UNCHANGED counted

RollBackRepost(q) ==
  /\ posting[q].op # "idle"
  /\ posting' = [posting EXCEPT ![q] = NotReposting]
  /\ UNCHANGED <<post, comment, reposts, counted, loose>>

RepostsInit ==
  /\ post = [p \in PostIds |-> NoPost]
  /\ comment = [c \in CommentIds |-> None]
  /\ reposts = [p \in PostIds |-> 0]
  /\ counted = [p \in PostIds |-> {}]
  /\ posting = [q \in Requests |-> NotReposting]
  /\ loose = {}

RepostsNext ==
  \/ \E p \in PostIds, u \in Users : CreatePost(p, u)
  \/ \E q \in Requests :
       \/ \E u \in Users :
            \/ \E s \in PostIds : RepostPost(q, u, s)
            \/ \E c \in CommentIds : RepostComment(q, u, c)
            \/ ReadUserPosts(q, u)
       \/ \E op \in Changes, p \in PostIds : ReadStatus(q, op, p)
       \/ \E p \in PostIds : CreateRepost(q, p)
       \/ ChangeStatus(q) \/ DeleteUserPosts(q) \/ RollBackRepost(q)
  \/ \E c \in CommentIds : DeleteComment(c) \/ \E p \in PostIds : AddComment(c, p)

RepostsSpec == RepostsInit /\ [][RepostsNext]_repostsVars

-----------------------------------------------------------------------------
(* Properties                                                              *)

Rows == [status : {"none", "active", "archived", "gone"}, author : Users \cup {None},
         kind : {"original", "post", "comment"},
         source : PostIds \cup CommentIds \cup {None}, root : PostIds \cup {None}]

\* The values every variable can take.
RepostsTypeOK ==
  /\ post \in [PostIds -> Rows]
  /\ comment \in [CommentIds -> PostIds \cup {None}]
  /\ reposts \in [PostIds -> Nat]
  /\ counted \in [PostIds -> SUBSET PostIds]
  /\ loose \subseteq PostIds
  /\ posting \in [Requests -> [op : {"idle", "create", "delete user"} \cup Changes,
                           p : PostIds \cup {None}, user : Users \cup {None},
                           row : Rows, met : SUBSET PostIds]]

\* The count of a post is the number of public reposts that were added to it,
\* through chains of reposts whose roots and sources are deleted, archives and
\* restores, and accounts that go with all their posts; a post is excepted
\* when the source comment of one of them was deleted, when an account was
\* deleted with one of them archived, or when two requests changed one of
\* them at the same time (post/application.py:99-141, 264-379,
\* user/application.py:714-725, admin_application.py:81-136, 235-283).
RepostsExact ==
  \A p \in PostIds \ loose :
    Exists(p) => reposts[p] = Cardinality({r \in PostIds : Active(r) /\ p \in counted[r]})
=============================================================================
