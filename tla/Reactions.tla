------------------------------ MODULE Reactions ------------------------------
(***************************************************************************)
(* Likes of posts and comments, follow relations and votes in a poll, with *)
(* the counters kept beside their rows, and the deletion of an account     *)
(* (social_platform/app/domains/reaction, comment, follow, post and user). *)
(*                                                                         *)
(* The dependencies of a request load the users and the target first, the  *)
(* row of the relation is looked up next, and both are written at the      *)
(* commit: the row under the key of its table, the counters as numbers     *)
(* computed from what was loaded.  Requests of users overlap.              *)
(*                                                                         *)
(* Abstractions: one poll; posts and comments that can be liked belong to  *)
(* somebody who keeps the account.                                         *)
(***************************************************************************)
EXTENDS Integers, FiniteSets, Platform

CONSTANT Options   \* of the poll

VARIABLES
  users,     \* the accounts
  contents,  \* the posts and comments that exist
  marked,      \* likes, comment_likes, follows and poll_votes
  departed,  \* history: votes of deleted accounts
  marks,     \* like_count, vote_count, followers_count and following_count
  marking,       \* requests in progress
  racedMarks      \* history: counters that two overlapping requests wrote

reactionsVars == <<users, contents, marked, departed, marks, marking, racedMarks>>

Likes == {"like"} \X Users \X Contents
Follows == {r \in {"follow"} \X Users \X Users : r[2] # r[3]}
Votes == {"vote"} \X Users \X Options
Relations == Likes \cup Follows \cup Votes

Kind(r) == r[1]
Actor(r) == r[2]
Target(r) == r[3]

Counters == ({"likes"} \X Contents) \cup ({"votes"} \X Options)
              \cup ({"followers", "following"} \X Users)

CountersOf(r) == CASE Kind(r) = "like"   -> {<<"likes", Target(r)>>}
                   [] Kind(r) = "vote"   -> {<<"votes", Target(r)>>}
                   [] Kind(r) = "follow" -> {<<"followers", Target(r)>>, <<"following", Actor(r)>>}

NoReaction == [stage |-> "idle", row |-> None, had |-> FALSE, user |-> None,
         met |-> {}, seen |-> [c \in Counters |-> 0]]

\* The counters a request may write.
Touches(r) == CASE r.stage = "idle" -> {}
                [] r.user # None -> {"followers", "following"} \X Users
                [] OTHER -> CountersOf(r.row)

\* A bound: after a race the requests in progress end and no other starts.
Starts(q, new) ==
  /\ marking[q].stage = "idle" /\ racedMarks = {}
  /\ marking' = [marking EXCEPT ![q] = new]
  /\ racedMarks' = racedMarks
       \cup UNION {Touches(new) \cap Touches(marking[o]) : o \in Requests \ {q}}
  /\ UNCHANGED <<users, contents, marked, departed, marks>>

Present(r) == /\ Actor(r) \in users
              /\ Kind(r) = "like" => Target(r) \in contents
              /\ Kind(r) = "follow" => Target(r) \in users

\* The target and the counters are loaded by the dependencies of the request.
Load(q, r, stage) ==
  /\ Present(r)
  /\ Starts(q, [NoReaction EXCEPT !.stage = stage, !.row = r,
                            !.seen = [c \in Counters |-> IF c \in CountersOf(r)
                                                         THEN marks[c] ELSE 0]])

\* toggle_like of posts and of comments
LoadLike(q, u, c) == Load(q, <<"like", u, c>>, "look")

\* toggle_follow: nobody follows himself.
LoadFollow(q, u, v) == u # v /\ Load(q, <<"follow", u, v>>, "look")

\* vote_poll looks for no earlier vote.
LoadVote(q, u, o) == Load(q, <<"vote", u, o>>, "write")

LookUp(q) ==
  /\ marking[q].stage = "look"
  /\ marking' = [marking EXCEPT ![q].stage = "write", ![q].had = marking[q].row \in marked]
  /\ UNCHANGED <<users, contents, marked, departed, marks, racedMarks>>

\* The keys of the tables: one like and one follow of each target, one vote
\* of a user in the poll.
Clashes(r) == IF Kind(r) = "vote" THEN \E o \in Options : <<"vote", Actor(r), o>> \in marked
              ELSE r \in marked

\* Mutation of OneLess: no lower bound.
OneLessAlways(n) == n - 1

OneLess(n) == IF n > 0 THEN n - 1 ELSE 0

\* Mutation of Counted: a follow that ends leaves the follower's number.
CountsTarget(c, r, had) ==
  IF had THEN (IF c[1] = "following" THEN r.seen[c] ELSE OneLess(r.seen[c])) ELSE r.seen[c] + 1

Counted(c, r, had) == IF had THEN OneLess(r.seen[c]) ELSE r.seen[c] + 1

\* Deleting a row that is gone already deletes nothing and is no error; a row
\* whose target is gone, or that exists already, ends in a roll back.  A
\* number equal to the loaded one is not written.
Write(q) ==
  LET r == marking[q] IN
  /\ r.stage = "write" /\ r.user = None
  /\ Present(r.row) /\ (r.had \/ ~Clashes(r.row))
  /\ marked' = IF r.had THEN marked \ {r.row} ELSE marked \cup {r.row}
  /\ marks' = [c \in Counters |->
                 IF c \in CountersOf(r.row) /\ Counted(c, r, r.had) # r.seen[c]
                 THEN Counted(c, r, r.had) ELSE marks[c]]
  /\ marking' = [marking EXCEPT ![q] = NoReaction]
  /\ UNCHANGED <<users, contents, departed, racedMarks>>

\* An error, the loss of the connection, IntegrityError, StaleDataError.
RollBackReaction(q) ==
  /\ marking[q].stage # "idle"
  /\ marking' = [marking EXCEPT ![q] = NoReaction]
  /\ UNCHANGED <<users, contents, marked, departed, marks, racedMarks>>

RowsOf(u) == {r \in marked : Actor(r) = u \/ (Kind(r) = "follow" /\ Target(r) = u)}

\* delete_user reads whom the account follows and who follows it.
ReadUserMarks(q, u) ==
  /\ u \in users
  /\ Starts(q, [NoReaction EXCEPT !.stage = "write", !.user = u,
                            !.met = {r \in RowsOf(u) : Kind(r) = "follow"}])

\* The counter of the other side of a follow relation.
OtherSide(u, r) ==
  IF Actor(r) = u THEN <<"followers", Target(r)>> ELSE <<"following", Actor(r)>>

\* The other sides lose one each, in SQL; the rows go with the account, and
\* the votes stay counted.  An account with likes is not deleted: its likes
\* are loaded and lose their user, which is part of their key.
DeleteUserMarks(q) ==
  LET u == marking[q].user IN
  /\ marking[q].stage = "write" /\ u \in users
  /\ \A r \in RowsOf(u) : Kind(r) # "like"
  /\ marks' = [c \in Counters |-> IF c \in {OtherSide(u, r) : r \in marking[q].met}
                                  THEN OneLess(marks[c]) ELSE marks[c]]
  /\ marked' = marked \ RowsOf(u)
  /\ departed' = departed \cup {r \in RowsOf(u) : Kind(r) = "vote"}
  /\ users' = users \ {u}
  /\ marking' = [marking EXCEPT ![q] = NoReaction]
  /\ UNCHANGED <<contents, racedMarks>>

\* delete_post, delete_comment: the likes go with the content.
DeleteContent(c) ==
  /\ c \in contents
  /\ contents' = contents \ {c}
  /\ marked' = {r \in marked : ~(Kind(r) = "like" /\ Target(r) = c)}
  /\ UNCHANGED <<users, departed, marks, marking, racedMarks>>

ReactionsInit ==
  /\ users = Users /\ contents = Contents
  /\ marked = {} /\ departed = {}
  /\ marks = [c \in Counters |-> 0]
  /\ marking = [q \in Requests |-> NoReaction]
  /\ racedMarks = {}

ReactionsNext ==
  \/ \E q \in Requests :
       \/ \E u \in Users : \/ \E c \in Contents : LoadLike(q, u, c)
                           \/ \E v \in Users : LoadFollow(q, u, v)
                           \/ \E o \in Options : LoadVote(q, u, o)
       \/ LookUp(q) \/ Write(q) \/ RollBackReaction(q)
       \/ \E u \in Users : ReadUserMarks(q, u)
       \/ DeleteUserMarks(q)
  \/ \E c \in Contents : DeleteContent(c)

ReactionsSpec == ReactionsInit /\ [][ReactionsNext]_reactionsVars

-----------------------------------------------------------------------------
(* Properties                                                              *)

\* The values every variable can take.
ReactionsTypeOK ==
  /\ users \subseteq Users /\ contents \subseteq Contents
  /\ marked \subseteq Relations /\ departed \subseteq Votes
  /\ marks \in [Counters -> Nat]
  /\ racedMarks \subseteq Counters
  /\ marking \in [Requests -> [stage : {"idle", "look", "write"}, row : Relations \cup {None},
                           had : BOOLEAN, user : Users \cup {None},
                           met : SUBSET Follows, seen : [Counters -> Nat]]]

\* The counter of something that still exists.
Lasts(c) == CASE c[1] = "likes" -> c[2] \in contents
              [] c[1] = "votes" -> TRUE
              [] OTHER -> c[2] \in users

-----------------------------------------------------------------------------
(* What the pages list, read from the rows                                 *)

\* get_like_status of posts and of comments
Likers(c) == {r \in marked : Kind(r) = "like" /\ Target(r) = c}

\* The options of a poll keep the votes of those who left.
Voters(o) == {r \in marked \cup departed : Kind(r) = "vote" /\ Target(r) = o}

\* get_followers_list, get_following_list
Followers(u) == {r \in marked : Kind(r) = "follow" /\ Target(r) = u}
Following(u) == {r \in marked : Kind(r) = "follow" /\ Actor(r) = u}

Listed(c) == CASE c[1] = "likes"     -> Likers(c[2])
               [] c[1] = "votes"     -> Voters(c[2])
               [] c[1] = "followers" -> Followers(c[2])
               [] c[1] = "following" -> Following(c[2])

\* However often marks are set and taken back, with failures in between and
\* accounts deleted, the number a page shows is the length of the list behind
\* it (with the votes of deleted accounts), unless two requests overlapped on
\* it: they write numbers computed before the other's commit
\* (reaction/application.py:98-143, follow/application.py:117-146,
\* user/application.py:727-748).
MarksExact ==
  \A c \in Counters \ racedMarks : Lasts(c) => marks[c] = Cardinality(Listed(c))
=============================================================================
