--------------------------- MODULE EngagementProofs ---------------------------
(***************************************************************************)
(* Proofs about Notices, Reactions, Reposts and posts, for every set of    *)
(* users, contents, topics and overlapping requests and every number of    *)
(* notifications and posts.                                                *)
(***************************************************************************)
EXTENDS Reactions, Notices, Reposts, PostProjections, FiniteSetTheorems, TLAPS

-----------------------------------------------------------------------------
(***************************************************************************)
(* Notices.  A change of the reader's number is either one the stream has  *)
(* still to be told of, or one after which its version is an old one.      *)
(***************************************************************************)

\* Whoever gets a row in a transaction is told after its commit.
AllTold == \A q \in Requests : telling[q].stage = "open" =>
             \A u \in Recipients : telling[q].new[u] > 0 => u \in telling[q].pending

\* The stream has taken a version that was there.
VersionTaken == stream.stage \in {"read", "wait"} => stream.seen <= version[Reader]

BadgeInv == NoticesTypeOK /\ AllTold /\ VersionTaken /\ BadgeCurrent

LEMMA ToldTypes ==
  \A s, R : Told(s, R) \in [Recipients -> 0..1]
BY DEF Told

\* What an event tells somebody is no more than two rows.
LEMMA EventTypes ==
  ASSUME NEW e \in Events
  PROVE  e \in [Recipients -> 0..2]
<1>1. \A s, R : Told(s, R) \in [Recipients -> 0..2]
  BY DEF Told
<1>2. ASSUME NEW s \in Recipients, NEW o \in Recipients, NEW m \in SUBSET Recipients,
             NEW w \in SUBSET Recipients, e = Both(Comment(s, o, m), Repost(s, w))
      PROVE  e \in [Recipients -> 0..2]
  <2>1. /\ Told(s, m \cup {o}) \in [Recipients -> 0..1]
        /\ Told(s, w) \in [Recipients -> 0..1]
    BY ToldTypes
  <2> DEFINE a == Told(s, m \cup {o})
             b == Told(s, w)
  <2>2. e = [u \in Recipients |-> a[u] + b[u]]
    BY <1>2 DEF Both, Comment, Repost
  <2>3. a \in [Recipients -> 0..1] /\ b \in [Recipients -> 0..1]
    BY <2>1
  <2> HIDE DEF a, b
  <2>4. \A u \in Recipients : a[u] + b[u] \in 0..2
    BY <2>3
  <2>5. QED
    BY <2>2, <2>4
<1>3. CASE e \in {Reaction(s, o) : s \in Recipients, o \in Recipients}
  <2>1. PICK s \in Recipients, o \in Recipients : e = Reaction(s, o)
    BY <1>3
  <2>2. QED
    BY <2>1, <1>1 DEF Reaction
<1>4. CASE e \in {Post(s, m) : s \in Recipients, m \in SUBSET Recipients}
  BY <1>1, <1>4 DEF Post
<1>5. CASE e \in {Repost(s, o) : s \in Recipients, o \in SUBSET Recipients}
  BY <1>1, <1>5 DEF Repost
<1>6. CASE e \in {System(r) : r \in SUBSET Recipients}
  BY <1>1, <1>6 DEF System
<1>7. CASE e \in {Comment(s, o, m) : s \in Recipients, o \in Recipients, m \in SUBSET Recipients}
  <2>1. PICK s \in Recipients, o \in Recipients, m \in SUBSET Recipients : e = Comment(s, o, m)
    BY <1>7
  <2>2. QED
    BY <2>1, <1>1 DEF Comment
<1>8. CASE e \in {Both(Comment(s, o, m), Repost(s, w)) :
                  s \in Recipients, o \in Recipients, m \in SUBSET Recipients,
                  w \in SUBSET Recipients}
  BY <1>2, <1>8
<1>9. QED
  BY <1>3, <1>4, <1>5, <1>6, <1>7, <1>8 DEF Events

LEMMA BadgeStarts ==
  ASSUME NoticesInit
  PROVE  BadgeInv
<1>1. /\ unread = [u \in Recipients |-> 0] /\ version = [u \in Recipients |-> 0]
      /\ telling = [q \in Requests |-> NoNotice] /\ stream = Off /\ dropped = FALSE
  BY DEF NoticesInit
<1>2. /\ 0 \in 0..MaxUnread /\ 0 \in 0..MaxVersion /\ 0 \in 0..2
  BY NoticesAssumption
<1>3. Off \in [stage : {"off", "read", "wait"}, seen : 0..MaxVersion, shown : 0..MaxUnread]
  BY <1>2 DEF Off
<1>4. NoNotice \in [stage : {"idle", "open", "after"}, new : [Recipients -> 0..2],
                    pending : SUBSET Recipients]
  BY <1>2 DEF NoNotice
<1>5. NoticesTypeOK
  BY <1>1, <1>2, <1>3, <1>4 DEF NoticesTypeOK
<1>6. Off.stage = "off" /\ NoNotice.stage = "idle"
  BY DEF Off, NoNotice
<1>7. QED
  BY <1>1, <1>5, <1>6 DEF BadgeInv, AllTold, VersionTaken, BadgeCurrent

LEMMA BadgeStep ==
  ASSUME BadgeInv, [NoticesNext]_noticesVars
  PROVE  BadgeInv'
<1> USE NoticesAssumption DEF BadgeInv
<1> DEFINE Calls == [stage : {"idle", "open", "after"}, new : [Recipients -> 0..2],
                     pending : SUBSET Recipients]
<1>a. Reader \in Recipients
  BY DEF Recipients
<1>b. NoNotice \in Calls /\ \A P \in SUBSET Recipients :
        [NoNotice EXCEPT !.stage = "after", !.pending = P] \in Calls
  <2>1. [u \in Recipients |-> 0] \in [Recipients -> 0..2]
    OBVIOUS
  <2>2. NoNotice \in Calls
    BY <2>1 DEF NoNotice
  <2>3. QED
    BY <2>2
<1>c. /\ unread \in [Recipients -> 0..MaxUnread] /\ version \in [Recipients -> 0..MaxVersion]
      /\ telling \in [Requests -> Calls]
  BY DEF NoticesTypeOK
<1>d. /\ Off \in [stage : {"off", "read", "wait"}, seen : 0..MaxVersion, shown : 0..MaxUnread]
      /\ Off.stage = "off"
  BY DEF Off
<1>1. ASSUME NEW q \in Requests, NEW e \in Events, Tell(q, e)
      PROVE  BadgeInv'
  <2>1. e \in [Recipients -> 0..2]
    BY EventTypes
  <2> DEFINE c == [stage |-> "open", new |-> e, pending |-> {u \in Recipients : e[u] > 0}]
  <2>2. c \in Calls
    BY <2>1
  <2>3. telling' = [telling EXCEPT ![q] = c] /\ UNCHANGED <<unread, version, stream, dropped>>
    BY <1>1 DEF Tell
  <2>4. NoticesTypeOK'
    BY <2>2, <2>3 DEF NoticesTypeOK
  <2>5. AllTold'
    BY <2>3, <1>c DEF AllTold
  <2>6. telling[q].stage # "after"
    BY <1>1 DEF Tell
  <2>7. QED
    BY <2>3, <2>4, <2>5, <2>6, <1>c DEF VersionTaken, BadgeCurrent, Untold
<1>2. ASSUME NEW q \in Requests, CommitNotices(q)
      PROVE  BadgeInv'
  <2> DEFINE c == [NoNotice EXCEPT !.stage = "after", !.pending = telling[q].pending]
  <2>1. c \in Calls /\ c.stage = "after" /\ c.pending = telling[q].pending
    BY <1>b, <1>c DEF NoNotice
  <2>2. /\ telling' = [telling EXCEPT ![q] = c] /\ UNCHANGED <<version, stream, dropped>>
        /\ unread' = [u \in Recipients |-> unread[u] + telling[q].new[u]]
        /\ \A u \in Recipients : unread[u] + telling[q].new[u] <= MaxUnread
        /\ telling[q].stage = "open"
    BY <1>2 DEF CommitNotices
  <2>3. \A u \in Recipients : telling[q].new[u] \in 0..2 /\ unread[u] \in 0..MaxUnread
    BY <1>c
  <2>4. unread' \in [Recipients -> 0..MaxUnread]
    <3>1. \A u \in Recipients : unread[u] + telling[q].new[u] \in 0..MaxUnread
      BY <2>2, <2>3
    <3>2. QED
      BY <3>1, <2>2
  <2>5. NoticesTypeOK'
    BY <2>1, <2>2, <2>4 DEF NoticesTypeOK
  <2>6. AllTold' /\ VersionTaken'
    BY <2>1, <2>2, <1>c DEF AllTold, VersionTaken
  <2>7. CASE telling[q].new[Reader] > 0
    BY <2>7, <2>1, <2>2, <1>a, <1>c, <2>5, <2>6 DEF AllTold, BadgeCurrent, Untold
  <2>8. CASE telling[q].new[Reader] = 0
    <3>1. unread'[Reader] = unread[Reader]
      BY <2>8, <2>2, <2>3, <1>a
    <3>2. Untold => Untold'
      BY <2>2, <2>1, <1>c DEF Untold
    <3>3. QED
      BY <3>1, <3>2, <2>2, <2>5, <2>6 DEF BadgeCurrent
  <2>9. QED
    BY <2>7, <2>8, <2>3, <1>a
<1>3. ASSUME NEW q \in Requests, RollBackNotices(q) \/ Finish(q)
      PROVE  BadgeInv'
  <2>1. /\ telling' = [telling EXCEPT ![q] = NoNotice]
        /\ UNCHANGED <<unread, version, stream, dropped>>
        /\ ~(telling[q].stage = "after" /\ Reader \in telling[q].pending)
    BY <1>3 DEF RollBackNotices, Finish
  <2>2. NoticesTypeOK'
    BY <2>1, <1>b DEF NoticesTypeOK
  <2>3. Untold => Untold'
    BY <2>1, <1>c DEF Untold
  <2>4. QED
    BY <2>1, <2>2, <2>3, <1>c DEF AllTold, VersionTaken, BadgeCurrent, NoNotice
<1>4. ASSUME NEW q \in Requests, NEW u \in Recipients, MarkRead(q, u)
      PROVE  BadgeInv'
  <2> DEFINE P == IF PublishesRead(unread[u]) THEN {u} ELSE {}
             c == [NoNotice EXCEPT !.stage = "after", !.pending = P]
  <2>1. c \in Calls /\ c.stage = "after" /\ c.pending = P
    BY <1>b DEF NoNotice
  <2>2. /\ telling' = [telling EXCEPT ![q] = c] /\ UNCHANGED <<version, stream, dropped>>
        /\ unread' = [unread EXCEPT ![u] = 0] /\ telling[q].stage = "idle"
    BY <1>4 DEF MarkRead
  <2>3. NoticesTypeOK'
    BY <2>1, <2>2, <1>c DEF NoticesTypeOK
  <2>4. AllTold' /\ VersionTaken'
    BY <2>1, <2>2, <1>c DEF AllTold, VersionTaken
  <2>5. Untold' \/ unread'[Reader] = unread[Reader]
    BY <2>1, <2>2, <1>a, <1>c DEF Untold, PublishesRead
  <2>6. Untold => Untold'
    BY <2>2, <1>c DEF Untold
  <2>7. QED
    BY <2>2, <2>3, <2>4, <2>5, <2>6 DEF BadgeCurrent
<1>5. ASSUME NEW q \in Requests, NEW u \in Recipients, PublishUpdate(q, u)
      PROVE  BadgeInv'
  <2>1. /\ telling' = [telling EXCEPT ![q].pending = @ \ {u}]
        /\ version' = [version EXCEPT ![u] = @ + 1] /\ version[u] < MaxVersion
        /\ UNCHANGED <<unread, stream, dropped>>
        /\ telling[q].stage = "after"
    BY <1>5 DEF PublishUpdate
  <2>2. version' \in [Recipients -> 0..MaxVersion] /\ version'[Reader] >= version[Reader]
    BY <2>1, <1>a, <1>c
  <2>3. NoticesTypeOK'
    BY <2>1, <2>2, <1>c DEF NoticesTypeOK
  <2>4. AllTold' /\ VersionTaken'
    <3>1. stream.seen \in 0..MaxVersion
      BY DEF NoticesTypeOK
    <3>2. QED
      BY <3>1, <2>1, <2>2, <1>a, <1>c DEF AllTold, VersionTaken
  <2>5. CASE u = Reader
    <3>1. stream.stage = "wait" => stream'.seen # version'[Reader]
      <4>1. version'[Reader] = version[Reader] + 1 /\ version[Reader] \in Int
        BY <2>1, <2>5, <1>a, <1>c
      <4>2. stream.seen \in Int
        BY DEF NoticesTypeOK
      <4>3. QED
        BY <4>1, <4>2, <2>1 DEF VersionTaken
    <3>2. QED
      BY <3>1, <2>1, <2>3, <2>4 DEF BadgeCurrent
  <2>6. CASE u # Reader
    <3>1. Untold => Untold'
      BY <2>1, <2>6, <1>c DEF Untold
    <3>2. version'[Reader] = version[Reader]
      BY <2>1, <2>6, <1>a, <1>c
    <3>3. QED
      BY <3>1, <3>2, <2>1, <2>3, <2>4 DEF BadgeCurrent
  <2>7. QED
    BY <2>5, <2>6
<1>6. ASSUME NEW u \in Recipients, DropRow(u)
      PROVE  BadgeInv'
  <2>1. /\ unread' = [unread EXCEPT ![u] = @ - 1] /\ unread[u] > 0
        /\ dropped' = (dropped \/ u = Reader)
        /\ UNCHANGED <<version, telling, stream>>
    BY <1>6 DEF DropRow
  <2>2. unread' \in [Recipients -> 0..MaxUnread]
    BY <2>1, <1>c
  <2>3. NoticesTypeOK'
    BY <2>1, <2>2 DEF NoticesTypeOK
  <2>4. ~dropped' => ~dropped /\ unread'[Reader] = unread[Reader]
    BY <2>1, <1>a, <1>c
  <2>5. QED
    BY <2>1, <2>3, <2>4 DEF AllTold, VersionTaken, BadgeCurrent, Untold
<1>7. ASSUME Connect \/ Wake
      PROVE  BadgeInv'
  <2>1. version[Reader] \in 0..MaxVersion
    BY <1>a, <1>c
  <2>2. UNCHANGED <<unread, version, telling, dropped>>
    BY <1>7 DEF Connect, Wake
  <2>3. /\ stream' \in [stage : {"off", "read", "wait"}, seen : 0..MaxVersion, shown : 0..MaxUnread]
        /\ stream'.stage = "read" /\ stream'.seen = version[Reader]
    <3>1. CASE Connect
      BY <2>1, <3>1, <1>d DEF Connect
    <3>2. CASE Wake
      BY <2>1, <3>2 DEF Wake, NoticesTypeOK
    <3>3. QED
      BY <1>7, <3>1, <3>2
  <2>4. NoticesTypeOK'
    BY <2>2, <2>3 DEF NoticesTypeOK
  <2>5. QED
    BY <2>1, <2>2, <2>3, <2>4 DEF AllTold, VersionTaken, BadgeCurrent
<1>8. CASE Send
  <2>1. /\ stream' = [stream EXCEPT !.stage = "wait", !.shown = unread[Reader]]
        /\ UNCHANGED <<unread, version, telling>> /\ dropped' = FALSE
        /\ stream.stage = "read"
    BY <1>8 DEF Send
  <2>2. unread[Reader] \in 0..MaxUnread
    BY <1>a, <1>c
  <2>3. NoticesTypeOK'
    BY <2>1, <2>2 DEF NoticesTypeOK
  <2>4. /\ stream'.stage = "wait" /\ stream'.shown = unread[Reader]
        /\ stream'.seen = stream.seen
    BY <2>1 DEF NoticesTypeOK
  <2>5. QED
    BY <2>1, <2>3, <2>4 DEF AllTold, VersionTaken, BadgeCurrent
<1>9. CASE Close
  BY <1>9, <1>d DEF Close, NoticesTypeOK, AllTold, VersionTaken, BadgeCurrent
<1>10. CASE Restart
  <2>1. NoticesTypeOK'
    <3>1. [u \in Recipients |-> 0] \in [Recipients -> 0..MaxVersion]
      OBVIOUS
    <3>2. QED
      BY <1>10, <1>b, <1>d, <3>1 DEF Restart, NoticesTypeOK
  <2>2. QED
    BY <2>1, <1>10, <1>d DEF Restart, AllTold, VersionTaken, BadgeCurrent, NoNotice
<1>11. CASE UNCHANGED noticesVars
  BY <1>11 DEF noticesVars, NoticesTypeOK, AllTold, VersionTaken, BadgeCurrent, Untold
<1>12. QED
  BY <1>1, <1>2, <1>3, <1>4, <1>5, <1>6, <1>7, <1>8, <1>9, <1>10, <1>11 DEF NoticesNext

\* Every variable of the notifications keeps to its values (Notices, all
\* handlers).
THEOREM NoticesTypes == NoticesSpec => []NoticesTypeOK
<1>1. BadgeInv => NoticesTypeOK
  BY DEF BadgeInv
<1>2. QED
  BY BadgeStarts, BadgeStep, <1>1, PTL DEF NoticesSpec

\* No update of the badge is lost: a stream that waits and has nothing to wake
\* it shows the number of unread notifications (notifications.py:99-131,
\* stream.py:9-37).
THEOREM BadgeIsCurrent == NoticesSpec => []BadgeCurrent
<1>1. BadgeInv => BadgeCurrent
  BY DEF BadgeInv
<1>2. QED
  BY BadgeStarts, BadgeStep, <1>1, PTL DEF NoticesSpec

-----------------------------------------------------------------------------
(***************************************************************************)
(* Reactions.  A counter is the number of the rows, kept or departed, that *)
(* count for it.  What a request writes is computed from what it loaded;   *)
(* the invariant says that this is still true of every counter on which no *)
(* other request has overlapped.                                           *)
(***************************************************************************)

Everything == marked \cup departed
Behind(S, c) == {r \in S : c \in CountersOf(r)}

Concerns(u, r) == Actor(r) = u \/ Target(r) = u

\* A request for a like, a follow or a vote knows its row and the numbers.
CarrySound(r) ==
  r.stage # "idle" /\ r.user = None =>
    /\ r.row \in Relations
    /\ r.had \/ r.stage = "look" => Kind(r.row) # "vote"
    /\ \A c \in CountersOf(r.row) \ racedMarks :
         /\ r.seen[c] = marks[c]
         /\ r.had /\ (Kind(r.row) = "like" => Target(r.row) \in contents) => r.row \in marked

\* The deletion of an account knows the follow relations of the account.
LeaveSound(r) ==
  r.stage # "idle" /\ r.user # None =>
    /\ r.stage = "write"
    /\ \A x \in r.met : Concerns(r.user, x)
    /\ \A x \in Follows :
         Concerns(r.user, x) /\ OtherSide(r.user, x) \notin racedMarks =>
           (x \in r.met <=> x \in marked)

CallsSound ==
  \A q \in Requests :
    /\ CarrySound(marking[q]) /\ LeaveSound(marking[q])
    /\ marking[q].stage = "idle" => marking[q].user = None

\* Two requests that may write one counter are known to race for it.
OverlapsKnown ==
  \A p, q \in Requests :
    p # q => Touches(marking[p]) \cap Touches(marking[q]) \subseteq racedMarks

DepartedGone == \A r \in departed : Actor(r) \notin users

Finite == IsFiniteSet(marked) /\ IsFiniteSet(departed)

MarkingInv == /\ ReactionsTypeOK /\ CallsSound /\ OverlapsKnown
              /\ DepartedGone /\ Finite /\ MarksExact

ReactionCalls == [stage : {"idle", "look", "write"}, row : Relations \cup {None},
                  had : BOOLEAN, user : Users \cup {None},
                  met : SUBSET Follows, seen : [Counters -> Nat]]

LEMMA RelationParts ==
  ASSUME NEW r \in Relations
  PROVE  /\ Kind(r) \in {"like", "follow", "vote"} /\ Actor(r) \in Users
         /\ Kind(r) = "like" => Target(r) \in Contents
         /\ Kind(r) = "follow" => Target(r) \in Users /\ Target(r) # Actor(r)
         /\ Kind(r) = "vote" => Target(r) \in Options
         /\ Kind(r) = "follow" <=> r \in Follows
         /\ Kind(r) = "vote" <=> r \in Votes
         /\ r = <<Kind(r), Actor(r), Target(r)>>
BY DEF Relations, Likes, Follows, Votes, Kind, Actor, Target

LEMMA CountersOfRelation ==
  ASSUME NEW r \in Relations
  PROVE  /\ CountersOf(r) \in SUBSET Counters
         /\ Kind(r) = "like" => CountersOf(r) = {<<"likes", Target(r)>>}
         /\ Kind(r) = "vote" => CountersOf(r) = {<<"votes", Target(r)>>}
         /\ Kind(r) = "follow" =>
              CountersOf(r) = {<<"followers", Target(r)>>, <<"following", Actor(r)>>}
<1>1. /\ Kind(r) = "like" => CountersOf(r) = {<<"likes", Target(r)>>}
      /\ Kind(r) = "vote" => CountersOf(r) = {<<"votes", Target(r)>>}
      /\ Kind(r) = "follow" =>
           CountersOf(r) = {<<"followers", Target(r)>>, <<"following", Actor(r)>>}
  BY DEF CountersOf
<1>2. QED
  BY <1>1, RelationParts DEF Counters

LEMMA CounterParts ==
  ASSUME NEW c \in Counters
  PROVE  /\ c[1] \in {"likes", "votes", "followers", "following"}
         /\ c = <<c[1], c[2]>>
BY DEF Counters

\* The list behind a counter is what is kept of the rows that count for it.
LEMMA ListedBehind ==
  ASSUME marked \subseteq Relations, departed \subseteq Votes, NEW c \in Counters
  PROVE  Listed(c) = Behind(Everything, c)
<1>1. Votes \subseteq Relations
  BY DEF Relations
<1>2. \A r \in Everything : r \in Relations /\ (r \in marked \/ Kind(r) = "vote")
  BY <1>1, RelationParts DEF Everything
<1>3. /\ c[1] \in {"likes", "votes", "followers", "following"}
      /\ c = <<c[1], c[2]>>
  BY CounterParts
<1>4. \A r \in Relations :
        c \in CountersOf(r) <=>
          \/ Kind(r) = "like" /\ c[1] = "likes" /\ c[2] = Target(r)
          \/ Kind(r) = "vote" /\ c[1] = "votes" /\ c[2] = Target(r)
          \/ Kind(r) = "follow" /\ c[1] = "followers" /\ c[2] = Target(r)
          \/ Kind(r) = "follow" /\ c[1] = "following" /\ c[2] = Actor(r)
  <2>1. SUFFICES ASSUME NEW r \in Relations
                 PROVE  c \in CountersOf(r) <=>
                          \/ Kind(r) = "like" /\ c[1] = "likes" /\ c[2] = Target(r)
                          \/ Kind(r) = "vote" /\ c[1] = "votes" /\ c[2] = Target(r)
                          \/ Kind(r) = "follow" /\ c[1] = "followers" /\ c[2] = Target(r)
                          \/ Kind(r) = "follow" /\ c[1] = "following" /\ c[2] = Actor(r)
    OBVIOUS
  <2>2. QED
    BY <1>3, CountersOfRelation, RelationParts
<1>5. /\ c[1] = "likes" => Listed(c) = Likers(c[2])
      /\ c[1] = "votes" => Listed(c) = Voters(c[2])
      /\ c[1] = "followers" => Listed(c) = Followers(c[2])
      /\ c[1] = "following" => Listed(c) = Following(c[2])
  BY DEF Listed
<1>6. CASE c[1] = "likes"
  BY <1>2, <1>4, <1>5, <1>6 DEF Likers, Behind, Everything
<1>7. CASE c[1] = "votes"
  BY <1>2, <1>4, <1>5, <1>7 DEF Voters, Behind, Everything
<1>8. CASE c[1] = "followers"
  BY <1>2, <1>4, <1>5, <1>8 DEF Followers, Behind, Everything
<1>9. CASE c[1] = "following"
  BY <1>2, <1>4, <1>5, <1>9 DEF Following, Behind, Everything
<1>10. QED
  BY <1>3, <1>6, <1>7, <1>8, <1>9

LEMMA ListedNext ==
  ASSUME NEW c \in Counters
  PROVE  (marked \subseteq Relations /\ departed \subseteq Votes)' =>
           Listed(c)' = Behind(Everything', c)
<1>1. (marked \subseteq Relations /\ departed \subseteq Votes) => Listed(c) = Behind(Everything, c)
  BY ListedBehind
<1>2. (marked \subseteq Relations /\ departed \subseteq Votes => Listed(c) = Behind(Everything, c))'
  BY <1>1, PTL
<1>3. QED
  BY <1>2 DEF Behind, CountersOf, Kind, Actor, Target

\* The counters a request may write are those of its row, or all of the follow
\* relations.
LEMMA TouchesOf ==
  ASSUME NEW r
  PROVE  /\ r.stage # "idle" /\ r.user = None => Touches(r) = CountersOf(r.row)
         /\ r.stage # "idle" /\ r.user # None => Touches(r) = {"followers", "following"} \X Users
         /\ r.stage = "idle" /\ r.user = None => Touches(r) = {}
<1>1. CASE r.stage = "idle" /\ r.user = None
  BY <1>1 DEF Touches
<1>2. CASE r.stage # "idle" /\ r.user = None
  BY <1>2 DEF Touches
<1>3. CASE r.stage # "idle" /\ r.user # None
  BY <1>3 DEF Touches
<1>4. QED
  BY <1>1, <1>2, <1>3

LEMMA ReactionsTyped ==
  ASSUME ReactionsTypeOK
  PROVE  /\ marking \in [Requests -> ReactionCalls]
         /\ marks \in [Counters -> Nat] /\ racedMarks \in SUBSET Counters
         /\ marked \subseteq Relations /\ departed \subseteq Votes
         /\ NoReaction \in ReactionCalls /\ NoReaction.stage = "idle" /\ NoReaction.user = None
         /\ CarrySound(NoReaction) /\ LeaveSound(NoReaction)
<1>1. [c \in Counters |-> 0] \in [Counters -> Nat]
  OBVIOUS
<1>2. NoReaction \in ReactionCalls /\ NoReaction.stage = "idle" /\ NoReaction.user = None
  BY <1>1 DEF NoReaction, ReactionCalls
<1>3. QED
  BY <1>2 DEF ReactionsTypeOK, ReactionCalls, CarrySound, LeaveSound

LEMMA MarkingStarts ==
  ASSUME ReactionsInit
  PROVE  MarkingInv
<1>1. ReactionsTypeOK
  <2>1. [c \in Counters |-> 0] \in [Counters -> Nat]
    OBVIOUS
  <2>2. NoReaction \in ReactionCalls
    BY <2>1 DEF NoReaction, ReactionCalls
  <2>3. QED
    BY <2>1, <2>2 DEF ReactionsInit, ReactionsTypeOK, ReactionCalls
<1>2. CallsSound
  BY <1>1, ReactionsTyped DEF CallsSound, ReactionsInit
<1>3. OverlapsKnown
  <2>1. \A q \in Requests : Touches(marking[q]) = {}
    BY <1>1, ReactionsTyped, TouchesOf DEF ReactionsInit
  <2>2. QED
    BY <2>1 DEF OverlapsKnown
<1>4. Finite /\ DepartedGone
  BY FS_EmptySet DEF Finite, DepartedGone, ReactionsInit
<1>5. MarksExact
  <2>1. \A c \in Counters : Listed(c) = {}
    BY <1>1, ListedBehind DEF ReactionsTypeOK, ReactionsInit, Behind, Everything
  <2>2. QED
    BY <2>1, FS_EmptySet DEF MarksExact, ReactionsInit
<1>6. QED
  BY <1>1, <1>2, <1>3, <1>4, <1>5 DEF MarkingInv

\* A step that reads, or gives up, changes what is known of one request.
LEMMA ReadingKeeps ==
  ASSUME MarkingInv, UNCHANGED <<users, contents, marked, departed, marks>>,
         racedMarks \subseteq racedMarks', racedMarks' \in SUBSET Counters,
         NEW q \in Requests, NEW new \in ReactionCalls,
         marking' = [marking EXCEPT ![q] = new],
         CarrySound(new)', LeaveSound(new)', new.stage = "idle" => new.user = None,
         \A o \in Requests \ {q} : Touches(new) \cap Touches(marking[o]) \subseteq racedMarks'
  PROVE  MarkingInv'
<1> USE DEF MarkingInv
<1>1. marking \in [Requests -> ReactionCalls]
  BY ReactionsTyped
<1>2. /\ marking'[q] = new
      /\ \A p \in Requests : p # q => marking'[p] = marking[p]
  BY <1>1
<1>3. ReactionsTypeOK'
  BY DEF ReactionsTypeOK, ReactionCalls
<1>4. CallsSound'
  <2>1. SUFFICES ASSUME NEW p \in Requests, p # q
                 PROVE  CarrySound(marking[p])' /\ LeaveSound(marking[p])'
                        /\ (marking'[p].stage = "idle" => marking'[p].user = None)
    BY <1>2 DEF CallsSound
  <2>2. CarrySound(marking[p]) /\ LeaveSound(marking[p]) /\ marking'[p] = marking[p]
        /\ (marking[p].stage = "idle" => marking[p].user = None)
    BY <2>1, <1>2 DEF CallsSound
  <2>3. CarrySound(marking[p])'
    BY <2>2 DEF CarrySound
  <2>4. LeaveSound(marking[p])'
    BY <2>2 DEF LeaveSound
  <2>5. QED
    BY <2>2, <2>3, <2>4
<1>5. OverlapsKnown'
  BY <1>2 DEF OverlapsKnown
<1>6. DepartedGone' /\ Finite'
  BY DEF DepartedGone, Finite
<1>7. MarksExact'
  BY DEF MarksExact, Lasts, Listed, Likers, Voters, Followers, Following
<1>8. QED
  BY <1>3, <1>4, <1>5, <1>6, <1>7

LEMMA StartKeeps ==
  ASSUME MarkingInv, NEW q \in Requests, NEW new \in ReactionCalls, Starts(q, new),
         CarrySound(new), LeaveSound(new), new.stage # "idle"
  PROVE  MarkingInv'
<1>1. /\ marking' = [marking EXCEPT ![q] = new]
      /\ racedMarks' = racedMarks
           \cup UNION {Touches(new) \cap Touches(marking[o]) : o \in Requests \ {q}}
      /\ UNCHANGED <<users, contents, marked, departed, marks>>
  BY DEF Starts
<1>2. Touches(new) \subseteq Counters
  <2>1. CASE new.user = None
    BY <2>1, TouchesOf, CountersOfRelation DEF CarrySound
  <2>2. CASE new.user # None
    BY <2>2, TouchesOf DEF Counters
  <2>3. QED
    BY <2>1, <2>2
<1>3. racedMarks \subseteq racedMarks' /\ racedMarks' \in SUBSET Counters
  BY <1>1, <1>2, ReactionsTyped DEF MarkingInv
<1>4. CarrySound(new)'
  BY <1>1, <1>3 DEF CarrySound
<1>5. LeaveSound(new)'
  BY <1>1, <1>3 DEF LeaveSound
<1>6. \A o \in Requests \ {q} : Touches(new) \cap Touches(marking[o]) \subseteq racedMarks'
  BY <1>1
<1>7. QED
  BY <1>1, <1>3, <1>4, <1>5, <1>6, ReadingKeeps

\* A like, a follow or a vote begins.
LEMMA LoadKeeps ==
  ASSUME MarkingInv, NEW q \in Requests, NEW r \in Relations, NEW stage \in {"look", "write"},
         Load(q, r, stage), stage = "look" => Kind(r) # "vote"
  PROVE  MarkingInv'
<1> DEFINE numbers == [c \in Counters |-> IF c \in CountersOf(r) THEN marks[c] ELSE 0]
           new == [NoReaction EXCEPT !.stage = stage, !.row = r, !.seen = numbers]
<1>1. Starts(q, new)
  BY DEF Load
<1>2. numbers \in [Counters -> Nat] /\ \A c \in CountersOf(r) : numbers[c] = marks[c]
  BY ReactionsTyped, CountersOfRelation DEF MarkingInv
<1> HIDE DEF numbers
<1>3. /\ new \in ReactionCalls /\ new.stage = stage /\ new.row = r /\ new.seen = numbers
      /\ new.user = None /\ new.had = FALSE
  BY <1>2 DEF NoReaction, ReactionCalls
<1> HIDE DEF new
<1>4. CarrySound(new)
  BY <1>2, <1>3 DEF CarrySound
<1>5. LeaveSound(new)
  BY <1>3 DEF LeaveSound
<1>6. QED
  BY <1>1, <1>3, <1>4, <1>5, StartKeeps

\* The deletion of an account begins.
LEMMA ReadUserKeeps ==
  ASSUME MarkingInv, NEW q \in Requests, NEW u \in Users, ReadUserMarks(q, u)
  PROVE  MarkingInv'
<1> DEFINE rows == {r \in RowsOf(u) : Kind(r) = "follow"}
           new == [NoReaction EXCEPT !.stage = "write", !.user = u, !.met = rows]
<1>1. Starts(q, new)
  BY DEF ReadUserMarks
<1>2. rows \in SUBSET Follows /\ \A r \in rows : Concerns(u, r)
  BY ReactionsTyped, RelationParts DEF MarkingInv, RowsOf, Concerns
<1>3. \A x \in Follows : Concerns(u, x) => (x \in rows <=> x \in marked)
  <2>1. \A x \in Follows : Kind(x) = "follow"
    BY RelationParts DEF Relations
  <2>2. QED
    BY <2>1 DEF RowsOf, Concerns
<1> HIDE DEF rows
<1>4. NoReaction \in ReactionCalls
  BY ReactionsTyped DEF MarkingInv
<1>5. /\ new \in ReactionCalls /\ new.stage = "write" /\ new.met = rows
      /\ new.user = u
  BY <1>2, <1>4 DEF ReactionCalls
<1> HIDE DEF new
<1>6. u # None
  BY PlatformAssumption
<1>7. CarrySound(new) /\ LeaveSound(new)
  BY <1>2, <1>3, <1>5, <1>6 DEF CarrySound, LeaveSound
<1>8. QED
  BY <1>1, <1>5, <1>7, StartKeeps

LEMMA LookUpKeeps ==
  ASSUME MarkingInv, NEW q \in Requests, LookUp(q)
  PROVE  MarkingInv'
<1>1. PICK old \in ReactionCalls :
        /\ old = marking[q] /\ old.stage = "look"
        /\ CarrySound(old) /\ LeaveSound(old)
        /\ \A o \in Requests \ {q} : Touches(old) \cap Touches(marking[o]) \subseteq racedMarks
  BY ReactionsTyped DEF MarkingInv, CallsSound, OverlapsKnown, LookUp
<1>2. PICK new \in ReactionCalls : new = [old EXCEPT !.stage = "write", !.had = old.row \in marked]
  <2>1. (old.row \in marked) \in BOOLEAN
    OBVIOUS
  <2>2. \A b \in BOOLEAN : [old EXCEPT !.stage = "write", !.had = b] \in ReactionCalls
    BY DEF ReactionCalls
  <2>3. QED
    BY <2>1, <2>2, Zenon
<1>3. /\ marking' = [marking EXCEPT ![q] = new]
      /\ UNCHANGED <<users, contents, marked, departed, marks, racedMarks>>
  <2>1. marking' = [marking EXCEPT ![q].stage = "write", ![q].had = marking[q].row \in marked]
    BY DEF LookUp
  <2>2. marking \in [Requests -> ReactionCalls]
    BY ReactionsTyped DEF MarkingInv
  <2>3. QED
    BY <2>1, <2>2, <1>1, <1>2 DEF LookUp, ReactionCalls
<1>4. /\ new.stage = "write" /\ new.row = old.row
      /\ new.seen = old.seen /\ new.user = old.user /\ new.had = (old.row \in marked)
  BY <1>2 DEF ReactionCalls
<1>5. old.user = None
  BY <1>1 DEF LeaveSound
<1>6. Touches(new) = Touches(old)
  BY <1>1, <1>4, <1>5, TouchesOf
<1>7. CarrySound(new)' /\ LeaveSound(new)'
  BY <1>1, <1>3, <1>4, <1>5 DEF CarrySound, LeaveSound
<1>8. racedMarks \in SUBSET Counters
  BY ReactionsTyped DEF MarkingInv
<1>9. QED
  BY <1>1, <1>3, <1>4, <1>5, <1>6, <1>7, <1>8, ReadingKeeps

LEMMA RollBackKeeps ==
  ASSUME MarkingInv, NEW q \in Requests, RollBackReaction(q)
  PROVE  MarkingInv'
<1>1. /\ marking' = [marking EXCEPT ![q] = NoReaction]
      /\ UNCHANGED <<users, contents, marked, departed, marks, racedMarks>>
  BY DEF RollBackReaction
<1>2. CarrySound(NoReaction)' /\ LeaveSound(NoReaction)'
  BY ReactionsTyped DEF MarkingInv, CarrySound, LeaveSound
<1>3. Touches(NoReaction) = {}
  BY ReactionsTyped, TouchesOf DEF MarkingInv
<1>4. QED
  BY <1>1, <1>2, <1>3, ReactionsTyped, ReadingKeeps DEF MarkingInv

\* A request that writes, or an account that goes: what is left of the request
\* is nothing, and the rows are finitely many.
LEMMA AnsweredRequest ==
  ASSUME MarkingInv, NEW q \in Requests, marking' = [marking EXCEPT ![q] = NoReaction],
         racedMarks' = racedMarks
  PROVE  /\ OverlapsKnown'
         /\ \A p \in Requests : p # q => marking'[p] = marking[p]
         /\ (\A p \in Requests \ {q} : CarrySound(marking[p])' /\ LeaveSound(marking[p])')
              => CallsSound'
<1>1. marking \in [Requests -> ReactionCalls] /\ NoReaction.stage = "idle" /\ NoReaction.user = None
  BY ReactionsTyped DEF MarkingInv
<1>2. marking'[q] = NoReaction /\ \A p \in Requests : p # q => marking'[p] = marking[p]
  BY <1>1
<1>3. Touches(NoReaction) = {}
  BY <1>1, TouchesOf
<1>4. CarrySound(NoReaction)' /\ LeaveSound(NoReaction)'
  BY <1>1 DEF CarrySound, LeaveSound
<1>5. OverlapsKnown'
  BY <1>2, <1>3 DEF MarkingInv, OverlapsKnown
<1>6. ASSUME \A p \in Requests \ {q} : CarrySound(marking[p])' /\ LeaveSound(marking[p])'
      PROVE  CallsSound'
  <2>1. CarrySound(marking[q])' /\ LeaveSound(marking[q])'
    BY <1>2, <1>4 DEF CarrySound, LeaveSound
  <2>2. \A p \in Requests : marking'[p].stage = "idle" => marking'[p].user = None
    BY <1>1, <1>2 DEF MarkingInv, CallsSound
  <2>3. QED
    BY <1>6, <2>1, <2>2 DEF CallsSound
<1>7. QED
  BY <1>2, <1>5, <1>6

LEMMA BehindGrows ==
  ASSUME NEW S, IsFiniteSet(S), NEW r, r \notin S, NEW c
  PROVE  Cardinality(Behind(S \cup {r}, c)) =
           IF c \in CountersOf(r) THEN Cardinality(Behind(S, c)) + 1
                                  ELSE Cardinality(Behind(S, c))
<1>1. IsFiniteSet(Behind(S, c)) /\ r \notin Behind(S, c)
  BY FS_Subset DEF Behind
<1>2. CASE c \in CountersOf(r)
  <2>1. Behind(S \cup {r}, c) = Behind(S, c) \cup {r}
    BY <1>2 DEF Behind
  <2>2. QED
    BY <1>1, <1>2, <2>1, FS_AddElement
<1>3. CASE c \notin CountersOf(r)
  <2>1. Behind(S \cup {r}, c) = Behind(S, c)
    BY <1>3 DEF Behind
  <2>2. QED
    BY <1>3, <2>1
<1>4. QED
  BY <1>2, <1>3

LEMMA BehindShrinks ==
  ASSUME NEW S, IsFiniteSet(S), NEW r \in S, NEW c
  PROVE  Cardinality(Behind(S \ {r}, c)) =
           IF c \in CountersOf(r) THEN Cardinality(Behind(S, c)) - 1
                                  ELSE Cardinality(Behind(S, c))
<1>1. IsFiniteSet(Behind(S, c)) /\ (c \in CountersOf(r) => r \in Behind(S, c))
  BY FS_Subset DEF Behind
<1>2. CASE c \in CountersOf(r)
  <2>1. Behind(S \ {r}, c) = Behind(S, c) \ {r}
    BY <1>2 DEF Behind
  <2>2. QED
    BY <1>1, <1>2, <2>1, FS_RemoveElement
<1>3. CASE c \notin CountersOf(r)
  <2>1. Behind(S \ {r}, c) = Behind(S, c)
    BY <1>3 DEF Behind
  <2>2. QED
    BY <1>3, <2>1
<1>4. QED
  BY <1>2, <1>3

\* MarksExact in terms of what is behind a counter.
LEMMA ExactBehind ==
  ASSUME MarkingInv, NEW c \in Counters \ racedMarks, Lasts(c)
  PROVE  marks[c] = Cardinality(Behind(Everything, c))
BY ListedBehind, ReactionsTyped DEF MarkingInv, MarksExact

LEMMA EverythingFinite ==
  ASSUME MarkingInv
  PROVE  IsFiniteSet(Everything) /\ \A c : IsFiniteSet(Behind(Everything, c))
<1>1. IsFiniteSet(Everything)
  BY FS_Union DEF MarkingInv, Finite, Everything
<1>2. \A c : Behind(Everything, c) \in SUBSET Everything
  BY DEF Behind
<1>3. QED
  BY <1>1, <1>2, FS_Subset

\* The row of a request that writes: it is behind its counters afterwards, or
\* no more, and each that no other request raced for is one off.
LEMMA WriteKeeps ==
  ASSUME MarkingInv, NEW q \in Requests, Write(q)
  PROVE  MarkingInv'
<1>1. PICK r \in ReactionCalls :
        /\ r = marking[q] /\ r.stage = "write" /\ r.user = None
        /\ CarrySound(r)
        /\ \A o \in Requests \ {q} : Touches(r) \cap Touches(marking[o]) \subseteq racedMarks
  BY ReactionsTyped DEF MarkingInv, CallsSound, OverlapsKnown, Write
<1>2. PICK x \in Relations : x = r.row
  BY <1>1 DEF CarrySound
<1>3. /\ Present(x) /\ (r.had \/ ~Clashes(x))
      /\ marked' = IF r.had THEN marked \ {x} ELSE marked \cup {x}
      /\ marks' = [c \in Counters |->
                     IF c \in CountersOf(x) /\ Counted(c, r, r.had) # r.seen[c]
                     THEN Counted(c, r, r.had) ELSE marks[c]]
      /\ marking' = [marking EXCEPT ![q] = NoReaction]
      /\ UNCHANGED <<users, contents, departed, racedMarks>>
  BY <1>1, <1>2 DEF Write
<1>4. /\ marks \in [Counters -> Nat] /\ racedMarks \in SUBSET Counters
      /\ marked \subseteq Relations /\ departed \subseteq Votes
      /\ NoReaction \in ReactionCalls /\ r.seen \in [Counters -> Nat] /\ r.had \in BOOLEAN
  BY ReactionsTyped DEF MarkingInv, ReactionCalls
<1>5. \A c \in Counters : Counted(c, r, r.had) \in Nat
  BY <1>4 DEF Counted, OneLess
<1>6. ReactionsTypeOK'
  <2>1. marks' \in [Counters -> Nat]
    BY <1>3, <1>4, <1>5
  <2>2. marked' \subseteq Relations
    BY <1>3, <1>4
  <2>3. marking' \in [Requests -> ReactionCalls]
    BY <1>3, <1>4, ReactionsTyped DEF MarkingInv
  <2>4. QED
    BY <1>3, <2>1, <2>2, <2>3 DEF MarkingInv, ReactionsTypeOK, ReactionCalls
<1>7. CountersOf(x) \in SUBSET Counters
  BY CountersOfRelation
<1>8. x \notin departed
  <2>1. Actor(x) \in users
    BY <1>3 DEF Present
  <2>2. QED
    BY <2>1 DEF MarkingInv, DepartedGone
<1>9. ~r.had => x \notin Everything
  <2>1. Kind(x) = "vote" => x = <<"vote", Actor(x), Target(x)>> /\ Target(x) \in Options
    BY RelationParts
  <2>2. ~r.had => x \notin marked
    BY <1>3, <2>1 DEF Clashes
  <2>3. QED
    BY <2>2, <1>8 DEF Everything
<1>10. ASSUME NEW c \in CountersOf(x) \ racedMarks
       PROVE  /\ r.seen[c] = marks[c]
              /\ r.had => x \in Everything
  <2>1. Kind(x) = "like" => Target(x) \in contents
    BY <1>3 DEF Present
  <2>2. QED
    BY <1>1, <1>2, <2>1 DEF CarrySound, Everything
<1>11. Everything' = IF r.had THEN Everything \ {x} ELSE Everything \cup {x}
  BY <1>3, <1>8 DEF Everything
<1>12. MarksExact'
  <2> SUFFICES ASSUME NEW c \in Counters \ racedMarks, Lasts(c)
               PROVE  marks'[c] = Cardinality(Behind(Everything', c))
    <3>1. \A c \in Counters : Listed(c)' = Behind(Everything', c)
      BY <1>6, ListedNext DEF ReactionsTypeOK
    <3>2. QED
      BY <3>1, <1>3 DEF MarksExact, Lasts
  <2>1. marks[c] = Cardinality(Behind(Everything, c)) /\ Cardinality(Behind(Everything, c)) \in Nat
    BY ExactBehind, EverythingFinite, FS_CardinalityType
  <2>2. CASE c \notin CountersOf(x)
    <3>1. marks'[c] = marks[c]
      BY <1>3, <2>2
    <3>2. Behind(Everything', c) = Behind(Everything, c)
      BY <1>11, <2>2 DEF Behind
    <3>3. QED
      BY <3>1, <3>2, <2>1
  <2>3. CASE c \in CountersOf(x) /\ r.had
    <3>1. marks'[c] = OneLess(marks[c])
      BY <1>3, <1>10, <2>3 DEF Counted
    <3>2. Cardinality(Behind(Everything', c)) = Cardinality(Behind(Everything, c)) - 1
      BY <1>10, <1>11, <2>3, BehindShrinks, EverythingFinite
    <3>3. IsFiniteSet(Behind(Everything', c))
      BY <1>11, <2>3, EverythingFinite, FS_Subset DEF Behind
    <3>4. Cardinality(Behind(Everything', c)) \in Nat
      BY <3>3, FS_CardinalityType
    <3>5. QED
      BY <3>1, <3>2, <3>4, <2>1 DEF OneLess
  <2>4. CASE c \in CountersOf(x) /\ ~r.had
    <3>1. marks'[c] = marks[c] + 1
      BY <1>3, <1>10, <2>4, <1>4 DEF Counted
    <3>2. Cardinality(Behind(Everything', c)) = Cardinality(Behind(Everything, c)) + 1
      BY <1>9, <1>11, <2>4, BehindGrows, EverythingFinite
    <3>3. QED
      BY <3>1, <3>2, <2>1
  <2>5. QED
    BY <2>2, <2>3, <2>4
<1>13. CallsSound' /\ OverlapsKnown'
  <2>1. SUFFICES ASSUME NEW p \in Requests, p # q
                 PROVE  CarrySound(marking[p])' /\ LeaveSound(marking[p])'
    BY <1>3, AnsweredRequest
  <2>2. /\ marking'[p] = marking[p]
        /\ CarrySound(marking[p]) /\ LeaveSound(marking[p])
        /\ Touches(r) \cap Touches(marking[p]) \subseteq racedMarks
    BY <1>1, <1>3, <2>1, AnsweredRequest DEF MarkingInv, CallsSound
  <2>3. Touches(r) = CountersOf(x)
    BY <1>1, <1>2, TouchesOf
  <2>4. CarrySound(marking[p])'
    <3>1. SUFFICES ASSUME marking[p].stage # "idle", marking[p].user = None,
                          NEW c \in CountersOf(marking[p].row) \ racedMarks
                   PROVE  /\ marks'[c] = marks[c]
                          /\ marking[p].row \in marked => marking[p].row \in marked'
      BY <2>2, <1>3 DEF CarrySound
    <3>2. c \notin CountersOf(x) /\ c \in Counters
      BY <3>1, <2>2, <2>3, TouchesOf, CountersOfRelation DEF CarrySound
    <3>3. QED
      BY <3>2, <1>3
  <2>5. LeaveSound(marking[p])'
    <3>1. SUFFICES ASSUME marking[p].stage # "idle", marking[p].user # None,
                          NEW y \in Follows, Concerns(marking[p].user, y),
                          OtherSide(marking[p].user, y) \notin racedMarks
                   PROVE  y \in marked' <=> y \in marked
      BY <2>2, <1>3 DEF LeaveSound
    <3>2. Touches(marking[p]) = {"followers", "following"} \X Users
      BY <3>1, TouchesOf
    <3>3. OtherSide(marking[p].user, y) \in CountersOf(y) \cap ({"followers", "following"} \X Users)
      <4>1. y \in Relations /\ Kind(y) = "follow"
        BY RelationParts DEF Relations
      <4>2. QED
        BY <4>1, <3>1, RelationParts, CountersOfRelation DEF OtherSide, Concerns
    <3>4. y # x
      BY <3>1, <3>2, <3>3, <2>2, <2>3
    <3>5. QED
      BY <3>4, <1>3
  <2>6. QED
    BY <2>4, <2>5
<1>14. Finite'
  BY <1>3, FS_AddElement, FS_RemoveElement DEF MarkingInv, Finite
<1>15. DepartedGone'
  BY <1>3 DEF MarkingInv, DepartedGone
<1>16. QED
  BY <1>6, <1>12, <1>13, <1>14, <1>15 DEF MarkingInv

LEMMA OtherSideOf ==
  ASSUME NEW u, NEW r \in Follows, Concerns(u, r)
  PROVE  /\ Actor(r) = u => OtherSide(u, r) = <<"followers", Target(r)>>
         /\ Actor(r) # u => Target(r) = u /\ OtherSide(u, r) = <<"following", Actor(r)>>
         /\ OtherSide(u, r) \in CountersOf(r) /\ OtherSide(u, r) \in Counters
         /\ \A c \in CountersOf(r) : c[2] # u => c = OtherSide(u, r)
<1>1. r \in Relations /\ Kind(r) = "follow"
  BY RelationParts DEF Relations
<1>2. CountersOf(r) = {<<"followers", Target(r)>>, <<"following", Actor(r)>>}
      /\ CountersOf(r) \in SUBSET Counters
  BY <1>1, CountersOfRelation
<1>3. /\ Actor(r) = u => OtherSide(u, r) = <<"followers", Target(r)>>
      /\ Actor(r) # u => Target(r) = u /\ OtherSide(u, r) = <<"following", Actor(r)>>
  BY DEF OtherSide, Concerns
<1>4. \A c \in CountersOf(r) : c[2] # u => c = OtherSide(u, r)
  BY <1>2, <1>3
<1>5. QED
  BY <1>2, <1>3, <1>4

\* A follow relation of an account is known by its other side.
LEMMA OtherSideKnown ==
  ASSUME NEW u, NEW r \in Follows, NEW s \in Follows, Concerns(u, r), Concerns(u, s),
         OtherSide(u, r) = OtherSide(u, s)
  PROVE  r = s
<1>1. /\ r = <<"follow", Actor(r), Target(r)>> /\ s = <<"follow", Actor(s), Target(s)>>
  BY RelationParts DEF Relations
<1>2. Actor(r) = Actor(s) /\ Target(r) = Target(s)
  BY OtherSideOf
<1>3. QED
  BY <1>1, <1>2

\* The rows of an account that goes leave a counter of another account by the
\* one relation between them, if there is one: the one the request has met.
LEMMA DeleteUserKeeps ==
  ASSUME MarkingInv, NEW q \in Requests, DeleteUserMarks(q)
  PROVE  MarkingInv'
<1>1. /\ marks \in [Counters -> Nat] /\ racedMarks \in SUBSET Counters
      /\ marked \subseteq Relations /\ departed \subseteq Votes
      /\ NoReaction \in ReactionCalls /\ marking \in [Requests -> ReactionCalls]
      /\ users \subseteq Users
  BY ReactionsTyped DEF MarkingInv, ReactionsTypeOK
<1>2. PICK r \in ReactionCalls, u \in Users :
        /\ r = marking[q] /\ r.stage = "write" /\ r.user = u /\ u \in users
        /\ CarrySound(r) /\ LeaveSound(r)
        /\ \A o \in Requests \ {q} : Touches(r) \cap Touches(marking[o]) \subseteq racedMarks
  BY <1>1 DEF MarkingInv, CallsSound, OverlapsKnown, DeleteUserMarks
<1>3. u # None
  BY PlatformAssumption
<1>4. /\ \A x \in RowsOf(u) : Kind(x) # "like"
      /\ marks' = [c \in Counters |-> IF c \in {OtherSide(u, x) : x \in r.met}
                                      THEN OneLess(marks[c]) ELSE marks[c]]
      /\ marked' = marked \ RowsOf(u)
      /\ departed' = departed \cup {x \in RowsOf(u) : Kind(x) = "vote"}
      /\ users' = users \ {u}
      /\ marking' = [marking EXCEPT ![q] = NoReaction]
      /\ UNCHANGED <<contents, racedMarks>>
  BY <1>2 DEF DeleteUserMarks
<1>5. /\ r.met \in SUBSET Follows /\ \A x \in r.met : Concerns(u, x)
      /\ \A x \in Follows : Concerns(u, x) /\ OtherSide(u, x) \notin racedMarks =>
                             (x \in r.met <=> x \in marked)
  BY <1>2, <1>3 DEF LeaveSound, ReactionCalls
<1>6. /\ RowsOf(u) \subseteq marked
      /\ \A x \in RowsOf(u) : /\ x \in Relations
                              /\ \/ x \in Follows /\ Concerns(u, x)
                                 \/ x \in Votes /\ Actor(x) = u
  <2>1. \A x \in RowsOf(u) : x \in marked /\ (Actor(x) = u \/ (Kind(x) = "follow" /\ Target(x) = u))
    BY DEF RowsOf
  <2>2. ASSUME NEW x \in RowsOf(u)
        PROVE  /\ x \in Relations
               /\ \/ x \in Follows /\ Concerns(u, x)
                  \/ x \in Votes /\ Actor(x) = u
    <3>1. x \in Relations /\ Kind(x) # "like"
      BY <1>1, <1>4, <2>1
    <3>2. /\ Kind(x) \in {"like", "follow", "vote"}
          /\ Kind(x) = "follow" <=> x \in Follows
          /\ Kind(x) = "vote" <=> x \in Votes
      BY <3>1, RelationParts
    <3>3. QED
      BY <2>1, <3>1, <3>2 DEF Concerns
  <2>3. QED
    BY <2>1, <2>2
<1>7. ReactionsTypeOK'
  <2>1. marks' \in [Counters -> Nat]
    <3>1. \A c \in Counters : OneLess(marks[c]) \in Nat
      BY <1>1 DEF OneLess
    <3>2. QED
      BY <1>1, <1>4, <3>1
  <2>2. marked' \subseteq Relations /\ users' \subseteq Users /\ contents' \subseteq Contents
        /\ racedMarks' \subseteq Counters
    BY <1>1, <1>4 DEF MarkingInv, ReactionsTypeOK
  <2>3. departed' \subseteq Votes
    BY <1>1, <1>4, <1>6, RelationParts
  <2>4. marking' \in [Requests -> ReactionCalls]
    BY <1>1, <1>4
  <2>5. QED
    BY <2>1, <2>2, <2>3, <2>4 DEF ReactionsTypeOK, ReactionCalls
<1>8. \A y : y \in Everything' <=> y \in Everything /\ ~(y \in Follows /\ y \in RowsOf(u))
  <2>1. \A x \in Follows : Kind(x) = "follow"
    BY RelationParts DEF Relations
  <2>2. \A x \in Votes : Kind(x) = "vote"
    BY RelationParts DEF Relations
  <2>3. QED
    BY <1>1, <1>4, <1>6, <2>1, <2>2 DEF Everything
<1>9. MarksExact'
  <2> SUFFICES ASSUME NEW c \in Counters \ racedMarks, Lasts(c)'
               PROVE  marks'[c] = Cardinality(Behind(Everything', c))
    <3>1. \A c \in Counters : Listed(c)' = Behind(Everything', c)
      BY <1>7, ListedNext DEF ReactionsTypeOK
    <3>2. QED
      BY <3>1, <1>4 DEF MarksExact, Lasts
  <2>1. Lasts(c)
    BY <1>4 DEF Lasts
  <2>2. marks[c] = Cardinality(Behind(Everything, c)) /\ Cardinality(Behind(Everything, c)) \in Nat
    BY <2>1, ExactBehind, EverythingFinite, FS_CardinalityType
  <2>3. c[1] \in {"followers", "following"} => c[2] # u
    BY <1>4 DEF Lasts
  <2>4. \A y \in Follows : y \in RowsOf(u) /\ c \in CountersOf(y) => c = OtherSide(u, y)
    <3>1. SUFFICES ASSUME NEW y \in Follows, y \in RowsOf(u), c \in CountersOf(y)
                   PROVE  c = OtherSide(u, y)
      OBVIOUS
    <3>2. Concerns(u, y)
      BY <3>1 DEF RowsOf, Concerns
    <3>3. c[1] \in {"followers", "following"}
      BY <3>1, RelationParts, CountersOfRelation DEF Relations
    <3>4. QED
      BY <3>1, <3>2, <3>3, <2>3, OtherSideOf
  <2>5. ASSUME NEW x \in r.met, c = OtherSide(u, x)
        PROVE  marks'[c] = Cardinality(Behind(Everything', c))
    <3>1. x \in Follows /\ Concerns(u, x) /\ x \in marked
      BY <1>5, <2>5
    <3>2. x \in RowsOf(u) /\ c \in CountersOf(x) /\ x \in Everything
      BY <3>1, <2>5, OtherSideOf, RelationParts DEF RowsOf, Concerns, Everything, Relations
    <3>3. Behind(Everything', c) = Behind(Everything, c) \ {x}
      <4>1. \A y \in Follows : y \in RowsOf(u) /\ c \in CountersOf(y) => y = x
        <5>1. SUFFICES ASSUME NEW y \in Follows, y \in RowsOf(u), c \in CountersOf(y)
                       PROVE  y = x
          OBVIOUS
        <5>2. Concerns(u, y) /\ c = OtherSide(u, y)
          BY <5>1, <2>4 DEF RowsOf, Concerns
        <5>3. QED
          BY <5>2, <3>1, <2>5, OtherSideKnown
      <4>2. QED
        BY <1>8, <3>1, <3>2, <4>1 DEF Behind
    <3>4. x \in Behind(Everything, c)
      BY <3>2 DEF Behind
    <3>5. /\ Cardinality(Behind(Everything', c)) = Cardinality(Behind(Everything, c)) - 1
          /\ Cardinality(Behind(Everything', c)) \in Nat
      BY <3>3, <3>4, EverythingFinite, FS_RemoveElement, FS_CardinalityType
    <3>6. marks'[c] = OneLess(marks[c])
      BY <1>4, <2>5
    <3>7. QED
      BY <3>5, <3>6, <2>2 DEF OneLess
  <2>6. ASSUME \A x \in r.met : c # OtherSide(u, x)
        PROVE  marks'[c] = Cardinality(Behind(Everything', c))
    <3>1. \A y \in Follows : y \in RowsOf(u) => c \notin CountersOf(y)
      <4>1. SUFFICES ASSUME NEW y \in Follows, y \in RowsOf(u), c \in CountersOf(y)
                     PROVE  FALSE
        OBVIOUS
      <4>2. c = OtherSide(u, y) /\ Concerns(u, y) /\ y \in marked
        BY <4>1, <2>4 DEF RowsOf, Concerns
      <4>3. QED
        BY <4>1, <4>2, <1>5, <2>6
    <3>2. Behind(Everything', c) = Behind(Everything, c)
      BY <1>8, <3>1 DEF Behind
    <3>3. marks'[c] = marks[c]
      BY <1>4, <2>6
    <3>4. QED
      BY <3>2, <3>3, <2>2
  <2>7. QED
    BY <2>5, <2>6
<1>10. CallsSound' /\ OverlapsKnown'
  <2>1. SUFFICES ASSUME NEW p \in Requests, p # q
                 PROVE  CarrySound(marking[p])' /\ LeaveSound(marking[p])'
    BY <1>4, AnsweredRequest
  <2>2. /\ marking'[p] = marking[p]
        /\ CarrySound(marking[p]) /\ LeaveSound(marking[p])
        /\ Touches(r) \cap Touches(marking[p]) \subseteq racedMarks
    BY <1>2, <1>4, <2>1, AnsweredRequest DEF MarkingInv, CallsSound
  <2>3. Touches(r) = {"followers", "following"} \X Users
    BY <1>2, <1>3, TouchesOf
  <2>4. CarrySound(marking[p])'
    <3>1. SUFFICES ASSUME marking[p].stage # "idle", marking[p].user = None,
                          NEW c \in CountersOf(marking[p].row) \ racedMarks
                   PROVE  /\ marks'[c] = marks[c]
                          /\ marking[p].had /\ marking[p].row \in marked => marking[p].row \in marked'
      BY <2>2, <1>4 DEF CarrySound
    <3>2. PICK x \in Relations : x = marking[p].row
      BY <3>1, <2>2 DEF CarrySound
    <3>3. c \notin {"followers", "following"} \X Users /\ c \in Counters
      BY <3>1, <3>2, <2>2, <2>3, TouchesOf, CountersOfRelation
    <3>4. Kind(x) # "follow"
      BY <3>1, <3>2, <3>3, CountersOfRelation, RelationParts
    <3>5. \A y \in r.met : OtherSide(u, y) \in {"followers", "following"} \X Users
      BY <1>5, OtherSideOf, RelationParts DEF Relations
    <3>6. marks'[c] = marks[c]
      BY <1>4, <3>3, <3>5
    <3>7. marking[p].had => x \notin RowsOf(u)
      BY <3>1, <3>2, <3>4, <2>2, <1>4, RelationParts DEF CarrySound
    <3>8. QED
      BY <3>2, <3>6, <3>7, <1>4
  <2>5. LeaveSound(marking[p])'
    <3>1. SUFFICES ASSUME marking[p].stage # "idle", marking[p].user # None,
                          NEW y \in Follows, Concerns(marking[p].user, y),
                          OtherSide(marking[p].user, y) \notin racedMarks
                   PROVE  FALSE
      BY <2>2, <1>4 DEF LeaveSound
    <3>2. Touches(marking[p]) = {"followers", "following"} \X Users
      BY <3>1, TouchesOf
    <3>3. OtherSide(marking[p].user, y) \in {"followers", "following"} \X Users
      BY <3>1, OtherSideOf, RelationParts DEF Relations
    <3>4. QED
      BY <3>1, <3>2, <3>3, <2>2, <2>3
  <2>6. QED
    BY <2>4, <2>5
<1>11. Finite'
  <2>1. RowsOf(u) \in SUBSET marked /\ {x \in RowsOf(u) : Kind(x) = "vote"} \in SUBSET marked
    BY <1>6
  <2>2. marked' \in SUBSET marked
    BY <1>4
  <2>3. QED
    BY <1>4, <2>1, <2>2, FS_Subset, FS_Union DEF MarkingInv, Finite
<1>12. DepartedGone'
  BY <1>4, <1>6, RelationParts DEF MarkingInv, DepartedGone
<1>13. QED
  BY <1>7, <1>9, <1>10, <1>11, <1>12 DEF MarkingInv

\* The likes of a content that goes count for nothing that lasts.
LEMMA DeleteContentKeeps ==
  ASSUME MarkingInv, NEW k \in Contents, DeleteContent(k)
  PROVE  MarkingInv'
<1>1. /\ contents' = contents \ {k}
      /\ marked' = {r \in marked : ~(Kind(r) = "like" /\ Target(r) = k)}
      /\ UNCHANGED <<users, departed, marks, marking, racedMarks>>
  BY DEF DeleteContent
<1>2. ReactionsTypeOK'
  BY <1>1 DEF MarkingInv, ReactionsTypeOK
<1>3. CallsSound'
  <2>1. SUFFICES ASSUME NEW p \in Requests
                 PROVE  CarrySound(marking[p])' /\ LeaveSound(marking[p])'
    BY <1>1 DEF MarkingInv, CallsSound
  <2>2. CarrySound(marking[p]) /\ LeaveSound(marking[p])
    BY DEF MarkingInv, CallsSound
  <2>3. CarrySound(marking[p])'
    BY <2>2, <1>1 DEF CarrySound
  <2>4. \A y \in Follows : Kind(y) = "follow"
    BY RelationParts DEF Relations
  <2>5. LeaveSound(marking[p])'
    BY <2>2, <2>4, <1>1 DEF LeaveSound
  <2>6. QED
    BY <2>3, <2>5
<1>4. OverlapsKnown' /\ DepartedGone'
  BY <1>1 DEF MarkingInv, OverlapsKnown, DepartedGone
<1>5. Finite'
  <2>1. marked' \in SUBSET marked
    BY <1>1
  <2>2. QED
    BY <1>1, <2>1, FS_Subset DEF MarkingInv, Finite
<1>6. MarksExact'
  <2> SUFFICES ASSUME NEW c \in Counters \ racedMarks, Lasts(c)'
               PROVE  marks[c] = Cardinality(Behind(Everything', c))
    <3>1. \A c \in Counters : Listed(c)' = Behind(Everything', c)
      BY <1>2, ListedNext DEF ReactionsTypeOK
    <3>2. QED
      BY <3>1, <1>1 DEF MarksExact, Lasts
  <2>1. Lasts(c)
    BY <1>1 DEF Lasts
  <2>2. c # <<"likes", k>>
    BY <1>1 DEF Lasts
  <2>3. \A r \in marked : Kind(r) = "like" /\ Target(r) = k => c \notin CountersOf(r)
    BY <2>2, CountersOfRelation, ReactionsTyped DEF MarkingInv
  <2>4. Behind(Everything', c) = Behind(Everything, c)
    BY <1>1, <2>3, RelationParts DEF MarkingInv, ReactionsTypeOK, Behind, Everything, Relations
  <2>5. QED
    BY <2>1, <2>4, ExactBehind
<1>7. QED
  BY <1>2, <1>3, <1>4, <1>5, <1>6 DEF MarkingInv

LEMMA MarkingStep ==
  ASSUME MarkingInv, [ReactionsNext]_reactionsVars
  PROVE  MarkingInv'
<1>1. ASSUME NEW q \in Requests, NEW u \in Users, NEW c \in Contents, LoadLike(q, u, c)
      PROVE  MarkingInv'
  <2>1. <<"like", u, c>> \in Relations /\ Kind(<<"like", u, c>>) # "vote"
    BY DEF Relations, Likes, Kind
  <2>2. QED
    BY <1>1, <2>1, LoadKeeps DEF LoadLike
<1>2. ASSUME NEW q \in Requests, NEW u \in Users, NEW v \in Users, LoadFollow(q, u, v)
      PROVE  MarkingInv'
  <2>1. <<"follow", u, v>> \in Relations /\ Kind(<<"follow", u, v>>) # "vote"
    BY <1>2 DEF Relations, Follows, Kind, LoadFollow
  <2>2. QED
    BY <1>2, <2>1, LoadKeeps DEF LoadFollow
<1>3. ASSUME NEW q \in Requests, NEW u \in Users, NEW o \in Options, LoadVote(q, u, o)
      PROVE  MarkingInv'
  <2>1. <<"vote", u, o>> \in Relations
    BY DEF Relations, Votes
  <2>2. QED
    BY <1>3, <2>1, LoadKeeps DEF LoadVote
<1>4. CASE UNCHANGED reactionsVars
  <2>1. ReactionsTypeOK' /\ OverlapsKnown' /\ DepartedGone' /\ Finite'
    BY <1>4 DEF MarkingInv, reactionsVars, ReactionsTypeOK, OverlapsKnown, DepartedGone, Finite
  <2>2. MarksExact'
    BY <1>4 DEF MarkingInv, reactionsVars, MarksExact, Lasts, Listed, Likers, Voters,
                Followers, Following
  <2>3. CallsSound'
    BY <1>4 DEF MarkingInv, reactionsVars, CallsSound, CarrySound, LeaveSound
  <2>4. QED
    BY <2>1, <2>2, <2>3 DEF MarkingInv
<1>5. QED
  BY <1>1, <1>2, <1>3, <1>4, LookUpKeeps, WriteKeeps, RollBackKeeps, ReadUserKeeps,
     DeleteUserKeeps, DeleteContentKeeps DEF ReactionsNext

\* Every variable of the reactions keeps to its values (Reactions, all handlers).
THEOREM ReactionTypes == ReactionsSpec => []ReactionsTypeOK
<1>1. MarkingInv => ReactionsTypeOK
  BY DEF MarkingInv
<1>2. QED
  BY MarkingStarts, MarkingStep, <1>1, PTL DEF ReactionsSpec

\* The number of likes, votes, followers or followed that a page shows is the
\* length of the list behind it, unless two requests overlapped on it
\* (reaction/application.py:98-143, follow/application.py:117-146,
\* user/application.py:727-748).
THEOREM NumbersAreLists == ReactionsSpec => []MarksExact
<1>1. MarkingInv => MarksExact
  BY DEF MarkingInv
<1>2. QED
  BY MarkingStarts, MarkingStep, <1>1, PTL DEF ReactionsSpec

-----------------------------------------------------------------------------
(***************************************************************************)
(* Reposts.  What a repost was added to is found again through its source  *)
(* and its root, as long as they exist and no comment on the way was       *)
(* deleted; and the status a request has read is the one it changes, as    *)
(* long as no other request holds the row.                                 *)
(***************************************************************************)

Made(p) == post[p].status # "none"

\* A row refers to posts that were made before it.
RefsSound(r) ==
  /\ r.kind = "original" => r.source = None /\ r.root = None
  /\ r.kind = "post" => r.source \in PostIds /\ Made(r.source)
  /\ r.kind = "comment" => r.source \in CommentIds
  /\ r.root # None => Made(r.root)

RowsSound ==
  \A x \in PostIds :
    /\ RefsSound(post[x])
    /\ ~Made(x) => ~IsRepost(post[x]) /\ reposts[x] = 0
    /\ ~IsRepost(post[x]) => counted[x] = {}
    /\ \A p \in counted[x] : Made(p)

CommentsSound == \A c \in CommentIds : comment[c] # None => Made(comment[c])

Involves(r, p) == r.p = p \/ p \in r.met

RepostCallSound(r) ==
  /\ r.op = "create" => /\ r.row.kind # "original" /\ r.row.status = "active"
                        /\ RefsSound(r.row)
  /\ r.op \in Changes => r.p \in PostIds
  /\ r.p # None => Made(r.p)
  /\ \A p \in r.met : Made(p)
  /\ r.op \in {"delete", "archive"} => Active(r.p) \/ counted[r.p] \subseteq loose
  /\ r.op = "restore" => post[r.p].status = "archived" \/ counted[r.p] \subseteq loose
  /\ \A p \in r.met : Active(p) \/ counted[p] \subseteq loose

RepostCallsSound == \A q \in Requests : RepostCallSound(posting[q])

HoldersKnown ==
  \A a, b \in Requests : a # b =>
    \A p \in PostIds : Involves(posting[a], p) /\ Involves(posting[b], p) => counted[p] \subseteq loose

CountedMatches ==
  \A x \in PostIds : \A p \in PostIds \ loose :
    Exists(p) => (p \in counted[x] <=> p \in Targets(post[x]))

RepostsInv == /\ RepostsTypeOK /\ RowsSound /\ CommentsSound /\ RepostCallsSound
              /\ HoldersKnown /\ CountedMatches /\ RepostsExact

RepostCalls == [op : {"idle", "create", "delete user"} \cup Changes,
                p : PostIds \cup {None}, user : Users \cup {None},
                row : Rows, met : SUBSET PostIds]

Adders(p) == {r \in PostIds : Active(r) /\ p \in counted[r]}

LEMMA RepostsTyped ==
  ASSUME RepostsTypeOK
  PROVE  /\ post \in [PostIds -> Rows] /\ comment \in [CommentIds -> PostIds \cup {None}]
         /\ reposts \in [PostIds -> Nat] /\ counted \in [PostIds -> SUBSET PostIds]
         /\ loose \in SUBSET PostIds /\ posting \in [Requests -> RepostCalls]
BY DEF RepostsTypeOK, RepostCalls

LEMMA NotRepostingSound ==
  /\ NotReposting \in RepostCalls /\ NotReposting.op = "idle" /\ NotReposting.p = None
  /\ NotReposting.met = {} /\ NotReposting.row = NoPost /\ NoPost \in Rows
  /\ \A p \in PostIds : ~Involves(NotReposting, p)
<1>1. NoPost \in Rows
  BY DEF NoPost, Rows
<1>2. /\ NotReposting \in RepostCalls /\ NotReposting.op = "idle" /\ NotReposting.p = None
      /\ NotReposting.met = {} /\ NotReposting.row = NoPost
  BY <1>1 DEF NotReposting, RepostCalls
<1>3. QED
  BY <1>1, <1>2, RepostsAssumption DEF Involves, PostIds

LEMMA PostIdsFinite ==
  /\ IsFiniteSet(PostIds) /\ None \notin PostIds
  /\ \A S \in SUBSET PostIds : IsFiniteSet(S) /\ Cardinality(S) \in Nat
<1>1. IsFiniteSet(PostIds) /\ None \notin PostIds
  BY RepostsAssumption, FS_Interval DEF PostIds
<1>2. \A S \in SUBSET PostIds : IsFiniteSet(S)
  BY <1>1, FS_Subset
<1>3. QED
  BY <1>1, <1>2, FS_CardinalityType

LEMMA FreshUnmade ==
  ASSUME NEW p \in PostIds, Fresh(p)
  PROVE  ~Made(p)
<1>1. p >= p
  BY RepostsAssumption DEF PostIds
<1>2. QED
  BY <1>1 DEF Fresh, Made

\* What the counters of a row are, by its kind.
LEMMA TargetsOf ==
  ASSUME NEW r
  PROVE  /\ r.kind = "original" => Targets(r) = {r.root} \ {None}
         /\ r.kind = "post" => Targets(r) = {r.source, r.root} \ {None}
         /\ r.kind = "comment" => Targets(r) = {comment[r.source], r.root} \ {None}
BY DEF Targets

LEMMA TargetsMade ==
  ASSUME RepostsTypeOK, CommentsSound, NEW r \in Rows, RefsSound(r)
  PROVE  /\ r.kind = "original" => Targets(r) = {}
         /\ Targets(r) \in SUBSET PostIds
         /\ \A p \in Targets(r) : Made(p)
<1>1. r.kind \in {"original", "post", "comment"} /\ r.root \in PostIds \cup {None}
  BY DEF Rows
<1>2. CASE r.kind = "original"
  BY <1>2, TargetsOf DEF RefsSound
<1>3. CASE r.kind = "post"
  BY <1>1, <1>3, TargetsOf DEF RefsSound
<1>4. CASE r.kind = "comment"
  BY <1>1, <1>4, TargetsOf, RepostsTyped DEF RefsSound, CommentsSound
<1>5. QED
  BY <1>1, <1>2, <1>3, <1>4

\* What requests know stays true of the rows that change, if whoever changes
\* a row holds it and is answered.
LEMMA RequestsLeft ==
  ASSUME RepostsInv,
         \A o \in Requests : posting'[o] \in {posting[o], NotReposting},
         \A p \in PostIds : Made(p) => Made(p)' /\ counted'[p] = counted[p],
         loose \subseteq loose',
         \A p \in PostIds : Made(p) /\ post'[p].status # post[p].status =>
           \E q \in Requests : Involves(posting[q], p) /\ posting'[q] = NotReposting
  PROVE  RepostCallsSound' /\ HoldersKnown'
<1>1. /\ posting \in [Requests -> RepostCalls] /\ \A o \in Requests : RepostCallSound(posting[o])
  BY RepostsTyped DEF RepostsInv, RepostCallsSound
<1>2. ASSUME NEW r \in RepostCalls, RefsSound(r.row)
      PROVE  RefsSound(r.row)'
  <2>1. r.row.root \in PostIds \cup {None}
    BY DEF RepostCalls, Rows
  <2>2. QED
    BY <1>2, <2>1 DEF RefsSound
<1>3. ASSUME NEW o \in Requests
      PROVE  RepostCallSound(posting[o])'
  <2>1. CASE posting'[o] = NotReposting
    BY <2>1, NotRepostingSound DEF RepostCallSound, Changes
  <2>2. CASE posting'[o] = posting[o] /\ posting'[o] # NotReposting
    <3>1. PICK r \in RepostCalls : r = posting[o] /\ r = posting'[o]
      BY <1>1, <2>2
    <3>2. RepostCallSound(r)
      BY <1>1, <3>1 DEF RepostCallSound
    <3>3. ASSUME NEW p \in PostIds, Involves(r, p), Made(p)
          PROVE  /\ post'[p].status = post[p].status \/ counted'[p] \subseteq loose'
                 /\ counted'[p] = counted[p] /\ Made(p)'
      <4>1. CASE post'[p].status = post[p].status
        BY <3>3, <4>1
      <4>2. CASE post'[p].status # post[p].status
        <5>1. PICK q \in Requests : Involves(posting[q], p) /\ posting'[q] = NotReposting
          BY <3>3, <4>2
        <5>2. q # o
          BY <5>1, <2>2
        <5>3. counted[p] \subseteq loose
          BY <3>1, <3>3, <5>1, <5>2 DEF RepostsInv, HoldersKnown
        <5>4. QED
          BY <3>3, <5>3
      <4>3. QED
        BY <4>1, <4>2
    <3>4. r.p \in PostIds \cup {None} /\ r.met \in SUBSET PostIds
      BY DEF RepostCalls
    <3>5. RepostCallSound(r)'
      <4>1. (r.op = "create" => r.row.kind # "original" /\ r.row.status = "active" /\ RefsSound(r.row))'
        BY <3>2, <1>2 DEF RepostCallSound
      <4>2. (r.op \in Changes => r.p \in PostIds)'
        BY <3>2 DEF RepostCallSound, Changes
      <4>3. (r.p # None => Made(r.p))' /\ (\A p \in r.met : Made(p))'
        BY <3>2, <3>3, <3>4 DEF RepostCallSound, Involves
      <4>4. r.op \in Changes => r.p \in PostIds /\ Made(r.p) /\ Involves(r, r.p)
        BY <3>2, PostIdsFinite DEF RepostCallSound, Involves
      <4>5. (r.op \in {"delete", "archive"} => Active(r.p) \/ counted[r.p] \subseteq loose)'
        BY <3>2, <3>3, <4>4 DEF RepostCallSound, Changes, Active
      <4>6. (r.op = "restore" => post[r.p].status = "archived" \/ counted[r.p] \subseteq loose)'
        BY <3>2, <3>3, <4>4 DEF RepostCallSound, Changes
      <4>7. (\A p \in r.met : Active(p) \/ counted[p] \subseteq loose)'
        BY <3>2, <3>3, <3>4 DEF RepostCallSound, Active, Involves
      <4>8. QED
        BY <4>1, <4>2, <4>3, <4>5, <4>6, <4>7 DEF RepostCallSound
    <3>6. QED
      BY <3>1, <3>5 DEF RepostCallSound
  <2>3. QED
    BY <2>1, <2>2
<1>4. HoldersKnown'
  <2>1. SUFFICES ASSUME NEW a \in Requests, NEW b \in Requests, a # b, NEW p \in PostIds,
                        Involves(posting[a], p)', Involves(posting[b], p)'
                 PROVE  counted'[p] \subseteq loose'
    BY DEF HoldersKnown
  <2>2. /\ posting'[a] = posting[a] /\ posting'[b] = posting[b]
    BY <2>1, NotRepostingSound DEF Involves
  <2>3. Involves(posting[a], p) /\ Involves(posting[b], p)
    BY <2>1, <2>2 DEF Involves
  <2>4. counted[p] \subseteq loose /\ Made(p)
    BY <2>1, <2>3, <1>1, PostIdsFinite DEF RepostsInv, HoldersKnown, RepostCallSound, Involves
  <2>5. QED
    BY <2>4
<1>5. QED
  BY <1>3, <1>4 DEF RepostCallsSound

LEMMA RepostReadKeeps ==
  ASSUME RepostsInv, UNCHANGED <<post, comment, reposts, counted>>,
         loose \subseteq loose', loose' \in SUBSET PostIds,
         NEW q \in Requests, NEW new \in RepostCalls,
         posting' = [posting EXCEPT ![q] = new], RepostCallSound(new)',
         \A o \in Requests \ {q} : \A p \in PostIds :
           Involves(new, p) /\ Involves(posting[o], p) => counted[p] \subseteq loose'
  PROVE  RepostsInv'
<1>1. posting \in [Requests -> RepostCalls]
  BY RepostsTyped DEF RepostsInv
<1>2. posting'[q] = new /\ \A o \in Requests : o # q => posting'[o] = posting[o]
  BY <1>1
<1>3. RepostsTypeOK'
  BY DEF RepostsInv, RepostsTypeOK, RepostCalls
<1>4. RowsSound' /\ CommentsSound'
  BY DEF RepostsInv, RowsSound, CommentsSound, RefsSound, Made
<1>5. RepostCallsSound'
  <2>1. SUFFICES ASSUME NEW o \in Requests, o # q PROVE RepostCallSound(posting[o])'
    BY <1>2 DEF RepostCallsSound, RepostCallSound
  <2>2. RepostCallSound(posting[o]) /\ posting'[o] = posting[o]
    BY <2>1, <1>2 DEF RepostsInv, RepostCallsSound
  <2>3. QED
    BY <2>2 DEF RepostCallSound, RefsSound, Made, Active
<1>6. HoldersKnown'
  <2>1. SUFFICES ASSUME NEW a \in Requests, NEW b \in Requests, a # b, NEW p \in PostIds,
                        Involves(posting'[a], p), Involves(posting'[b], p)
                 PROVE  counted[p] \subseteq loose'
    BY DEF HoldersKnown, Involves
  <2>2. QED
    BY <2>1, <1>2 DEF RepostsInv, HoldersKnown
<1>7. CountedMatches'
  BY DEF RepostsInv, CountedMatches, Exists, Targets
<1>8. RepostsExact'
  BY DEF RepostsInv, RepostsExact, Exists, Active
<1>9. QED
  BY <1>3, <1>4, <1>5, <1>6, <1>7, <1>8 DEF RepostsInv

LEMMA CreatePostKeeps ==
  ASSUME RepostsInv, NEW p \in PostIds, NEW u \in Users, CreatePost(p, u)
  PROVE  RepostsInv'
<1>1. PICK r \in Rows : r = [NoPost EXCEPT !.status = "active", !.author = u]
  BY NotRepostingSound DEF Rows
<1>2. /\ post' = [post EXCEPT ![p] = r]
      /\ UNCHANGED <<comment, reposts, counted, posting, loose>>
      /\ ~Made(p)
  BY <1>1, FreshUnmade DEF CreatePost
<1>3. /\ r.status = "active" /\ r.kind = "original" /\ r.source = None /\ r.root = None
  BY <1>1 DEF NoPost
<1>4. post \in [PostIds -> Rows]
  BY RepostsTyped DEF RepostsInv
<1>5. \A x \in PostIds : post'[x] = IF x = p THEN r ELSE post[x]
  BY <1>2, <1>4
<1>6. RepostsTypeOK'
  BY <1>2, <1>4 DEF RepostsInv, RepostsTypeOK
<1>7. counted[p] = {} /\ reposts[p] = 0
  BY <1>2 DEF RepostsInv, RowsSound
<1>8. \A x \in PostIds : (Made(x) => Made(x)')
  BY <1>3, <1>5 DEF Made
<1>9. ASSUME NEW x \in PostIds, x # p
      PROVE  RefsSound(post[x])'
  <2>1. RefsSound(post[x]) /\ post'[x] = post[x] /\ post[x] \in Rows
    BY <1>4, <1>5, <1>9 DEF RepostsInv, RowsSound
  <2>2. post[x].root \in PostIds \cup {None}
    BY <2>1 DEF Rows
  <2>3. QED
    BY <2>1, <2>2, <1>8 DEF RefsSound
<1>10. RefsSound(post[p])'
  BY <1>3, <1>5 DEF RefsSound
<1>11. RowsSound'
  <2>1. \A x \in PostIds : \A y \in counted[x] : Made(y)'
    BY <1>8, RepostsTyped DEF RepostsInv, RowsSound
  <2>2. \A x \in PostIds : x # p => post'[x] = post[x]
    BY <1>5
  <2>3. \A x \in PostIds : Made(x)' => Made(x) \/ x = p
    BY <2>2 DEF Made
  <2>4. \A x \in PostIds : RefsSound(post[x])'
    BY <1>9, <1>10
  <2>5. Made(p)' /\ counted'[p] = {}
    BY <1>2, <1>3, <1>5, <1>7 DEF Made
  <2>6. \A x \in PostIds : x # p =>
          /\ ~Made(x)' => ~IsRepost(post'[x]) /\ reposts'[x] = 0
          /\ ~IsRepost(post'[x]) => counted'[x] = {}
    BY <1>2, <1>8, <2>2 DEF RepostsInv, RowsSound
  <2>7. QED
    BY <1>2, <2>1, <2>4, <2>5, <2>6 DEF RowsSound, IsRepost
<1>12. CommentsSound'
  BY <1>2, <1>8, RepostsTyped DEF RepostsInv, CommentsSound
<1>13. RepostCallsSound' /\ HoldersKnown'
  <2>1. \A x \in PostIds : Made(x) => post'[x].status = post[x].status
    BY <1>2, <1>5
  <2>2. QED
    BY <1>2, <1>8, <2>1, RequestsLeft
<1>14. \A x \in PostIds : x # p => (Exists(x)' <=> Exists(x)) /\ (Active(x)' <=> Active(x))
  BY <1>5 DEF Exists, Active
<1>15. \A x \in PostIds : p \notin counted[x]
  BY <1>2 DEF RepostsInv, RowsSound
<1>16. CountedMatches'
  <2>1. SUFFICES ASSUME NEW x \in PostIds, NEW y \in PostIds \ loose, Exists(y)'
                 PROVE  y \in counted[x] <=> y \in Targets(post'[x])
    BY <1>2 DEF CountedMatches, Targets
  <2>2. CASE x = p
    BY <2>2, <1>3, <1>5, <1>7, TargetsOf, PostIdsFinite
  <2>3. CASE x # p /\ y = p
    <3>1. p \notin Targets(post[x])
      BY <1>2, <1>4, TargetsMade DEF RepostsInv, RowsSound
    <3>2. QED
      BY <2>3, <3>1, <1>5, <1>15
  <2>4. CASE x # p /\ y # p
    BY <2>1, <2>4, <1>5, <1>14 DEF RepostsInv, CountedMatches
  <2>5. QED
    BY <2>2, <2>3, <2>4
<1>17. RepostsExact'
  <2>1. SUFFICES ASSUME NEW y \in PostIds \ loose, Exists(y)'
                 PROVE  reposts[y] = Cardinality({x \in PostIds : Active(x)' /\ y \in counted[x]})
    BY <1>2 DEF RepostsExact
  <2>2. {x \in PostIds : Active(x)' /\ y \in counted[x]} = {x \in PostIds : Active(x) /\ y \in counted[x]}
    BY <1>7, <1>14
  <2>3. CASE y = p
    BY <2>2, <2>3, <1>7, <1>15, FS_EmptySet
  <2>4. CASE y # p
    BY <2>1, <2>2, <2>4, <1>14 DEF RepostsInv, RepostsExact
  <2>5. QED
    BY <2>3, <2>4
<1>18. QED
  BY <1>6, <1>11, <1>12, <1>13, <1>16, <1>17 DEF RepostsInv

LEMMA CreateRepostKeeps ==
  ASSUME RepostsInv, NEW q \in Requests, NEW p \in PostIds, CreateRepost(q, p)
  PROVE  RepostsInv'
<1>1. PICK r \in Rows : /\ r = posting[q].row /\ r.kind # "original" /\ r.status = "active"
                        /\ RefsSound(r) /\ posting[q].op = "create"
  <2>1. posting[q] \in RepostCalls /\ RepostCallSound(posting[q]) /\ posting[q].op = "create"
    BY RepostsTyped DEF RepostsInv, RepostCallsSound, CreateRepost
  <2>2. posting[q].row \in Rows
    BY <2>1 DEF RepostCalls
  <2>3. QED
    BY <2>1, <2>2 DEF RepostCallSound
<1> DEFINE Gained == {x \in Targets(r) : Exists(x)}
<1>2. /\ post' = [post EXCEPT ![p] = r] /\ ~Made(p)
      /\ reposts' = [x \in PostIds |-> IF Exists(x) /\ x \in Targets(r)
                                       THEN reposts[x] + 1 ELSE reposts[x]]
      /\ counted' = [counted EXCEPT ![p] = Gained]
      /\ posting' = [posting EXCEPT ![q] = NotReposting]
      /\ UNCHANGED <<comment, loose>>
  BY <1>1, FreshUnmade DEF CreateRepost
<1>3. /\ post \in [PostIds -> Rows] /\ counted \in [PostIds -> SUBSET PostIds]
      /\ reposts \in [PostIds -> Nat] /\ posting \in [Requests -> RepostCalls]
  BY RepostsTyped DEF RepostsInv
<1>4. /\ Targets(r) \in SUBSET PostIds /\ (\A x \in Targets(r) : Made(x)) /\ p \notin Targets(r)
  BY <1>1, <1>2, TargetsMade DEF RepostsInv
<1>5. /\ \A x \in PostIds : post'[x] = IF x = p THEN r ELSE post[x]
      /\ \A x \in PostIds : counted'[x] = IF x = p THEN Gained ELSE counted[x]
  BY <1>2, <1>3
<1>6. /\ Gained \in SUBSET PostIds /\ (\A x \in Gained : Made(x)) /\ p \notin Gained
  BY <1>4
<1>7. RepostsTypeOK'
  <2>1. reposts' \in [PostIds -> Nat]
    BY <1>2, <1>3
  <2>2. posting' \in [Requests -> RepostCalls]
    BY <1>2, <1>3, NotRepostingSound
  <2>3. counted' \in [PostIds -> SUBSET PostIds] /\ post' \in [PostIds -> Rows]
    BY <1>2, <1>3, <1>6
  <2>4. QED
    BY <1>2, <2>1, <2>2, <2>3 DEF RepostsInv, RepostsTypeOK, RepostCalls
<1>8. /\ \A x \in PostIds : Made(x) => Made(x)' /\ counted'[x] = counted[x]
      /\ Made(p)'
  BY <1>1, <1>2, <1>5 DEF Made
<1>9. counted[p] = {} /\ reposts[p] = 0 /\ ~Exists(p) /\ ~Active(p)
  BY <1>2 DEF RepostsInv, RowsSound, Exists, Active, Made
<1>10. ASSUME NEW x \in PostIds
       PROVE  RefsSound(post[x])'
  <2>1. PICK s \in Rows : s = post'[x] /\ RefsSound(s)
    BY <1>1, <1>3, <1>5 DEF RepostsInv, RowsSound
  <2>2. s.root \in PostIds \cup {None}
    BY DEF Rows
  <2>3. QED
    BY <2>1, <2>2, <1>8 DEF RefsSound
<1>11. RowsSound'
  <2>1. \A x \in PostIds : \A y \in counted'[x] : Made(y)'
    BY <1>3, <1>5, <1>6, <1>8 DEF RepostsInv, RowsSound
  <2>2. IsRepost(post'[p])
    BY <1>1, <1>5 DEF IsRepost
  <2>3. \A x \in PostIds : x # p /\ ~Made(x) => reposts'[x] = reposts[x]
    BY <1>2, <1>4
  <2>4. \A x \in PostIds : x # p => (Made(x)' <=> Made(x)) /\ (IsRepost(post'[x]) <=> IsRepost(post[x]))
    BY <1>5 DEF Made
  <2>5. \A x \in PostIds : x # p =>
          /\ ~Made(x)' => ~IsRepost(post'[x]) /\ reposts'[x] = 0
          /\ ~IsRepost(post'[x]) => counted'[x] = {}
    BY <1>5, <2>3, <2>4 DEF RepostsInv, RowsSound
  <2>6. QED
    BY <1>8, <1>10, <2>1, <2>2, <2>5 DEF RowsSound, IsRepost
<1>12. CommentsSound'
  BY <1>2, <1>8, RepostsTyped DEF RepostsInv, CommentsSound
<1>13. RepostCallsSound' /\ HoldersKnown'
  <2>1. \A x \in PostIds : Made(x) => post'[x].status = post[x].status
    BY <1>2, <1>5
  <2>2. \A o \in Requests : posting'[o] \in {posting[o], NotReposting}
    BY <1>2, <1>3
  <2>3. QED
    BY <1>2, <1>8, <2>1, <2>2, RequestsLeft
<1>14. \A x \in PostIds : x # p => (Exists(x)' <=> Exists(x)) /\ (Active(x)' <=> Active(x))
  BY <1>5 DEF Exists, Active
<1>15. \A x \in PostIds : p \notin counted[x]
  BY <1>2 DEF RepostsInv, RowsSound
<1>16. CountedMatches'
  <2>1. SUFFICES ASSUME NEW x \in PostIds, NEW y \in PostIds \ loose, Exists(y)'
                 PROVE  y \in counted'[x] <=> y \in Targets(post'[x])
    BY <1>2 DEF CountedMatches, Targets
  <2>2. CASE x = p /\ y = p
    BY <2>2, <1>4, <1>5, <1>6
  <2>3. CASE x = p /\ y # p
    BY <2>1, <2>3, <1>5, <1>14
  <2>4. CASE x # p /\ y = p
    <3>1. p \notin Targets(post[x])
      BY <1>2, <1>3, TargetsMade DEF RepostsInv, RowsSound
    <3>2. QED
      BY <2>4, <3>1, <1>5, <1>15
  <2>5. CASE x # p /\ y # p
    BY <2>1, <2>5, <1>5, <1>14 DEF RepostsInv, CountedMatches
  <2>6. QED
    BY <2>2, <2>3, <2>4, <2>5
<1>17. RepostsExact'
  <2>1. SUFFICES ASSUME NEW y \in PostIds \ loose, Exists(y)'
                 PROVE  reposts'[y] = Cardinality({x \in PostIds : Active(x)' /\ y \in counted'[x]})
    BY <1>2 DEF RepostsExact
  <2>2. Active(p)'
    BY <1>1, <1>5 DEF Active
  <2>3. {x \in PostIds : Active(x)' /\ y \in counted'[x]} =
          IF y \in Gained THEN Adders(y) \cup {p} ELSE Adders(y)
    BY <1>5, <1>9, <1>14, <2>2 DEF Adders
  <2>4. IsFiniteSet(Adders(y)) /\ p \notin Adders(y)
    BY <1>9, PostIdsFinite DEF Adders
  <2>5. CASE y = p
    <3>1. Adders(p) = {}
      BY <1>15 DEF Adders
    <3>2. reposts'[p] = 0
      BY <1>2, <1>9
    <3>3. QED
      BY <2>3, <2>5, <3>1, <3>2, <1>6, FS_EmptySet
  <2>6. CASE y # p
    <3>1. Exists(y) /\ reposts[y] = Cardinality(Adders(y))
      BY <2>1, <2>6, <1>14 DEF RepostsInv, RepostsExact, Adders
    <3>2. y \in Gained <=> y \in Targets(r)
      BY <3>1
    <3>3. reposts'[y] = IF y \in Gained THEN reposts[y] + 1 ELSE reposts[y]
      BY <1>2, <3>1, <3>2
    <3>4. QED
      BY <2>3, <2>4, <3>1, <3>3, FS_AddElement
  <2>7. QED
    BY <2>5, <2>6
<1>18. QED
  BY <1>7, <1>11, <1>12, <1>13, <1>16, <1>17 DEF RepostsInv

\* The rows of R change the number of p by as many as count for it.
LEMMA AdjustedBy ==
  ASSUME RepostsInv, NEW R \in SUBSET PostIds, NEW p \in PostIds \ loose, Exists(p)
  PROVE  LET L == {r \in R : p \in counted[r]} IN
         /\ {r \in R : p \in Targets(post[r])} = L
         /\ Adjusted(R, -1)[p] = AtLeast(reposts[p] - Cardinality(L))
         /\ Adjusted(R, 1)[p] = AtLeast(reposts[p] + Cardinality(L))
         /\ Cardinality(L) \in Nat
<1> DEFINE L == {r \in R : p \in counted[r]}
<1>1. {r \in R : p \in Targets(post[r])} = L
  BY DEF RepostsInv, CountedMatches
<1>2. Cardinality(L) \in Nat
  BY PostIdsFinite
<1>3. reposts[p] \in Nat
  BY RepostsTyped DEF RepostsInv
<1> DEFINE n == Cardinality({r \in R : p \in Targets(post[r])})
<1>4. \A d : Adjusted(R, d)[p] = AtLeast(reposts[p] + d * n)
  BY DEF Adjusted
<1>5. n \in Nat /\ n = Cardinality(L)
  BY <1>1, <1>2
<1>6. Adjusted(R, -1)[p] = AtLeast(reposts[p] + (-1) * n) /\ Adjusted(R, 1)[p] = AtLeast(reposts[p] + 1 * n)
  BY <1>4
<1> HIDE DEF n, L
<1>7. reposts[p] + (-1) * n = reposts[p] - n /\ reposts[p] + 1 * n = reposts[p] + n
  BY <1>3, <1>5
<1>8. QED
  BY <1>1, <1>2, <1>5, <1>6, <1>7 DEF L

LEMMA AdjustedType ==
  ASSUME RepostsTypeOK, NEW R \in SUBSET PostIds, NEW d \in {-1, 1}
  PROVE  Adjusted(R, d) \in [PostIds -> Nat]
<1>1. SUFFICES ASSUME NEW p \in PostIds
               PROVE  AtLeast(reposts[p] + d * Cardinality({r \in R : p \in Targets(post[r])})) \in Nat
  BY RepostsTyped DEF Adjusted
<1>2. PICK n \in Nat : n = Cardinality({r \in R : p \in Targets(post[r])})
  BY PostIdsFinite
<1>3. d * n \in Int /\ reposts[p] \in Nat
  BY RepostsTyped, <1>2
<1>4. QED
  BY <1>2, <1>3 DEF AtLeast

\* An archive takes a repost off the counts of what it was added to, and a
\* restore puts it back.
LEMMA StatusKeeps ==
  ASSUME RepostsInv, NEW q \in Requests, NEW x \in PostIds, NEW old, NEW new, NEW d \in {-1, 1},
         {old, new} = {"active", "archived"}, old # new, d = IF new = "active" THEN 1 ELSE -1,
         posting[q].p = x, Exists(x), Made(x),
         post[x].status = old \/ counted[x] \subseteq loose,
         reposts' = IF IsRepost(post[x]) THEN Adjusted({x}, d) ELSE reposts,
         post' = [post EXCEPT ![x].status = new],
         posting' = [posting EXCEPT ![q] = NotReposting],
         UNCHANGED <<comment, counted, loose>>
  PROVE  RepostsInv'
<1>1. /\ post \in [PostIds -> Rows] /\ counted \in [PostIds -> SUBSET PostIds]
      /\ reposts \in [PostIds -> Nat] /\ posting \in [Requests -> RepostCalls]
  BY RepostsTyped DEF RepostsInv
<1>2. \A y \in PostIds : /\ post'[y] \in Rows
                         /\ post'[y].status = (IF y = x THEN new ELSE post[y].status)
                         /\ post'[y].kind = post[y].kind /\ post'[y].source = post[y].source
                         /\ post'[y].root = post[y].root
  <2>1. new \in {"active", "archived"}
    OBVIOUS
  <2>2. \A s \in Rows : LET t == [s EXCEPT !.status = new] IN
          /\ t \in Rows /\ t.status = new /\ t.kind = s.kind /\ t.source = s.source
          /\ t.root = s.root
    BY <2>1 DEF Rows
  <2>3. \A y \in PostIds : post'[y] = IF y = x THEN [post[x] EXCEPT !.status = new] ELSE post[y]
    BY <1>1
  <2>4. QED
    BY <1>1, <2>2, <2>3
<1>3. /\ \A y \in PostIds : (Made(y)' <=> Made(y)) /\ (Exists(y)' <=> Exists(y))
      /\ \A y \in PostIds : Active(y)' <=> IF y = x THEN new = "active" ELSE Active(y)
      /\ \A y \in PostIds : IsRepost(post'[y]) <=> IsRepost(post[y])
  BY <1>2 DEF Made, Exists, Active, IsRepost
<1>4. RepostsTypeOK'
  <2>1. reposts' \in [PostIds -> Nat]
    BY <1>1, AdjustedType DEF RepostsInv
  <2>2. post' \in [PostIds -> Rows]
    BY <1>1, <1>2
  <2>3. posting' \in [Requests -> RepostCalls]
    BY <1>1, NotRepostingSound
  <2>4. QED
    BY <2>1, <2>2, <2>3 DEF RepostsInv, RepostsTypeOK, RepostCalls
<1>5. ASSUME NEW y \in PostIds
      PROVE  RefsSound(post[y])'
  <2>1. post[y].root \in PostIds \cup {None}
    BY <1>1 DEF Rows
  <2>2. RefsSound(post[y])
    BY DEF RepostsInv, RowsSound
  <2>3. QED
    BY <2>1, <2>2, <1>2, <1>3 DEF RefsSound
<1>6. \A y \in PostIds : ~Exists(y) => reposts'[y] = reposts[y]
  BY <1>1 DEF Adjusted
<1>7. RowsSound'
  <2>1. \A y \in PostIds : ~Made(y) => ~Exists(y)
    BY DEF Made, Exists
  <2>2. \A y \in PostIds : \A z \in counted[y] : Made(z)'
    BY <1>1, <1>3 DEF RepostsInv, RowsSound
  <2>3. \A y \in PostIds : /\ ~Made(y)' => ~IsRepost(post'[y]) /\ reposts'[y] = 0
                           /\ ~IsRepost(post'[y]) => counted'[y] = {}
    BY <1>3, <1>6, <2>1 DEF RepostsInv, RowsSound
  <2>4. QED
    BY <1>5, <2>2, <2>3 DEF RowsSound, IsRepost
<1>8. CommentsSound'
  BY <1>3, RepostsTyped DEF RepostsInv, CommentsSound
<1>9. RepostCallsSound' /\ HoldersKnown'
  <2>1. posting'[q] = NotReposting /\ \A o \in Requests : posting'[o] \in {posting[o], NotReposting}
    BY <1>1
  <2>2. Involves(posting[q], x)
    BY DEF Involves
  <2>3. \A y \in PostIds : post'[y].status # post[y].status => y = x
    BY <1>2
  <2>4. QED
    BY <1>3, <2>1, <2>2, <2>3, RequestsLeft
<1>10. CountedMatches'
  <2>1. SUFFICES ASSUME NEW y \in PostIds, NEW p \in PostIds \ loose, Exists(p)
                 PROVE  p \in counted[y] <=> p \in Targets(post'[y])
    BY <1>3 DEF CountedMatches, Targets
  <2>2. Targets(post'[y]) = Targets(post[y])
    BY <1>2 DEF Targets
  <2>3. QED
    BY <2>1, <2>2 DEF RepostsInv, CountedMatches
<1>11. RepostsExact'
  <2>1. SUFFICES ASSUME NEW p \in PostIds \ loose, Exists(p)
                 PROVE  reposts'[p] = Cardinality({y \in PostIds : Active(y)' /\ p \in counted[y]})
    BY <1>3 DEF RepostsExact
  <2> DEFINE L == {r \in {x} : p \in counted[r]}
             A == {y \in PostIds : Active(y)' /\ p \in counted[y]}
  <2>2. /\ Adjusted({x}, -1)[p] = AtLeast(reposts[p] - Cardinality(L))
        /\ Adjusted({x}, 1)[p] = AtLeast(reposts[p] + Cardinality(L))
    BY <2>1, AdjustedBy
  <2>3. reposts[p] = Cardinality(Adders(p)) /\ reposts[p] \in Nat
    BY <1>1, <2>1 DEF RepostsInv, RepostsExact, Adders
  <2>4. IsFiniteSet(Adders(p)) /\ IsFiniteSet(A) /\ Cardinality(A) \in Nat
    BY PostIdsFinite DEF Adders
  <2>5. CASE p \notin counted[x]
    <3>1. L = {} /\ Cardinality(L) = 0
      BY <2>5, FS_EmptySet
    <3>2. A = Adders(p)
      BY <2>5, <1>3 DEF Adders
    <3>3. Adjusted({x}, d)[p] = reposts[p]
      BY <2>2, <2>3, <3>1 DEF AtLeast
    <3>4. QED
      BY <2>3, <3>2, <3>3
  <2>6. CASE p \in counted[x]
    <3>1. L = {x} /\ Cardinality(L) = 1
      <4>1. L = {x}
        BY <2>6
      <4>2. QED
        BY <4>1, FS_Singleton
    <3>2. IsRepost(post[x])
      BY <2>6 DEF RepostsInv, RowsSound
    <3>3. post[x].status = old
      BY <2>1, <2>6
    <3>4. CASE new = "active"
      <4>1. A = Adders(p) \cup {x} /\ x \notin Adders(p)
        BY <1>3, <2>6, <3>3, <3>4 DEF Adders, Active
      <4>2. reposts'[p] = reposts[p] + 1
        BY <2>2, <2>3, <3>1, <3>2, <3>4 DEF AtLeast
      <4>3. QED
        BY <2>3, <2>4, <4>1, <4>2, FS_AddElement
    <3>5. CASE new = "archived"
      <4>1. A = Adders(p) \ {x} /\ x \in Adders(p)
        BY <1>3, <2>6, <3>3, <3>5 DEF Adders, Active
      <4>2. Cardinality(A) = reposts[p] - 1
        BY <2>3, <2>4, <4>1, FS_RemoveElement
      <4>3. reposts'[p] = AtLeast(reposts[p] - 1)
        BY <2>2, <3>1, <3>2, <3>5
      <4>4. QED
        BY <2>3, <2>4, <4>2, <4>3 DEF AtLeast
    <3>6. QED
      BY <3>4, <3>5
  <2>7. QED
    BY <2>5, <2>6
<1>12. QED
  BY <1>4, <1>7, <1>8, <1>9, <1>10, <1>11 DEF RepostsInv

\* Posts that are deleted, with the comments on them: a count loses the public
\* reposts among them that were added to it.
LEMMA RemovalKeeps ==
  ASSUME RepostsInv, NEW q \in Requests, NEW P \in SUBSET PostIds,
         \A x \in P : /\ Made(x) /\ Involves(posting[q], x)
                      /\ Active(x) \/ counted[x] \subseteq loose,
         reposts' = Adjusted({x \in P : IsRepost(post[x])}, -1),
         post' = WithoutSource(P),
         comment' = [c \in CommentIds |-> IF comment[c] \in P THEN None ELSE comment[c]],
         loose' = loose \cup Orphaned({c \in CommentIds : comment[c] \in P}),
         posting' = [posting EXCEPT ![q] = NotReposting], counted' = counted
  PROVE  RepostsInv'
<1>1. /\ post \in [PostIds -> Rows] /\ counted \in [PostIds -> SUBSET PostIds]
      /\ reposts \in [PostIds -> Nat] /\ posting \in [Requests -> RepostCalls]
      /\ comment \in [CommentIds -> PostIds \cup {None}] /\ loose \in SUBSET PostIds
  BY RepostsTyped DEF RepostsInv
<1> DEFINE R == {x \in P : IsRepost(post[x])}
<1>2. \A y \in PostIds : /\ post'[y] \in Rows
                         /\ post'[y].status = (IF y \in P THEN "gone" ELSE post[y].status)
                         /\ post'[y].kind = post[y].kind /\ post'[y].source = post[y].source
                         /\ post'[y].root = (IF post[y].root \in P THEN None ELSE post[y].root)
  <2>2. SUFFICES ASSUME NEW y \in PostIds
                 PROVE  /\ post'[y] \in Rows
                        /\ post'[y].status = (IF y \in P THEN "gone" ELSE post[y].status)
                        /\ post'[y].kind = post[y].kind /\ post'[y].source = post[y].source
                        /\ post'[y].root = (IF post[y].root \in P THEN None ELSE post[y].root)
    OBVIOUS
  <2>3. PICK s \in Rows : s = post[y]
    BY <1>1
  <2>4. s.status \in {"none", "active", "archived", "gone"} /\ s.root \in PostIds \cup {None}
    BY DEF Rows
  <2>5. PICK st \in {"none", "active", "archived", "gone"} : st = IF y \in P THEN "gone" ELSE s.status
    BY <2>4
  <2>6. PICK rt \in PostIds \cup {None} : rt = IF s.root \in P THEN None ELSE s.root
    BY <2>4
  <2>7. post'[y] = [s EXCEPT !.status = st, !.root = rt]
    BY <2>3, <2>5, <2>6 DEF WithoutSource
  <2>8. /\ post'[y] \in Rows /\ post'[y].status = st /\ post'[y].kind = s.kind
        /\ post'[y].source = s.source /\ post'[y].root = rt
    BY <2>7 DEF Rows
  <2>9. QED
    BY <2>3, <2>5, <2>6, <2>8
<1>3. /\ \A y \in PostIds : (Made(y)' <=> Made(y))
      /\ \A y \in PostIds : (Exists(y)' <=> Exists(y) /\ y \notin P)
      /\ \A y \in PostIds : (Active(y)' <=> Active(y) /\ y \notin P)
      /\ \A y \in PostIds : IsRepost(post'[y]) <=> IsRepost(post[y])
  BY <1>2 DEF Made, Exists, Active, IsRepost
<1>4. RepostsTypeOK'
  <2>1. reposts' \in [PostIds -> Nat]
    BY AdjustedType DEF RepostsInv
  <2>2. post' \in [PostIds -> Rows]
    BY <1>2 DEF WithoutSource
  <2>3. posting' \in [Requests -> RepostCalls]
    BY <1>1, NotRepostingSound
  <2>4. comment' \in [CommentIds -> PostIds \cup {None}]
    BY <1>1
  <2>5. loose' \in SUBSET PostIds
    BY <1>1 DEF Orphaned
  <2>6. QED
    BY <1>1, <2>1, <2>2, <2>3, <2>4, <2>5 DEF RepostsTypeOK, RepostCalls
<1>5. ASSUME NEW y \in PostIds
      PROVE  RefsSound(post[y])'
  <2>1. post[y].root \in PostIds \cup {None}
    BY <1>1 DEF Rows
  <2>2. RefsSound(post[y]) /\ None \notin P
    BY PostIdsFinite DEF RepostsInv, RowsSound
  <2>3. QED
    BY <2>1, <2>2, <1>2, <1>3 DEF RefsSound
<1>6. \A y \in PostIds : ~Exists(y) => reposts'[y] = reposts[y]
  BY <1>1 DEF Adjusted
<1>7. RowsSound'
  <2>1. \A y \in PostIds : ~Made(y) => ~Exists(y)
    BY DEF Made, Exists
  <2>2. \A y \in PostIds : \A z \in counted[y] : Made(z)'
    BY <1>1, <1>3 DEF RepostsInv, RowsSound
  <2>3. \A y \in PostIds : /\ ~Made(y)' => ~IsRepost(post'[y]) /\ reposts'[y] = 0
                           /\ ~IsRepost(post'[y]) => counted'[y] = {}
    BY <1>3, <1>6, <2>1 DEF RepostsInv, RowsSound
  <2>4. QED
    BY <1>5, <2>2, <2>3 DEF RowsSound, IsRepost
<1>8. CommentsSound'
  BY <1>1, <1>3 DEF RepostsInv, CommentsSound
<1>9. RepostCallsSound' /\ HoldersKnown'
  <2>1. posting'[q] = NotReposting /\ \A o \in Requests : posting'[o] \in {posting[o], NotReposting}
    BY <1>1
  <2>2. \A y \in PostIds : post'[y].status # post[y].status => y \in P
    BY <1>2
  <2>3. QED
    BY <1>3, <2>1, <2>2, RequestsLeft
<1>10. CountedMatches'
  <2>1. SUFFICES ASSUME NEW y \in PostIds, NEW p \in PostIds \ loose', Exists(p)'
                 PROVE  p \in counted[y] <=> p \in Targets(post[y])'
    BY DEF CountedMatches
  <2>2. Exists(p) /\ p \notin P /\ p \notin loose /\ p # None
    BY <2>1, <1>3, PostIdsFinite
  <2>3. p \in counted[y] <=> p \in Targets(post[y])
    BY <2>2 DEF RepostsInv, CountedMatches
  <2>4. post'[y].root = p <=> post[y].root = p
    BY <1>2, <2>2
  <2>5. RefsSound(post[y]) /\ post[y].kind \in {"original", "post", "comment"}
    BY <1>1 DEF RepostsInv, RowsSound, Rows
  <2>6. CASE post[y].kind = "original"
    BY <2>2, <2>3, <2>4, <2>6, <1>2 DEF Targets
  <2>7. CASE post[y].kind = "post"
    BY <2>2, <2>3, <2>4, <2>7, <1>2 DEF Targets
  <2>8. CASE post[y].kind = "comment"
    <3>1. PICK c \in CommentIds : c = post[y].source
      BY <2>5, <2>8 DEF RefsSound
    <3>2. CASE comment[c] \in P
      <4>1. counted[y] \subseteq loose'
        BY <2>8, <3>1, <3>2 DEF Orphaned
      <4>2. p \notin counted[y]
        BY <2>1, <4>1
      <4>3. comment'[c] = None
        BY <3>2
      <4>4. QED
        BY <2>2, <2>3, <2>4, <2>8, <3>1, <4>2, <4>3, <1>2 DEF Targets
    <3>3. CASE comment[c] \notin P
      <4>1. comment'[c] = comment[c]
        BY <3>3
      <4>2. QED
        BY <2>2, <2>3, <2>4, <2>8, <3>1, <4>1, <1>2 DEF Targets
    <3>4. QED
      BY <3>2, <3>3
  <2>9. QED
    BY <2>5, <2>6, <2>7, <2>8
<1>11. RepostsExact'
  <2>1. SUFFICES ASSUME NEW p \in PostIds \ loose', Exists(p)'
                 PROVE  reposts'[p] = Cardinality({y \in PostIds : Active(y)' /\ p \in counted[y]})
    BY DEF RepostsExact
  <2> DEFINE L == {r \in R : p \in counted[r]}
             A == {y \in PostIds : Active(y)' /\ p \in counted[y]}
  <2>2. Exists(p) /\ p \notin loose
    BY <2>1, <1>3
  <2>3. reposts'[p] = AtLeast(reposts[p] - Cardinality(L)) /\ Cardinality(L) \in Nat
    <3>1. PICK K \in SUBSET PostIds : K = R
      OBVIOUS
    <3>2. p \in PostIds \ loose /\ Exists(p)
      BY <2>2
    <3>3. /\ Adjusted(K, -1)[p] = AtLeast(reposts[p] - Cardinality({r \in K : p \in counted[r]}))
          /\ Cardinality({r \in K : p \in counted[r]}) \in Nat
      BY <3>2, AdjustedBy
    <3>4. reposts' = Adjusted(K, -1)
      BY <3>1
    <3>5. {r \in K : p \in counted[r]} = L
      BY <3>1
    <3>6. QED
      BY <3>3, <3>4, <3>5
  <2>4. reposts[p] = Cardinality(Adders(p)) /\ reposts[p] \in Nat
    BY <1>1, <2>2 DEF RepostsInv, RepostsExact, Adders
  <2>5. IsFiniteSet(L) /\ IsFiniteSet(A) /\ Cardinality(A) \in Nat
    BY PostIdsFinite
  <2>6. L = {x \in P : p \in counted[x]}
    BY DEF RepostsInv, RowsSound
  <2>7. \A x \in P : p \in counted[x] => Active(x)
    BY <2>2
  <2>8. Adders(p) = A \cup L /\ A \cap L = {}
    BY <1>3, <2>6, <2>7 DEF Adders
  <2>9. Cardinality(Adders(p)) = Cardinality(A) + Cardinality(L)
    <3>1. Cardinality(A \cup L) = Cardinality(A) + Cardinality(L) - Cardinality(A \cap L)
      BY <2>5, FS_Union
    <3> HIDE DEF A, L
    <3>2. Cardinality(A \cap L) = 0
      BY <2>8, FS_EmptySet
    <3>3. QED
      BY <3>1, <3>2, <2>3, <2>5, <2>8
  <2>10. QED
    BY <2>3, <2>4, <2>5, <2>9 DEF AtLeast
<1>12. QED
  BY <1>4, <1>7, <1>8, <1>9, <1>10, <1>11 DEF RepostsInv

LEMMA AddCommentKeeps ==
  ASSUME RepostsInv, NEW c \in CommentIds, NEW p \in PostIds, AddComment(c, p)
  PROVE  RepostsInv'
<1>1. /\ comment' = [comment EXCEPT ![c] = p] /\ Active(p)
      /\ \A x \in PostIds : ~(post[x].kind = "comment" /\ post[x].source = c)
      /\ UNCHANGED <<post, reposts, counted, posting, loose>>
  BY DEF AddComment
<1>2. comment \in [CommentIds -> PostIds \cup {None}]
  BY RepostsTyped DEF RepostsInv
<1>3. RepostsTypeOK' /\ RowsSound'
  BY <1>1, <1>2 DEF RepostsInv, RepostsTypeOK, RowsSound, RefsSound, Made
<1>4. CommentsSound'
  BY <1>1, <1>2 DEF RepostsInv, CommentsSound, Made, Active
<1>5. RepostCallsSound' /\ HoldersKnown'
  BY <1>1 DEF RepostsInv, RepostCallsSound, RepostCallSound, RefsSound, Made, Active,
              HoldersKnown, Involves
<1>6. \A x \in PostIds : Targets(post[x])' = Targets(post[x])
  <2>1. SUFFICES ASSUME NEW x \in PostIds PROVE Targets(post[x])' = Targets(post[x])
    OBVIOUS
  <2>2. post[x].kind \in {"original", "post", "comment"} /\ RefsSound(post[x])
    BY RepostsTyped DEF RepostsInv, RowsSound, Rows
  <2>3. post[x].kind = "comment" => comment'[post[x].source] = comment[post[x].source]
    BY <1>1, <1>2, <2>2 DEF RefsSound
  <2>4. QED
    BY <1>1, <2>2, <2>3 DEF Targets
<1>7. CountedMatches'
  BY <1>1, <1>6 DEF RepostsInv, CountedMatches, Exists
<1>8. RepostsExact'
  BY <1>1 DEF RepostsInv, RepostsExact, Exists, Active
<1>9. QED
  BY <1>3, <1>4, <1>5, <1>7, <1>8 DEF RepostsInv

LEMMA DeleteCommentKeeps ==
  ASSUME RepostsInv, NEW c \in CommentIds, DeleteComment(c)
  PROVE  RepostsInv'
<1>1. /\ comment' = [comment EXCEPT ![c] = None]
      /\ loose' = loose \cup Orphaned({c})
      /\ UNCHANGED <<post, reposts, counted, posting>>
  BY DEF DeleteComment
<1>2. /\ comment \in [CommentIds -> PostIds \cup {None}] /\ loose \in SUBSET PostIds
      /\ counted \in [PostIds -> SUBSET PostIds]
  BY RepostsTyped DEF RepostsInv
<1>3. RepostsTypeOK'
  <2>1. comment' \in [CommentIds -> PostIds \cup {None}]
    BY <1>1, <1>2
  <2>2. Orphaned({c}) \in SUBSET PostIds
    BY <1>2 DEF Orphaned
  <2>3. QED
    BY <1>1, <1>2, <2>1, <2>2 DEF RepostsInv, RepostsTypeOK
<1>4. RowsSound' /\ CommentsSound'
  BY <1>1, <1>2 DEF RepostsInv, RowsSound, RefsSound, Made, CommentsSound
<1>5. RepostCallsSound' /\ HoldersKnown'
  <2>1. loose \subseteq loose'
    BY <1>1
  <2>2. \A p \in PostIds : Made(p) => Made(p)' /\ counted'[p] = counted[p]
    BY <1>1 DEF Made
  <2>3. QED
    BY <1>1, <2>1, <2>2, RequestsLeft
<1>6. CountedMatches'
  <2>1. SUFFICES ASSUME NEW x \in PostIds, NEW p \in PostIds \ loose', Exists(p)
                 PROVE  p \in counted[x] <=> p \in Targets(post[x])'
    BY <1>1 DEF CountedMatches, Exists
  <2>2. p \in counted[x] <=> p \in Targets(post[x])
    BY <1>1, <2>1 DEF RepostsInv, CountedMatches
  <2>3. post[x].kind \in {"original", "post", "comment"} /\ RefsSound(post[x])
    BY RepostsTyped DEF RepostsInv, RowsSound, Rows
  <2>4. CASE post[x].kind = "comment" /\ post[x].source = c
    <3>1. p \notin counted[x]
      BY <1>1, <2>1, <2>4 DEF Orphaned
    <3>2. comment'[c] = None
      BY <1>1, <1>2
    <3>3. QED
      BY <1>1, <2>2, <2>4, <3>1, <3>2 DEF Targets
  <2>5. CASE ~(post[x].kind = "comment" /\ post[x].source = c)
    <3>1. post[x].kind = "comment" => comment'[post[x].source] = comment[post[x].source]
      BY <1>1, <1>2, <2>3, <2>5 DEF RefsSound
    <3>2. QED
      BY <1>1, <2>2, <2>3, <3>1 DEF Targets
  <2>6. QED
    BY <2>4, <2>5
<1>7. RepostsExact'
  BY <1>1 DEF RepostsInv, RepostsExact, Exists, Active
<1>8. QED
  BY <1>3, <1>4, <1>5, <1>6, <1>7 DEF RepostsInv

\* A request for a repost has found its source, and with it a root.
LEMMA FoundSource ==
  ASSUME RepostsInv, NEW s \in PostIds, Active(s)
  PROVE  RootOf(s) \in PostIds /\ Made(RootOf(s)) /\ Made(s)
<1>1. post[s] \in Rows /\ RefsSound(post[s]) /\ Made(s)
  BY RepostsTyped DEF RepostsInv, RowsSound, Active, Made
<1>2. post[s].root \in PostIds \cup {None}
  BY <1>1 DEF Rows
<1>3. QED
  BY <1>1, <1>2 DEF RootOf, RefsSound

LEMMA RepostBegins ==
  ASSUME RepostsInv, NEW q \in Requests, NEW r \in Rows, r.kind # "original",
         r.status = "active", RefsSound(r),
         Reads(q, [NotReposting EXCEPT !.op = "create", !.row = r], {})
  PROVE  RepostsInv'
<1>1. PICK new \in RepostCalls : new = [NotReposting EXCEPT !.op = "create", !.row = r]
  BY NotRepostingSound DEF RepostCalls
<1>2. new.op = "create" /\ new.row = r /\ new.p = None /\ new.met = {}
  BY <1>1, NotRepostingSound DEF RepostCalls
<1>3. /\ posting' = [posting EXCEPT ![q] = new] /\ loose' = loose
      /\ UNCHANGED <<post, comment, reposts, counted>>
  BY <1>1 DEF Reads
<1>4. RefsSound(r)'
  BY <1>3 DEF RefsSound, Made
<1>5. RepostCallSound(new)'
  BY <1>2, <1>4 DEF RepostCallSound, Changes
<1>6. \A p \in PostIds : ~Involves(new, p)
  BY <1>2, PostIdsFinite DEF Involves
<1>7. loose' \in SUBSET PostIds /\ loose \subseteq loose'
  BY <1>3, RepostsTyped DEF RepostsInv
<1>8. QED
  BY <1>3, <1>5, <1>6, <1>7, RepostReadKeeps

LEMMA RepostPostKeeps ==
  ASSUME RepostsInv, NEW q \in Requests, NEW u \in Users, NEW s \in PostIds, RepostPost(q, u, s)
  PROVE  RepostsInv'
<1>1. PICK r : r = [status |-> "active", author |-> u, kind |-> "post",
                    source |-> s, root |-> RootOf(s)]
  OBVIOUS
<1>2. RootOf(s) \in PostIds /\ Made(RootOf(s)) /\ Made(s)
  BY FoundSource DEF RepostPost
<1>3. r \in Rows /\ RefsSound(r) /\ r.kind = "post" /\ r.status = "active"
  BY <1>1, <1>2 DEF Rows, RefsSound
<1>4. QED
  BY <1>1, <1>3, RepostBegins DEF RepostPost

LEMMA RepostCommentKeeps ==
  ASSUME RepostsInv, NEW q \in Requests, NEW u \in Users, NEW c \in CommentIds,
         RepostComment(q, u, c)
  PROVE  RepostsInv'
<1>1. PICK r : r = [status |-> "active", author |-> u, kind |-> "comment",
                    source |-> c, root |-> RootOf(comment[c])]
  OBVIOUS
<1>2. comment[c] \in PostIds
  BY RepostsTyped DEF RepostsInv, RepostComment
<1>3. RootOf(comment[c]) \in PostIds /\ Made(RootOf(comment[c]))
  BY <1>2, FoundSource DEF RepostComment
<1>4. r \in Rows /\ RefsSound(r) /\ r.kind = "comment" /\ r.status = "active"
  BY <1>1, <1>3 DEF Rows, RefsSound
<1>5. QED
  BY <1>1, <1>4, RepostBegins DEF RepostComment

LEMMA ReadStatusKeeps ==
  ASSUME RepostsInv, NEW q \in Requests, NEW op \in Changes, NEW p \in PostIds,
         ReadStatus(q, op, p)
  PROVE  RepostsInv'
<1>1. PICK new \in RepostCalls : new = [NotReposting EXCEPT !.op = op, !.p = p]
  BY NotRepostingSound DEF RepostCalls
<1>2. new.op = op /\ new.p = p /\ new.met = {}
  BY <1>1, NotRepostingSound DEF RepostCalls
<1>3. /\ posting' = [posting EXCEPT ![q] = new]
      /\ loose' = loose \cup (IF Overlap(p) THEN counted[p] ELSE {})
      /\ UNCHANGED <<post, comment, reposts, counted>>
      /\ IF op = "restore" THEN post[p].status = "archived" ELSE Active(p)
  BY <1>1 DEF ReadStatus, Reads
<1>4. Made(p)
  BY <1>3 DEF Active, Made
<1>5. RepostCallSound(new)'
  BY <1>2, <1>3, <1>4 DEF RepostCallSound, Changes, Active, Made
<1>6. loose' \in SUBSET PostIds /\ loose \subseteq loose'
  BY <1>3, RepostsTyped DEF RepostsInv
<1>7. ASSUME NEW o \in Requests \ {q}, NEW x \in PostIds, Involves(new, x), Involves(posting[o], x)
      PROVE  counted[x] \subseteq loose'
  <2>1. x = p
    BY <1>2, <1>7 DEF Involves
  <2>2. Overlap(p)
    BY <1>7, <2>1 DEF Overlap, Involves
  <2>3. QED
    BY <1>3, <2>1, <2>2
<1>8. QED
  BY <1>3, <1>5, <1>6, <1>7, RepostReadKeeps

LEMMA ReadUserPostsKeeps ==
  ASSUME RepostsInv, NEW q \in Requests, NEW u \in Users, ReadUserPosts(q, u)
  PROVE  RepostsInv'
<1>1. PICK P \in SUBSET PostIds : P = {p \in PostIds : Exists(p) /\ post[p].author = u}
  OBVIOUS
<1>2. PICK new \in RepostCalls :
        new = [NotReposting EXCEPT !.op = "delete user", !.user = u, !.met = P]
  BY NotRepostingSound DEF RepostCalls
<1>3. new.op = "delete user" /\ new.p = None /\ new.met = P
  BY <1>2, NotRepostingSound DEF RepostCalls
<1>4. /\ posting' = [posting EXCEPT ![q] = new]
      /\ loose' = loose \cup
           UNION {counted[p] : p \in {p \in P : Overlap(p) \/ post[p].status = "archived"}}
      /\ UNCHANGED <<post, comment, reposts, counted>>
  BY <1>1, <1>2 DEF ReadUserPosts, Reads
<1>5. \A p \in P : Made(p) /\ (Active(p) \/ post[p].status = "archived")
  BY <1>1 DEF Exists, Active, Made
<1>6. RepostCallSound(new)'
  BY <1>3, <1>4, <1>5 DEF RepostCallSound, Changes, Active, Made
<1>7. loose' \in SUBSET PostIds /\ loose \subseteq loose'
  BY <1>4, RepostsTyped DEF RepostsInv
<1>8. ASSUME NEW o \in Requests \ {q}, NEW x \in PostIds, Involves(new, x), Involves(posting[o], x)
      PROVE  counted[x] \subseteq loose'
  <2>1. x \in P
    BY <1>3, <1>8, PostIdsFinite DEF Involves
  <2>2. Overlap(x)
    BY <1>8 DEF Overlap, Involves
  <2>3. QED
    BY <1>4, <2>1, <2>2
<1>9. QED
  BY <1>4, <1>6, <1>7, <1>8, RepostReadKeeps

LEMMA RollBackRepostKeeps ==
  ASSUME RepostsInv, NEW q \in Requests, RollBackRepost(q)
  PROVE  RepostsInv'
<1>1. /\ posting' = [posting EXCEPT ![q] = NotReposting] /\ loose' = loose
      /\ UNCHANGED <<post, comment, reposts, counted>>
  BY DEF RollBackRepost
<1>2. RepostCallSound(NotReposting)'
  BY NotRepostingSound DEF RepostCallSound, Changes
<1>3. loose' \in SUBSET PostIds /\ loose \subseteq loose'
  BY <1>1, RepostsTyped DEF RepostsInv
<1>4. QED
  BY <1>1, <1>2, <1>3, NotRepostingSound, RepostReadKeeps

LEMMA ChangeStatusKeeps ==
  ASSUME RepostsInv, NEW q \in Requests, ChangeStatus(q)
  PROVE  RepostsInv'
<1>1. RepostCallSound(posting[q])
  BY DEF RepostsInv, RepostCallsSound
<1>2. PICK x \in PostIds, op \in Changes : x = posting[q].p /\ op = posting[q].op
  BY <1>1 DEF RepostCallSound, ChangeStatus
<1>3. /\ Made(x) /\ Involves(posting[q], x)
      /\ op \in {"delete", "archive"} => Active(x) \/ counted[x] \subseteq loose
      /\ op = "restore" => post[x].status = "archived" \/ counted[x] \subseteq loose
  BY <1>1, <1>2, PostIdsFinite DEF RepostCallSound, Involves
<1>4. /\ op # "delete" => Exists(x)
      /\ reposts' = IF IsRepost(post[x]) THEN Adjusted({x}, Delta(op)) ELSE reposts
      /\ posting' = [posting EXCEPT ![q] = NotReposting] /\ counted' = counted
  BY <1>2 DEF ChangeStatus
<1>5. CASE op = "delete"
  <2>1. /\ post' = WithoutSource({x})
        /\ comment' = [c \in CommentIds |-> IF comment[c] \in {x} THEN None ELSE comment[c]]
        /\ loose' = loose \cup Orphaned({c \in CommentIds : comment[c] \in {x}})
    BY <1>2, <1>5 DEF ChangeStatus
  <2>2. PICK R \in SUBSET PostIds : R = {y \in {x} : IsRepost(post[y])}
    OBVIOUS
  <2>3. reposts' = Adjusted(R, -1)
    <3>1. CASE IsRepost(post[x])
      BY <1>4, <1>5, <2>2, <3>1 DEF Delta
    <3>2. CASE ~IsRepost(post[x])
      <4>1. R = {} /\ reposts' = reposts
        BY <1>4, <2>2, <3>2
      <4>2. \A p \in PostIds : {r \in {} : p \in Targets(post[r])} = {}
        OBVIOUS
      <4>3. \A p \in PostIds : AtLeast(reposts[p] + (-1) * 0) = reposts[p]
        BY RepostsTyped DEF RepostsInv, AtLeast
      <4>4. Adjusted({}, -1) = [p \in PostIds |-> reposts[p]]
        BY <4>2, <4>3, FS_EmptySet DEF Adjusted
      <4>5. QED
        BY <4>1, <4>4, RepostsTyped DEF RepostsInv
    <3>3. QED
      BY <3>1, <3>2
  <2>4. {x} \in SUBSET PostIds
        /\ \A y \in {x} : /\ Made(y) /\ Involves(posting[q], y)
                          /\ Active(y) \/ counted[y] \subseteq loose
    BY <1>3, <1>5
  <2>5. QED
    BY <1>4, <2>1, <2>2, <2>3, <2>4, RemovalKeeps
<1>6. CASE op = "archive"
  <2>1. post' = [post EXCEPT ![x].status = "archived"] /\ UNCHANGED <<comment, loose>>
    BY <1>2, <1>6 DEF ChangeStatus
  <2>2. QED
    BY <1>2, <1>3, <1>4, <1>6, <2>1, StatusKeeps DEF Delta, Active
<1>7. CASE op = "restore"
  <2>1. post' = [post EXCEPT ![x].status = "active"] /\ UNCHANGED <<comment, loose>>
    BY <1>2, <1>7 DEF ChangeStatus
  <2>2. Delta(op) = 1 /\ {"archived", "active"} = {"active", "archived"}
    BY <1>7 DEF Delta
  <2>3. QED
    BY <1>2, <1>3, <1>4, <1>7, <2>1, <2>2, StatusKeeps
<1>8. QED
  BY <1>5, <1>6, <1>7 DEF Changes

LEMMA DeleteUserPostsKeeps ==
  ASSUME RepostsInv, NEW q \in Requests, DeleteUserPosts(q)
  PROVE  RepostsInv'
<1>1. RepostCallSound(posting[q]) /\ posting[q] \in RepostCalls
  BY RepostsTyped DEF RepostsInv, RepostCallsSound
<1>2. PICK P \in SUBSET PostIds : P = posting[q].met
  BY <1>1 DEF RepostCalls
<1>3. \A x \in P : /\ Made(x) /\ Involves(posting[q], x)
                   /\ Active(x) \/ counted[x] \subseteq loose
  BY <1>1, <1>2 DEF RepostCallSound, Involves
<1>4. /\ reposts' = Adjusted({p \in P : IsRepost(post[p])}, -1)
      /\ post' = WithoutSource(P)
      /\ comment' = [c \in CommentIds |-> IF comment[c] \in P THEN None ELSE comment[c]]
      /\ loose' = loose \cup Orphaned({c \in CommentIds : comment[c] \in P})
      /\ posting' = [posting EXCEPT ![q] = NotReposting] /\ counted' = counted
  BY <1>2 DEF DeleteUserPosts
<1>5. QED
  BY <1>3, <1>4, RemovalKeeps

LEMMA RepostsStart ==
  ASSUME RepostsInit
  PROVE  RepostsInv
<1>1. /\ \A p \in PostIds : post[p] = NoPost /\ reposts[p] = 0 /\ counted[p] = {}
      /\ \A c \in CommentIds : comment[c] = None
      /\ \A q \in Requests : posting[q] = NotReposting
      /\ loose = {}
  BY DEF RepostsInit
<1>2. RepostsTypeOK
  BY NotRepostingSound DEF RepostsInit, RepostsTypeOK, RepostCalls
<1>3. /\ NoPost.status = "none" /\ NoPost.kind = "original" /\ NoPost.source = None
      /\ NoPost.root = None
  BY DEF NoPost
<1>4. RowsSound /\ CommentsSound
  BY <1>1, <1>3 DEF RowsSound, CommentsSound, RefsSound, Made, IsRepost
<1>5. RepostCallsSound /\ HoldersKnown
  BY <1>1, NotRepostingSound DEF RepostCallsSound, RepostCallSound, HoldersKnown, Changes
<1>6. CountedMatches /\ RepostsExact
  BY <1>1, <1>3 DEF CountedMatches, RepostsExact, Exists
<1>7. QED
  BY <1>2, <1>4, <1>5, <1>6 DEF RepostsInv

LEMMA RepostsStep ==
  ASSUME RepostsInv, [RepostsNext]_repostsVars
  PROVE  RepostsInv'
<1>1. CASE UNCHANGED repostsVars
  <2>1. UNCHANGED <<post, comment, reposts, counted, posting, loose>>
    BY <1>1 DEF repostsVars
  <2>2. RepostsTypeOK' /\ RowsSound' /\ CommentsSound'
    BY <2>1 DEF RepostsInv, RepostsTypeOK, RowsSound, CommentsSound, RefsSound, Made
  <2>3. RepostCallsSound' /\ HoldersKnown'
    BY <2>1 DEF RepostsInv, RepostCallsSound, RepostCallSound, RefsSound, Made, Active,
                HoldersKnown, Involves
  <2>4. CountedMatches' /\ RepostsExact'
    BY <2>1 DEF RepostsInv, CountedMatches, RepostsExact, Exists, Active, Targets
  <2>5. QED
    BY <2>2, <2>3, <2>4 DEF RepostsInv
<1>2. QED
  BY <1>1, CreatePostKeeps, CreateRepostKeeps, RepostPostKeeps, RepostCommentKeeps,
     ReadUserPostsKeeps, ReadStatusKeeps, ChangeStatusKeeps, DeleteUserPostsKeeps,
     RollBackRepostKeeps, DeleteCommentKeeps, AddCommentKeeps DEF RepostsNext

\* Every variable of the reposts keeps to its values (Reposts, all handlers).
THEOREM RepostTypes == RepostsSpec => []RepostsTypeOK
<1>1. RepostsInv => RepostsTypeOK
  BY DEF RepostsInv
<1>2. QED
  BY RepostsStart, RepostsStep, <1>1, PTL DEF RepostsSpec

\* The count of a post is the number of public reposts that were added to it,
\* through chains of reposts, archives, restores and deletions, except for the
\* posts that RepostsExact names (post/application.py:99-141, 264-379,
\* user/application.py:714-725, admin_application.py:81-136, 235-283).
THEOREM RepostCountsAreExact == RepostsSpec => []RepostsExact
<1>1. RepostsInv => RepostsExact
  BY DEF RepostsInv
<1>2. QED
  BY RepostsStart, RepostsStep, <1>1, PTL DEF RepostsSpec

-----------------------------------------------------------------------------
(***************************************************************************)
(* Posts.  Requests on a post that is not crossed never write and remove   *)
(* its document at a time, and whoever still has to update the index will  *)
(* set it right; a single editor has read the topics it replaces.          *)
(***************************************************************************)

PostRequests ==
  [op : {"idle", "interact"} \cup Writers \cup Removers,
   stage : {"none", "read", "flushed", "after", "upsert"},
   p : Posts \cup {None}, topics : SUBSET Topics, old : SUBSET Topics,
   seen : Counts, new : Counts]

\* What a request is doing fits its operation.
RequestShaped(r) ==
  \/ r = Idle
  \/ /\ r.p \in Posts
     /\ \/ r.op = "interact" /\ r.stage \in {"read", "flushed"}
        \/ r.op \in Writers /\ r.stage \in {"read", "flushed", "after", "upsert"}
        \/ r.op \in Removers /\ r.stage \in {"read", "flushed", "after"}

\* The transaction of a request is not committed yet.
Open(r) == r.stage \in {"read", "flushed"}

\* One request at a time has written the row of a post.
OneHolder == \A p \in Posts : \A a, b \in On(p) : Holds(a) /\ Holds(b) => a = b

\* A post that is gone is not brought back.
GoneForGood ==
  \A q \in Requests :
    req[q].stage = "flushed" /\ req[q].op \in {"archive", "restore"}
      => status[req[q].p] # "deleted"

\* Nobody else knows of a post that is being created.
CreatedAlone ==
  \A p \in Posts : \A q \in On(p) :
    req[q].op = "create" /\ Open(req[q]) => status[p] = "none" /\ On(p) = {q}

\* While requests write the document of a post, or remove it, its status is one
\* that their operations leave.
StatusKnown(p) ==
  /\ \A a, b \in On(p) : ~(req[a].op \in Writers /\ req[b].op \in Removers)
  /\ \A q \in On(p) :
       /\ req[q].op = "edit" => status[p] = "active"
       /\ req[q].op = "restore" => status[p] \in {"active", "archived"}
       /\ req[q].op \in Writers /\ ~Open(req[q]) => status[p] = "active"
       /\ req[q].op \in Removers /\ ~Open(req[q]) => status[p] # "active"

\* A document that is there or missing wrongly is still to be set right.
IndexDue(p) ==
  /\ p \in index /\ status[p] # "active"
       => \E q \in On(p) : req[q].op \in Removers /\ ~Open(req[q])
  /\ p \notin index /\ status[p] = "active"
       => \E q \in On(p) : req[q].op \in Writers /\ ~Open(req[q])

IndexSound(p) ==
  <<p, "index">> \notin crossed => StatusKnown(p) /\ (p \notin lost => IndexDue(p))

\* The only editor of a post has read every association that there is.
TagsSound(p) ==
  <<p, "edit">> \notin crossed =>
    /\ \A a, b \in On(p) : req[a].op = "edit" /\ req[b].op = "edit" => a = b
    /\ \A q \in On(p) : req[q].op \in {"create", "edit"} /\ Open(req[q])
                          => tagged[p] \subseteq req[q].old
    /\ status[p] # "deleted" => tagged[p] = topics[p]

PostsInv ==
  /\ TypeOK
  /\ \A q \in Requests : RequestShaped(req[q])
  /\ OneHolder /\ GoneForGood /\ CreatedAlone
  /\ \A p \in Posts : IndexSound(p) /\ TagsSound(p)

LEMMA RequestTypes == TypeOK <=>
  /\ status \in [Posts -> {"none", "active", "archived", "deleted"}]
  /\ topics \in [Posts -> SUBSET Topics]
  /\ tagged \in [Posts -> SUBSET Topics]
  /\ count \in Counts
  /\ index \subseteq Posts /\ lost \subseteq Posts
  /\ crossed \subseteq Posts \X {"index", "edit"}
  /\ job \in [on : BOOLEAN, seen : Counts, new : Counts]
  /\ req \in [Requests -> PostRequests]
BY DEF TypeOK, PostRequests

LEMMA IdleRequest == Idle \in PostRequests /\ RequestShaped(Idle)
BY DEF PostRequests, RequestShaped, Idle, Unread, Counts

\* What refresh_topic_stats counts is a number.
LEMMA PostsCounted == \A t, stat, tags : PostCount(t, stat, tags) \in Nat
<1>1. ASSUME NEW t, NEW stat, NEW tags
      PROVE  PostCount(t, stat, tags) \in Nat
  <2>1. IsFiniteSet({p \in Posts : stat[p] = "active" /\ t \in tags[p]})
    BY ProjectionAssumption, FS_Subset
  <2>2. QED
    BY <2>1, FS_CardinalityType DEF PostCount
<1>2. QED
  BY <1>1

LEMMA CountsWritten ==
  \A now, seen, new \in Counts : Written(now, seen, new) \in Counts
BY DEF Written, Counts

LEMMA PostsStart == Init => PostsInv
<1> SUFFICES ASSUME Init PROVE PostsInv
  OBVIOUS
<1>1. TypeOK
  BY IdleRequest, RequestTypes DEF Init, Unread, Counts, Asleep
<1>2. \A p \in Posts : On(p) = {}
  BY ProjectionAssumption DEF Init, On, Idle
<1>3. \A q \in Requests : RequestShaped(req[q])
  BY IdleRequest DEF Init
<1>4. GoneForGood
  BY DEF GoneForGood, Init, Idle
<1>5. OneHolder /\ CreatedAlone
  BY <1>2 DEF OneHolder, CreatedAlone
<1>6. \A p \in Posts : IndexSound(p) /\ TagsSound(p)
  BY <1>2 DEF IndexSound, TagsSound, StatusKnown, IndexDue, Init
<1>7. QED
  BY <1>1, <1>3, <1>4, <1>5, <1>6 DEF PostsInv

\* A post that a step has nothing to do with.
LEMMA OtherPostKeeps ==
  ASSUME PostsInv, NEW q \in Requests, NEW new \in PostRequests, NEW x \in Posts,
         req' = [req EXCEPT ![q] = new], req[q].p # x, new.p # x,
         status'[x] = status[x], tagged'[x] = tagged[x], topics'[x] = topics[x],
         x \in index' <=> x \in index, crossed \subseteq crossed', lost \subseteq lost'
  PROVE  IndexSound(x)' /\ TagsSound(x)'
<1>1. req \in [Requests -> PostRequests]
  BY RequestTypes DEF PostsInv
<1>2. On(x)' = On(x) /\ \A r \in On(x) : req'[r] = req[r]
  BY <1>1 DEF On
<1>3. IndexSound(x) /\ TagsSound(x)
  BY DEF PostsInv
<1>4. IndexSound(x)'
  <2>1. ASSUME <<x, "index">> \notin crossed'
        PROVE  StatusKnown(x)'
    BY <1>2, <1>3, <2>1 DEF IndexSound, StatusKnown
  <2>2. ASSUME <<x, "index">> \notin crossed', x \notin lost'
        PROVE  IndexDue(x)'
    BY <1>2, <1>3, <2>2 DEF IndexSound, IndexDue
  <2>3. QED
    BY <2>1, <2>2 DEF IndexSound
<1>5. TagsSound(x)'
  BY <1>2, <1>3 DEF TagsSound
<1>6. QED
  BY <1>4, <1>5

LEMMA ReadKeeps ==
  ASSUME PostsInv, NEW q \in Requests, NEW p \in Posts, NEW T \in SUBSET Topics,
         NEW op \in {"interact"} \cup Writers \cup Removers, Read(q, op, p, T),
         op = "create" => status[p] = "none" /\ On(p) = {},
         op = "restore" => status[p] = "archived",
         op \notin {"create", "restore"} => status[p] = "active"
  PROVE  PostsInv'
<1>0. /\ TypeOK /\ OneHolder /\ GoneForGood /\ CreatedAlone
      /\ \A a \in Requests : RequestShaped(req[a])
      /\ IndexSound(p) /\ TagsSound(p)
  BY DEF PostsInv
<1>1. /\ req \in [Requests -> PostRequests] /\ tagged[p] \in SUBSET Topics
      /\ Idle.p \notin Posts
  BY <1>0, RequestTypes, ProjectionAssumption DEF Idle
<1>2. PICK new \in PostRequests :
        /\ new = [Idle EXCEPT !.op = op, !.stage = "read", !.p = p, !.topics = T,
                              !.old = tagged[p]]
        /\ new.op = op /\ new.stage = "read" /\ new.p = p /\ new.old = tagged[p]
  <2>1. Idle \in PostRequests /\ op \in {"idle", "interact"} \cup Writers \cup Removers
    BY IdleRequest
  <2>2. [Idle EXCEPT !.op = op, !.stage = "read", !.p = p, !.topics = T, !.old = tagged[p]]
          \in PostRequests
    BY <1>1, <2>1 DEF PostRequests
  <2>3. QED
    BY <2>1, <2>2 DEF PostRequests
<1>3. /\ req[q] = Idle /\ req' = [req EXCEPT ![q] = new]
      /\ UNCHANGED <<status, topics, tagged, count, index, job, lost>>
  <2>1. req[q].op = "idle"
    BY DEF Read
  <2>2. req[q] = Idle
    BY <1>0, <2>1 DEF RequestShaped, Writers, Removers
  <2>3. QED
    BY <1>2, <2>2 DEF Read
<1>4. /\ crossed \subseteq crossed'
      /\ \A x \in Posts : x # p => (\A k : <<x, k>> \in crossed' => <<x, k>> \in crossed)
      /\ crossed' \subseteq Posts \X {"index", "edit"}
  BY <1>0 DEF Read, TypeOK
<1>5. /\ <<p, "index">> \notin crossed' =>
           \A r \in On(p) : /\ ~(op \in Writers /\ req[r].op \in Removers)
                            /\ ~(op \in Removers /\ req[r].op \in Writers)
      /\ <<p, "edit">> \notin crossed' =>
           \A r \in On(p) : ~(op = "edit" /\ req[r].op = "edit")
  BY DEF Read
<1>6. TypeOK'
  BY <1>0, <1>1, <1>2, <1>3, <1>4, RequestTypes DEF TypeOK, PostRequests
<1>7. RequestShaped(new) /\ \A a \in Requests : RequestShaped(req'[a])
  BY <1>0, <1>1, <1>2, <1>3 DEF RequestShaped
<1>8. /\ On(p)' = On(p) \cup {q} /\ q \notin On(p) /\ req'[q] = new
      /\ \A r \in On(p) : req'[r] = req[r]
      /\ \A x \in Posts : x # p => On(x)' = On(x) /\ q \notin On(x)
  BY <1>1, <1>2, <1>3 DEF On
<1>9. OneHolder'
  BY <1>0, <1>1, <1>2, <1>3, <1>8 DEF OneHolder, Holds, On
<1>10. GoneForGood'
  BY <1>0, <1>1, <1>2, <1>3 DEF GoneForGood
<1>11. CreatedAlone'
  <2>1. ASSUME NEW a \in On(p)
        PROVE  ~(req[a].op = "create" /\ Open(req[a]))
    BY <1>0, <2>1 DEF CreatedAlone
  <2>2. op = "create" => On(p)' = {q} /\ status'[p] = "none"
    BY <1>3, <1>8
  <2>3. ASSUME NEW x \in Posts, NEW a \in On(x)', req'[a].op = "create", Open(req'[a])
        PROVE  status'[x] = "none" /\ On(x)' = {a}
    <3>1. CASE x = p
      BY <1>2, <1>8, <2>1, <2>2, <2>3, <3>1
    <3>2. CASE x # p
      BY <1>0, <1>3, <1>8, <2>3, <3>2 DEF CreatedAlone, On
    <3>3. QED
      BY <3>1, <3>2
  <2>4. QED
    BY <2>3 DEF CreatedAlone
<1>12. IndexSound(p)'
  <2>1. SUFFICES ASSUME <<p, "index">> \notin crossed'
                 PROVE  StatusKnown(p)' /\ (p \notin lost' => IndexDue(p)')
    BY DEF IndexSound
  <2>2. StatusKnown(p) /\ (p \notin lost => IndexDue(p))
    BY <1>0, <1>4, <2>1 DEF IndexSound
  <2>3. StatusKnown(p)'
    BY <1>2, <1>3, <1>5, <1>8, <2>1, <2>2 DEF StatusKnown, Open, Writers, Removers
  <2>4. p \notin lost' => IndexDue(p)'
    BY <1>3, <1>8, <2>2 DEF IndexDue
  <2>5. QED
    BY <2>3, <2>4
<1>13. TagsSound(p)'
  BY <1>0, <1>2, <1>3, <1>4, <1>5, <1>8 DEF TagsSound
<1>14. ASSUME NEW x \in Posts, x # p
       PROVE  IndexSound(x)' /\ TagsSound(x)'
  BY <1>1, <1>2, <1>3, <1>4, <1>14, OtherPostKeeps
<1>15. QED
  BY <1>6, <1>7, <1>9, <1>10, <1>11, <1>12, <1>13, <1>14 DEF PostsInv

\* A transaction that ends without having changed a post.
LEMMA DroppedKeeps ==
  ASSUME PostsInv, NEW q \in Requests, Open(req[q]), req' = [req EXCEPT ![q] = Idle],
         count' \in Counts, UNCHANGED <<status, topics, tagged, index, job, lost, crossed>>
  PROVE  PostsInv'
<1>0. /\ TypeOK /\ OneHolder /\ GoneForGood /\ CreatedAlone
      /\ \A a \in Requests : RequestShaped(req[a])
      /\ \A x \in Posts : IndexSound(x) /\ TagsSound(x)
  BY DEF PostsInv
<1>1. /\ req \in [Requests -> PostRequests] /\ Idle \in PostRequests
      /\ Idle.p \notin Posts /\ Idle.stage = "none"
  BY <1>0, RequestTypes, IdleRequest, ProjectionAssumption DEF Idle
<1>2. TypeOK'
  BY <1>0, <1>1, RequestTypes DEF TypeOK, PostRequests
<1>3. \A a \in Requests : RequestShaped(req'[a])
  BY <1>0, <1>1, IdleRequest
<1>4. ASSUME NEW x \in Posts
      PROVE  On(x)' = On(x) \ {q} /\ \A r \in On(x)' : req'[r] = req[r]
  BY <1>1 DEF On
<1>5. OneHolder'
  BY <1>0, <1>4 DEF OneHolder, Holds
<1>6. GoneForGood'
  BY <1>0, <1>1 DEF GoneForGood
<1>7. CreatedAlone'
  BY <1>0, <1>4 DEF CreatedAlone
<1>8. ASSUME NEW x \in Posts
      PROVE  IndexSound(x)'
  <2>1. StatusKnown(x) => StatusKnown(x)'
    BY <1>4 DEF StatusKnown
  <2>2. \A r \in On(x) : ~Open(req[r]) => r \in On(x)' /\ req'[r] = req[r]
    BY <1>4
  <2>3. IndexDue(x) => IndexDue(x)'
    BY <2>2 DEF IndexDue
  <2>4. QED
    BY <1>0, <2>1, <2>3 DEF IndexSound
<1>9. ASSUME NEW x \in Posts
      PROVE  TagsSound(x)'
  BY <1>0, <1>4 DEF TagsSound
<1>10. QED
  BY <1>2, <1>3, <1>5, <1>6, <1>7, <1>8, <1>9 DEF PostsInv

LEMMA RollBackPostKeeps ==
  ASSUME PostsInv, NEW q \in Requests, RollBack(q)
  PROVE  PostsInv'
<1>1. count' \in Counts
  BY DEF RollBack, PostsInv, TypeOK
<1>2. QED
  BY <1>1, DroppedKeeps DEF RollBack, Open

LEMMA FlushKeeps ==
  ASSUME PostsInv, NEW q \in Requests, Flush(q)
  PROVE  PostsInv'
<1>0. /\ TypeOK /\ OneHolder /\ GoneForGood /\ CreatedAlone
      /\ \A a \in Requests : RequestShaped(req[a])
      /\ \A x \in Posts : IndexSound(x) /\ TagsSound(x)
  BY DEF PostsInv
<1>1. req \in [Requests -> PostRequests] /\ count \in Counts
  BY <1>0, RequestTypes DEF TypeOK
<1> DEFINE r == req[q]
<1>2. r.stage = "read" /\ r.p \in Posts /\ q \in On(r.p)
  BY <1>0 DEF Flush, RequestShaped, Idle, On
<1>3. CASE Fails(r)
  BY <1>1, <1>2, <1>3, DroppedKeeps DEF Flush, Open
<1>4. CASE ~Fails(r)
  <2>1. PICK c \in Counts :
          req' = [req EXCEPT ![q] = [r EXCEPT !.stage = "flushed", !.seen = count, !.new = c]]
    <3> DEFINE c == [t \in Topics |-> IF t \in Refreshed(r)
                                      THEN PostCount(t, OwnStatus(r), OwnTags(r))
                                      ELSE count[t]]
    <3>1. c \in Counts
      BY <1>1, PostsCounted DEF Counts
    <3>2. req' = [req EXCEPT ![q] = [r EXCEPT !.stage = "flushed", !.seen = count, !.new = c]]
      BY <1>4 DEF Flush
    <3>3. QED
      BY <3>1, <3>2
  <2>2. PICK new \in PostRequests :
          /\ new = [r EXCEPT !.stage = "flushed", !.seen = count, !.new = c]
          /\ new.op = r.op /\ new.stage = "flushed" /\ new.p = r.p /\ new.old = r.old
    <3>1. /\ r \in PostRequests
          /\ [r EXCEPT !.stage = "flushed", !.seen = count, !.new = c] \in PostRequests
      BY <1>1 DEF PostRequests
    <3>2. QED
      BY <3>1 DEF PostRequests
  <2>3. /\ req' = [req EXCEPT ![q] = new]
        /\ UNCHANGED <<status, topics, tagged, count, index, job, lost, crossed>>
    BY <2>1, <2>2 DEF Flush
  <2>4. TypeOK'
    BY <1>0, <1>1, <2>2, <2>3, RequestTypes DEF TypeOK, PostRequests
  <2>5. \A a \in Requests : RequestShaped(req'[a])
    <3>1. RequestShaped(new)
      BY <1>0, <1>2, <2>2 DEF RequestShaped, Idle
    <3>2. QED
      BY <1>0, <1>1, <2>3, <3>1
  <2>6. ASSUME NEW x \in Posts
        PROVE  On(x)' = On(x)
    BY <1>1, <2>2, <2>3 DEF On
  <2>7. \A a \in Requests : /\ req'[a].op = req[a].op /\ req'[a].p = req[a].p
                            /\ req'[a].old = req[a].old /\ (Open(req'[a]) <=> Open(req[a]))
                            /\ a # q => req'[a] = req[a]
    BY <1>1, <1>2, <2>2, <2>3 DEF Open
  <2>8. OneHolder'
    <3>1. ASSUME NEW x \in Posts, NEW a \in On(x)', NEW b \in On(x)', Holds(a)', Holds(b)'
          PROVE  a = b
      <4>1. a \in On(x) /\ b \in On(x) /\ a \in Requests /\ b \in Requests
        BY <2>6, <3>1 DEF On
      <4>5. r.op # "interact" => \A o \in On(r.p) \ {q} : ~Holds(o)
        BY DEF Flush
      <4>6. req'[q].op = r.op
        BY <2>7
      <4>2. CASE a # q /\ b # q
        BY <1>0, <2>7, <3>1, <4>1, <4>2 DEF OneHolder, Holds
      <4>3. CASE a = q
        BY <2>7, <3>1, <4>1, <4>3, <4>5, <4>6 DEF Holds, On
      <4>4. CASE b = q
        BY <2>7, <3>1, <4>1, <4>4, <4>5, <4>6 DEF Holds, On
      <4>7. QED
        BY <4>2, <4>3, <4>4
    <3>2. QED
      BY <3>1 DEF OneHolder
  <2>9. GoneForGood'
    <3>1. r.op \in {"archive", "restore"} => status[r.p] # "deleted"
      BY <1>4 DEF Fails
    <3>2. QED
      BY <1>0, <2>3, <2>7, <3>1 DEF GoneForGood
  <2>10. CreatedAlone'
    BY <1>0, <2>3, <2>6, <2>7 DEF CreatedAlone, On
  <2>11. ASSUME NEW x \in Posts
         PROVE  IndexSound(x)'
    <3>1. StatusKnown(x) => StatusKnown(x)'
      BY <2>3, <2>6, <2>7 DEF StatusKnown, On
    <3>2. IndexDue(x) => IndexDue(x)'
      BY <2>3, <2>6, <2>7 DEF IndexDue, On
    <3>3. QED
      BY <1>0, <2>3, <3>1, <3>2 DEF IndexSound
  <2>12. ASSUME NEW x \in Posts
         PROVE  TagsSound(x)'
    BY <1>0, <2>3, <2>6, <2>7 DEF TagsSound, On
  <2>13. QED
    BY <2>4, <2>5, <2>8, <2>9, <2>10, <2>11, <2>12 DEF PostsInv
<1>5. QED
  BY <1>3, <1>4

LEMMA CommitKeeps ==
  ASSUME PostsInv, NEW q \in Requests, Commit(q)
  PROVE  PostsInv'
<1>0. /\ TypeOK /\ OneHolder /\ GoneForGood /\ CreatedAlone
      /\ \A a \in Requests : RequestShaped(req[a])
      /\ \A x \in Posts : IndexSound(x) /\ TagsSound(x)
  BY DEF PostsInv
<1> DEFINE r == req[q]
<1>1. /\ req \in [Requests -> PostRequests] /\ r \in PostRequests
      /\ status \in [Posts -> {"none", "active", "archived", "deleted"}]
      /\ topics \in [Posts -> SUBSET Topics] /\ tagged \in [Posts -> SUBSET Topics]
      /\ r.seen \in Counts /\ r.new \in Counts /\ count \in Counts
      /\ r.topics \in SUBSET Topics
  BY <1>0, RequestTypes DEF TypeOK, PostRequests
<1>2. r.stage = "flushed" /\ r.p \in Posts /\ q \in On(r.p)
  BY <1>0 DEF Commit, RequestShaped, Idle, On
<1>p. PICK p \in Posts : p = r.p
  BY <1>2
<1>3. count' \in Counts
  BY <1>1, CountsWritten DEF Commit
<1>4. CASE r.op = "interact"
  <2>1. status' = status /\ topics' = topics /\ tagged' = tagged
    BY <1>1, <1>2, <1>p, <1>4 DEF Commit, StatusAfter, OwnTags
  <2>2. req' = [req EXCEPT ![q] = Idle] /\ UNCHANGED <<index, job, lost, crossed>>
    BY <1>4 DEF Commit
  <2>3. QED
    BY <1>2, <1>p, <1>3, <2>1, <2>2, DroppedKeeps DEF Open
<1>5. CASE r.op # "interact"
  <2>1. r.op \in Writers \cup Removers
    BY <1>0, <1>2, <1>p, <1>5 DEF RequestShaped, Idle
  <2>2. PICK new \in PostRequests :
          /\ new = [Idle EXCEPT !.op = r.op, !.stage = "after", !.p = p]
          /\ new.op = r.op /\ new.stage = "after" /\ new.p = p
    <3>1. [Idle EXCEPT !.op = r.op, !.stage = "after", !.p = p] \in PostRequests
      BY <2>1, <1>2, <1>p, IdleRequest DEF PostRequests
    <3>2. QED
      BY <3>1, IdleRequest DEF PostRequests
  <2>3. /\ req' = [req EXCEPT ![q] = new]
        /\ UNCHANGED <<index, job, lost, crossed>>
    BY <1>5, <1>p, <2>2 DEF Commit
  <2>4. /\ status'[p] = StatusAfter(r)
        /\ topics'[p] = IF r.op \in {"create", "edit"} THEN r.topics ELSE topics[p]
        /\ tagged'[p] = CASE r.op \in {"create", "edit"} -> (tagged[p] \ r.old) \cup r.topics
                          [] r.op = "delete" -> {}
                          [] OTHER -> tagged[p]
        /\ \A x \in Posts : x # p => /\ status'[x] = status[x] /\ topics'[x] = topics[x]
                                     /\ tagged'[x] = tagged[x]
    BY <1>1, <1>2, <1>p DEF Commit, OwnTags, Retagged
  <2>5. StatusAfter(r) \in {"none", "active", "archived", "deleted"}
    BY <1>1, <1>2, <1>p DEF StatusAfter
  <2>6. TypeOK'
    <3>1. status' \in [Posts -> {"none", "active", "archived", "deleted"}]
      BY <1>1, <1>2, <1>p, <2>5 DEF Commit
    <3>2. topics' \in [Posts -> SUBSET Topics]
      BY <1>1, <1>2, <1>p DEF Commit
    <3>3. tagged' \in [Posts -> SUBSET Topics]
      BY <1>1, <1>2, <1>p DEF Commit, OwnTags, Retagged
    <3>4. req' \in [Requests -> PostRequests]
      BY <1>1, <2>3
    <3>5. QED
      BY <1>0, <1>3, <2>3, <3>1, <3>2, <3>3, <3>4 DEF TypeOK, PostRequests
  <2>7. \A a \in Requests : RequestShaped(req'[a])
    <3>1. RequestShaped(new)
      BY <1>2, <1>p, <2>1, <2>2 DEF RequestShaped
    <3>2. QED
      BY <1>0, <1>1, <2>3, <3>1
  <2>8. ASSUME NEW x \in Posts
        PROVE  On(x)' = On(x)
    BY <1>1, <1>p, <2>2, <2>3 DEF On
  <2>9. /\ \A a \in Requests : a # q => req'[a] = req[a]
        /\ req'[q] = new /\ ~Open(req'[q])
    BY <1>1, <2>2, <2>3 DEF Open
  <2>10. \A a \in On(p) : Holds(a) => a = q
    BY <1>0, <1>2, <1>p, <1>5 DEF OneHolder, Holds
  <2>11. OneHolder'
    <3>1. ASSUME NEW x \in Posts, NEW a \in On(x)', NEW b \in On(x)', Holds(a)', Holds(b)'
          PROVE  a = b
      <4>1. a \in On(x) /\ b \in On(x) /\ a \in Requests /\ b \in Requests
        BY <2>8, <3>1 DEF On
      <4>2. a # q /\ b # q
        BY <2>2, <2>9, <3>1 DEF Holds
      <4>3. QED
        BY <1>0, <2>9, <3>1, <4>1, <4>2 DEF OneHolder, Holds
    <3>2. QED
      BY <3>1 DEF OneHolder
  <2>12. GoneForGood'
    <3>1. ASSUME NEW a \in Requests, req'[a].stage = "flushed",
                 req'[a].op \in {"archive", "restore"}
          PROVE  status'[req'[a].p] # "deleted"
      <4>1. a # q /\ req'[a] = req[a] /\ status[req[a].p] # "deleted"
        BY <1>0, <2>2, <2>9, <3>1 DEF GoneForGood
      <4>2. req[a].p \in Posts
        BY <1>0, <3>1, <4>1 DEF RequestShaped, Idle
      <4>3. req[a].p # p
        BY <2>10, <3>1, <4>1 DEF Holds, On
      <4>4. QED
        BY <2>4, <4>1, <4>2, <4>3
    <3>2. QED
      BY <3>1 DEF GoneForGood
  <2>13. CreatedAlone'
    <3>1. ASSUME NEW x \in Posts, NEW a \in On(x), req'[a].op = "create", Open(req'[a])
          PROVE  status'[x] = "none" /\ On(x) = {a}
      <4>1. a # q /\ req'[a] = req[a]
        BY <2>9, <3>1 DEF On
      <4>2. status[x] = "none" /\ On(x) = {a}
        BY <1>0, <3>1, <4>1 DEF CreatedAlone
      <4>3. x # p
        BY <1>2, <1>p, <4>1, <4>2
      <4>4. QED
        BY <2>4, <4>2, <4>3
    <3>2. QED
      BY <2>8, <3>1 DEF CreatedAlone
  <2>14. r.op = "create" => On(p) = {q}
    BY <1>0, <1>2, <1>p DEF CreatedAlone, Open
  <2>15. IndexSound(p)'
    <3>1. SUFFICES ASSUME <<p, "index">> \notin crossed'
                   PROVE  StatusKnown(p)' /\ (p \notin lost' => IndexDue(p)')
      BY DEF IndexSound
    <3>2. StatusKnown(p) /\ (p \notin lost => IndexDue(p))
      BY <1>0, <1>2, <1>p, <2>3, <3>1 DEF IndexSound
    <3>3. /\ r.op \in Writers => status'[p] = "active"
          /\ r.op \in Removers => status'[p] # "active"
      BY <1>2, <1>p, <2>4, <3>2 DEF StatusAfter, StatusKnown, Writers, Removers
    <3>4. \A a \in On(p) : req'[a].op = req[a].op
      BY <1>2, <1>p, <2>2, <2>9 DEF On
    <3>5. \A a, b \in On(p) : ~(req'[a].op \in Writers /\ req'[b].op \in Removers)
      BY <3>2, <3>4 DEF StatusKnown
    <3>6. ASSUME NEW a \in On(p)
          PROVE  /\ req'[a].op = "edit" => status'[p] = "active"
                 /\ req'[a].op = "restore" => status'[p] \in {"active", "archived"}
                 /\ req'[a].op \in Writers /\ ~Open(req'[a]) => status'[p] = "active"
                 /\ req'[a].op \in Removers /\ ~Open(req'[a]) => status'[p] # "active"
      <4>1. CASE r.op \in Writers
        BY <1>2, <1>p, <3>2, <3>3, <3>4, <4>1 DEF StatusKnown, Writers, Removers
      <4>2. CASE r.op \in Removers
        BY <1>2, <1>p, <3>2, <3>3, <3>4, <4>2 DEF StatusKnown, Writers, Removers
      <4>3. QED
        BY <2>1, <4>1, <4>2
    <3>7. StatusKnown(p)'
      BY <1>2, <1>p, <2>8, <3>5, <3>6 DEF StatusKnown
    <3>8. IndexDue(p)'
      <4>1. CASE r.op \in Writers
        BY <1>2, <1>p, <2>2, <2>8, <2>9, <3>3, <4>1 DEF IndexDue
      <4>2. CASE r.op \in Removers
        BY <1>2, <1>p, <2>2, <2>8, <2>9, <3>3, <4>2 DEF IndexDue
      <4>3. QED
        BY <2>1, <4>1, <4>2
    <3>9. QED
      BY <3>7, <3>8
  <2>16. TagsSound(p)'
    <3>1. SUFFICES ASSUME <<p, "edit">> \notin crossed'
                   PROVE  /\ \A a, b \in On(p) :
                               req'[a].op = "edit" /\ req'[b].op = "edit" => a = b
                          /\ \A a \in On(p) :
                               req'[a].op \in {"create", "edit"} /\ Open(req'[a])
                                 => tagged'[p] \subseteq req'[a].old
                          /\ status'[p] # "deleted" => tagged'[p] = topics'[p]
      BY <1>2, <1>p, <2>8 DEF TagsSound
    <3>2. /\ \A a, b \in On(p) : req[a].op = "edit" /\ req[b].op = "edit" => a = b
          /\ \A a \in On(p) : req[a].op \in {"create", "edit"} /\ Open(req[a])
                                => tagged[p] \subseteq req[a].old
          /\ status[p] # "deleted" => tagged[p] = topics[p]
      BY <1>0, <1>2, <1>p, <2>3, <3>1 DEF TagsSound
    <3>3. \A a \in On(p) : req'[a].op = req[a].op
      BY <1>2, <1>p, <2>2, <2>9 DEF On
    <3>4. ASSUME NEW a \in On(p), req'[a].op \in {"create", "edit"}, Open(req'[a])
          PROVE  tagged'[p] \subseteq req'[a].old
      <4>1. a # q /\ req'[a] = req[a] /\ tagged[p] \subseteq req[a].old
        BY <2>9, <3>2, <3>4 DEF On
      <4>2. req[a].op # "create"
        BY <1>0, <1>2, <1>p, <3>4, <4>1 DEF CreatedAlone
      <4>3. r.op \notin {"create", "edit"}
        BY <1>2, <1>p, <2>14, <3>2, <3>4, <4>1, <4>2
      <4>4. QED
        BY <2>4, <4>1, <4>3
    <3>5. status'[p] # "deleted" => tagged'[p] = topics'[p]
      <4>1. CASE r.op \in {"create", "edit"}
        BY <1>2, <1>p, <2>4, <3>2, <4>1 DEF Open
      <4>2. CASE r.op \in {"archive", "restore"}
        BY <1>0, <1>2, <1>p, <2>4, <3>2, <4>2 DEF GoneForGood
      <4>3. CASE r.op = "delete"
        BY <2>4, <4>3 DEF StatusAfter
      <4>4. QED
        BY <2>1, <4>1, <4>2, <4>3 DEF Writers, Removers
    <3>6. QED
      BY <3>2, <3>3, <3>4, <3>5
  <2>17. ASSUME NEW x \in Posts, x # p
         PROVE  IndexSound(x)' /\ TagsSound(x)'
    BY <1>p, <2>2, <2>3, <2>4, <2>17, OtherPostKeeps
  <2>18. QED
    BY <2>6, <2>7, <2>11, <2>12, <2>13, <2>15, <2>16, <2>17 DEF PostsInv
<1>6. QED
  BY <1>4, <1>5

\* A step after a commit: whoever is done no longer counts, and what it did to
\* the document is right for the post.
LEMMA AfterKeeps ==
  ASSUME PostsInv, NEW q \in Requests, NEW p \in Posts, req[q].p = p, ~Open(req[q]),
         NEW new \in PostRequests, RequestShaped(new), req' = [req EXCEPT ![q] = new],
         \/ new = Idle
         \/ new.p = p /\ new.op = req[q].op /\ ~Open(new),
         UNCHANGED <<status, topics, tagged, count, job, crossed>>,
         lost \subseteq lost', lost' \subseteq Posts, index' \subseteq Posts,
         \A x \in Posts : x # p => (x \in index' <=> x \in index),
         StatusKnown(p) /\ p \notin lost' /\ IndexDue(p) => IndexDue(p)'
  PROVE  PostsInv'
<1>0. /\ TypeOK /\ OneHolder /\ GoneForGood /\ CreatedAlone
      /\ \A a \in Requests : RequestShaped(req[a])
      /\ \A x \in Posts : IndexSound(x) /\ TagsSound(x)
  BY DEF PostsInv
<1>1. /\ req \in [Requests -> PostRequests] /\ Idle.p \notin Posts /\ ~Open(Idle)
      /\ Idle.op = "idle"
  BY <1>0, RequestTypes, ProjectionAssumption DEF Idle, Open
<1>2. TypeOK'
  BY <1>0, <1>1, RequestTypes DEF TypeOK, PostRequests
<1>3. \A a \in Requests : RequestShaped(req'[a])
  BY <1>0, <1>1
<1>4. /\ \A a \in Requests : a # q => req'[a] = req[a]
      /\ req'[q] = new /\ ~Open(req'[q])
  BY <1>1
<1>5. ASSUME NEW x \in Posts
      PROVE  On(x)' \subseteq On(x) /\ (x # p => On(x)' = On(x) /\ q \notin On(x))
  BY <1>1 DEF On
<1>6. ASSUME NEW a \in Requests, Open(req'[a])
      PROVE  a # q /\ req'[a] = req[a]
  BY <1>4, <1>6
<1>7. OneHolder'
  <2>1. ASSUME NEW x \in Posts, NEW a \in On(x)', NEW b \in On(x)', Holds(a)', Holds(b)'
        PROVE  a = b
    <3>1. a \in On(x) /\ b \in On(x) /\ a \in Requests /\ b \in Requests
      BY <1>5, <2>1 DEF On
    <3>2. Open(req'[a]) /\ Open(req'[b])
      BY <2>1 DEF Holds, Open
    <3>3. QED
      BY <1>0, <1>6, <2>1, <3>1, <3>2 DEF OneHolder, Holds
  <2>2. QED
    BY <2>1 DEF OneHolder
<1>8. GoneForGood'
  BY <1>0, <1>6 DEF GoneForGood, Open
<1>9. CreatedAlone'
  <2>1. ASSUME NEW x \in Posts, NEW a \in On(x)', req'[a].op = "create", Open(req'[a])
        PROVE  status'[x] = "none" /\ On(x)' = {a}
    <3>1. a \in On(x) /\ a \in Requests
      BY <1>5, <2>1 DEF On
    <3>2. status[x] = "none" /\ On(x) = {a}
      BY <1>0, <1>6, <2>1, <3>1 DEF CreatedAlone
    <3>3. QED
      BY <1>5, <2>1, <3>2
  <2>2. QED
    BY <2>1 DEF CreatedAlone
<1>10. \A a \in On(p)' : a \in On(p) /\ req'[a].op = req[a].op
                         /\ (Open(req'[a]) <=> Open(req[a]))
  BY <1>1, <1>4, <1>5 DEF On
<1>11. IndexSound(p)'
  <2>1. StatusKnown(p) => StatusKnown(p)'
    BY <1>10 DEF StatusKnown
  <2>2. QED
    BY <1>0, <2>1 DEF IndexSound
<1>12. TagsSound(p)'
  <2>1. \A a \in On(p)' : Open(req'[a]) => req'[a] = req[a]
    BY <1>6 DEF On
  <2>2. QED
    BY <1>0, <1>10, <2>1 DEF TagsSound
<1>13. ASSUME NEW x \in Posts, x # p
       PROVE  IndexSound(x)' /\ TagsSound(x)'
  <2>1. new.p # x
    BY <1>1, <1>13
  <2>2. QED
    BY <1>13, <2>1, OtherPostKeeps
<1>14. QED
  BY <1>2, <1>3, <1>7, <1>8, <1>9, <1>11, <1>12, <1>13 DEF PostsInv

\* What is known of a request after its commit.
LEMMA AfterCommit ==
  ASSUME PostsInv, NEW q \in Requests, req[q].stage \in {"after", "upsert"}
  PROVE  /\ req[q].p \in Posts /\ ~Open(req[q]) /\ req[q].op \in Writers \cup Removers
         /\ q \in On(req[q].p)
BY DEF PostsInv, RequestShaped, Idle, Open, On

LEMMA UnindexKeeps ==
  ASSUME PostsInv, NEW q \in Requests, Unindex(q)
  PROVE  PostsInv'
<1>1. PICK p \in Posts : p = req[q].p /\ ~Open(req[q]) /\ q \in On(p)
  BY AfterCommit DEF Unindex
<1>2. /\ req[q].op \in Removers /\ req' = [req EXCEPT ![q] = Idle] /\ index' = index \ {p}
      /\ UNCHANGED <<status, topics, tagged, count, job, lost, crossed>>
  BY <1>1 DEF Unindex, RemovesDocument
<1>3. index \subseteq Posts /\ lost \subseteq Posts
  BY DEF PostsInv, TypeOK
<1>4. StatusKnown(p) => IndexDue(p)'
  BY <1>1, <1>2 DEF StatusKnown, IndexDue
<1>5. QED
  BY <1>1, <1>2, <1>3, <1>4, IdleRequest, AfterKeeps

LEMMA ReadForIndexKeeps ==
  ASSUME PostsInv, NEW q \in Requests, ReadForIndex(q)
  PROVE  PostsInv'
<1>1. PICK p \in Posts : p = req[q].p /\ ~Open(req[q]) /\ q \in On(p)
  BY AfterCommit DEF ReadForIndex
<1>2. /\ req[q].op \in Writers
      /\ UNCHANGED <<status, topics, tagged, count, index, job, lost, crossed>>
  BY DEF ReadForIndex
<1>3. /\ index \subseteq Posts /\ lost \subseteq Posts
      /\ req \in [Requests -> PostRequests]
  BY RequestTypes DEF PostsInv, TypeOK
<1>4. CASE status[p] = "deleted"
  <2>1. req' = [req EXCEPT ![q] = Idle]
    BY <1>1, <1>4 DEF ReadForIndex
  <2>2. ~StatusKnown(p)
    BY <1>1, <1>2, <1>4 DEF StatusKnown
  <2>3. QED
    BY <1>1, <1>2, <1>3, <2>1, <2>2, IdleRequest, AfterKeeps
<1>5. CASE status[p] # "deleted"
  <2>1. PICK new \in PostRequests :
          /\ new = [req[q] EXCEPT !.stage = "upsert"]
          /\ new.op = req[q].op /\ new.p = p /\ new.stage = "upsert"
    <3>1. req[q] \in PostRequests /\ [req[q] EXCEPT !.stage = "upsert"] \in PostRequests
      BY <1>3 DEF PostRequests
    <3>2. QED
      BY <1>1, <3>1 DEF PostRequests
  <2>2. req' = [req EXCEPT ![q] = new]
    BY <1>1, <1>5, <2>1 DEF ReadForIndex
  <2>3. RequestShaped(new) /\ ~Open(new)
    BY <1>2, <2>1 DEF RequestShaped, Open
  <2>4. On(p)' = On(p) /\ \A a \in On(p) : /\ req'[a].op = req[a].op
                                           /\ (Open(req'[a]) <=> Open(req[a]))
    BY <1>1, <1>3, <2>1, <2>2, <2>3 DEF On
  <2>5. IndexDue(p) => IndexDue(p)'
    BY <1>2, <2>4 DEF IndexDue
  <2>6. QED
    BY <1>1, <1>2, <1>3, <2>1, <2>2, <2>3, <2>5, AfterKeeps
<1>6. QED
  BY <1>4, <1>5

LEMMA UpsertKeeps ==
  ASSUME PostsInv, NEW q \in Requests, Upsert(q)
  PROVE  PostsInv'
<1>1. PICK p \in Posts : p = req[q].p /\ ~Open(req[q]) /\ q \in On(p)
  BY AfterCommit DEF Upsert
<1>2. /\ req' = [req EXCEPT ![q] = Idle] /\ index' = index \cup {p}
      /\ UNCHANGED <<status, topics, tagged, count, job, lost, crossed>>
  BY <1>1 DEF Upsert
<1>3. req[q].op \in Writers
  BY DEF Upsert, PostsInv, RequestShaped, Idle
<1>4. index \subseteq Posts /\ lost \subseteq Posts
  BY DEF PostsInv, TypeOK
<1>5. StatusKnown(p) => IndexDue(p)'
  BY <1>1, <1>2, <1>3 DEF StatusKnown, IndexDue
<1>6. QED
  BY <1>1, <1>2, <1>4, <1>5, IdleRequest, AfterKeeps

LEMMA LoseUpdateKeeps ==
  ASSUME PostsInv, NEW q \in Requests, LoseUpdate(q)
  PROVE  PostsInv'
<1>1. PICK p \in Posts : p = req[q].p /\ ~Open(req[q]) /\ q \in On(p)
  BY AfterCommit DEF LoseUpdate
<1>2. /\ req' = [req EXCEPT ![q] = Idle] /\ lost' = lost \cup {p}
      /\ UNCHANGED <<status, topics, tagged, count, index, job, crossed>>
  BY <1>1 DEF LoseUpdate
<1>3. index \subseteq Posts /\ lost \subseteq Posts
  BY DEF PostsInv, TypeOK
<1>4. QED
  BY <1>1, <1>2, <1>3, IdleRequest, AfterKeeps

\* The periodic job touches nothing but counts.
LEMMA JobKeeps ==
  ASSUME PostsInv, JobRead \/ JobCommit
  PROVE  PostsInv'
<1>0. TypeOK
  BY DEF PostsInv
<1>1. UNCHANGED <<status, topics, tagged, index, req, lost, crossed>>
  BY DEF JobRead, JobCommit
<1>2. count' \in Counts /\ job' \in [on : BOOLEAN, seen : Counts, new : Counts]
  <2>1. CASE JobRead
    <3>1. [t \in Topics |-> PostCount(t, status, tagged)] \in Counts
      BY PostsCounted DEF Counts
    <3>2. QED
      BY <1>0, <2>1, <3>1 DEF JobRead, TypeOK
  <2>2. CASE JobCommit
    <3>1. Written(count, job.seen, job.new) \in Counts
      BY <1>0, CountsWritten DEF TypeOK
    <3>2. QED
      BY <2>2, <3>1 DEF JobCommit, Asleep, Unread, Counts
  <2>3. QED
    BY <2>1, <2>2
<1>3. TypeOK'
  BY <1>0, <1>1, <1>2 DEF TypeOK
<1>4. \A x \in Posts : On(x)' = On(x)
  BY <1>1 DEF On
<1>5. \A x \in Posts : (IndexSound(x) <=> IndexSound(x)') /\ (TagsSound(x) <=> TagsSound(x)')
  BY <1>1, <1>4 DEF IndexSound, StatusKnown, IndexDue, TagsSound
<1>6. (OneHolder /\ GoneForGood /\ CreatedAlone)'
  BY <1>1, <1>4 DEF PostsInv, OneHolder, Holds, GoneForGood, CreatedAlone
<1>7. QED
  BY <1>1, <1>3, <1>5, <1>6 DEF PostsInv

LEMMA PostsStep == PostsInv /\ [Next]_vars => PostsInv'
<1> SUFFICES ASSUME PostsInv, [Next]_vars PROVE PostsInv'
  OBVIOUS
<1>1. CASE UNCHANGED vars
  <2>1. UNCHANGED <<status, topics, tagged, count, index, req, job, lost, crossed>>
    BY <1>1 DEF vars
  <2>2. \A x \in Posts : On(x)' = On(x)
    BY <2>1 DEF On
  <2>3. \A x \in Posts : (IndexSound(x) <=> IndexSound(x)') /\ (TagsSound(x) <=> TagsSound(x)')
    BY <2>1, <2>2 DEF IndexSound, StatusKnown, IndexDue, TagsSound
  <2>4. (OneHolder /\ GoneForGood /\ CreatedAlone)'
    BY <2>1, <2>2 DEF PostsInv, OneHolder, Holds, GoneForGood, CreatedAlone
  <2>5. TypeOK'
    BY <2>1 DEF PostsInv, TypeOK
  <2>6. QED
    BY <2>1, <2>3, <2>4, <2>5 DEF PostsInv
<1>2. ASSUME NEW q \in Requests, NEW p \in Posts, NEW T \in SUBSET Topics,
             Create(q, p, T) \/ Edit(q, p, T)
      PROVE  PostsInv'
  <2>1. CASE Create(q, p, T)
    BY <2>1, ReadKeeps DEF Create, Writers
  <2>2. CASE Edit(q, p, T)
    BY <2>2, ReadKeeps DEF Edit, Writers
  <2>3. QED
    BY <1>2, <2>1, <2>2
<1>3. ASSUME NEW q \in Requests, NEW p \in Posts,
             Delete(q, p) \/ Archive(q, p) \/ Restore(q, p) \/ Interact(q, p)
      PROVE  PostsInv'
  <2>1. {} \in SUBSET Topics /\ topics[p] \in SUBSET Topics
    BY DEF PostsInv, TypeOK
  <2>2. CASE Delete(q, p)
    BY <2>1, <2>2, ReadKeeps DEF Delete, Removers
  <2>3. CASE Archive(q, p)
    BY <2>1, <2>3, ReadKeeps DEF Archive, Removers
  <2>4. CASE Restore(q, p)
    BY <2>1, <2>4, ReadKeeps DEF Restore, Writers
  <2>5. CASE Interact(q, p)
    BY <2>1, <2>5, ReadKeeps DEF Interact
  <2>6. QED
    BY <1>3, <2>2, <2>3, <2>4, <2>5
<1>4. QED
  BY <1>1, <1>2, <1>3, FlushKeeps, CommitKeeps, RollBackPostKeeps, UnindexKeeps,
     ReadForIndexKeeps, UpsertKeeps, LoseUpdateKeeps, JobKeeps DEF Next

\* Every variable of posts and their projections keeps to its values, for every
\* set of posts, topics and requests (PostProjections, all handlers).
THEOREM ProjectionTypes == Spec => []TypeOK
<1>1. PostsInv => TypeOK
  BY DEF PostsInv
<1>2. QED
  BY PostsStart, PostsStep, <1>1, PTL DEF Spec

\* Once its requests are done, a post is found by a search exactly while it is in
\* the feed, unless an update of the index was lost or a request that removes the
\* document overlapped with one that writes it (search/subscribers.py:25-62,
\* admin_application.py:136, 283).
THEOREM SearchFollowsPosts == Spec => []SearchAgrees
<1>1. PostsInv => SearchAgrees
  <2> SUFFICES ASSUME PostsInv, NEW p \in Posts \ lost,
                      \A q \in On(p) : req[q].stage \in {"read", "flushed"},
                      <<p, "index">> \notin crossed
               PROVE  /\ (p \in SearchResults <=> p \in Feed)
                      /\ (p \in index => status[p] = "active")
    BY DEF SearchAgrees
  <2>1. IndexDue(p)
    BY DEF PostsInv, IndexSound
  <2>2. p \in index <=> status[p] = "active"
    BY <2>1 DEF IndexDue, Open
  <2>3. QED
    BY <2>2 DEF SearchResults, Feed
<1>2. QED
  BY PostsStart, PostsStep, <1>1, PTL DEF Spec

\* The page of a topic shows the public posts whose content names it, unless two
\* edits of a post overlapped (topic/application.py:201-226).
THEOREM TopicPagesFollowContents == Spec => []TopicPagesExact
<1>1. PostsInv => TopicPagesExact
  <2> SUFFICES ASSUME PostsInv, NEW p \in Posts, NEW t \in Topics,
                      <<p, "edit">> \notin crossed
               PROVE  p \in TopicPage(t) <=> p \in Feed /\ t \in topics[p]
    BY DEF TopicPagesExact
  <2>1. status[p] # "deleted" => tagged[p] = topics[p]
    BY DEF PostsInv, TagsSound
  <2>2. QED
    BY <2>1 DEF TopicPage, Feed
<1>2. QED
  BY PostsStart, PostsStep, <1>1, PTL DEF Spec

=============================================================================
