------------------------------- MODULE Notices -------------------------------
(***************************************************************************)
(* Notifications and the badge of unread ones: rows written in the         *)
(* transaction of what they tell about, a version per user that is raised  *)
(* after the commit, and the event stream of a client that waits for the   *)
(* version (social_platform/app/domains/notification/, api/routers/        *)
(* notifications.py).                                                      *)
(*                                                                         *)
(* Abstractions: a notification is its recipient; an event names the users *)
(* it concerns; texts, types and lists are left out, and so are the        *)
(* streams of all users but one.                                           *)
(***************************************************************************)
EXTENDS Integers, FiniteSets, Platform

CONSTANTS
  Reader,       \* the user whose client is connected
  Others,       \* other users
  MaxUnread,    \* bound: unread notifications of a user
  MaxVersion    \* bound: versions of a user

ASSUME NoticesAssumption == MaxUnread \in Nat /\ MaxVersion \in Nat

VARIABLES
  unread,    \* number of unread rows of each user
  version,   \* _versions
  telling,       \* transactions in progress and publications after them
  stream,    \* the stream of the reader
  dropped    \* history: rows of the reader went with their content since the
             \* stream last read them

noticesVars == <<unread, version, telling, stream, dropped>>

Recipients == Others \cup {Reader}

NoNotice == [stage |-> "idle", new |-> [u \in Recipients |-> 0], pending |-> {}]
Off == [stage |-> "off", seen |-> 0, shown |-> 0]

-----------------------------------------------------------------------------
(* Who is told                                                             *)

\* create_notification: nobody is told of what he did himself.
Told(sender, recipients) == [u \in Recipients |-> IF u \in recipients \ {sender} THEN 1 ELSE 0]

\* A new like or follow; one that is taken back tells nobody.
Reaction(sender, owner) == Told(sender, {owner})

\* A post with mentions, a repost, and a notice of the system.
Post(sender, mentioned) == Told(sender, mentioned)
Repost(sender, owners) == Told(sender, owners)
System(recipients) == Told(None, recipients)

\* Mutation of Comment: the author hears of a comment that mentions him twice.
TellsTwice(sender, owner, mentioned) ==
  [u \in Recipients |-> Told(sender, mentioned)[u] + Told(sender, {owner})[u]]

\* A comment tells those it mentions, and the author of the post or of the
\* comment it answers if he is not one of them.
Comment(sender, owner, mentioned) == Told(sender, mentioned \cup {owner})

\* A comment that is reposted as well is two events of one transaction.
Both(a, b) == [u \in Recipients |-> a[u] + b[u]]

Events ==
  {Reaction(s, o) : s \in Recipients, o \in Recipients}
    \cup {Post(s, m) : s \in Recipients, m \in SUBSET Recipients}
    \cup {Repost(s, o) : s \in Recipients, o \in SUBSET Recipients}
    \cup {System(r) : r \in SUBSET Recipients}
    \cup {Comment(s, o, m) : s \in Recipients, o \in Recipients, m \in SUBSET Recipients}
    \cup {Both(Comment(s, o, m), Repost(s, w)) :
            s \in Recipients, o \in Recipients, m \in SUBSET Recipients, w \in SUBSET Recipients}

-----------------------------------------------------------------------------
(* Transactions                                                            *)

Tell(q, new) ==
  /\ telling[q].stage = "idle" /\ \E u \in Recipients : new[u] > 0
  /\ telling' = [telling EXCEPT ![q] = [stage |-> "open", new |-> new,
                                pending |-> {u \in Recipients : new[u] > 0}]]
  /\ UNCHANGED <<unread, version, stream, dropped>>

CommitNotices(q) ==
  /\ telling[q].stage = "open"
  /\ \A u \in Recipients : unread[u] + telling[q].new[u] <= MaxUnread
  /\ unread' = [u \in Recipients |-> unread[u] + telling[q].new[u]]
  /\ telling' = [telling EXCEPT ![q] = [NoNotice EXCEPT !.stage = "after",
                                                      !.pending = telling[q].pending]]
  /\ UNCHANGED <<version, stream, dropped>>

RollBackNotices(q) ==
  /\ telling[q].stage = "open"
  /\ telling' = [telling EXCEPT ![q] = NoNotice]
  /\ UNCHANGED <<unread, version, stream, dropped>>

\* Mutation of PublishesRead: the other clients of the user are not told.
NeverPublishes(n) == FALSE

PublishesRead(n) == n > 0

\* mark_all_as_read, also at the end of a list of notifications.
MarkRead(q, u) ==
  /\ telling[q].stage = "idle"
  /\ unread' = [unread EXCEPT ![u] = 0]
  /\ telling' = [telling EXCEPT ![q] = [NoNotice EXCEPT !.stage = "after",
                                  !.pending = IF PublishesRead(unread[u]) THEN {u} ELSE {}]]
  /\ UNCHANGED <<version, stream, dropped>>

\* publish_notification_update, for one recipient after the other.
PublishUpdate(q, u) ==
  /\ telling[q].stage = "after" /\ u \in telling[q].pending /\ version[u] < MaxVersion
  /\ version' = [version EXCEPT ![u] = @ + 1]
  /\ telling' = [telling EXCEPT ![q].pending = @ \ {u}]
  /\ UNCHANGED <<unread, stream, dropped>>

Finish(q) ==
  /\ telling[q].stage = "after" /\ telling[q].pending = {}
  /\ telling' = [telling EXCEPT ![q] = NoNotice]
  /\ UNCHANGED <<unread, version, stream, dropped>>

\* The notifications about a post or a comment are deleted with it.
DropRow(u) ==
  /\ unread[u] > 0
  /\ unread' = [unread EXCEPT ![u] = @ - 1]
  /\ dropped' = (dropped \/ u = Reader)
  /\ UNCHANGED <<version, telling, stream>>

-----------------------------------------------------------------------------
(* The stream                                                              *)

\* The version is taken before the number is read.
Connect ==
  /\ stream.stage = "off"
  /\ stream' = [Off EXCEPT !.stage = "read", !.seen = version[Reader]]
  /\ UNCHANGED <<unread, version, telling, dropped>>

\* build_payload
Send ==
  /\ stream.stage = "read"
  /\ stream' = [stream EXCEPT !.stage = "wait", !.shown = unread[Reader]]
  /\ dropped' = FALSE
  /\ UNCHANGED <<unread, version, telling>>

\* wait_for_notification_update returns with a newer version; the time-out
\* without one sends a heartbeat and changes nothing.
Wake ==
  /\ stream.stage = "wait" /\ version[Reader] > stream.seen
  /\ stream' = [stream EXCEPT !.stage = "read", !.seen = version[Reader]]
  /\ UNCHANGED <<unread, version, telling, dropped>>

\* The life time of a stream ends, or its client leaves.
Close ==
  /\ stream.stage = "wait"
  /\ stream' = Off
  /\ dropped' = FALSE
  /\ UNCHANGED <<unread, version, telling>>

\* The versions live in the process.
Restart ==
  /\ version' = [u \in Recipients |-> 0]
  /\ telling' = [q \in Requests |-> NoNotice]
  /\ stream' = Off
  /\ dropped' = FALSE
  /\ UNCHANGED unread

NoticesInit ==
  /\ unread = [u \in Recipients |-> 0]
  /\ version = [u \in Recipients |-> 0]
  /\ telling = [q \in Requests |-> NoNotice]
  /\ stream = Off
  /\ dropped = FALSE

NoticesNext ==
  \/ \E q \in Requests :
       \/ \E e \in Events : Tell(q, e)
       \/ CommitNotices(q) \/ RollBackNotices(q) \/ Finish(q)
       \/ \E u \in Recipients : MarkRead(q, u) \/ PublishUpdate(q, u)
  \/ \E u \in Recipients : DropRow(u)
  \/ Connect \/ Send \/ Wake \/ Close
  \/ Restart

NoticesSpec == NoticesInit /\ [][NoticesNext]_noticesVars

-----------------------------------------------------------------------------
(* Properties                                                              *)

\* The values every variable can take.
NoticesTypeOK ==
  /\ unread \in [Recipients -> 0..MaxUnread]
  /\ version \in [Recipients -> 0..MaxVersion]
  /\ telling \in [Requests -> [stage : {"idle", "open", "after"}, new : [Recipients -> 0..2],
                           pending : SUBSET Recipients]]
  /\ stream \in [stage : {"off", "read", "wait"}, seen : 0..MaxVersion, shown : 0..MaxUnread]
  /\ dropped \in BOOLEAN

\* A committed change of which the stream has not been told yet.
Untold == \E q \in Requests : telling[q].stage = "after" /\ Reader \in telling[q].pending

\* No update of the badge is lost: a stream that waits and has nothing to wake
\* it shows the number of unread notifications, whatever was committed, rolled
\* back or read between its reading of the version, its reading of the number
\* and its waiting (notifications.py:99-131, stream.py:9-37,
\* application.py:31-45, 296-306), except for rows that went with a content.
BadgeCurrent ==
  stream.stage = "wait" /\ stream.seen = version[Reader] /\ ~Untold /\ ~dropped
    => stream.shown = unread[Reader]
=============================================================================
