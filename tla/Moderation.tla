------------------------------ MODULE Moderation ------------------------------
(***************************************************************************)
(* The sanctions of one user: violation events, the counts and             *)
(* restrictions they add up to, the archive and the restore of contents,   *)
(* and appeals (social_platform/app/admin/services/moderation_service.py,  *)
(* domains/content_safety/admin_application.py, appeal_application.py).    *)
(*                                                                         *)
(* Every request is a transaction of its own under READ COMMITTED.  A      *)
(* violation holds the row lock of the user from its first read to its     *)
(* commit; releases take no lock, they read and write back.  The           *)
(* administrators' endpoints never await, so their requests follow one     *)
(* another; the reviews by the language model run on the thread pool and   *)
(* overlap with them.                                                      *)
(*                                                                         *)
(* Abstractions: the term of a restriction is "running" or "over"; texts,  *)
(* operation logs and the mails are left out; a content stands for a post  *)
(* or a comment, the categories for the seven of the code.                 *)
(***************************************************************************)
EXTENDS Integers, FiniteSets, Platform

CONSTANTS
  MaxEvent,     \* bound: violation events ever recorded
  Categories,   \* categories of violations
  Content,      \* the counted category of contents ("publish", "comment")
  Account,      \* the category that bans the account and is not counted
  Reviews,      \* reviews by the language model in progress
  PermanentAt   \* the count that makes a restriction permanent: 4 in the code

ASSUME ModerationAssumption ==
  /\ {Content, Account} \subseteq Categories /\ Content # Account
  /\ None \notin Contents \cup Categories \cup Nat
  /\ Admin \notin Reviews
  /\ MaxEvent \in Nat
  /\ PermanentAt \in Nat \ {0}

Sessions == Reviews \cup {Admin}
Events == 1..MaxEvent
Counted == Categories \ {Account}

VARIABLES
  content,   \* moderation_status of each content
  mod,       \* the user's UserModeration row, per category
  event,     \* the UserViolationEvent rows
  appeal,    \* status of the appeal against the notice of each event
  req,       \* what each request has read
  raced      \* history: a release and a violation of one category overlapped

vars == <<content, mod, event, appeal, req, raced>>

Unrestricted == [count |-> 0, term |-> "none", permanent |-> FALSE, current |-> None]

NoEvent == [category |-> None, source |-> None, notified |-> FALSE,
            released |-> FALSE, reversed |-> FALSE]

Idle == [op |-> "idle", stage |-> "none", c |-> None, category |-> None,
         e |-> None, notify |-> FALSE, seen |-> Unrestricted]

InFlight(p) == req[p].op # "idle"
Recorded == {e \in Events : event[e].category # None}

\* UserViolationEvent.dedup_key: the event that stands for a content, if any.
EventOf(c) == {e \in Recorded : event[e].source = c}

\* moderation_guard: the restriction holds at this moment.
Restricts(m) == m.permanent \/ m.term = "running"

\* A request holds the row of the user from with_for_update to its commit.
Violating(p) == req[p].op \in {"archive", "sanction"} /\ req[p].stage = "write"
UserLocked(p) == \E q \in Sessions \ {p} : Violating(q)

\* The session writes an attribute only if it differs from what it loaded.
Written(now, seen, new) == IF new = seen THEN now ELSE new

\* Another request is between its read and its commit of the same category.
Overlaps(p, ops) ==
  \E q \in Sessions \ {p} :
    /\ req[q].op \in ops /\ req[q].stage = "write"
    /\ req[q].category = req[p].category

ViolationOps == {"archive", "sanction"}
ReleaseOps == {"restore", "release", "approve content", "approve user"}

-----------------------------------------------------------------------------
(* apply_user_violation and what it is called from                         *)

\* delete_post_as_admin, delete_comment_as_admin: the content must be active.
ReadArchive(p, c, notify) ==
  /\ ~InFlight(p) /\ content[c] = "active"
  /\ req' = [req EXCEPT ![p] =
               [Idle EXCEPT !.op = "archive", !.stage = "lock", !.c = c,
                  !.category = Content, !.notify = notify]]
  /\ UNCHANGED <<content, mod, event, appeal, raced>>

\* A sanction without a content: an administrator's, or the model's decision
\* on a reported user.
BeginSanction(p, category) ==
  /\ ~InFlight(p)
  /\ req' = [req EXCEPT ![p] =
               [Idle EXCEPT !.op = "sanction", !.stage = "lock",
                  !.category = category, !.notify = TRUE]]
  /\ UNCHANGED <<content, mod, event, appeal, raced>>

\* Mutation of WaitsForUser: no lock on the user.
NeverWaits(p) == FALSE

WaitsForUser(p) == UserLocked(p)

\* The user's row is locked and the user's restrictions are read.
LockUser(p) ==
  /\ req[p].stage = "lock" /\ ~WaitsForUser(p)
  /\ req' = [req EXCEPT ![p].stage = "write", ![p].seen = mod[req[p].category]]
  /\ UNCHANGED <<content, mod, event, appeal, raced>>

\* The restriction that follows from one more violation.
Restriction(now, seen, e) ==
  LET permanent == seen.count + 1 >= PermanentAt IN
  [count     |-> seen.count + 1,
   term      |-> IF permanent THEN Written(now.term, seen.term, "none") ELSE "running",
   permanent |-> Written(now.permanent, seen.permanent, permanent),
   current   |-> e]

\* A second archive of a content finds the event of the first one and changes
\* no count; otherwise the event, the count, the restriction and the notice
\* are written with the status of the content.
CommitViolation(p, e) ==
  LET r == req[p] IN
  /\ Violating(p)
  /\ content' = [c \in Contents |-> IF c = r.c THEN "archived" ELSE content[c]]
  /\ IF r.c # None /\ EventOf(r.c) # {}
     THEN UNCHANGED <<mod, event>>
     ELSE /\ e = Cardinality(Recorded) + 1
          /\ event' = [event EXCEPT ![e] =
                         [NoEvent EXCEPT !.category = r.category, !.source = r.c,
                            !.notified = r.notify]]
          /\ mod' = [mod EXCEPT ![r.category] =
                       IF r.category = Account
                       THEN [@ EXCEPT !.term = "running", !.current = e]
                       ELSE Restriction(@, r.seen, e)]
  /\ req' = [req EXCEPT ![p] = Idle]
  /\ raced' = (raced \/ Overlaps(p, ReleaseOps))
  /\ UNCHANGED appeal

-----------------------------------------------------------------------------
(* release_violation_event and what it is called from                      *)

\* restore_post_as_admin, restore_comment_as_admin: the content must be
\* archived; its event is found by the dedup key.
ReadRestore(c) ==
  /\ ~InFlight(Admin) /\ content[c] = "archived"
  /\ \E e \in EventOf(c) :
       req' = [req EXCEPT ![Admin] =
                 [Idle EXCEPT !.op = "restore", !.stage = "write", !.c = c,
                    !.category = event[e].category, !.e = e,
                    !.seen = mod[event[e].category]]]
  /\ UNCHANGED <<content, mod, event, appeal, raced>>

\* release_current_user_restriction: something must be in force.
ReadRelease(category) ==
  /\ ~InFlight(Admin) /\ Restricts(mod[category])
  /\ req' = [req EXCEPT ![Admin] =
               [Idle EXCEPT !.op = "release", !.stage = "write",
                  !.category = category, !.e = mod[category].current,
                  !.seen = mod[category]]]
  /\ UNCHANGED <<content, mod, event, appeal, raced>>

\* approve_content_appeal, approve_user_appeal: the appeal must be pending,
\* and a content to be restored archived.
ReadApprove(e) ==
  LET c == event[e].source IN
  /\ ~InFlight(Admin) /\ appeal[e] = "pending"
  /\ c # None => content[c] = "archived"
  /\ req' = [req EXCEPT ![Admin] =
               [Idle EXCEPT !.op = IF c = None THEN "approve user" ELSE "approve content",
                  !.stage = "write", !.c = c, !.category = event[e].category,
                  !.e = e, !.seen = mod[event[e].category]]]
  /\ UNCHANGED <<content, mod, event, appeal, raced>>

\* Mutation of Reverses: a restore keeps the count.
ReversesAppealsOnly(op) == op = "approve user"

\* Restores and approvals take the violation off the count, a release by an
\* administrator does not.
Reverses(op) == op # "release"

\* Mutation of Lifts: the restriction stays in force.
LiftsNothing(seen, e) == FALSE

\* The event to be released is the one in force.
Lifts(seen, e) == seen.current = e

\* Mutation of OneLess: no lower bound.
OneLessAlways(n) == n - 1

OneLess(n) == IF n > 0 THEN n - 1 ELSE 0

Reduced(now, seen, reverse) == IF reverse THEN Written(now, seen, OneLess(seen)) ELSE now

\* The row after the release of e: the restriction goes if e is the one in
\* force, the count goes down by one but not below zero.
Released(now, seen, e, reverse) ==
  LET lifted == [now EXCEPT !.term      = Written(@, seen.term, "none"),
                            !.permanent = Written(@, seen.permanent, FALSE),
                            !.current   = Written(@, seen.current, None)]
  IN [(IF Lifts(seen, e) THEN lifted ELSE now) EXCEPT
        !.count = Reduced(@, seen.count, reverse)]

\* A release that changes the restriction waits for the row a violation has
\* locked, and so does a notice, which refers to the user's row; then it
\* writes what it computed before.
CommitRelease ==
  LET r == req[Admin]
      reverse == /\ r.e # None /\ Reverses(r.op)
                 /\ r.category \in Counted /\ ~event[r.e].reversed
  IN
  /\ r.op \in ReleaseOps /\ r.stage = "write"
  /\ UserLocked(Admin) =>
       r.op \in {"restore", "approve content"} /\ ~reverse /\ ~Lifts(r.seen, r.e)
  /\ content' = [c \in Contents |-> IF c = r.c THEN "active" ELSE content[c]]
  /\ mod' = [mod EXCEPT ![r.category] = Released(@, r.seen, r.e, reverse)]
  /\ event' = [e \in Events |->
                 IF e = r.e
                 THEN [event[e] EXCEPT !.released = TRUE, !.reversed = @ \/ reverse]
                 ELSE event[e]]
  /\ appeal' = IF r.op = "approve user" THEN [appeal EXCEPT ![r.e] = "approved"] ELSE appeal
  /\ req' = [req EXCEPT ![Admin] =
               IF r.op = "approve content" THEN [r EXCEPT !.stage = "mark"] ELSE Idle]
  /\ raced' = (raced \/ Overlaps(Admin, ViolationOps))

\* The second transaction of approve_content_appeal.
MarkApproved ==
  /\ req[Admin].stage = "mark" /\ ~UserLocked(Admin)
  /\ appeal' = [appeal EXCEPT ![req[Admin].e] = "approved"]
  /\ req' = [req EXCEPT ![Admin] = Idle]
  /\ UNCHANGED <<content, mod, event, raced>>

-----------------------------------------------------------------------------
Appealable(e) == e \in Recorded /\ event[e].notified

\* create_or_update_appeal: one appeal per notice.
Appeal(e) ==
  /\ Appealable(e) /\ appeal[e] = "none"
  /\ appeal' = [appeal EXCEPT ![e] = "pending"]
  /\ UNCHANGED <<content, mod, event, req, raced>>

\* reject_appeal
Reject(e) ==
  /\ ~InFlight(Admin) /\ appeal[e] = "pending" /\ ~UserLocked(Admin)
  /\ appeal' = [appeal EXCEPT ![e] = "rejected"]
  /\ UNCHANGED <<content, mod, event, req, raced>>

\* The term of a restriction ends; bans of the account have none.
Expire(category) ==
  /\ category \in Counted /\ mod[category].term = "running"
  /\ mod' = [mod EXCEPT ![category].term = "over"]
  /\ UNCHANGED <<content, event, appeal, req, raced>>

\* An error, a constraint of the database or the end of the process: what is
\* not committed is lost.
RollBack(p) ==
  /\ InFlight(p)
  /\ req' = [req EXCEPT ![p] = Idle]
  /\ UNCHANGED <<content, mod, event, appeal, raced>>

Init ==
  /\ content = [c \in Contents |-> "active"]
  /\ mod = [k \in Categories |-> Unrestricted]
  /\ event = [e \in Events |-> NoEvent]
  /\ appeal = [e \in Events |-> "none"]
  /\ req = [p \in Sessions |-> Idle]
  /\ raced = FALSE

Next ==
  \/ \E p \in Sessions :
       \/ \E c \in Contents, notify \in BOOLEAN : ReadArchive(p, c, notify)
       \/ \E k \in Categories : BeginSanction(p, k)
       \/ LockUser(p)
       \/ \E e \in Events : CommitViolation(p, e)
       \/ RollBack(p)
  \/ \E c \in Contents : ReadRestore(c)
  \/ \E k \in Categories : ReadRelease(k)
  \/ \E e \in Events : ReadApprove(e)
  \/ CommitRelease
  \/ MarkApproved
  \/ \E e \in Events : Appeal(e)
  \/ \E e \in Events : Reject(e)
  \/ \E k \in Categories : Expire(k)

Spec == Init /\ [][Next]_vars

-----------------------------------------------------------------------------
(* Properties                                                              *)

Rows == [count : Nat, term : {"none", "running", "over"},
         permanent : BOOLEAN, current : Events \cup {None}]

EventRows == [category : Categories \cup {None}, source : Contents \cup {None},
              notified : BOOLEAN, released : BOOLEAN, reversed : BOOLEAN]

InProgress == [op : {"idle"} \cup ViolationOps \cup ReleaseOps,
               stage : {"none", "lock", "write", "mark"},
               c : Contents \cup {None}, category : Categories \cup {None},
               e : Events \cup {None}, notify : BOOLEAN, seen : Rows]

\* The values every variable can take.
TypeOK ==
  /\ content \in [Contents -> {"active", "archived"}]
  /\ mod \in [Categories -> Rows]
  /\ event \in [Events -> EventRows]
  /\ appeal \in [Events -> {"none", "pending", "approved", "rejected"}]
  /\ req \in [Sessions -> InProgress]
  /\ raced \in BOOLEAN

\* Every violation is counted once, however often its content is archived by
\* administrators and reviews at the same time, and a restore or an approved
\* appeal takes it back once: as long as no release overlapped with a
\* violation of the same category, the count is the number of events that
\* have not been reversed (moderation_service.py:134-166, 288-300).
CountsExact ==
  ~raced =>
    \A k \in Counted :
      mod[k].count = Cardinality({e \in Recorded : event[e].category = k /\ ~event[e].reversed})

\* A content that is public again, and an appeal that was granted, cost the
\* user nothing any more, in every order of archives, restores, approvals in
\* two transactions, and interruptions (appeal_application.py:170-210,
\* admin_application.py:254-268).
RightedIsReversed ==
  \A e \in Recorded : event[e].category \in Counted =>
    /\ event[e].source # None /\ content[event[e].source] = "active" => event[e].reversed
    /\ appeal[e] = "approved" => event[e].reversed

\* Without such an overlap the restriction in force always has an event that
\* was not released, so that it can be appealed and lifted.
RestrictionHasEvent ==
  ~raced =>
    \A k \in Categories :
      Restricts(mod[k]) => /\ mod[k].current \in Recorded
                           /\ ~event[mod[k].current].released
=============================================================================
