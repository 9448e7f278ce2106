----------------------------- MODULE AdminAccounts -----------------------------
(***************************************************************************)
(* The administrators of the two consoles: the management backend          *)
(* (management/backend/api/admins.py, api/auth.py, services/auth_service.py,*)
(* services/session_service.py) and the platform's own (admin/api/admins.py,*)
(* admin/api/auth.py, admin/services/auth_service.py).                     *)
(*                                                                         *)
(* Both follow the same rules.  A request's operator is read by a          *)
(* dependency, its target by the handler.  The handlers of the management  *)
(* backend run on a thread pool and overlap up to the commit; those of the *)
(* platform are coroutines that do not await, so that each runs alone once *)
(* its operator has been read.                                             *)
(*                                                                         *)
(* Abstractions: user names, e-mail addresses and passwords are left out,  *)
(* and so is the refresh of tokens (Accounts has one); an update carries   *)
(* one field.                                                              *)
(***************************************************************************)
EXTENDS Integers, FiniteSets, Platform

CONSTANTS
  MaxAdmin,   \* bound: administrators ever created
  MaxChange,  \* bound: updates and deletions ever asked for
  MaxLogin    \* bound: sessions ever opened

ASSUME AdminBounds ==
  MaxAdmin \in Nat \ {0} /\ MaxChange \in Nat /\ MaxLogin \in Nat

VARIABLES
  console,   \* the console of the behaviour
  admins,    \* AdminUser, PlatformAdminUser
  logins,    \* AdminSession, UserSession of the platform's administrators
  calls,     \* requests in progress
  altered,   \* updates and deletions asked for so far
  given,     \* history: permissions a super administrator has let out of their circle
  crossed,   \* history: a request committed after its operator had lost its standing,
             \* or after its target had become a super administrator
  astray     \* history: sessions opened while their administrator was deleted

adminVars == <<console, admins, logins, calls, altered, given, crossed, astray>>

AdminIds == 1..MaxAdmin
LoginIds == 1..MaxLogin

\* ALL_PERMISSIONS, in two classes: managing administrators, and the others.
ManageAdmins == "admins"
AllPermissions == {ManageAdmins, "other"}

NoAdmin == [status |-> "none", super |-> FALSE, active |-> FALSE, perms |-> {},
            ready |-> FALSE]
NoLogin == [admin |-> 0, live |-> FALSE]
NoCall == [stage |-> "idle", kind |-> "none", by |-> 0, operator |-> NoAdmin,
           target |-> 0, seen |-> NoAdmin, new |-> NoAdmin]

\* init_default_admin, ensure_initial_admin; ready is ~must_change_credentials,
\* which only the platform looks at.
FirstAdmin == [status |-> "here", super |-> TRUE, active |-> TRUE, perms |-> AllPermissions,
               ready |-> console = "management"]

Exists(i) == admins[i].status = "here"
AdminFresh(i) == \A j \in AdminIds : admins[j].status = "none" <=> j >= i
LoginFresh(s) == \A t \in LoginIds : logins[t].admin = 0 <=> t >= s

Sets(q, call) == calls' = [calls EXCEPT ![q] = call]
Answers(q) == Sets(q, NoCall)

-----------------------------------------------------------------------------
(* Sessions                                                                *)

\* login of either console: the administrator is read and its last login is
\* written; the session follows in a transaction of its own.
Authenticate(q, i) ==
  /\ calls[q].stage = "idle"
  /\ Exists(i) /\ admins[i].active
  /\ Sets(q, [NoCall EXCEPT !.stage = "open", !.kind = "login", !.by = i])
  /\ UNCHANGED <<console, altered, admins, logins, given, crossed, astray>>

\* create_session_token_pair; refresh(admin) fails for a row that is gone, and
\* so does the log entry that follows the session.
OpenLogin(q, s) ==
  LET i == calls[q].by IN
  /\ calls[q].stage = "open" /\ LoginFresh(s) /\ Exists(i)
  /\ logins' = [logins EXCEPT ![s] = [admin |-> i, live |-> TRUE]]
  /\ astray' = astray \cup {t \in {s} : \E r \in Requests : calls[r].kind = "delete"
                                           /\ calls[r].target = i /\ calls[r].stage = "loaded"}
  /\ Answers(q)
  /\ UNCHANGED <<console, altered, admins, given, crossed>>

EndLogins(S) == [s \in LoginIds |-> IF s \in S THEN [logins[s] EXCEPT !.live = FALSE]
                                               ELSE logins[s]]

\* logout, with the session's own access token
LogOutAdmin(s) ==
  /\ logins[s].live
  /\ logins' = EndLogins({s})
  /\ UNCHANGED <<console, altered, admins, calls, given, crossed, astray>>

\* revoke_session: another session of the same administrator
RevokeLogin(s, t) ==
  /\ logins[s].live /\ logins[t].live /\ s # t /\ logins[s].admin = logins[t].admin
  /\ logins' = EndLogins({t})
  /\ UNCHANGED <<console, altered, admins, calls, given, crossed, astray>>

\* get_management_access_payload and get_current_admin: a live session of an
\* administrator who is there and active.
Current(i) == /\ Exists(i) /\ admins[i].active
              /\ \E s \in LoginIds : logins[s].live /\ logins[s].admin = i

\* update_profile: the platform ends the other sessions when the password
\* changes, the management backend keeps them.
ChangeProfile(s) ==
  LET i == logins[s].admin
      others == {t \in LoginIds \ {s} : logins[t].admin = i /\ console = "platform"}
  IN /\ logins[s].live /\ Current(i)
     /\ admins' = [admins EXCEPT ![i].ready = TRUE]
     /\ \E password \in BOOLEAN : logins' = EndLogins(IF password THEN others ELSE {})
     /\ UNCHANGED <<console, altered, calls, given, crossed, astray>>

-----------------------------------------------------------------------------
(* Requests                                                                *)

\* require_admin_ready: the platform asks for a change of the first credentials.
Ready(i) == console = "platform" => admins[i].ready

\* require_permission
May(i, p) == Current(i) /\ Ready(i) /\ (admins[i].super \/ p \in admins[i].perms)

\* The operator of a request is what the dependency has read.
Ask(q, i, kind, j, new) ==
  /\ calls[q].stage = "idle" /\ May(i, ManageAdmins) /\ ~crossed
  /\ altered < MaxChange /\ altered' = altered + 1
  /\ Sets(q, [stage |-> "asked", kind |-> kind, by |-> i, operator |-> admins[i],
              target |-> j, seen |-> IF j = i THEN admins[i] ELSE NoAdmin, new |-> new])
  /\ UNCHANGED <<console, admins, logins, given, crossed, astray>>

\* The permissions a request may carry.
Choices == {{}, {ManageAdmins}, AllPermissions}

AskUpdate(q, i, j) ==
  \/ \E perms \in Choices :
       Ask(q, i, "perms", j, [NoAdmin EXCEPT !.perms = perms])
  \/ \E active \in BOOLEAN : Ask(q, i, "active", j, [NoAdmin EXCEPT !.active = active])
  \/ \E super \in BOOLEAN : Ask(q, i, "super", j, [NoAdmin EXCEPT !.super = super])

\* Only the management backend deletes administrators.
AskDelete(q, i, j) == console = "management" /\ Ask(q, i, "delete", j, NoAdmin)

\* _ensure_super_admin_boundary
Bounded(c, seen) == c.operator.super \/ (~seen.super /\ ~c.new.super)

\* Mutation of Delegated: only what is withdrawn is compared.
DelegatesAnything(c, seen) == c.operator.super \/ seen.perms \ c.new.perms \subseteq c.operator.perms

\* _ensure_permission_delegation: what changes, in either direction, must be
\* the operator's own.
Delegated(c, seen) ==
  c.operator.super
  \/ (c.new.perms \ seen.perms) \cup (seen.perms \ c.new.perms) \subseteq c.operator.perms

\* Mutation of NotOneself: nothing keeps the operator from itself.
NotOneselfNever(c) == TRUE

\* An operator does not delete, deactivate or demote itself.
NotOneself(c) ==
  c.by = c.target => /\ c.kind # "delete"
                     /\ c.kind = "active" => c.new.active
                     /\ c.kind = "super" => c.new.super

Passes(c, seen) ==
  /\ Bounded(c, seen) /\ NotOneself(c)
  /\ c.kind \in {"create", "perms"} => Delegated(c, seen)

\* What a step lets out: permissions of an administrator who is not a super
\* administrator, written by one who is.
Released(c, row) == IF c.operator.super /\ row.status = "here" /\ ~row.super THEN row.perms
                                                                           ELSE {}

\* create_admin reads its operator and writes a row of its own: nothing can come
\* between that would make a difference.
CreateAdmin(i, j, super, perms) ==
  LET row == [FirstAdmin EXCEPT !.super = super, !.perms = perms, !.ready = TRUE]
      c == [NoCall EXCEPT !.kind = "create", !.by = i, !.operator = admins[i],
                          !.target = j, !.new = row]
  IN /\ May(i, ManageAdmins) /\ ~crossed /\ AdminFresh(j) /\ Passes(c, NoAdmin)
     /\ admins' = [admins EXCEPT ![j] = row]
     /\ given' = given \cup Released(c, row)
     /\ UNCHANGED <<console, altered, logins, calls, crossed, astray>>

\* The target is read: by a thread some time before the commit.  The operator
\* itself has been read already.
LoadAdmin(q) ==
  LET c == calls[q]
      seen == IF c.target = c.by THEN c.seen ELSE admins[c.target]
  IN /\ console = "management" /\ c.stage = "asked"
     /\ Exists(c.target) /\ Passes(c, seen)
     /\ calls' = [calls EXCEPT ![q].stage = "loaded", ![q].seen = seen]
     /\ UNCHANGED <<console, altered, admins, logins, given, crossed, astray>>

\* A column is written if it differs from what was read.
Changed(c, seen, row) ==
  CASE c.kind = "perms" /\ c.new.perms # seen.perms -> [row EXCEPT !.perms = c.new.perms]
    [] c.kind = "active" /\ c.new.active # seen.active -> [row EXCEPT !.active = c.new.active]
    [] c.kind = "super" /\ c.new.super # seen.super -> [row EXCEPT !.super = c.new.super]
    [] c.kind = "delete" -> [NoAdmin EXCEPT !.status = "gone"]
    [] OTHER -> row

\* Mutation of EndedWith: a deletion leaves the sessions.
EndsNone(c) == {}

\* delete_admin: the sessions it read.
EndedWith(c) == {s \in LoginIds \ astray : c.kind = "delete" /\ logins[s].admin = c.target}

Lost(c) == \/ ~Exists(c.by) \/ ~admins[c.by].active
           \/ c.operator.super /\ ~admins[c.by].super
           \/ ~c.operator.super /\ admins[c.target].super

\* The row as it is, or as it was read earlier by a thread.
SeenBy(c) == IF c.stage = "loaded" \/ c.by = c.target THEN c.seen ELSE admins[c.target]

\* update_admin, delete_admin: the write, the log entry, the commit.
CommitAdmin(q) ==
  LET c == calls[q]
      seen == SeenBy(c)
      row == Changed(c, seen, admins[c.target])
  IN /\ \/ c.stage = "loaded"
        \/ c.stage = "asked" /\ console = "platform"
     /\ Passes(c, seen) /\ Exists(c.target)
     /\ admins' = [admins EXCEPT ![c.target] = row]
     /\ logins' = EndLogins(EndedWith(c))
     /\ given' = given \cup Released(c, row)
     /\ crossed' = (crossed \/ Lost(c))
     /\ Answers(q)
     /\ UNCHANGED <<console, altered, astray>>

\* A refusal, a row that is gone, the end of the process.
Refuse(q) ==
  /\ calls[q].stage # "idle"
  /\ Answers(q)
  /\ UNCHANGED <<console, altered, admins, logins, given, crossed, astray>>

AdminInit ==
  /\ console \in {"management", "platform"}
  /\ admins = [i \in AdminIds |-> IF i = 1 THEN FirstAdmin ELSE NoAdmin]
  /\ logins = [s \in LoginIds |-> NoLogin]
  /\ calls = [q \in Requests |-> NoCall]
  /\ altered = 0 /\ given = {} /\ crossed = FALSE /\ astray = {}

AdminNext ==
  \/ \E q \in Requests :
       \/ \E i \in AdminIds :
            \/ Authenticate(q, i)
            \/ \E j \in AdminIds : AskUpdate(q, i, j) \/ AskDelete(q, i, j)
       \/ \E s \in LoginIds : OpenLogin(q, s)
       \/ LoadAdmin(q) \/ CommitAdmin(q) \/ Refuse(q)
  \/ \E i, j \in AdminIds, super \in BOOLEAN, perms \in Choices :
       CreateAdmin(i, j, super, perms)
  \/ \E s \in LoginIds :
       \/ LogOutAdmin(s) \/ ChangeProfile(s)
       \/ \E t \in LoginIds : RevokeLogin(s, t)

AdminSpec == AdminInit /\ [][AdminNext]_adminVars

-----------------------------------------------------------------------------
(* Properties                                                              *)

AdminType == [status : {"none", "here", "gone"}, super : BOOLEAN, active : BOOLEAN,
              perms : SUBSET AllPermissions, ready : BOOLEAN]

CallType ==
  [stage : {"idle", "open", "asked", "loaded"},
   kind : {"none", "login", "perms", "active", "super", "delete"},
   by : 0..MaxAdmin, operator : AdminType, target : 0..MaxAdmin,
   seen : AdminType, new : AdminType]

\* The values every variable can take.
AdminTypeOK ==
  /\ console \in {"management", "platform"}
  /\ admins \in [AdminIds -> AdminType]
  /\ logins \in [LoginIds -> [admin : 0..MaxAdmin, live : BOOLEAN]]
  /\ calls \in [Requests -> CallType]
  /\ altered \in 0..MaxChange /\ given \subseteq AllPermissions /\ crossed \in BOOLEAN
  /\ astray \subseteq LoginIds

\* There is always an active super administrator: nobody demotes, deactivates
\* or deletes itself, and nobody else touches a super administrator but
\* another one - unless a request was carried out after its operator had lost
\* its standing, or after its target had gained that of a super administrator
\* (api/admins.py:30-54, 149-241, admin/api/admins.py:28-46, 107-150).
SuperAdminRemains == crossed \/ \E i \in AdminIds : Exists(i) /\ admins[i].super /\ admins[i].active

\* Whatever administrators pass on to each other, with updates that overlap, an
\* administrator who is not a super administrator has no permission that a
\* super administrator never let out (api/admins.py:57-88).
PermissionsComeFromSupers ==
  \A i \in AdminIds : Exists(i) /\ ~admins[i].super => admins[i].perms \subseteq given

\* No session outlives its administrator, but one opened while that was being
\* deleted (api/admins.py:199-241).
SessionsEndWithAdmin ==
  \A s \in LoginIds \ astray : logins[s].live => Exists(logins[s].admin)
=============================================================================
