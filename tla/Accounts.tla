------------------------------- MODULE Accounts -------------------------------
(***************************************************************************)
(* The account behind one mail address: verification codes, registration   *)
(* by invitation, login, password reset and the sessions of the account    *)
(* (social_platform/app/domains/identity/, domains/invitation/,            *)
(* api/routers/auth.py).                                                   *)
(*                                                                         *)
(* Requests overlap under READ COMMITTED: each reads first and writes at   *)
(* its commits what it computed from what it has read.                     *)
(*                                                                         *)
(* Abstractions: a code is fresh (within the interval between two mails),  *)
(* valid or expired; a guess is right or wrong; the refresh tokens of a    *)
(* session are numbers; the number of a password is how often it was       *)
(* reset; one day; registration asks for an invitation.                    *)
(***************************************************************************)
EXTENDS Integers, FiniteSets, Platform

CONSTANTS
  Clients,       \* client types: "desktop" and "mobile"
  MaxAttempts,   \* EMAIL_CODE_MAX_ATTEMPTS: 5 in the code
  DailyLimit,    \* EMAIL_CODE_DAILY_LIMIT
  MaxCode,       \* bound: codes ever sent
  MaxSession,    \* bound: sessions ever opened
  MaxAccount,    \* bound: accounts of the address, one after the other
  MaxToken       \* bound: refresh tokens of a session

ASSUME AccountBounds ==
  /\ MaxAttempts \in Nat /\ DailyLimit \in Nat /\ MaxCode \in Nat
  /\ MaxSession \in Nat /\ MaxAccount \in Nat /\ MaxToken \in Nat

VARIABLES
  account,      \* number of the account of the address, 0 if there is none
  accounts,     \* how many there have been
  password,     \* of the account
  invitation,   \* used_by_user_id, 0 if it is unused
  codes,        \* EmailVerificationCode
  sessions,     \* UserSession
  signing,      \* requests in progress
  oddities      \* history: which overlaps and interruptions have happened

accountVars == <<account, accounts, password, invitation, codes, sessions, signing, oddities>>

Purposes == {"register", "login", "reset_password"}
CodeIds == 1..MaxCode
SessionIds == 1..MaxSession

NoCode == [purpose |-> None, age |-> "unsent", user |-> 0, used |-> FALSE, tries |-> 0,
           guesses |-> 0, spent |-> 0, raced |-> FALSE]
NoSession == [status |-> "none", user |-> 0, client |-> None, token |-> 0,
              password |-> 0, late |-> FALSE]
NotSigning == [stage |-> "idle", purpose |-> None, user |-> 0, password |-> 0, code |-> 0,
               tries |-> 0, client |-> None, session |-> 0, row |-> NoSession, met |-> {}]

Sent == {c \in CodeIds : codes[c].age # "unsent"}
SessionFresh(s) == \A t \in SessionIds : sessions[t].status = "none" <=> t >= s
Active == {s \in SessionIds : sessions[s].status = "active"}
In(stages) == {q \in Requests : signing[q].stage \in stages}

Signs(q, new) == signing' = [signing EXCEPT ![q] = new]

\* A bound: after an overlap that a property excepts, the requests in progress
\* end and no other starts.
Starts(q, new) ==
  /\ signing[q].stage = "idle" /\ oddities = {} /\ \A c \in CodeIds : ~codes[c].raced
  /\ Signs(q, new)

Advances(q, stage) == Signs(q, [signing[q] EXCEPT !.stage = stage])

\* Whom a purpose is for: a new account needs the invitation.
Admitted(purpose) == IF purpose = "register" THEN account = 0 /\ invitation = 0
                     ELSE account # 0

-----------------------------------------------------------------------------
(* Sending codes                                                           *)

\* Mutation of MaySend: the interval between two mails is not kept.
CountsOnly(purpose) == Cardinality(Sent) < DailyLimit

\* check_send_frequency, check_daily_limit
MaySend(purpose) ==
  /\ \A c \in Sent : codes[c].purpose = purpose => codes[c].age # "fresh"
  /\ Cardinality(Sent) < DailyLimit

ReadSend(q, purpose) ==
  /\ Admitted(purpose) /\ MaySend(purpose)
  /\ Starts(q, [NotSigning EXCEPT !.stage = "send", !.purpose = purpose, !.user = account])
  /\ oddities' = oddities \cup {x \in {"send"} : In({"send"}) # {}}
  /\ UNCHANGED <<account, accounts, password, invitation, codes, sessions>>

SendRegister(q) == ReadSend(q, "register")
SendLogin(q) == ReadSend(q, "login")
SendReset(q) == ReadSend(q, "reset_password")

\* The code is committed before the mail leaves; a mail that fails takes
\* nothing back.  A code for an account that is gone cannot be inserted.
CommitSend(q, c) ==
  /\ signing[q].stage = "send" /\ c = Cardinality(Sent) + 1
  /\ signing[q].user \in {0, account}
  /\ codes' = [codes EXCEPT ![c] = [NoCode EXCEPT !.purpose = signing[q].purpose,
                                      !.age = "fresh", !.user = signing[q].user]]
  /\ Signs(q, NotSigning)
  /\ UNCHANGED <<account, accounts, password, invitation, sessions, oddities>>

-----------------------------------------------------------------------------
(* Redeeming codes                                                         *)

\* get_valid_verification: the newest code that can be used.
Usable(purpose) ==
  {c \in Sent : /\ codes[c].purpose = purpose /\ codes[c].age \in {"fresh", "valid"}
                /\ ~codes[c].used /\ (purpose = "register" \/ codes[c].user = account)}
Newest(purpose) == {c \in Usable(purpose) : \A d \in Usable(purpose) : d <= c}

\* Mutation of MayTry: one attempt too many.
TriesOnceMore(c) == codes[c].tries <= MaxAttempts

MayTry(c) == codes[c].tries < MaxAttempts

\* The code is compared: a wrong one is counted, a right one spent.
Redeem(q, purpose, right, client) ==
  /\ Admitted(purpose)
  /\ \E c \in Newest(purpose) :
       /\ MayTry(c)
       /\ Starts(q, [NotSigning EXCEPT !.stage = IF right THEN "accept" ELSE "miss",
                      !.purpose = purpose, !.user = account, !.password = password,
                      !.code = c, !.tries = codes[c].tries, !.client = client])
       /\ codes' = [codes EXCEPT ![c].raced =
            @ \/ \E o \in In({"accept", "miss", "reset"}) : signing[o].code = c]
  /\ UNCHANGED <<account, accounts, password, invitation, sessions, oddities>>

Miss(q) ==
  /\ signing[q].stage = "miss"
  /\ codes' = [codes EXCEPT ![signing[q].code].tries = signing[q].tries + 1,
                            ![signing[q].code].guesses = @ + 1]
  /\ Signs(q, NotSigning)
  /\ UNCHANGED <<account, accounts, password, invitation, sessions, oddities>>

\* verify_and_register
Register(q, right, client) == Redeem(q, "register", right, client)

\* login with a code
CodeLogin(q, right, client) == Redeem(q, "login", right, client)

\* confirm_password_reset
ResetPassword(q, right) == Redeem(q, "reset_password", right, None)

\* Mutation of Spend: the code stays usable.
SpendsNothing(c) == [codes EXCEPT ![c].spent = @ + 1]

\* _consume_matching_code
Spend(c) == [codes EXCEPT ![c].used = TRUE, ![c].spent = @ + 1]

\* register_human_user_with_code: the account and the code in one commit;
\* the address is unique among the accounts.
AcceptRegistration(q) ==
  /\ signing[q].stage = "accept" /\ signing[q].purpose = "register"
  /\ account = 0 /\ accounts < MaxAccount
  /\ accounts' = accounts + 1 /\ account' = accounts'
  /\ password' = 0
  /\ codes' = Spend(signing[q].code)
  /\ Signs(q, [signing[q] EXCEPT !.stage = "consume", !.user = accounts'])
  /\ UNCHANGED <<invitation, sessions, oddities>>

\* Mutation of Consumed: the invitation is left as it is.
ForgetsInvitation(user) == invitation

Consumed(user) == user

\* The second commit: consume_registration_invitation.
ConsumeInvitation(q) ==
  LET u == signing[q].user IN
  /\ signing[q].stage = "consume" /\ account = u /\ invitation = 0
  /\ invitation' = Consumed(u)
  /\ codes' = [codes EXCEPT ![signing[q].code].user = u]
  /\ Advances(q, "open")
  /\ UNCHANGED <<account, accounts, password, sessions, oddities>>

\* validate_login_verification_code
AcceptLogin(q) ==
  /\ signing[q].stage = "accept" /\ signing[q].purpose = "login"
  /\ codes' = Spend(signing[q].code)
  /\ Advances(q, "open")
  /\ UNCHANGED <<account, accounts, password, invitation, sessions, oddities>>

\* revoke_all_sessions, in the transaction of the reset
RevokedByReset(user) == {s \in Active : sessions[s].user = user}

RevokeAll(q) ==
  /\ signing[q].stage = "accept" /\ signing[q].purpose = "reset_password"
  /\ Signs(q, [signing[q] EXCEPT !.stage = "reset",
                 !.met = RevokedByReset(signing[q].user)])
  /\ UNCHANGED <<account, accounts, password, invitation, codes, sessions, oddities>>

Revoked(S) == [s \in SessionIds |-> IF s \in S THEN [sessions[s] EXCEPT !.status = "over"]
                                    ELSE sessions[s]]

\* The code, the new password and the revocations in one commit.
CommitReset(q) ==
  /\ signing[q].stage = "reset" /\ account = signing[q].user
  /\ password' = password + 1
  /\ codes' = Spend(signing[q].code)
  /\ sessions' = Revoked(signing[q].met)
  /\ Signs(q, NotSigning)
  /\ UNCHANGED <<account, accounts, invitation, oddities>>

-----------------------------------------------------------------------------
(* Sessions                                                                *)

\* login with the password
PasswordLogin(q, client) ==
  /\ account # 0
  /\ Starts(q, [NotSigning EXCEPT !.stage = "open", !.user = account, !.password = password,
                 !.client = client])
  /\ UNCHANGED <<account, accounts, password, invitation, codes, sessions, oddities>>

\* Mutation of RevokedByLogin: the sessions of the other client types.
RevokesOthers(user, client) ==
  {s \in Active : sessions[s].user = user /\ sessions[s].client # client}

\* create_session_token_pair revokes the sessions of the same client type ...
RevokedByLogin(user, client) ==
  {s \in Active : sessions[s].user = user /\ sessions[s].client = client}

RevokeSame(q) ==
  LET r == signing[q] IN
  /\ r.stage = "open"
  /\ Signs(q, [r EXCEPT !.stage = "insert",
                 !.met = RevokedByLogin(r.user, r.client)])
  /\ oddities' = oddities \cup {x \in {"open"} : \E o \in In({"insert"}) :
                                                    signing[o].client = r.client}
  /\ UNCHANGED <<account, accounts, password, invitation, codes, sessions>>

\* ... and inserts the new one in the same transaction.  Whether the password
\* was changed since it was checked, or is being changed, is not looked at.
OpenSession(q, s) ==
  LET r == signing[q] IN
  /\ r.stage = "insert" /\ SessionFresh(s)
  /\ sessions' = [Revoked(r.met) EXCEPT ![s] =
       [NoSession EXCEPT !.status = "active", !.user = r.user, !.client = r.client,
          !.password = r.password,
          !.late = r.password # password \/ In({"reset"}) # {}]]
  /\ Signs(q, NotSigning)
  /\ UNCHANGED <<account, accounts, password, invitation, codes, oddities>>

\* refresh_token_pair with the token of the session
ReadRefresh(q, s) ==
  /\ s \in Active /\ sessions[s].token < MaxToken
  /\ Starts(q, [NotSigning EXCEPT !.stage = "rotate", !.session = s, !.row = sessions[s]])
  /\ UNCHANGED <<account, accounts, password, invitation, codes, sessions, oddities>>

\* Mutation of Rotated: the row is written as it was read.
WritesRow(now, seen) == [seen EXCEPT !.token = @ + 1]

\* Only the token is written.
Rotated(now, seen) == [now EXCEPT !.token = seen.token + 1]

CommitRefresh(q) ==
  /\ signing[q].stage = "rotate"
  /\ sessions' = [sessions EXCEPT ![signing[q].session] = Rotated(@, signing[q].row)]
  /\ Signs(q, NotSigning)
  /\ UNCHANGED <<account, accounts, password, invitation, codes, oddities>>

Ends(S) ==
  /\ sessions' = Revoked(S)
  /\ UNCHANGED <<account, accounts, password, invitation, codes, signing, oddities>>

Siblings(s) == {t \in Active \ {s} : sessions[t].user = sessions[s].user}

\* logout ends this session, logout_all all others, revoke_session one other.
LogOut(s) == s \in Active /\ Ends({s})
LogOutAll(s) == s \in Active /\ Ends(Siblings(s))
RevokeSession(s, t) == s \in Active /\ t \in Siblings(s) /\ Ends({t})

-----------------------------------------------------------------------------
(* Time, deletion and failures                                             *)

\* Codes grow old in the order they were sent in.
Age(c) ==
  LET after == [fresh |-> "valid", valid |-> "expired"]
      rank == [fresh |-> 0, valid |-> 1, expired |-> 2] IN
  /\ c \in Sent /\ codes[c].age \in {"fresh", "valid"}
  /\ \A d \in Sent : d < c => rank[codes[d].age] > rank[codes[c].age]
  /\ codes' = [codes EXCEPT ![c].age = after[@]]
  /\ UNCHANGED <<account, accounts, password, invitation, sessions, signing, oddities>>

ExpireSession(s) == s \in Active /\ Ends({s})

\* delete_user: the codes lose their account, the invitation is free again,
\* the sessions stay and lead to nobody.
DeleteAccount ==
  /\ account # 0
  /\ account' = 0
  /\ codes' = [c \in CodeIds |-> [codes[c] EXCEPT !.user = IF @ = account THEN 0 ELSE @]]
  /\ invitation' = IF invitation = account THEN 0 ELSE invitation
  /\ UNCHANGED <<accounts, password, sessions, signing, oddities>>

\* An error or the loss of the connection between two steps.
AbandonSigning(q) ==
  /\ signing[q].stage # "idle"
  /\ oddities' = oddities \cup {x \in {"cut"} : signing[q].stage = "consume"}
  /\ Signs(q, NotSigning)
  /\ UNCHANGED <<account, accounts, password, invitation, codes, sessions>>

AccountsInit ==
  /\ account = 0 /\ accounts = 0 /\ password = 0 /\ invitation = 0
  /\ codes = [c \in CodeIds |-> NoCode]
  /\ sessions = [s \in SessionIds |-> NoSession]
  /\ signing = [q \in Requests |-> NotSigning]
  /\ oddities = {}

AccountsNext ==
  \/ \E q \in Requests :
       \/ SendRegister(q) \/ SendLogin(q) \/ SendReset(q)
       \/ \E c \in CodeIds : CommitSend(q, c)
       \/ \E right \in BOOLEAN :
            \/ \E k \in Clients : Register(q, right, k) \/ CodeLogin(q, right, k)
            \/ ResetPassword(q, right)
       \/ Miss(q) \/ AcceptRegistration(q) \/ ConsumeInvitation(q) \/ AcceptLogin(q)
       \/ RevokeAll(q) \/ CommitReset(q)
       \/ \E k \in Clients : PasswordLogin(q, k)
       \/ RevokeSame(q)
       \/ \E s \in SessionIds : OpenSession(q, s) \/ ReadRefresh(q, s)
       \/ CommitRefresh(q) \/ AbandonSigning(q)
  \/ \E s \in SessionIds :
       \/ LogOut(s) \/ LogOutAll(s) \/ ExpireSession(s)
       \/ \E t \in SessionIds : RevokeSession(s, t)
  \/ \E c \in CodeIds : Age(c)
  \/ DeleteAccount

AccountsSpec == AccountsInit /\ [][AccountsNext]_accountVars

-----------------------------------------------------------------------------
(* Properties                                                              *)

SessionRows == [status : {"none", "active", "over"}, user : 0..MaxAccount,
                client : Clients \cup {None}, token : Nat, password : Nat,
                late : BOOLEAN]

CodeRows == [purpose : Purposes \cup {None}, age : {"unsent", "fresh", "valid", "expired"},
             user : 0..MaxAccount, used : BOOLEAN, tries : Nat, guesses : Nat,
             spent : Nat, raced : BOOLEAN]
SigningRows ==
  [stage : {"idle", "send", "accept", "miss", "consume", "reset", "open", "insert", "rotate"},
   purpose : Purposes \cup {None}, user : 0..MaxAccount, password : Nat,
   code : 0..MaxCode, tries : Nat, client : Clients \cup {None},
   session : 0..MaxSession, row : SessionRows, met : SUBSET SessionIds]

\* The values every variable can take.
AccountsTypeOK ==
  /\ account \in 0..MaxAccount /\ accounts \in 0..MaxAccount
  /\ password \in Nat /\ invitation \in 0..MaxAccount
  /\ codes \in [CodeIds -> CodeRows]
  /\ sessions \in [SessionIds -> SessionRows]
  /\ signing \in [Requests -> SigningRows]
  /\ oddities \subseteq {"send", "open", "cut"}

\* A code opens one door once and can be guessed only so often, across mails,
\* failures between the commits and deletion of the account,
\* unless two requests redeemed it at the same time; and codes are sent no
\* faster and no more often than the limits say, unless two sends overlapped
\* (verification.py:150-200, identity/application.py:24-57).
CodesLimited ==
  /\ \A c \in Sent : ~codes[c].raced =>
       codes[c].spent <= 1 /\ codes[c].guesses <= MaxAttempts
  /\ "send" \notin oddities =>
       /\ Cardinality(Sent) <= DailyLimit
       /\ \A c, d \in Sent : codes[c].age = "fresh" /\ codes[d].age = "fresh"
                               /\ codes[c].purpose = codes[d].purpose => c = d

\* get_access_payload, _get_user_from_payload: the sessions whose access tokens
\* are accepted.
Accepted == {s \in Active : account # 0 /\ sessions[s].user = account}

\* After a password reset no session of the account lives that was opened with
\* an older password, whatever refreshes and logins were in progress, unless
\* its login overlapped with the reset; and an account has one session per
\* client type, unless two logins overlapped (identity/application.py:143-178,
\* sessions.py:143-190).
SessionsFollowPassword ==
  /\ \A s \in Accepted : sessions[s].password = password \/ sessions[s].late
  /\ "open" \notin oddities =>
       \A s, t \in Accepted : sessions[s].client = sessions[t].client => s = t

\* An ended session never comes back: a refresh that has read it before writes
\* the new token only (sessions.py:247-257).
EndedForGood ==
  [][\A s \in SessionIds : sessions[s].status = "over" => sessions'[s].status = "over"]_accountVars

\* Once its registration is over, the invitation names the account it was used
\* for, and it is free when there is none: a refused or failed registration
\* does not use it up, unless one stopped between its two commits
\* (identity/application.py:100-124, invitation/application.py:294-321).
InvitationAccounted ==
  /\ invitation \in {0, account}
  /\ account # 0 /\ invitation = 0 => In({"consume"}) # {} \/ "cut" \in oddities
=============================================================================
