--------------------------- MODULE ManagementProofs ---------------------------
(***************************************************************************)
(* Proofs about the administrators of the consoles (AdminAccounts), the    *)
(* models of agents (ModelBinding), the scaled clock (TimeSystem) and the  *)
(* registry of agents (AgentRegistry), one part after the other.  The four *)
(* share no variable.                                                      *)
(***************************************************************************)
EXTENDS AdminAccounts, ModelBinding, TimeSystem, AgentRegistry, TLAPS

-----------------------------------------------------------------------------
(***************************************************************************)
(* Proofs about AdminAccounts, for every number of administrators, updates *)
(* and sessions and every set of overlapping requests: nobody gets a       *)
(* permission that no super administrator let out, and an active super     *)
(* administrator remains.                                                  *)
(*                                                                         *)
(* The first is about what a request remembers: the permissions of the     *)
(* operator and of the target, as they were read, were let out by then.    *)
(* The second rests on the boundary between super administrators and the   *)
(* others, on the rule that nobody undoes itself, and on the operator still*)
(* being what it was when the request commits (crossed).                   *)
(***************************************************************************)

LoginType == [admin : 0..MaxAdmin, live : BOOLEAN]

\* The permissions of a row that is not a super administrator's are among g.
Let(row, g) == row.super \/ row.perms \subseteq g

\* What a request remembers, g having been let out.
CallSound(c, g) ==
  /\ Let(c.operator, g) /\ Let(c.seen, g)
  /\ c.stage \in {"asked", "loaded"} =>
       /\ c.by \in AdminIds /\ c.target \in AdminIds
       /\ c.kind \in {"perms", "active", "super", "delete"}

\* The inductive invariant behind PermissionsComeFromSupers.
DelegationInv ==
  /\ AdminTypeOK
  /\ \A i \in AdminIds : Let(admins[i], given)
  /\ \A q \in Requests : CallSound(calls[q], given)

-----------------------------------------------------------------------------
(* Types                                                                   *)

LEMMA NothingTypes ==
  NoAdmin \in AdminType /\ NoLogin \in LoginType /\ NoCall \in CallType
<1>1. NoAdmin \in AdminType  BY DEF NoAdmin, AdminType
<1> QED  BY <1>1, AdminBounds DEF NoLogin, LoginType, NoCall, CallType

LEMMA FirstType == FirstAdmin \in AdminType /\ FirstAdmin.super
BY DEF FirstAdmin, AdminType

\* Ending sessions keeps their type.
LEMMA EndLoginsType ==
  ASSUME logins \in [LoginIds -> LoginType], NEW S
  PROVE  EndLogins(S) \in [LoginIds -> LoginType]
<1>1. ASSUME NEW s \in LoginIds PROVE [logins[s] EXCEPT !.live = FALSE] \in LoginType
  BY DEF LoginType
<1> QED  BY <1>1 DEF EndLogins

\* Nothing remembered is lost when more is let out.
LEMMA LetGrows ==
  ASSUME NEW c, NEW g, NEW h, CallSound(c, g), g \subseteq h
  PROVE  CallSound(c, h)
BY DEF CallSound, Let

-----------------------------------------------------------------------------
(* Steps that change one call only                                         *)

LEMMA DelegationInit == AdminInit => DelegationInv
<1> SUFFICES ASSUME AdminInit PROVE DelegationInv  OBVIOUS
<1>1. admins \in [AdminIds -> AdminType]
  BY NothingTypes, FirstType DEF AdminInit
<1>2. logins \in [LoginIds -> LoginType] /\ calls \in [Requests -> CallType]
  BY NothingTypes DEF AdminInit
<1>3. given \subseteq AllPermissions /\ astray \subseteq LoginIds /\ crossed \in BOOLEAN
      /\ console \in {"management", "platform"}
  BY DEF AdminInit
<1>a. altered \in 0..MaxChange  BY AdminBounds DEF AdminInit
<1>4. AdminTypeOK  BY <1>1, <1>2, <1>3, <1>a DEF AdminTypeOK, LoginType
<1>5. \A i \in AdminIds : Let(admins[i], given)
  BY FirstType DEF AdminInit, Let, NoAdmin
<1>6. \A q \in Requests : CallSound(calls[q], given)
  BY DEF AdminInit, CallSound, Let, NoCall, NoAdmin
<1> QED  BY <1>4, <1>5, <1>6 DEF DelegationInv

\* One request changes, and nothing that was let out is taken back.
LEMMA CallKeeps ==
  ASSUME DelegationInv, NEW q \in Requests, NEW new \in CallType,
         calls' = [calls EXCEPT ![q] = new],
         given \subseteq given', CallSound(new, given')
  PROVE  /\ calls' \in [Requests -> CallType]
         /\ \A r \in Requests : CallSound(calls'[r], given')
<1>1. calls \in [Requests -> CallType]  BY DEF DelegationInv, AdminTypeOK
<1>2. \A r \in Requests : calls'[r] = IF r = q THEN new ELSE calls[r]
  BY <1>1
<1>3. ASSUME NEW r \in Requests, r # q PROVE CallSound(calls'[r], given')
  <2>1. calls'[r] = calls[r] /\ CallSound(calls[r], given)
    BY <1>2, <1>3 DEF DelegationInv
  <2> QED  BY <2>1, LetGrows
<1> QED  BY <1>1, <1>2, <1>3

\* The same, when nothing else that DelegationInv is about changes but sessions.
LEMMA OnlyCalls ==
  ASSUME DelegationInv, NEW q \in Requests, NEW new \in CallType,
         calls' = [calls EXCEPT ![q] = new], CallSound(new, given),
         UNCHANGED <<console, admins, given, crossed>>,
         altered' \in 0..MaxChange, logins' \in [LoginIds -> LoginType],
         astray' \subseteq LoginIds
  PROVE  DelegationInv'
<1>1. calls' \in [Requests -> CallType] /\ \A r \in Requests : CallSound(calls'[r], given')
  BY CallKeeps
<1>2. AdminTypeOK'  BY <1>1 DEF DelegationInv, AdminTypeOK, LoginType
<1>3. \A i \in AdminIds : Let(admins'[i], given')  BY DEF DelegationInv
<1> QED  BY <1>1, <1>2, <1>3 DEF DelegationInv

LEMMA NoCallSound == ASSUME NEW g PROVE CallSound(NoCall, g)
BY DEF CallSound, Let, NoCall, NoAdmin

\* What the lemmas below take from the invariant.
LEMMA Parts ==
  ASSUME DelegationInv
  PROVE  /\ admins \in [AdminIds -> AdminType] /\ calls \in [Requests -> CallType]
         /\ logins \in [LoginIds -> LoginType] /\ altered \in 0..MaxChange
         /\ given \subseteq AllPermissions /\ astray \subseteq LoginIds
BY DEF DelegationInv, AdminTypeOK, LoginType

LEMMA AuthenticateKeeps ==
  ASSUME DelegationInv, NEW q \in Requests, NEW i \in AdminIds, Authenticate(q, i)
  PROVE  DelegationInv'
<1> DEFINE new == [NoCall EXCEPT !.stage = "open", !.kind = "login", !.by = i]
<1>1. new \in CallType
  <2>1. i \in 0..MaxAdmin  BY AdminBounds DEF AdminIds
  <2> QED  BY <2>1, NothingTypes DEF CallType
<1>2. CallSound(new, given)  BY DEF CallSound, Let, NoCall, NoAdmin
<1>3. calls' = [calls EXCEPT ![q] = new]
      /\ UNCHANGED <<console, altered, admins, logins, given, crossed, astray>>
  BY DEF Authenticate, Sets
<1> HIDE DEF new
<1> QED  BY <1>1, <1>2, <1>3, Parts, OnlyCalls

LEMMA OpenKeeps ==
  ASSUME DelegationInv, NEW q \in Requests, NEW s \in LoginIds, OpenLogin(q, s)
  PROVE  DelegationInv'
<1>1. calls' = [calls EXCEPT ![q] = NoCall]
      /\ UNCHANGED <<console, altered, admins, given, crossed>>
  BY DEF OpenLogin, Answers, Sets
<1>2. logins' \in [LoginIds -> LoginType]
  <2>1. calls[q].by \in 0..MaxAdmin  BY Parts DEF CallType
  <2>2. [admin |-> calls[q].by, live |-> TRUE] \in LoginType  BY <2>1 DEF LoginType
  <2> QED  BY <2>2, Parts DEF OpenLogin
<1>3. astray' \subseteq LoginIds  BY Parts DEF OpenLogin
<1> QED  BY <1>1, <1>2, <1>3, NoCallSound, NothingTypes, Parts, OnlyCalls

LEMMA AskKeeps ==
  ASSUME DelegationInv, NEW q \in Requests, NEW i \in AdminIds, NEW j \in AdminIds,
         NEW kind \in {"perms", "active", "super", "delete"}, NEW new \in AdminType,
         Ask(q, i, kind, j, new)
  PROVE  DelegationInv'
<1> DEFINE read == IF j = i THEN admins[i] ELSE NoAdmin
           call == [stage |-> "asked", kind |-> kind, by |-> i, operator |-> admins[i],
                    target |-> j, seen |-> read, new |-> new]
<1>1. read \in AdminType /\ admins[i] \in AdminType  BY NothingTypes, Parts
<1>2. Let(read, given) /\ Let(admins[i], given)
  BY DEF DelegationInv, Let, NoAdmin
<1>3. calls' = [calls EXCEPT ![q] = call] /\ altered < MaxChange /\ altered' = altered + 1
      /\ UNCHANGED <<console, admins, logins, given, crossed, astray>>
  BY DEF Ask, Sets
<1> HIDE DEF read
<1>4. i \in 0..MaxAdmin /\ j \in 0..MaxAdmin  BY AdminBounds DEF AdminIds
<1>5. call \in CallType  BY <1>1, <1>4 DEF CallType
<1>6. CallSound(call, given)  BY <1>2 DEF CallSound
<1>7. altered' \in 0..MaxChange  BY <1>3, Parts, AdminBounds
<1> HIDE DEF call
<1> QED  BY <1>3, <1>5, <1>6, <1>7, Parts, OnlyCalls

LEMMA LoadKeeps ==
  ASSUME DelegationInv, NEW q \in Requests, LoadAdmin(q)
  PROVE  DelegationInv'
<1> DEFINE c == calls[q]
           read == IF c.target = c.by THEN c.seen ELSE admins[c.target]
           new == [c EXCEPT !.stage = "loaded", !.seen = read]
<1>1. c \in CallType /\ CallSound(c, given)  BY Parts DEF DelegationInv
<1>2. c.stage = "asked"  BY DEF LoadAdmin
<1>3. c.by \in AdminIds /\ c.target \in AdminIds
      /\ c.kind \in {"perms", "active", "super", "delete"}
  BY <1>1, <1>2 DEF CallSound
<1>4. read \in AdminType  BY <1>1, <1>3, Parts DEF CallType
<1>5. Let(read, given)  BY <1>1, <1>3 DEF CallSound, DelegationInv
<1>6. calls' = [calls EXCEPT ![q] = new]
      /\ UNCHANGED <<console, altered, admins, logins, given, crossed, astray>>
  BY Parts DEF LoadAdmin
<1> HIDE DEF read
<1>7. new \in CallType  BY <1>1, <1>4 DEF CallType
<1>8. new.operator = c.operator /\ new.seen = read /\ new.by = c.by
      /\ new.target = c.target /\ new.kind = c.kind
  BY <1>1 DEF CallType
<1> HIDE DEF new
<1>9. CallSound(new, given)  BY <1>1, <1>3, <1>5, <1>8 DEF CallSound
<1> QED  BY <1>6, <1>7, <1>9, Parts, OnlyCalls

LEMMA RefuseKeeps ==
  ASSUME DelegationInv, NEW q \in Requests, Refuse(q)
  PROVE  DelegationInv'
<1>1. calls' = [calls EXCEPT ![q] = NoCall]
      /\ UNCHANGED <<console, altered, admins, logins, given, crossed, astray>>
  BY DEF Refuse, Answers, Sets
<1> QED  BY <1>1, NoCallSound, NothingTypes, Parts, OnlyCalls

-----------------------------------------------------------------------------
(* Steps on sessions and rows                                              *)

\* The requests stay as they are, and rows keep what DelegationInv is about.
LEMMA RowsKeep ==
  ASSUME DelegationInv, admins' \in [AdminIds -> AdminType],
         \A i \in AdminIds : Let(admins'[i], given'),
         given \subseteq given', given' \subseteq AllPermissions,
         logins' \in [LoginIds -> LoginType],
         UNCHANGED <<console, altered, calls, crossed, astray>>
  PROVE  DelegationInv'
<1>1. AdminTypeOK'  BY DEF DelegationInv, AdminTypeOK, LoginType
<1>2. \A q \in Requests : CallSound(calls'[q], given')
  BY LetGrows DEF DelegationInv
<1> QED  BY <1>1, <1>2 DEF DelegationInv

LEMMA SessionsKeep ==
  ASSUME DelegationInv, NEW s \in LoginIds, NEW t \in LoginIds,
         LogOutAdmin(s) \/ RevokeLogin(s, t)
  PROVE  DelegationInv'
<1>1. logins' \in [LoginIds -> LoginType]
  BY Parts, EndLoginsType DEF LogOutAdmin, RevokeLogin
<1>2. UNCHANGED <<console, altered, admins, calls, given, crossed, astray>>
  BY DEF LogOutAdmin, RevokeLogin
<1>3. \A i \in AdminIds : Let(admins'[i], given')  BY <1>2 DEF DelegationInv
<1> QED  BY <1>1, <1>2, <1>3, Parts, RowsKeep

LEMMA ProfileKeeps ==
  ASSUME DelegationInv, NEW s \in LoginIds, ChangeProfile(s)
  PROVE  DelegationInv'
<1> DEFINE i == logins[s].admin
<1>1. admins' = [admins EXCEPT ![i].ready = TRUE]
      /\ UNCHANGED <<console, altered, calls, given, crossed, astray>>
  BY DEF ChangeProfile
<1>2. logins' \in [LoginIds -> LoginType]
  BY Parts, EndLoginsType DEF ChangeProfile
<1>3. ASSUME NEW k \in AdminIds
      PROVE  /\ admins'[k] \in AdminType
             /\ admins'[k].super = admins[k].super /\ admins'[k].perms = admins[k].perms
  <2>1. admins[k] \in AdminType  BY Parts
  <2>2. admins'[k] = IF k = i THEN [admins[k] EXCEPT !.ready = TRUE] ELSE admins[k]
    BY <1>1, Parts
  <2> QED  BY <2>1, <2>2 DEF AdminType
<1>4. admins' \in [AdminIds -> AdminType]
  <2>1. admins' = [k \in AdminIds |-> admins'[k]]  BY <1>1, Parts
  <2> QED  BY <2>1, <1>3
<1>5. \A k \in AdminIds : Let(admins'[k], given')
  BY <1>1, <1>3 DEF DelegationInv, Let
<1> QED  BY <1>1, <1>2, <1>4, <1>5, Parts, RowsKeep

\* What a row that is not a super administrator's gets was let out before, or
\* is let out by a super administrator now.
LEMMA ReleasedType ==
  ASSUME NEW c, NEW row \in AdminType PROVE Released(c, row) \subseteq AllPermissions
BY DEF Released, AdminType

LEMMA CreateKeeps ==
  ASSUME DelegationInv, NEW i \in AdminIds, NEW j \in AdminIds, NEW super \in BOOLEAN,
         NEW perms \in Choices, CreateAdmin(i, j, super, perms)
  PROVE  DelegationInv'
<1> DEFINE row == [FirstAdmin EXCEPT !.super = super, !.perms = perms, !.ready = TRUE]
           c == [NoCall EXCEPT !.kind = "create", !.by = i, !.operator = admins[i],
                               !.target = j, !.new = row]
<1>1. perms \subseteq AllPermissions  BY DEF Choices, AllPermissions
<1>2. row \in AdminType /\ row.super = super /\ row.perms = perms /\ row.status = "here"
  BY <1>1, FirstType DEF AdminType, FirstAdmin
<1>3. /\ Passes(c, NoAdmin)
      /\ admins' = [admins EXCEPT ![j] = row]
      /\ given' = given \cup Released(c, row)
      /\ UNCHANGED <<console, altered, logins, calls, crossed, astray>>
  BY DEF CreateAdmin
<1>4. c.operator = admins[i] /\ c.new = row /\ c.kind = "create"
  BY DEF NoCall
<1> HIDE DEF row, c
<1>5. given \subseteq given' /\ given' \subseteq AllPermissions
  BY <1>2, <1>3, Parts, ReleasedType
<1>6. Let(row, given')
  <2>1. CASE super  BY <2>1, <1>2 DEF Let
  <2>2. CASE ~super /\ admins[i].super
    BY <2>2, <1>2, <1>3, <1>4 DEF Let, Released
  <2>3. CASE ~super /\ ~admins[i].super
    <3>1. perms \subseteq admins[i].perms
      BY <2>3, <1>2, <1>3, <1>4 DEF Passes, Delegated, NoAdmin
    <3>2. admins[i].perms \subseteq given  BY <2>3 DEF DelegationInv, Let
    <3> QED  BY <3>1, <3>2, <1>2, <1>5 DEF Let
  <2> QED  BY <2>1, <2>2, <2>3
<1>7. \A k \in AdminIds : Let(admins'[k], given')
  <2> TAKE k \in AdminIds
  <2>1. admins'[k] = IF k = j THEN row ELSE admins[k]  BY <1>3, Parts
  <2>2. Let(admins[k], given)  BY DEF DelegationInv
  <2>3. CASE k = j  BY <2>1, <2>3, <1>6
  <2>4. CASE k # j  BY <2>1, <2>2, <2>4, <1>5 DEF Let
  <2> QED  BY <2>3, <2>4
<1>8. admins' \in [AdminIds -> AdminType]  BY <1>2, <1>3, Parts
<1>9. logins' \in [LoginIds -> LoginType]  BY <1>3, Parts
<1> QED  BY <1>3, <1>5, <1>7, <1>8, <1>9, RowsKeep

-----------------------------------------------------------------------------
(* The commit                                                              *)

\* What a commit writes, by the kind of the request.
LEMMA ChangedType ==
  ASSUME NEW c \in CallType, NEW read, NEW row \in AdminType,
         row.status = "here", c.kind \in {"perms", "active", "super", "delete"}
  PROVE  /\ Changed(c, read, row) \in AdminType
         /\ c.kind # "delete" => Changed(c, read, row).status = "here"
         /\ Changed(c, read, row).super =
              IF c.kind = "delete" THEN FALSE
              ELSE IF c.kind = "super" /\ c.new.super # read.super THEN c.new.super
              ELSE row.super
         /\ Changed(c, read, row).active =
              IF c.kind = "delete" THEN FALSE
              ELSE IF c.kind = "active" /\ c.new.active # read.active THEN c.new.active
              ELSE row.active
         /\ Changed(c, read, row).perms =
              IF c.kind = "delete" THEN {}
              ELSE IF c.kind = "perms" /\ c.new.perms # read.perms THEN c.new.perms
              ELSE row.perms
<1>1. c.new \in AdminType  BY DEF CallType
<1>2. CASE c.kind = "perms"  BY <1>1, <1>2 DEF Changed, AdminType
<1>3. CASE c.kind = "active"  BY <1>1, <1>3 DEF Changed, AdminType
<1>4. CASE c.kind = "super"  BY <1>1, <1>4 DEF Changed, AdminType
<1>5. CASE c.kind = "delete"
  <2>1. Changed(c, read, row) = [NoAdmin EXCEPT !.status = "gone"]  BY <1>5 DEF Changed
  <2> QED  BY <1>5, <2>1 DEF NoAdmin, AdminType
<1> QED  BY <1>2, <1>3, <1>4, <1>5

\* A commit gives nobody what was not let out: what a request that is not a
\* super administrator's adds to what it read is the operator's own.
LEMMA ChangedLet ==
  ASSUME NEW c \in CallType, NEW read \in AdminType, NEW row \in AdminType, NEW g,
         row.status = "here", c.kind \in {"perms", "active", "super", "delete"},
         Let(c.operator, g), Let(read, g), Let(row, g), Passes(c, read)
  PROVE  Let(Changed(c, read, row), g \cup Released(c, Changed(c, read, row)))
<1> DEFINE new == Changed(c, read, row)
<1>1. /\ new \in AdminType
      /\ c.kind # "delete" => new.status = "here"
      /\ new.super = IF c.kind = "delete" THEN FALSE
                     ELSE IF c.kind = "super" /\ c.new.super # read.super THEN c.new.super
                     ELSE row.super
      /\ new.perms = IF c.kind = "delete" THEN {}
                     ELSE IF c.kind = "perms" /\ c.new.perms # read.perms THEN c.new.perms
                     ELSE row.perms
  BY ChangedType
<1> SUFFICES Let(new, g \cup Released(c, new))
  OBVIOUS
<1> HIDE DEF new
<1>2. CASE c.kind = "delete" \/ new.super
  BY <1>1, <1>2 DEF Let
<1>3. CASE c.kind # "delete" /\ ~new.super /\ c.operator.super
  BY <1>1, <1>3 DEF Let, Released
<1>4. CASE c.kind # "delete" /\ ~new.super /\ ~c.operator.super
  <2>1. ~read.super /\ ~c.new.super  BY <1>4 DEF Passes, Bounded
  <2>2. new.super = row.super
    <3>1. CASE c.kind = "super"
      <4>1. read.super = FALSE /\ c.new.super = FALSE
        BY <2>1 DEF AdminType, CallType
      <4> QED  BY <4>1, <1>1, <1>4
    <3>2. CASE c.kind # "super"  BY <3>2, <1>1, <1>4
    <3> QED  BY <3>1, <3>2
  <2>3. row.perms \subseteq g /\ read.perms \subseteq g /\ c.operator.perms \subseteq g
    BY <2>1, <2>2, <1>4 DEF Let
  <2>4. CASE c.kind = "perms"
    <3>1. c.new.perms \ read.perms \subseteq c.operator.perms
      BY <2>4, <1>4 DEF Passes, Delegated
    <3>2. c.new.perms \subseteq g  BY <3>1, <2>3
    <3> QED  BY <3>2, <2>3, <2>4, <1>1 DEF Let
  <2>5. CASE c.kind # "perms"  BY <2>3, <2>5, <1>1, <1>4 DEF Let
  <2> QED  BY <2>4, <2>5
<1>5. new.super \in BOOLEAN /\ c.operator.super \in BOOLEAN
  BY <1>1 DEF AdminType, CallType
<1> QED  BY <1>2, <1>3, <1>4, <1>5

\* What a commit reads and writes.
LEMMA CommitFacts ==
  ASSUME DelegationInv, NEW q \in Requests, CommitAdmin(q)
  PROVE  /\ calls[q] \in CallType /\ CallSound(calls[q], given)
         /\ calls[q].by \in AdminIds /\ calls[q].target \in AdminIds
         /\ calls[q].kind \in {"perms", "active", "super", "delete"}
         /\ SeenBy(calls[q]) \in AdminType /\ Let(SeenBy(calls[q]), given)
         /\ Passes(calls[q], SeenBy(calls[q])) /\ Exists(calls[q].target)
         /\ admins' = [admins EXCEPT ![calls[q].target] =
                          Changed(calls[q], SeenBy(calls[q]), admins[calls[q].target])]
<1> DEFINE c == calls[q]
<1>1. c \in CallType /\ CallSound(c, given)  BY Parts DEF DelegationInv
<1>2. c.stage \in {"asked", "loaded"}  BY DEF CommitAdmin
<1>3. c.by \in AdminIds /\ c.target \in AdminIds
      /\ c.kind \in {"perms", "active", "super", "delete"}
  BY <1>1, <1>2 DEF CallSound
<1>4. SeenBy(c) \in AdminType  BY <1>1, <1>3, Parts DEF SeenBy, CallType
<1>5. Let(SeenBy(c), given)  BY <1>1, <1>3 DEF SeenBy, CallSound, DelegationInv
<1>6. Passes(c, SeenBy(c)) /\ Exists(c.target)
      /\ admins' = [admins EXCEPT ![c.target] = Changed(c, SeenBy(c), admins[c.target])]
  BY DEF CommitAdmin
<1> QED  BY <1>1, <1>3, <1>4, <1>5, <1>6

LEMMA CommitKeeps ==
  ASSUME DelegationInv, NEW q \in Requests, CommitAdmin(q)
  PROVE  DelegationInv'
<1> DEFINE c == calls[q]
           read == SeenBy(c)
           row == Changed(c, read, admins[c.target])
<1>1. /\ c \in CallType /\ CallSound(c, given)
      /\ c.target \in AdminIds /\ c.kind \in {"perms", "active", "super", "delete"}
      /\ read \in AdminType /\ Let(read, given)
      /\ Passes(c, read) /\ Exists(c.target)
  BY CommitFacts
<1>2. /\ admins' = [admins EXCEPT ![c.target] = row]
      /\ logins' = EndLogins(EndedWith(c))
      /\ given' = given \cup Released(c, row)
      /\ crossed' = (crossed \/ Lost(c))
      /\ calls' = [calls EXCEPT ![q] = NoCall]
      /\ UNCHANGED <<console, altered, astray>>
  BY DEF CommitAdmin, Answers, Sets
<1>3. admins[c.target] \in AdminType /\ Let(admins[c.target], given)
      /\ admins[c.target].status = "here"
  BY <1>1, Parts DEF DelegationInv, Exists
<1>4. row \in AdminType  BY <1>1, <1>3, ChangedType
<1>5. Let(row, given')
  <2>1. Let(c.operator, given)  BY <1>1 DEF CallSound
  <2>2. Let(row, given \cup Released(c, row))  BY <2>1, <1>1, <1>3, ChangedLet
  <2> QED  BY <2>2, <1>2
<1> HIDE DEF row, read
<1>6. given \subseteq given' /\ given' \subseteq AllPermissions
  BY <1>2, <1>4, Parts, ReleasedType
<1>7. admins' \in [AdminIds -> AdminType]  BY <1>2, <1>4, Parts
<1>8. \A k \in AdminIds : Let(admins'[k], given')
  <2> TAKE k \in AdminIds
  <2>1. admins'[k] = IF k = c.target THEN row ELSE admins[k]  BY <1>2, Parts
  <2>2. Let(admins[k], given)  BY DEF DelegationInv
  <2>3. CASE k = c.target  BY <2>1, <2>3, <1>5
  <2>4. CASE k # c.target  BY <2>1, <2>2, <2>4, <1>6 DEF Let
  <2> QED  BY <2>3, <2>4
<1>9. logins' \in [LoginIds -> LoginType]  BY <1>2, Parts, EndLoginsType
<1>10. calls' \in [Requests -> CallType] /\ \A r \in Requests : CallSound(calls'[r], given')
  BY <1>2, <1>6, NoCallSound, NothingTypes, CallKeeps
<1>11. crossed' \in BOOLEAN  BY <1>2 DEF DelegationInv, AdminTypeOK
<1>12. AdminTypeOK'
  BY <1>2, <1>6, <1>7, <1>9, <1>10, <1>11 DEF DelegationInv, AdminTypeOK, LoginType
<1> QED  BY <1>8, <1>10, <1>12 DEF DelegationInv

-----------------------------------------------------------------------------
(* The two invariants                                                      *)

LEMMA DelegationStep == DelegationInv /\ [AdminNext]_adminVars => DelegationInv'
<1> SUFFICES ASSUME DelegationInv, [AdminNext]_adminVars PROVE DelegationInv'
  OBVIOUS
<1>1. CASE UNCHANGED adminVars
  BY <1>1 DEF adminVars, DelegationInv, AdminTypeOK
<1>2. ASSUME NEW q \in Requests, NEW i \in AdminIds, Authenticate(q, i)
      PROVE  DelegationInv'
  BY <1>2, AuthenticateKeeps
<1>3. ASSUME NEW q \in Requests, NEW i \in AdminIds, NEW j \in AdminIds,
             AskUpdate(q, i, j) \/ AskDelete(q, i, j)
      PROVE  DelegationInv'
  <2>1. ASSUME NEW perms \in Choices, Ask(q, i, "perms", j, [NoAdmin EXCEPT !.perms = perms])
        PROVE  DelegationInv'
    <3>1. perms \subseteq AllPermissions  BY DEF Choices, AllPermissions
    <3>2. [NoAdmin EXCEPT !.perms = perms] \in AdminType
      BY <3>1, NothingTypes DEF AdminType
    <3> QED  BY <2>1, <3>2, AskKeeps
  <2>2. ASSUME NEW active \in BOOLEAN,
               Ask(q, i, "active", j, [NoAdmin EXCEPT !.active = active])
        PROVE  DelegationInv'
    <3>1. [NoAdmin EXCEPT !.active = active] \in AdminType  BY NothingTypes DEF AdminType
    <3> QED  BY <2>2, <3>1, AskKeeps
  <2>3. ASSUME NEW super \in BOOLEAN,
               Ask(q, i, "super", j, [NoAdmin EXCEPT !.super = super])
        PROVE  DelegationInv'
    <3>1. [NoAdmin EXCEPT !.super = super] \in AdminType  BY NothingTypes DEF AdminType
    <3> QED  BY <2>3, <3>1, AskKeeps
  <2>4. CASE AskDelete(q, i, j)
    BY <2>4, NothingTypes, AskKeeps DEF AskDelete
  <2> QED  BY <1>3, <2>1, <2>2, <2>3, <2>4 DEF AskUpdate
<1>4. ASSUME NEW q \in Requests, NEW s \in LoginIds, OpenLogin(q, s)
      PROVE  DelegationInv'
  BY <1>4, OpenKeeps
<1>5. ASSUME NEW q \in Requests, LoadAdmin(q) \/ CommitAdmin(q) \/ Refuse(q)
      PROVE  DelegationInv'
  BY <1>5, LoadKeeps, CommitKeeps, RefuseKeeps
<1>6. ASSUME NEW i \in AdminIds, NEW j \in AdminIds, NEW super \in BOOLEAN,
             NEW perms \in Choices, CreateAdmin(i, j, super, perms)
      PROVE  DelegationInv'
  BY <1>6, CreateKeeps
<1>7. ASSUME NEW s \in LoginIds,
             LogOutAdmin(s) \/ ChangeProfile(s) \/ \E t \in LoginIds : RevokeLogin(s, t)
      PROVE  DelegationInv'
  BY <1>7, SessionsKeep, ProfileKeeps
<1> QED  BY <1>1, <1>2, <1>3, <1>4, <1>5, <1>6, <1>7 DEF AdminNext

LEMMA SuperStep ==
  DelegationInv /\ SuperAdminRemains /\ [AdminNext]_adminVars => SuperAdminRemains'
<1> SUFFICES ASSUME DelegationInv, SuperAdminRemains, [AdminNext]_adminVars, ~crossed'
             PROVE  \E i \in AdminIds : /\ admins'[i].status = "here"
                                        /\ admins'[i].super /\ admins'[i].active
  BY DEF SuperAdminRemains, Exists
<1>1. ASSUME NEW q \in Requests, CommitAdmin(q)
      PROVE  \E i \in AdminIds : /\ admins'[i].status = "here"
                                 /\ admins'[i].super /\ admins'[i].active
  <2> DEFINE c == calls[q]
             read == SeenBy(c)
             row == Changed(c, read, admins[c.target])
  <2>1. /\ c \in CallType /\ c.by \in AdminIds /\ c.target \in AdminIds
        /\ c.kind \in {"perms", "active", "super", "delete"}
        /\ Passes(c, read) /\ Exists(c.target)
        /\ admins' = [admins EXCEPT ![c.target] = row]
    BY <1>1, CommitFacts
  <2>2. ~crossed /\ ~Lost(c)  BY <1>1 DEF CommitAdmin
  <2>3. PICK w \in AdminIds : Exists(w) /\ admins[w].super /\ admins[w].active
    BY <2>2 DEF SuperAdminRemains
  <2>4. admins[c.target] \in AdminType  BY <2>1, Parts
  <2>5. /\ c.kind # "delete" => row.status = "here"
        /\ row.super = IF c.kind = "delete" THEN FALSE
                       ELSE IF c.kind = "super" /\ c.new.super # read.super THEN c.new.super
                       ELSE admins[c.target].super
        /\ row.active = IF c.kind = "delete" THEN FALSE
                        ELSE IF c.kind = "active" /\ c.new.active # read.active
                             THEN c.new.active
                        ELSE admins[c.target].active
    BY <2>1, <2>4, ChangedType DEF Exists
  <2> HIDE DEF row, read
  <2>6. CASE c.target # w
    <3>1. admins'[w] = admins[w]  BY <2>1, <2>6, Parts
    <3> QED  BY <3>1, <2>3 DEF Exists
  <2>7. CASE c.target = w
    <3>1. c.operator.super  BY <2>2, <2>3, <2>7 DEF Lost
    <3>2. Exists(c.by) /\ admins[c.by].active /\ admins[c.by].super
      BY <2>2, <3>1 DEF Lost
    <3>3. CASE c.by # w
      <4>1. admins'[c.by] = admins[c.by]  BY <2>1, <2>7, <3>3, Parts
      <4> QED  BY <4>1, <3>2, <2>1 DEF Exists
    <3>4. CASE c.by = w
      <4>1. NotOneself(c)  BY <2>1 DEF Passes
      <4>2. /\ c.kind # "delete"
            /\ c.kind = "active" => c.new.active
            /\ c.kind = "super" => c.new.super
        BY <4>1, <3>4, <2>7 DEF NotOneself
      <4>3. admins'[w] = row  BY <2>1, <2>7, Parts
      <4>4. row.status = "here"  BY <4>2, <2>5
      <4>5. row.super  BY <4>2, <2>3, <2>5, <2>7
      <4>6. row.active  BY <4>2, <2>3, <2>5, <2>7
      <4> QED  BY <4>3, <4>4, <4>5, <4>6
    <3> QED  BY <3>3, <3>4
  <2> QED  BY <2>6, <2>7
<1>2. ASSUME crossed' = crossed,
             \A k \in AdminIds : Exists(k) =>
               /\ admins'[k].status = "here" /\ admins'[k].super = admins[k].super
               /\ admins'[k].active = admins[k].active
      PROVE  \E i \in AdminIds : /\ admins'[i].status = "here"
                                 /\ admins'[i].super /\ admins'[i].active
  <2>1. PICK w \in AdminIds : Exists(w) /\ admins[w].super /\ admins[w].active
    BY <1>2 DEF SuperAdminRemains
  <2> QED  BY <2>1, <1>2
<1>3. CASE UNCHANGED <<admins, crossed>>  BY <1>2, <1>3 DEF Exists
<1>4. ASSUME NEW i \in AdminIds, NEW j \in AdminIds, NEW super \in BOOLEAN,
             NEW perms \in Choices, CreateAdmin(i, j, super, perms)
      PROVE  \E k \in AdminIds : /\ admins'[k].status = "here"
                                 /\ admins'[k].super /\ admins'[k].active
  <2>1. crossed' = crossed /\ AdminFresh(j)
        /\ admins' = [admins EXCEPT ![j] = [FirstAdmin EXCEPT !.super = super,
                                              !.perms = perms, !.ready = TRUE]]
    BY <1>4 DEF CreateAdmin
  <2>2. j >= j  BY AdminBounds DEF AdminIds
  <2>3. ~Exists(j)  BY <2>1, <2>2 DEF AdminFresh, Exists
  <2>4. \A k \in AdminIds : Exists(k) => admins'[k] = admins[k]  BY <2>1, <2>3, Parts
  <2> QED  BY <1>2, <2>1, <2>4 DEF Exists
<1>5. ASSUME NEW s \in LoginIds, ChangeProfile(s)
      PROVE  \E k \in AdminIds : /\ admins'[k].status = "here"
                                 /\ admins'[k].super /\ admins'[k].active
  <2>1. crossed' = crossed
        /\ admins' = [admins EXCEPT ![logins[s].admin].ready = TRUE]
    BY <1>5 DEF ChangeProfile
  <2>2. \A k \in AdminIds :
          admins'[k] = IF k = logins[s].admin THEN [admins[k] EXCEPT !.ready = TRUE]
                       ELSE admins[k]
    BY <2>1, Parts
  <2>3. \A k \in AdminIds : admins[k] \in AdminType  BY Parts
  <2>4. \A k \in AdminIds : /\ admins'[k].status = admins[k].status
                            /\ admins'[k].super = admins[k].super
                            /\ admins'[k].active = admins[k].active
    BY <2>2, <2>3 DEF AdminType
  <2> QED  BY <1>2, <2>1, <2>4 DEF Exists
<1>6. CASE \E q \in Requests :
             \/ \E i \in AdminIds :
                  \/ Authenticate(q, i)
                  \/ \E j \in AdminIds : AskUpdate(q, i, j) \/ AskDelete(q, i, j)
             \/ \E s \in LoginIds : OpenLogin(q, s)
             \/ LoadAdmin(q) \/ Refuse(q)
  <2>1. ASSUME NEW q \in Requests, NEW i \in AdminIds, NEW j \in AdminIds,
               AskUpdate(q, i, j) \/ AskDelete(q, i, j)
        PROVE  UNCHANGED <<admins, crossed>>
    BY <2>1 DEF AskUpdate, AskDelete, Ask
  <2>2. ASSUME NEW q \in Requests, NEW i \in AdminIds, Authenticate(q, i)
        PROVE  UNCHANGED <<admins, crossed>>
    BY <2>2 DEF Authenticate
  <2>3. ASSUME NEW q \in Requests, NEW s \in LoginIds, OpenLogin(q, s)
        PROVE  UNCHANGED <<admins, crossed>>
    BY <2>3 DEF OpenLogin
  <2>4. ASSUME NEW q \in Requests, LoadAdmin(q) \/ Refuse(q)
        PROVE  UNCHANGED <<admins, crossed>>
    BY <2>4 DEF LoadAdmin, Refuse
  <2>5. UNCHANGED <<admins, crossed>>
    BY <1>6, <2>1, <2>2, <2>3, <2>4
  <2> QED  BY <1>3, <2>5
<1>7. CASE \E s \in LoginIds : LogOutAdmin(s) \/ \E t \in LoginIds : RevokeLogin(s, t)
  BY <1>3, <1>7 DEF LogOutAdmin, RevokeLogin
<1>8. CASE UNCHANGED adminVars  BY <1>3, <1>8 DEF adminVars
<1> QED  BY <1>1, <1>4, <1>5, <1>6, <1>7, <1>8 DEF AdminNext

\* The inductive invariant holds in every state of every behaviour of the two
\* consoles: what requests remember was let out by a super administrator.
THEOREM DelegationInvariant == AdminSpec => []DelegationInv
<1> QED  BY DelegationInit, DelegationStep, PTL DEF AdminSpec

\* Every variable of the two consoles keeps its type.
THEOREM AdminTypesHold == AdminSpec => []AdminTypeOK
<1>1. DelegationInv => AdminTypeOK  BY DEF DelegationInv
<1> QED  BY <1>1, DelegationInvariant, PTL

\* An administrator who is not a super administrator has no permission that
\* no super administrator let out, whatever updates overlap
\* (_ensure_permission_delegation, _ensure_super_admin_boundary).
THEOREM PermissionsStayDelegated == AdminSpec => []PermissionsComeFromSupers
<1>1. DelegationInv => PermissionsComeFromSupers
  BY DEF DelegationInv, Let, PermissionsComeFromSupers
<1> QED  BY <1>1, DelegationInvariant, PTL

\* An active super administrator remains, unless a request was carried out
\* after its operator had lost its standing or its target had gained that of a
\* super administrator: the guards of update_admin and delete_admin suffice.
THEOREM ASuperAdminRemains == AdminSpec => []SuperAdminRemains
<1>1. AdminInit => SuperAdminRemains
  BY AdminBounds DEF AdminInit, SuperAdminRemains, Exists, AdminIds, FirstAdmin
<1> QED  BY <1>1, DelegationInvariant, SuperStep, PTL DEF AdminSpec

-----------------------------------------------------------------------------
(***************************************************************************)
(* Proofs about ModelBinding, for every set of agents and requests and     *)
(* every number of models and versions: a session talks to the model it    *)
(* was configured with, and the model an agent is assigned to exists.      *)
(*                                                                         *)
(* The second needs what a request carries from its reading to its commit: *)
(* a deletion synchronises the agents of the model and lists none, so that *)
(* each agent it has read leaves the model.                                *)
(***************************************************************************)

\* What a request that has read carries to its commit.
EditsSound ==
  \A q \in Requests : edits[q].stage = "commit" =>
    /\ edits[q].kind # "none"
    /\ edits[q].kind = "delete" => edits[q].sync /\ edits[q].agents = {}

\* An invoker was built from what its key says.
CacheSound == \A c \in invokers : c.key[2] = c.version

\* The inductive invariant.
BindingInv ==
  ModelTypeOK /\ EditsSound /\ CacheSound /\ TalksAsConfigured /\ AssignedModelExists

-----------------------------------------------------------------------------
(* Types                                                                   *)

LEMMA ModelNothingTypes == NoModel \in ModelType /\ NoTalk \in TalkType /\ NoEdit \in EditType
<1>1. NoModel \in ModelType
  BY ModelBounds DEF NoModel, ModelType
<1>2. [i \in Agents |-> 0] \in [Agents -> 0..MaxModel]
  BY ModelBounds
<1> QED  BY <1>1, <1>2, ModelBounds DEF NoTalk, TalkType, NoEdit, EditType

LEMMA BindingInit == ModelInit => BindingInv
<1> SUFFICES ASSUME ModelInit PROVE BindingInv  OBVIOUS
<1>1. models \in [ModelIds -> ModelType]
  <2>1. [status |-> "here", version |-> 1, active |-> TRUE] \in ModelType
    BY ModelBounds DEF ModelType
  <2> QED  BY <2>1, ModelNothingTypes DEF ModelInit
<1>2. assigned \in [Agents -> 0..MaxModel] /\ snapshot \in [Agents -> 0..MaxModel]
  BY ModelBounds DEF ModelInit
<1>3. talks \in [Agents -> TalkType] /\ edits \in [Requests -> EditType]
  BY ModelNothingTypes DEF ModelInit
<1>4. asked \in 0..MaxAssign /\ dangling \subseteq Agents /\ invokers \subseteq InvokerType
  BY ModelBounds DEF ModelInit
<1>5. EditsSound /\ CacheSound /\ TalksAsConfigured
  BY DEF ModelInit, EditsSound, CacheSound, TalksAsConfigured, NoEdit, NoTalk
<1>6. AssignedModelExists
  BY ModelBounds DEF ModelInit, AssignedModelExists, Configured, ModelIds
<1> QED  BY <1>1, <1>2, <1>3, <1>4, <1>5, <1>6 DEF BindingInv, ModelTypeOK

-----------------------------------------------------------------------------
(* Requests                                                                *)

\* A request starts with what it carries to its commit.
LEMMA StartKeeps ==
  ASSUME BindingInv, NEW q \in Requests, NEW edit \in EditType, StartsEdit(q, edit),
         edit.kind # "none",
         edit.kind = "delete" => edit.sync /\ edit.agents = {}
  PROVE  BindingInv'
<1> DEFINE new == [edit EXCEPT !.stage = "commit", !.seen = assigned]
<1>0. ModelTypeOK /\ EditsSound /\ CacheSound /\ TalksAsConfigured /\ AssignedModelExists
  BY DEF BindingInv
<1>1. edits' = [edits EXCEPT ![q] = new] /\ asked < MaxAssign /\ asked' = asked + 1
  BY DEF StartsEdit
<1>2. UNCHANGED <<models, assigned, snapshot, invokers, talks, dangling>>
  BY DEF StartsEdit
<1>3. new \in EditType /\ new.kind = edit.kind /\ new.row = edit.row /\ new.sync = edit.sync
      /\ new.agents = edit.agents
  <2>1. assigned \in [Agents -> 0..MaxModel]  BY <1>0 DEF ModelTypeOK
  <2> QED  BY <2>1 DEF EditType
<1> HIDE DEF new
<1>4. asked' \in 0..MaxAssign  BY <1>0, <1>1, ModelBounds DEF ModelTypeOK
<1>5. edits' \in [Requests -> EditType]  BY <1>0, <1>1, <1>3 DEF ModelTypeOK
<1>6. ModelTypeOK'  BY <1>0, <1>2, <1>4, <1>5 DEF ModelTypeOK
<1>7. EditsSound'
  <2> SUFFICES ASSUME NEW r \in Requests, edits'[r].stage = "commit"
      PROVE /\ edits'[r].kind # "none"
            /\ edits'[r].kind = "delete" => edits'[r].sync /\ edits'[r].agents = {}
    BY DEF EditsSound
  <2>1. edits'[r] = IF r = q THEN new ELSE edits[r]
    BY <1>0, <1>1 DEF ModelTypeOK
  <2>2. CASE r = q  BY <2>1, <2>2, <1>3
  <2>3. CASE r # q  BY <2>1, <2>3, <1>0 DEF EditsSound
  <2> QED  BY <2>2, <2>3
<1>8. CacheSound' /\ TalksAsConfigured' /\ AssignedModelExists'
  BY <1>0, <1>2 DEF CacheSound, TalksAsConfigured, AssignedModelExists, Configured
<1> QED  BY <1>6, <1>7, <1>8 DEF BindingInv

LEMMA CreateModelKeeps ==
  ASSUME BindingInv, NEW q \in Requests, NEW active \in BOOLEAN, NEW sync \in BOOLEAN,
         NEW S \in SUBSET Agents, AskCreate(q, active, sync, S)
  PROVE  BindingInv'
<1> DEFINE row == [NoModel EXCEPT !.active = active]
           edit == [NoEdit EXCEPT !.kind = "create", !.sync = sync, !.agents = S, !.row = row]
<1>1. row \in ModelType  BY ModelNothingTypes DEF ModelType
<1> HIDE DEF row
<1>2. edit \in EditType /\ edit.kind = "create" /\ edit.row = row
  BY <1>1, ModelNothingTypes DEF EditType, NoEdit
<1>3. StartsEdit(q, edit)  BY DEF AskCreate, row
<1> HIDE DEF edit
<1> QED  BY <1>1, <1>2, <1>3, StartKeeps

LEMMA EditKeeps ==
  ASSUME BindingInv, NEW q \in Requests, NEW m \in ModelIds,
         NEW kind \in {"version", "toggle", "agents"}, NEW sync \in BOOLEAN,
         NEW S \in SUBSET Agents, AskEdit(q, m, kind, sync, S)
  PROVE  BindingInv'
<1> DEFINE edit == [NoEdit EXCEPT !.kind = kind, !.model = m, !.sync = sync, !.agents = S,
                                  !.row = models[m]]
<1>1. models[m] \in ModelType /\ m \in 0..MaxModel
  BY ModelBounds DEF BindingInv, ModelTypeOK, ModelIds
<1>2. edit \in EditType /\ edit.kind = kind /\ edit.row = models[m]
  BY <1>1, ModelNothingTypes DEF EditType, NoEdit
<1>3. StartsEdit(q, edit)
  BY DEF AskEdit
<1> HIDE DEF edit
<1> QED  BY <1>2, <1>3, StartKeeps

LEMMA RemoveKeeps ==
  ASSUME BindingInv, NEW q \in Requests, NEW m \in ModelIds, AskRemove(q, m)
  PROVE  BindingInv'
<1> DEFINE edit == [NoEdit EXCEPT !.kind = "delete", !.model = m, !.sync = TRUE,
                                  !.row = models[m]]
<1>1. models[m] \in ModelType /\ m \in 0..MaxModel
  BY ModelBounds DEF BindingInv, ModelTypeOK, ModelIds
<1>2. edit \in EditType /\ edit.kind = "delete" /\ edit.sync /\ edit.agents = {}
  BY <1>1, ModelNothingTypes DEF EditType, NoEdit
<1>3. StartsEdit(q, edit)  BY DEF AskRemove
<1> HIDE DEF edit
<1> QED  BY <1>2, <1>3, StartKeeps

\* A request that leaves its commit carries nothing any more.
LEMMA LeavesCommit ==
  ASSUME ModelTypeOK, EditsSound, NEW q \in Requests, NEW new \in EditType,
         new.stage # "commit", edits' = [edits EXCEPT ![q] = new]
  PROVE  edits' \in [Requests -> EditType] /\ EditsSound'
<1>1. edits' \in [Requests -> EditType]  BY DEF ModelTypeOK
<1>2. \A r \in Requests : edits'[r] = IF r = q THEN new ELSE edits[r]
  BY DEF ModelTypeOK
<1>3. EditsSound'  BY <1>2 DEF EditsSound
<1> QED  BY <1>1, <1>3

\* The row a commit writes, by the kind of the request.
LEMMA EditedType ==
  ASSUME ModelTypeOK, EditsSound, NEW q \in Requests, NEW m \in ModelIds,
         edits[q].stage = "commit",
         edits[q].kind # "create" => Configured(m),
         edits[q].kind \in {"create", "version"} => models[m].version < MaxVersion
  PROVE  /\ EditedModel(edits[q], m) \in ModelType
         /\ edits[q].kind # "delete" => EditedModel(edits[q], m).status = "here"
<1> DEFINE e == edits[q]
<1>1. e \in EditType /\ e.row \in ModelType /\ models[m] \in ModelType
  BY DEF ModelTypeOK, EditType
<1>8. e.kind \in {"create", "version"} => models[m].version + 1 \in 0..MaxVersion
  BY <1>1, ModelBounds DEF ModelType
<1>2. CASE e.kind = "create"
  <2>1. EditedModel(e, m) = [status |-> "here", version |-> models[m].version + 1,
                             active |-> e.row.active]
    BY <1>2 DEF EditedModel
  <2> QED  BY <1>1, <1>2, <1>8, <2>1 DEF ModelType
<1>3. CASE e.kind = "version"
  <2>1. EditedModel(e, m) = [models[m] EXCEPT !.version = @ + 1]
    BY <1>3 DEF EditedModel
  <2>2. models[m].status = "here"  BY <1>3 DEF Configured
  <2> QED  BY <1>1, <1>3, <1>8, <2>1, <2>2 DEF ModelType
<1>4. CASE e.kind = "toggle"
  <2>1. EditedModel(e, m) = [models[m] EXCEPT !.active = ~e.row.active]
    BY <1>4 DEF EditedModel
  <2>2. models[m].status = "here"  BY <1>4 DEF Configured
  <2>3. (~e.row.active) \in BOOLEAN  OBVIOUS
  <2> QED  BY <1>1, <1>4, <2>1, <2>2, <2>3 DEF ModelType
<1>5. CASE e.kind = "agents"
  BY <1>1, <1>5 DEF EditedModel, Configured
<1>6. CASE e.kind = "delete"
  <2>1. EditedModel(e, m) = [models[m] EXCEPT !.status = "none", !.active = FALSE]
    BY <1>6 DEF EditedModel
  <2>2. [models[m] EXCEPT !.status = "none", !.active = FALSE] \in ModelType
    BY <1>1 DEF ModelType
  <2> QED  BY <1>6, <2>1, <2>2
<1>7. e.kind \in {"create", "version", "toggle", "agents", "delete"}
  BY <1>1 DEF EditType, EditsSound
<1> QED  BY <1>2, <1>3, <1>4, <1>5, <1>6, <1>7

LEMMA CommitModelKeeps ==
  ASSUME BindingInv, NEW q \in Requests, NEW m \in ModelIds, CommitModel(q, m)
  PROVE  BindingInv'
<1> DEFINE e == edits[q]
           row == EditedModel(e, m)
           new == [e EXCEPT !.stage = IF e.sync THEN "notify all" ELSE "notify model"]
<1>0. ModelTypeOK /\ EditsSound /\ CacheSound /\ TalksAsConfigured /\ AssignedModelExists
  BY DEF BindingInv
<1>1. /\ e.stage = "commit"
      /\ IF e.kind = "create" THEN NewModel(m) ELSE m = e.model /\ Configured(m)
      /\ models' = [models EXCEPT ![m] = row]
      /\ assigned' = Synchronised(e, m)
      /\ e.kind \in {"create", "version"} => models[m].version < MaxVersion
      /\ dangling' = {i \in dangling : assigned'[i] \notin {0, m}} \cup
           {i \in Agents : e.kind = "delete" /\ e.seen[i] # m /\ assigned[i] = m}
      /\ edits' = [edits EXCEPT ![q] = new]
      /\ UNCHANGED <<snapshot, invokers, talks, asked>>
  BY <1>0 DEF CommitModel, ModelTypeOK
<1>2. row \in ModelType /\ (e.kind # "delete" => row.status = "here")
  BY <1>0, <1>1, EditedType
<1>3. e \in EditType  BY <1>0 DEF ModelTypeOK
<1>4. new \in EditType /\ new.stage # "commit"
  BY <1>3 DEF EditType
<1>5. e.kind = "delete" => e.sync /\ e.agents = {}
  BY <1>0, <1>1 DEF EditsSound
<1>6. e.agents \in SUBSET Agents /\ e.seen \in [Agents -> 0..MaxModel]
  BY <1>3 DEF EditType
<1>7. m \in 1..MaxModel /\ assigned \in [Agents -> 0..MaxModel] /\ dangling \subseteq Agents
  BY <1>0 DEF ModelTypeOK, ModelIds
<1>8. models \in [ModelIds -> ModelType]  BY <1>0 DEF ModelTypeOK
<1> HIDE DEF new, row
<1>9. edits' \in [Requests -> EditType] /\ EditsSound'
  BY <1>0, <1>1, <1>4, LeavesCommit
<1>10. models' \in [ModelIds -> ModelType]  BY <1>1, <1>2, <1>8
<1>11. assigned' \in [Agents -> 0..MaxModel]
  BY <1>1, <1>7, ModelBounds DEF Synchronised
<1>12. ModelTypeOK'
  BY <1>0, <1>1, <1>7, <1>9, <1>10, <1>11 DEF ModelTypeOK
<1>13. CacheSound' /\ TalksAsConfigured'
  BY <1>0, <1>1 DEF CacheSound, TalksAsConfigured
<1>14. AssignedModelExists'
  <2> SUFFICES ASSUME NEW i \in Agents, i \notin dangling', assigned'[i] # 0
               PROVE  models'[assigned'[i]].status = "here"
    BY DEF AssignedModelExists, Configured
  <2>1. /\ i \notin dangling \/ assigned'[i] = m
        /\ ~(e.kind = "delete" /\ assigned[i] = m /\ e.seen[i] # m)
    BY <1>1
  <2>2. assigned'[i] = IF ~e.sync THEN assigned[i]
                       ELSE IF i \in e.agents /\ e.seen[i] # m THEN m
                       ELSE IF i \notin e.agents /\ e.seen[i] = m THEN 0
                       ELSE assigned[i]
    BY <1>1 DEF Synchronised
  <2>3. CASE assigned'[i] = m
    <3>1. e.kind # "delete"
      <4> SUFFICES ASSUME e.kind = "delete" PROVE FALSE  OBVIOUS
      <4>1. e.sync /\ i \notin e.agents  BY <1>5
      <4>2. e.seen[i] # m /\ assigned'[i] = assigned[i]
        BY <4>1, <2>2, <2>3, <1>7
      <4> QED  BY <4>2, <2>1, <2>3
    <3>2. models'[m] = row  BY <1>1, <1>8
    <3> QED  BY <3>1, <3>2, <1>2, <2>3
  <2>4. CASE assigned'[i] # m
    <3>1. assigned'[i] = assigned[i] /\ assigned[i] # 0  BY <2>2, <2>4
    <3>2. Configured(assigned[i])  BY <3>1, <2>1, <2>4, <1>0 DEF AssignedModelExists
    <3>3. models'[assigned[i]] = models[assigned[i]]
      BY <3>1, <2>4, <1>1, <1>7, <1>8 DEF ModelIds
    <3> QED  BY <3>1, <3>2, <3>3 DEF Configured
  <2> QED  BY <2>3, <2>4
<1> QED  BY <1>9, <1>12, <1>13, <1>14 DEF BindingInv

LEMMA RefuseModelKeeps ==
  ASSUME BindingInv, NEW q \in Requests, RefuseEdit(q)
  PROVE  BindingInv'
<1>0. ModelTypeOK /\ EditsSound /\ CacheSound /\ TalksAsConfigured /\ AssignedModelExists
  BY DEF BindingInv
<1>1. NoEdit \in EditType /\ NoEdit.stage # "commit"
  BY ModelNothingTypes DEF NoEdit
<1>2. edits' = [edits EXCEPT ![q] = NoEdit]
      /\ UNCHANGED <<models, assigned, snapshot, invokers, talks, asked, dangling>>
  BY DEF RefuseEdit
<1>3. edits' \in [Requests -> EditType] /\ EditsSound'
  BY <1>0, <1>1, <1>2, LeavesCommit
<1>4. ModelTypeOK'  BY <1>0, <1>2, <1>3 DEF ModelTypeOK
<1>5. CacheSound' /\ TalksAsConfigured' /\ AssignedModelExists'
  BY <1>0, <1>2 DEF CacheSound, TalksAsConfigured, AssignedModelExists, Configured
<1> QED  BY <1>3, <1>4, <1>5 DEF BindingInv

LEMMA AssignKeeps ==
  ASSUME BindingInv, NEW q \in Requests, NEW i \in Agents, NEW m \in 0..MaxModel,
         AssignModel(q, i, m)
  PROVE  BindingInv'
<1> DEFINE new == [NoEdit EXCEPT !.stage = "notify agent", !.agents = {i}]
<1>0. ModelTypeOK /\ EditsSound /\ CacheSound /\ TalksAsConfigured /\ AssignedModelExists
  BY DEF BindingInv
<1>1. new \in EditType /\ new.stage # "commit"
  BY ModelNothingTypes DEF EditType, NoEdit
<1>2. /\ asked < MaxAssign /\ asked' = asked + 1
      /\ assigned' = [assigned EXCEPT ![i] = m]
      /\ edits' = [edits EXCEPT ![q] = new]
      /\ dangling' = IF m = 0 \/ Configured(m) THEN dangling \ {i} ELSE dangling \cup {i}
      /\ UNCHANGED <<models, snapshot, invokers, talks>>
  BY DEF AssignModel
<1> HIDE DEF new
<1>3. edits' \in [Requests -> EditType] /\ EditsSound'
  BY <1>0, <1>1, <1>2, LeavesCommit
<1>4. asked' \in 0..MaxAssign  BY <1>0, <1>2, ModelBounds DEF ModelTypeOK
<1>5. assigned' \in [Agents -> 0..MaxModel]  BY <1>0, <1>2 DEF ModelTypeOK
<1>9. dangling' \subseteq Agents  BY <1>0, <1>2 DEF ModelTypeOK
<1>6. ModelTypeOK'  BY <1>0, <1>2, <1>3, <1>4, <1>5, <1>9 DEF ModelTypeOK
<1>7. CacheSound' /\ TalksAsConfigured'
  BY <1>0, <1>2 DEF CacheSound, TalksAsConfigured
<1>8. AssignedModelExists'
  <2> SUFFICES ASSUME NEW k \in Agents, k \notin dangling', assigned'[k] # 0
               PROVE  Configured(assigned'[k])
    BY <1>2 DEF AssignedModelExists, Configured
  <2>1. assigned'[k] = IF k = i THEN m ELSE assigned[k]
    BY <1>0, <1>2 DEF ModelTypeOK
  <2>2. CASE k = i
    <3>1. assigned'[k] = m /\ m # 0  BY <2>1, <2>2
    <3> QED  BY <3>1, <2>2, <1>2
  <2>3. CASE k # i
    <3>1. k \notin dangling  BY <2>3, <1>2
    <3> QED  BY <3>1, <2>1, <2>3, <1>0 DEF AssignedModelExists
  <2> QED  BY <2>2, <2>3
<1> QED  BY <1>3, <1>6, <1>7, <1>8 DEF BindingInv

LEMMA NotifyKeeps ==
  ASSUME BindingInv, NEW q \in Requests, NotifyModel(q)
  PROVE  BindingInv'
<1>0. ModelTypeOK /\ EditsSound /\ CacheSound /\ TalksAsConfigured /\ AssignedModelExists
  BY DEF BindingInv
<1>1. NoEdit \in EditType /\ NoEdit.stage # "commit"
  BY ModelNothingTypes DEF NoEdit
<1>2. edits' = [edits EXCEPT ![q] = NoEdit]
      /\ UNCHANGED <<models, assigned, talks, asked, dangling>>
  BY DEF NotifyModel
<1>3. invokers' \subseteq invokers  BY DEF NotifyModel
<1>4. snapshot' \in [Agents -> 0..MaxModel]
  BY <1>0 DEF NotifyModel, ModelTypeOK
<1>5. edits' \in [Requests -> EditType] /\ EditsSound'
  BY <1>0, <1>1, <1>2, LeavesCommit
<1>6. ModelTypeOK'  BY <1>0, <1>2, <1>3, <1>4, <1>5 DEF ModelTypeOK
<1>7. CacheSound' /\ TalksAsConfigured' /\ AssignedModelExists'
  BY <1>0, <1>2, <1>3 DEF CacheSound, TalksAsConfigured, AssignedModelExists, Configured
<1> QED  BY <1>5, <1>6, <1>7 DEF BindingInv

-----------------------------------------------------------------------------
(* Sessions                                                                *)

\* A step that changes one talk, and no more than adds to the cache.
LEMMA TalkKeeps ==
  ASSUME BindingInv, NEW i \in Agents, NEW new \in TalkType,
         new.stage = "talking" => new.invoker = new.version,
         talks' = [talks EXCEPT ![i] = new],
         invokers' \subseteq InvokerType, CacheSound',
         UNCHANGED <<models, assigned, snapshot, edits, asked, dangling>>
  PROVE  BindingInv'
<1>0. ModelTypeOK /\ EditsSound /\ TalksAsConfigured /\ AssignedModelExists
  BY DEF BindingInv
<1>1. \A k \in Agents : talks'[k] = IF k = i THEN new ELSE talks[k]
  BY <1>0 DEF ModelTypeOK
<1>2. talks' \in [Agents -> TalkType]  BY <1>0 DEF ModelTypeOK
<1>3. ModelTypeOK'  BY <1>0, <1>2 DEF ModelTypeOK
<1>4. TalksAsConfigured'  BY <1>0, <1>1 DEF TalksAsConfigured
<1>5. EditsSound' /\ AssignedModelExists'
  BY <1>0 DEF EditsSound, AssignedModelExists, Configured
<1> QED  BY <1>3, <1>4, <1>5 DEF BindingInv

LEMMA ReadKeeps ==
  ASSUME BindingInv, NEW i \in Agents, ReadConfig(i)
  PROVE  BindingInv'
<1> DEFINE m == snapshot[i]
           new == [stage |-> "configured", model |-> m, version |-> models[m].version,
                   invoker |-> 0]
<1>1. m \in ModelIds
  BY ModelBounds DEF ReadConfig, BindingInv, ModelTypeOK, ModelIds
<1>2. models[m].version \in 0..MaxVersion
  BY <1>1 DEF BindingInv, ModelTypeOK, ModelType
<1>3. new \in TalkType /\ new.stage # "talking"
  BY <1>1, <1>2, ModelBounds DEF TalkType, ModelIds
<1>4. talks' = [talks EXCEPT ![i] = new]
      /\ UNCHANGED <<models, assigned, snapshot, invokers, edits, asked, dangling>>
  BY DEF ReadConfig
<1> HIDE DEF m, new
<1>5. invokers' \subseteq InvokerType /\ CacheSound'
  BY <1>4 DEF BindingInv, ModelTypeOK, CacheSound
<1> QED  BY <1>3, <1>4, <1>5, TalkKeeps

LEMMA InvokerKeeps ==
  ASSUME BindingInv, NEW i \in Agents, GetInvoker(i)
  PROVE  BindingInv'
<1> DEFINE t == talks[i]
           found == {c \in invokers : c.key = CacheKey(t)}
           made == [key |-> CacheKey(t), version |-> t.version]
           c == IF found = {} THEN made ELSE CHOOSE d \in found : TRUE
           new == [t EXCEPT !.stage = "talking", !.invoker = c.version]
<1>0. ModelTypeOK /\ CacheSound  BY DEF BindingInv
<1>1. t \in TalkType /\ t.model \in 0..MaxModel /\ t.version \in 0..MaxVersion
  BY <1>0 DEF ModelTypeOK, TalkType
<1>2. CacheKey(t) = <<t.model, t.version>> /\ CacheKey(t)[2] = t.version
  BY DEF CacheKey
<1>3. c \in InvokerType /\ c.key[2] = c.version /\ c.version = t.version
  <2>1. CASE found = {}
    <3>1. made \in InvokerType  BY <1>1, <1>2 DEF InvokerType
    <3> QED  BY <2>1, <3>1, <1>2
  <2>2. CASE found # {}
    <3>1. c \in found  BY <2>2
    <3>2. c \in invokers /\ c.key = CacheKey(t)  BY <3>1
    <3> QED  BY <3>2, <1>0, <1>2 DEF ModelTypeOK, CacheSound
  <2> QED  BY <2>1, <2>2
<1>4. talks' = [talks EXCEPT ![i].stage = "talking", ![i].invoker = c.version]
      /\ invokers' = invokers \cup {c}
      /\ UNCHANGED <<models, assigned, snapshot, edits, asked, dangling>>
  BY DEF GetInvoker
<1> HIDE DEF c
<1>5. new \in TalkType /\ new.invoker = new.version
  BY <1>1, <1>3 DEF TalkType
<1>6. talks' = [talks EXCEPT ![i] = new]
  BY <1>0, <1>4 DEF ModelTypeOK
<1>7. invokers' \subseteq InvokerType /\ CacheSound'
  BY <1>0, <1>3, <1>4 DEF ModelTypeOK, CacheSound
<1> HIDE DEF new
<1> QED  BY <1>4, <1>5, <1>6, <1>7, TalkKeeps

LEMMA EndKeeps ==
  ASSUME BindingInv, NEW i \in Agents, EndTalk(i)
  PROVE  BindingInv'
<1>1. NoTalk \in TalkType /\ NoTalk.stage # "talking"
  BY ModelNothingTypes DEF NoTalk
<1>2. talks' = [talks EXCEPT ![i] = NoTalk]
      /\ UNCHANGED <<models, assigned, snapshot, invokers, edits, asked, dangling>>
  BY DEF EndTalk
<1>3. invokers' \subseteq InvokerType /\ CacheSound'
  BY <1>2 DEF BindingInv, ModelTypeOK, CacheSound
<1> QED  BY <1>1, <1>2, <1>3, TalkKeeps

-----------------------------------------------------------------------------
(* The invariant                                                           *)

LEMMA BindingStep == BindingInv /\ [ModelNext]_modelVars => BindingInv'
<1> SUFFICES ASSUME BindingInv, [ModelNext]_modelVars PROVE BindingInv'
  OBVIOUS
<1>1. CASE UNCHANGED modelVars
  BY <1>1 DEF modelVars, BindingInv, ModelTypeOK, EditsSound, CacheSound,
              TalksAsConfigured, AssignedModelExists, Configured
<1>2. ASSUME NEW q \in Requests, NEW S \in SUBSET Agents, NEW sync \in BOOLEAN,
             \/ \E active \in BOOLEAN : AskCreate(q, active, sync, S)
             \/ \E m \in ModelIds : \/ sync /\ AskEdit(q, m, "agents", sync, S)
                                    \/ AskEdit(q, m, "version", sync, S)
                                    \/ ~sync /\ AskEdit(q, m, "toggle", sync, S)
      PROVE  BindingInv'
  <2>1. CASE \E active \in BOOLEAN : AskCreate(q, active, sync, S)
    BY <2>1, CreateModelKeeps
  <2>2. ASSUME NEW m \in ModelIds, NEW kind \in {"version", "toggle", "agents"},
               AskEdit(q, m, kind, sync, S)
        PROVE  BindingInv'
    BY <2>2, EditKeeps
  <2> QED  BY <1>2, <2>1, <2>2
<1>3. ASSUME NEW q \in Requests, NEW m \in ModelIds, AskRemove(q, m) \/ CommitModel(q, m)
      PROVE  BindingInv'
  BY <1>3, RemoveKeeps, CommitModelKeeps
<1>4. ASSUME NEW q \in Requests, RefuseEdit(q) \/ NotifyModel(q)
      PROVE  BindingInv'
  BY <1>4, RefuseModelKeeps, NotifyKeeps
<1>5. ASSUME NEW q \in Requests, NEW i \in Agents, NEW m \in 0..MaxModel, AssignModel(q, i, m)
      PROVE  BindingInv'
  BY <1>5, AssignKeeps
<1>6. ASSUME NEW i \in Agents, ReadConfig(i) \/ GetInvoker(i) \/ EndTalk(i)
      PROVE  BindingInv'
  BY <1>6, ReadKeeps, InvokerKeeps, EndKeeps
<1> QED  BY <1>1, <1>2, <1>3, <1>4, <1>5, <1>6 DEF ModelNext

\* The inductive invariant holds in every state of every behaviour of the
\* model requests, notices and sessions.
THEOREM BindingInvariant == ModelSpec => []BindingInv
<1> QED  BY BindingInit, BindingStep, PTL DEF ModelSpec

\* Every variable of the models, assignments, requests and sessions keeps its
\* type, for every number of agents, models and versions.
THEOREM ModelTypesHold == ModelSpec => []ModelTypeOK
<1>1. BindingInv => ModelTypeOK  BY DEF BindingInv
<1> QED  BY <1>1, BindingInvariant, PTL

\* A session talks to the model and version it was configured with, and an
\* agent's model exists unless it was assigned while the model was deleted:
\* _sync_assigned_agents and get_invoker, under every overlap of requests.
THEOREM ModelsStaySettled == ModelSpec => []ModelsSettled
<1>1. BindingInv => ModelsSettled  BY DEF BindingInv, ModelsSettled
<1> QED  BY <1>1, BindingInvariant, PTL

-----------------------------------------------------------------------------
(***************************************************************************)
(* Theorems about TimeSystem, for every set of scales and offsets: the     *)
(* line never runs backwards while the process runs, no open memory is     *)
(* from the future, and the projection of the anchor agrees with the line. *)
(***************************************************************************)

USE DEF line, stored, bounded, probing

\* Products of naturals are naturals.
LEMMA ProductType ==
  ASSUME NEW d \in Nat, NEW s \in Nat
  PROVE  d * s \in Nat
  OBVIOUS

\* Adding a natural does not make an integer smaller.
LEMMA SumAbove ==
  ASSUME NEW e \in Nat, NEW o \in Int
  PROVE  e + o >= o
  OBVIOUS

\* An empty interval scales to zero.
LEMMA ZeroProduct ==
  ASSUME NEW a \in Int, NEW s \in Int
  PROVE  (a - a) * s = 0
  OBVIOUS

\* Two adjacent intervals scale to the scaled whole.
LEMMA Distribute ==
  ASSUME NEW a \in Int, NEW b \in Int, NEW c \in Int, NEW s \in Int
  PROVE  (a - b) * s + (b - c) * s = (a - c) * s
  OBVIOUS

\* Elapsed time is a natural and never less than what was counted.
LEMMA ElapsedType ==
  ASSUME TypeOK
  PROVE  Elapsed \in Nat /\ Elapsed >= elapsed /\ LastUpdate \in Nat
<1>1. scale \in Nat /\ Larger(0, clock - last) \in Nat
  BY TimeAssumption DEF TypeOK, Larger
<1>2. Larger(0, clock - last) * scale \in Nat
  BY <1>1, ProductType
<1>3. QED
  BY <1>2 DEF Elapsed, LastUpdate, Larger, TypeOK

\* A resumed clock starts no earlier than its offset.
LEMMA ResumedType ==
  ASSUME TypeOK
  PROVE  Resumed(anchor) - anchor.offset \in Nat
<1>0. anchor.scale \in Scales /\ anchor.real \in Nat
  BY DEF TypeOK, AnchorOK, AnchorType
<1>1. anchor.scale \in Nat /\ clock \in Nat
  BY <1>0, TimeAssumption DEF TypeOK
<1>2. Larger(0, clock - anchor.real) \in Nat
  BY <1>0, <1>1 DEF Larger
<1>3. Larger(0, clock - anchor.real) * anchor.scale \in Nat
  BY <1>1, <1>2, ProductType
<1>4. anchor.scaled \in Int /\ anchor.offset \in Int /\ anchor.scaled - anchor.offset \in Nat
  BY DEF TypeOK, AnchorOK, AnchorType
<1>5. QED
  BY <1>3, <1>4 DEF Resumed

\* Writing the anchor keeps the types.
LEMMA PersistType ==
  ASSUME TypeOK, NEW f \in Nat, Persist(f),
         elapsed' \in Nat, last' \in Nat, offset' \in Int, scale' \in Scales,
         paused' \in BOOLEAN
  PROVE  /\ AnchorOK(anchor') /\ AnchorOK(probe') /\ fresh' \in BOOLEAN
         /\ intact' \in BOOLEAN /\ mishaps' \in Nat
<1>1. AnchorOK(Anchored)
  <2>1. Anchored \in AnchorType
    BY DEF Anchored, AnchorType
  <2>2. Anchored.scaled = elapsed' + offset' /\ Anchored.offset = offset'
    BY DEF Anchored
  <2>3. elapsed' + offset' >= offset'
    BY SumAbove
  <2>4. Anchored.scaled >= Anchored.offset
    BY <2>2, <2>3, Zenon
  <2> QED
    BY <2>1, <2>4 DEF AnchorOK
<1>2. intact' \in BOOLEAN
  BY Zenon DEF Persist
<1>3. AnchorOK(anchor')
  BY <1>1 DEF Persist, TypeOK
<1>4. mishaps' \in Nat
  BY DEF Persist
<1>5. fresh' \in BOOLEAN
  BY Zenon DEF Persist
<1>6. AnchorOK(probe')
  BY DEF Persist, TypeOK
<1>7. QED
  BY <1>2, <1>3, <1>4, <1>5, <1>6

\* The anchor that a process starting from a stored one writes is well formed.
LEMMA RestartedType ==
  ASSUME TypeOK, NEW s \in Scales
  PROVE  AnchorOK(Restarted(anchor, s)) /\ AnchorOK(Restarted(NoAnchor, s))
<1>1. /\ anchor.offset \in Int /\ anchor.scaled \in Int /\ latestLogin \in Nat
      /\ clock \in Nat
  BY DEF TypeOK, AnchorOK, AnchorType
<1>2. anchor.paused \in BOOLEAN
  BY Zenon DEF TypeOK, AnchorOK, AnchorType
<1>. DEFINE R == Resumed(anchor)
<1>3. R \in Int /\ R >= anchor.offset
  <2>1. R - anchor.offset \in Nat
    BY ResumedType
  <2>2. R \in Int
    <3>1. anchor.scale \in Nat /\ anchor.real \in Nat
      BY TimeAssumption DEF TypeOK, AnchorOK, AnchorType
    <3>2. Larger(0, clock - anchor.real) \in Nat
      BY <1>1, <3>1 DEF Larger
    <3>3. Larger(0, clock - anchor.real) * anchor.scale \in Nat
      BY <3>1, <3>2, ProductType
    <3> QED
      BY <1>1, <3>3 DEF Resumed
  <2> HIDE DEF R
  <2> QED
    BY <1>1, <2>1, <2>2
<1>4. AnchorOK(Restarted(NoAnchor, s))
  BY <1>1 DEF Restarted, NoAnchor, AnchorOK, AnchorType
<1>5. AnchorOK(Restarted(anchor, s))
  <2>1. CASE anchor.exists
    <3>0. (anchor.exists /\ anchor.paused) = anchor.paused
      BY <1>2, <2>1, Zenon
    <3>1. Restarted(anchor, s) =
            [exists |-> TRUE, real |-> clock, scale |-> s, scaled |-> R,
             offset |-> anchor.offset, paused |-> anchor.paused]
      BY <2>1, <3>0, Zenon DEF Restarted
    <3> HIDE DEF R
    <3> QED
      BY <1>1, <1>2, <1>3, <3>1 DEF AnchorOK, AnchorType
  <2>2. CASE ~anchor.exists
    <3>0. (anchor.exists /\ anchor.paused) = FALSE
      BY <2>2, Zenon
    <3>1. Restarted(anchor, s) =
            [exists |-> TRUE, real |-> clock, scale |-> s, scaled |-> latestLogin,
             offset |-> 0, paused |-> FALSE]
      BY <2>2, <3>0, Zenon DEF Restarted
    <3> QED
      BY <1>1, <1>2, <3>1 DEF AnchorOK, AnchorType
  <2> QED
    BY <2>1, <2>2
<1>6. QED
  BY <1>4, <1>5

\* The initial states are well typed.
LEMMA TypeInit == Init => TypeOK
<1> SUFFICES ASSUME Init
             PROVE  TypeOK
  OBVIOUS
<1>1. AnchorOK(anchor) /\ AnchorOK(probe)
  <2>1. NoAnchor \in AnchorType
    BY TimeAssumption DEF NoAnchor, AnchorType
  <2> QED
    BY <2>1 DEF Init, AnchorOK, NoAnchor
<1>2. up \in BOOLEAN /\ paused \in BOOLEAN /\ aligned \in BOOLEAN /\ intact \in BOOLEAN
      /\ fresh \in BOOLEAN
  BY Zenon DEF Init
<1>3. QED
  BY <1>1, <1>2 DEF Init, TypeOK

\* Every step keeps the types.
LEMMA TypeStep == TypeOK /\ [Next]_vars => TypeOK'
<1> SUFFICES ASSUME TypeOK, [Next]_vars
             PROVE  TypeOK'
  OBVIOUS
<1> USE TimeAssumption, ElapsedType
<1>1. CASE Start
  <2>0. up' \in BOOLEAN /\ aligned' \in BOOLEAN
    BY <1>1, Zenon DEF Start
  <2>1. /\ elapsed' \in Nat /\ last' \in Nat /\ offset' \in Int /\ seen' \in Int
        /\ scale' \in Scales /\ paused' \in BOOLEAN
    <3>1. CASE StartFrom(anchor)
      <4>1. paused' \in BOOLEAN
        BY <3>1, Zenon DEF StartFrom
      <4>2. anchor.offset \in Int
        BY DEF TypeOK, AnchorOK, AnchorType
      <4>3. offset' \in Int
        BY <3>1, <4>2 DEF StartFrom
      <4>4. elapsed' \in Nat
        BY <3>1, <4>2, ResumedType DEF StartFrom, TypeOK
      <4>5. scale' \in Scales /\ last' \in Nat
        BY <3>1 DEF StartFrom, ScaleRead, TypeOK
      <4> QED
        BY <1>1, <2>0, <4>1, <4>3, <4>4, <4>5 DEF Start
    <3>2. CASE StartFrom(NoAnchor)
      <4>1. paused' \in BOOLEAN
        BY <3>2, Zenon DEF StartFrom
      <4>2. offset' \in Int /\ elapsed' \in Nat
        BY <3>2 DEF StartFrom, TypeOK, NoAnchor
      <4>3. scale' \in Scales /\ last' \in Nat
        BY <3>2 DEF StartFrom, ScaleRead, TypeOK
      <4> QED
        BY <1>1, <2>0, <4>1, <4>2, <4>3 DEF Start
    <3> QED
      BY <1>1, <2>0, <3>1, <3>2 DEF Start
  <2>2. /\ AnchorOK(anchor') /\ AnchorOK(probe') /\ fresh' \in BOOLEAN
        /\ intact' \in BOOLEAN /\ mishaps' \in Nat
    BY <1>1, <2>0, <2>1, PersistType DEF TypeOK, Start
  <2> QED
    BY <1>1, <2>0, <2>1, <2>2 DEF TypeOK, Start
<1>2. CASE Exit
  <2>0. up' \in BOOLEAN
    BY <1>2, Zenon DEF Exit
  <2> QED
    BY <1>2, <2>0 DEF TypeOK, Exit
<1>3. CASE ReadTime
  <2>1. /\ elapsed' \in Nat /\ last' \in Nat /\ offset' \in Int /\ seen' \in Int
        /\ scale' \in Scales /\ paused' \in BOOLEAN
    BY <1>3 DEF TypeOK, Now, Larger, ReadTime, Read
  <2> QED
    BY <1>3, <2>1 DEF TypeOK, Now, Larger, ReadTime, Read
<1>4. CASE RecordLogin
  <2>1. /\ elapsed' \in Nat /\ last' \in Nat /\ offset' \in Int /\ seen' \in Int
        /\ scale' \in Scales /\ paused' \in BOOLEAN
    BY <1>4 DEF TypeOK, Now, Larger, RecordLogin, Read
  <2> QED
    BY <1>4, <2>1 DEF TypeOK, Now, Larger, RecordLogin, Read
<1>5. CASE WriteMemory
  <2>1. /\ elapsed' \in Nat /\ last' \in Nat /\ offset' \in Int /\ seen' \in Int
        /\ scale' \in Scales /\ paused' \in BOOLEAN
    BY <1>5 DEF TypeOK, Now, Larger, WriteMemory, Read
  <2> QED
    BY <1>5, <2>1 DEF TypeOK, Now, Larger, WriteMemory, Read
<1>6. CASE OpenMemory
  <2>0. aligned' \in BOOLEAN
    BY <1>6, Zenon DEF OpenMemory
  <2>1. /\ elapsed' \in Nat /\ last' \in Nat /\ offset' \in Int /\ seen' \in Int
        /\ scale' \in Scales /\ paused' \in BOOLEAN
    BY <1>6, <2>0 DEF TypeOK, Now, Larger, OpenMemory, Read
  <2>2. /\ AnchorOK(anchor') /\ AnchorOK(probe') /\ fresh' \in BOOLEAN
        /\ intact' \in BOOLEAN /\ mishaps' \in Nat
    BY <1>6, <2>0, <2>1, PersistType DEF TypeOK, OpenMemory, Read
  <2> QED
    BY <1>6, <2>0, <2>1, <2>2 DEF TypeOK, OpenMemory, Read
<1>7. CASE ReloadScale
  <2>1. /\ elapsed' \in Nat /\ last' \in Nat /\ offset' \in Int /\ seen' \in Int
        /\ scale' \in Scales /\ paused' \in BOOLEAN
    BY <1>7 DEF TypeOK, Now, Larger, ReloadScale, Change, ScaleRead
  <2>2. /\ AnchorOK(anchor') /\ AnchorOK(probe') /\ fresh' \in BOOLEAN
        /\ intact' \in BOOLEAN /\ mishaps' \in Nat
    BY <1>7, <2>1, PersistType DEF TypeOK, ReloadScale, Change, ScaleRead
  <2> QED
    BY <1>7, <2>1, <2>2 DEF TypeOK, ReloadScale, Change, ScaleRead
<1>8. CASE Pause
  <2>0. paused' \in BOOLEAN
    BY <1>8, Zenon DEF Pause
  <2>1. /\ elapsed' \in Nat /\ last' \in Nat /\ offset' \in Int /\ seen' \in Int
        /\ scale' \in Scales /\ paused' \in BOOLEAN
    BY <1>8, <2>0 DEF TypeOK, Now, Larger, Pause, Change
  <2>2. /\ AnchorOK(anchor') /\ AnchorOK(probe') /\ fresh' \in BOOLEAN
        /\ intact' \in BOOLEAN /\ mishaps' \in Nat
    BY <1>8, <2>0, <2>1, PersistType DEF TypeOK, Pause, Change
  <2> QED
    BY <1>8, <2>0, <2>1, <2>2 DEF TypeOK, Pause, Change
<1>9. CASE Resume
  <2>0. paused' \in BOOLEAN
    BY <1>9, Zenon DEF Resume
  <2>1. /\ elapsed' \in Nat /\ last' \in Nat /\ offset' \in Int /\ seen' \in Int
        /\ scale' \in Scales /\ paused' \in BOOLEAN
    BY <1>9, <2>0 DEF TypeOK, Now, Larger, Resume, Change
  <2>2. /\ AnchorOK(anchor') /\ AnchorOK(probe') /\ fresh' \in BOOLEAN
        /\ intact' \in BOOLEAN /\ mishaps' \in Nat
    BY <1>9, <2>0, <2>1, PersistType DEF TypeOK, Resume, Change
  <2> QED
    BY <1>9, <2>0, <2>1, <2>2 DEF TypeOK, Resume, Change
<1>10. CASE Advance
  <2>1. /\ elapsed' \in Nat /\ last' \in Nat /\ offset' \in Int /\ seen' \in Int
        /\ scale' \in Scales /\ paused' \in BOOLEAN
    BY <1>10 DEF TypeOK, Now, Larger, Advance, Change
  <2>2. /\ AnchorOK(anchor') /\ AnchorOK(probe') /\ fresh' \in BOOLEAN
        /\ intact' \in BOOLEAN /\ mishaps' \in Nat
    BY <1>10, <2>1, PersistType DEF TypeOK, Advance, Change
  <2> QED
    BY <1>10, <2>1, <2>2 DEF TypeOK, Advance, Change
<1>11. CASE Reset
  <2>0. aligned' \in BOOLEAN /\ paused' \in BOOLEAN
    BY <1>11, Zenon DEF Reset
  <2>1. /\ elapsed' \in Nat /\ last' \in Nat /\ offset' \in Int /\ seen' \in Int
        /\ scale' \in Scales /\ paused' \in BOOLEAN
    BY <1>11, <2>0 DEF TypeOK, Now, Larger, Reset, Change
  <2>2. /\ AnchorOK(anchor') /\ AnchorOK(probe') /\ fresh' \in BOOLEAN
        /\ intact' \in BOOLEAN /\ mishaps' \in Nat
    BY <1>11, <2>0, <2>1, PersistType DEF TypeOK, Reset, Change
  <2> QED
    BY <1>11, <2>0, <2>1, <2>2 DEF TypeOK, Reset, Change
<1>12. ASSUME NEW o \in Offsets, SetOffset(o) PROVE TypeOK'
  <2>0. aligned' \in BOOLEAN
    BY <1>12, Zenon DEF SetOffset
  <2>1. /\ elapsed' \in Nat /\ last' \in Nat /\ offset' \in Int /\ seen' \in Int
        /\ scale' \in Scales /\ paused' \in BOOLEAN
    BY <1>12, <2>0 DEF TypeOK, Now, Larger, SetOffset, Change
  <2>2. /\ AnchorOK(anchor') /\ AnchorOK(probe') /\ fresh' \in BOOLEAN
        /\ intact' \in BOOLEAN /\ mishaps' \in Nat
    BY <1>12, <2>0, <2>1, PersistType DEF TypeOK, SetOffset, Change
  <2> QED
    BY <1>12, <2>0, <2>1, <2>2 DEF TypeOK, SetOffset, Change
<1>13. ASSUME NEW s \in Scales, EditScale(s) PROVE TypeOK'
  BY <1>13 DEF TypeOK, EditScale, Change
<1>14. CASE Tick
  BY <1>14 DEF TypeOK, Tick
<1>17. CASE ProbeReads
  <2>0. /\ fresh' \in BOOLEAN
    BY <1>17, Zenon DEF ProbeReads
  <2>1. PICK s \in ScaleRead : probe' \in {Restarted(anchor, s), Restarted(NoAnchor, s)}
    BY <1>17 DEF ProbeReads
  <2>2. s \in Scales
    BY <2>1 DEF ScaleRead, TypeOK
  <2>3. AnchorOK(probe')
    BY <2>1, <2>2, RestartedType
  <2> QED
    BY <1>17, <2>0, <2>3 DEF TypeOK, ProbeReads
<1>18. CASE ProbePersists
  <2>0. fresh' \in BOOLEAN /\ intact' \in BOOLEAN
    BY <1>18, Zenon DEF ProbePersists, TypeOK
  <2>1. AnchorOK(anchor')
    BY <1>18 DEF ProbePersists, TypeOK
  <2>2. AnchorOK(probe')
    <3>1. NoAnchor \in AnchorType
      BY DEF NoAnchor, AnchorType
    <3>2. AnchorOK(NoAnchor)
      BY <3>1 DEF AnchorOK, NoAnchor
    <3> QED
      BY <1>18, <3>2 DEF ProbePersists
  <2> QED
    BY <1>18, <2>0, <2>1, <2>2 DEF TypeOK, ProbePersists
<1>15. CASE SetBack
  <2>0. intact' \in BOOLEAN /\ fresh' \in BOOLEAN
    BY <1>15, Zenon DEF SetBack
  <2> QED
    BY <1>15, <2>0 DEF TypeOK, SetBack
<1>16. CASE UNCHANGED vars
  BY <1>16 DEF TypeOK, vars
<1> QED
  BY <1>1, <1>2, <1>3, <1>4, <1>5, <1>6, <1>7, <1>8, <1>9, <1>10, <1>11, <1>12, <1>13, <1>14, <1>15, <1>16, <1>17, <1>18 DEF Next, Jump

\* The state has its type.
THEOREM TypeCorrect == Spec => []TypeOK
  BY TypeInit, TypeStep, PTL DEF Spec

-----------------------------------------------------------------------------
(* The line does not run backwards.                                        *)

SeenShape == up => seen <= elapsed + offset

\* What was seen stays at or below the line, and only the step of an
\* administrator takes it back.
LEMMA SeenStep ==
  TypeOK /\ SeenShape /\ [Next]_vars =>
    SeenShape' /\ (up /\ up' => seen' >= seen \/ Jump)
<1> SUFFICES ASSUME TypeOK, SeenShape, [Next]_vars
             PROVE  SeenShape' /\ (up /\ up' => seen' >= seen \/ Jump)
  OBVIOUS
<1> USE ElapsedType
<1>1. CASE Start
  BY <1>1, TypeStep DEF SeenShape, TypeOK, Jump, Now, Larger, Start
<1>2. CASE Exit
  BY <1>2 DEF SeenShape, TypeOK, Jump, Now, Larger, Exit
<1>3. CASE ReadTime
  BY <1>3 DEF SeenShape, TypeOK, Jump, Now, Larger, ReadTime, Read
<1>4. CASE RecordLogin
  BY <1>4 DEF SeenShape, TypeOK, Jump, Now, Larger, RecordLogin, Read
<1>5. CASE WriteMemory
  BY <1>5 DEF SeenShape, TypeOK, Jump, Now, Larger, WriteMemory, Read
<1>6. CASE OpenMemory
  BY <1>6 DEF SeenShape, TypeOK, Jump, Now, Larger, OpenMemory, Read
<1>7. CASE ReloadScale
  BY <1>7 DEF SeenShape, TypeOK, Jump, Now, Larger, ReloadScale, Change, ScaleRead
<1>8. CASE Pause
  BY <1>8 DEF SeenShape, TypeOK, Jump, Now, Larger, Pause, Change
<1>9. CASE Resume
  BY <1>9 DEF SeenShape, TypeOK, Jump, Now, Larger, Resume, Change
<1>10. CASE Advance
  BY <1>10 DEF SeenShape, TypeOK, Jump, Now, Larger, Advance, Change
<1>11. CASE Reset
  BY <1>11 DEF SeenShape, TypeOK, Jump, Now, Larger, Reset, Change
<1>12. ASSUME NEW o \in Offsets, SetOffset(o) PROVE SeenShape' /\ (up /\ up' => seen' >= seen \/ Jump)
  BY <1>12 DEF SeenShape, TypeOK, Jump, Now, Larger, SetOffset, Change
<1>13. ASSUME NEW s \in Scales, EditScale(s) PROVE SeenShape' /\ (up /\ up' => seen' >= seen \/ Jump)
  BY <1>13 DEF SeenShape, TypeOK, Jump, Now, Larger, EditScale, Change
<1>14. CASE Tick
  BY <1>14 DEF SeenShape, TypeOK, Jump, Now, Larger, Tick
<1>17. CASE ProbeReads
  BY <1>17 DEF SeenShape, TypeOK, ProbeReads
<1>18. CASE ProbePersists
  BY <1>18 DEF SeenShape, TypeOK, ProbePersists
<1>15. CASE SetBack
  BY <1>15 DEF SeenShape, TypeOK, Jump, Now, Larger, SetBack
<1>16. CASE UNCHANGED vars
  BY <1>16 DEF SeenShape, TypeOK, Jump, Now, Larger, vars
<1> QED
  BY <1>1, <1>2, <1>3, <1>4, <1>5, <1>6, <1>7, <1>8, <1>9, <1>10, <1>11, <1>12, <1>13, <1>14, <1>15, <1>16, <1>17, <1>18 DEF Next, Jump

\* While the process runs, what the clock returns never decreases, unless it
\* is reset or given another offset on purpose.
THEOREM LineNeverGoesBack == Spec => NeverBackwards
<1>1. Init => SeenShape
  BY DEF Init, SeenShape
<1>2. SeenShape /\ TypeOK /\ [Next]_vars => [up /\ up' => seen' >= seen \/ Jump]_vars
  BY SeenStep
<1>3. QED
  BY <1>1, <1>2, TypeCorrect, SeenStep, PTL DEF Spec, NeverBackwards

-----------------------------------------------------------------------------
(* Memories are not from the future.                                       *)

\* Every step keeps the records out of the future.
LEMMA RecordsStep == TypeOK /\ NoFutureRecords /\ [Next]_vars => NoFutureRecords'
<1> SUFFICES ASSUME TypeOK, NoFutureRecords, [Next]_vars
             PROVE  NoFutureRecords'
  OBVIOUS
<1> USE ElapsedType
<1>1. CASE Start
  BY <1>1 DEF NoFutureRecords, TypeOK, Now, Larger, Start
<1>2. CASE Exit
  BY <1>2 DEF NoFutureRecords, TypeOK, Now, Larger, Exit
<1>3. CASE ReadTime
  BY <1>3 DEF NoFutureRecords, TypeOK, Now, Larger, ReadTime, Read
<1>4. CASE RecordLogin
  BY <1>4 DEF NoFutureRecords, TypeOK, Now, Larger, RecordLogin, Read
<1>5. CASE WriteMemory
  BY <1>5 DEF NoFutureRecords, TypeOK, Now, Larger, WriteMemory, Read
<1>6. CASE OpenMemory
  BY <1>6 DEF NoFutureRecords, TypeOK, Now, Larger, OpenMemory, Read
<1>7. CASE ReloadScale
  BY <1>7 DEF NoFutureRecords, TypeOK, Now, Larger, ReloadScale, Change, ScaleRead
<1>8. CASE Pause
  BY <1>8 DEF NoFutureRecords, TypeOK, Now, Larger, Pause, Change
<1>9. CASE Resume
  BY <1>9 DEF NoFutureRecords, TypeOK, Now, Larger, Resume, Change
<1>10. CASE Advance
  BY <1>10 DEF NoFutureRecords, TypeOK, Now, Larger, Advance, Change
<1>11. CASE Reset
  BY <1>11 DEF NoFutureRecords, TypeOK, Now, Larger, Reset, Change
<1>12. ASSUME NEW o \in Offsets, SetOffset(o) PROVE NoFutureRecords'
  BY <1>12 DEF NoFutureRecords, TypeOK, Now, Larger, SetOffset, Change
<1>13. ASSUME NEW s \in Scales, EditScale(s) PROVE NoFutureRecords'
  BY <1>13 DEF NoFutureRecords, TypeOK, Now, Larger, EditScale, Change
<1>14. CASE Tick
  BY <1>14 DEF NoFutureRecords, TypeOK, Now, Larger, Tick
<1>17. CASE ProbeReads
  BY <1>17 DEF NoFutureRecords, TypeOK, ProbeReads
<1>18. CASE ProbePersists
  BY <1>18 DEF NoFutureRecords, TypeOK, ProbePersists
<1>15. CASE SetBack
  BY <1>15 DEF NoFutureRecords, TypeOK, Now, Larger, SetBack
<1>16. CASE UNCHANGED vars
  BY <1>16 DEF NoFutureRecords, TypeOK, Now, Larger, vars
<1> QED
  BY <1>1, <1>2, <1>3, <1>4, <1>5, <1>6, <1>7, <1>8, <1>9, <1>10, <1>11, <1>12, <1>13, <1>14, <1>15, <1>16, <1>17, <1>18 DEF Next, Jump

\* No stored memory is from the future of the clock once they are open.
THEOREM RecordsAreInThePast == Spec => []NoFutureRecords
<1>1. Init => NoFutureRecords
  BY DEF Init, NoFutureRecords
<1>2. QED
  BY <1>1, TypeCorrect, RecordsStep, PTL DEF Spec

-----------------------------------------------------------------------------
(* The projection of the anchor.                                           *)

\* Anchor a describes the line.
Fits(a) ==
  /\ a.exists /\ a.scale = scale /\ a.paused = paused
  /\ a.real = last \/ (a.real <= clock /\ last <= clock)
  /\ paused => a.scaled = elapsed + offset
  /\ ~paused => a.scaled + (last - a.real) * scale = elapsed + offset

AnchorShape == intact => Fits(anchor)

\* What a health check is about to write describes the line, too.
ProbeShape == fresh => Fits(probe)

Shapes == AnchorShape /\ ProbeShape

\* A written anchor fits the clock.
LEMMA PersistShape ==
  ASSUME TypeOK', NEW f \in Nat, Persist(f)
  PROVE  Shapes'
<1> SUFFICES ASSUME intact'
             PROVE  Fits(anchor)'
  BY DEF Shapes, AnchorShape, ProbeShape, Persist
<1>1. anchor' = Anchored
  BY DEF Persist
<1>2. /\ anchor'.exists /\ anchor'.scale = scale' /\ anchor'.paused = paused'
      /\ anchor'.real = last' /\ anchor'.scaled = elapsed' + offset'
  BY <1>1, Zenon DEF Anchored
<1>3. last' \in Nat /\ scale' \in Int /\ elapsed' \in Nat /\ offset' \in Int
  BY TimeAssumption DEF TypeOK
<1>4. (last' - last') * scale' = 0
  <2>1. last' \in Int /\ scale' \in Int
    BY <1>3
  <2> QED
    BY <2>1, ZeroProduct, Zenon
<1>5. anchor'.scaled + (last' - anchor'.real) * scale' = elapsed' + offset'
  <2>1. elapsed' + offset' + 0 = elapsed' + offset'
    BY <1>3
  <2> QED
    BY <1>2, <1>4, <2>1, Zenon
<1>6. QED
  BY <1>2, <1>5, Zenon DEF Fits

\* Reading the clock keeps an anchor fitting it.
LEMMA ReadFits ==
  ASSUME TypeOK, NEW a, AnchorOK(a), Fits(a), elapsed' = Elapsed, last' = LastUpdate,
         UNCHANGED <<clock, scale, offset, paused>>
  PROVE  Fits(a)'
<1>1. /\ last \in Nat /\ clock \in Nat /\ scale \in Int /\ elapsed \in Nat
      /\ offset \in Int /\ a.real \in Nat /\ a.scaled \in Int
  BY TimeAssumption DEF TypeOK, AnchorOK, AnchorType
<1>2. CASE paused
  BY <1>1, <1>2 DEF Fits, Elapsed, LastUpdate
<1>3. CASE ~paused /\ clock < last
  <2>1. Larger(0, clock - last) = 0 /\ Larger(clock, last) = last
    BY <1>1, <1>3 DEF Larger
  <2>2. 0 * scale = 0
    BY <1>1
  <2>3. elapsed' = elapsed /\ last' = last
    BY <1>1, <1>3, <2>1, <2>2 DEF Elapsed, LastUpdate
  <2> QED
    BY <1>1, <2>3 DEF Fits
<1>4. CASE ~paused /\ clock >= last
  <2>1. Larger(0, clock - last) = clock - last /\ Larger(clock, last) = clock
    BY <1>1, <1>4 DEF Larger
  <2>2. elapsed' = elapsed + (clock - last) * scale /\ last' = clock
    BY <1>1, <1>4, <2>1 DEF Elapsed, LastUpdate
  <2>3. (clock - last) * scale + (last - a.real) * scale = (clock - a.real) * scale
    BY <1>1, Distribute
  <2>4. (clock - last) * scale \in Int /\ (last - a.real) * scale \in Int
    BY <1>1
  <2>5. a.exists /\ a.scale = scale /\ a.paused = paused
    BY DEF Fits
  <2>6. a.scaled + (last - a.real) * scale = elapsed + offset
    BY <1>4 DEF Fits
  <2>7. a.real <= clock /\ clock <= clock
    BY <1>1, <1>4 DEF Fits
  <2> DEFINE x == (clock - last) * scale
             y == (last - a.real) * scale
             z == (clock - a.real) * scale
  <2>8. a.scaled + z = elapsed + x + offset
    <3>1. x \in Int /\ y \in Int /\ x + y = z /\ a.scaled + y = elapsed + offset
      BY <2>3, <2>4, <2>6
    <3> HIDE DEF x, y, z
    <3>2. a.scaled \in Int /\ elapsed \in Int /\ offset \in Int
      BY <1>1
    <3>3. a.scaled + (x + y) = (a.scaled + y) + x
      BY <3>1, <3>2
    <3>4. (elapsed + offset) + x = elapsed + x + offset
      BY <3>1, <3>2
    <3> QED
      BY <3>1, <3>3, <3>4, Zenon
  <2>9. a.scaled + (last' - a.real) * scale' = elapsed' + offset'
    BY <2>2, <2>8, Zenon
  <2> QED
    BY <1>4, <2>2, <2>5, <2>7, <2>9, Zenon DEF Fits
<1>5. QED
  BY <1>1, <1>2, <1>3, <1>4

\* Reading the anchor keeps the shapes.
LEMMA ReadShape ==
  ASSUME TypeOK, Shapes, elapsed' = Elapsed, last' = LastUpdate,
         UNCHANGED <<clock, anchor, intact, probing, scale, offset, paused>>
  PROVE  Shapes'
<1>1. AnchorOK(anchor) /\ AnchorOK(probe)
  BY DEF TypeOK
<1>2. intact => Fits(anchor)'
  <2> SUFFICES ASSUME intact
               PROVE  Fits(anchor)'
    OBVIOUS
  <2>1. PICK a : a = anchor
    OBVIOUS
  <2>2. AnchorOK(a) /\ Fits(a)
    BY <1>1, <2>1 DEF Shapes, AnchorShape
  <2>3. Fits(a)'
    BY <2>2, ReadFits
  <2> QED
    BY <2>1, <2>3 DEF Fits
<1>3. fresh => Fits(probe)'
  <2> SUFFICES ASSUME fresh
               PROVE  Fits(probe)'
    OBVIOUS
  <2>1. PICK a : a = probe
    OBVIOUS
  <2>2. AnchorOK(a) /\ Fits(a)
    BY <1>1, <2>1 DEF Shapes, ProbeShape
  <2>3. Fits(a)'
    BY <2>2, ReadFits
  <2> QED
    BY <2>1, <2>3 DEF Fits
<1>4. QED
  BY <1>2, <1>3 DEF Shapes, AnchorShape, ProbeShape, Fits

\* Every step keeps anchor and probe in shape.
LEMMA ShapesStep == TypeOK /\ TypeOK' /\ Shapes /\ [Next]_vars => Shapes'
<1> SUFFICES ASSUME TypeOK, TypeOK', Shapes, [Next]_vars
             PROVE  Shapes'
  OBVIOUS
<1>1. CASE Start
  <2>1. PICK f \in Nat : Persist(f)
    BY <1>1 DEF Start, TypeOK
  <2> QED
    BY <1>1, <2>1, PersistShape
<1>2. CASE Exit
  BY <1>2 DEF Shapes, AnchorShape, ProbeShape, Fits, Exit
<1>3. CASE ReadTime
  BY <1>3, ReadShape DEF ReadTime, Read
<1>4. CASE RecordLogin
  BY <1>4, ReadShape DEF RecordLogin, Read
<1>5. CASE WriteMemory
  BY <1>5, ReadShape DEF WriteMemory, Read
<1>6. CASE OpenMemory
  <2>1. CASE Now < records
    <3>1. Persist(mishaps)
      BY <1>6, <2>1 DEF OpenMemory
    <3> QED
      BY <1>6, <3>1, PersistShape DEF TypeOK, OpenMemory
  <2>2. CASE ~(Now < records)
    <3>1. UNCHANGED <<anchor, intact, probing>>
      BY <1>6, <2>2 DEF OpenMemory
    <3>2. elapsed' = Elapsed /\ last' = LastUpdate
      BY <1>6, <2>2, ElapsedType DEF OpenMemory, Now, Larger, TypeOK
    <3> QED
      BY <1>6, <3>1, <3>2, ReadShape DEF OpenMemory
  <2> QED
    BY <2>1, <2>2
<1>7. CASE ReloadScale
  <2>1. Persist(mishaps)
    BY <1>7 DEF ReloadScale
  <2> QED
    BY <2>1, PersistShape DEF TypeOK
<1>8. CASE Pause
  <2>1. Persist(mishaps)
    BY <1>8 DEF Pause
  <2> QED
    BY <2>1, PersistShape DEF TypeOK
<1>9. CASE Resume
  <2>1. Persist(mishaps)
    BY <1>9 DEF Resume
  <2> QED
    BY <2>1, PersistShape DEF TypeOK
<1>10. CASE Advance
  <2>1. Persist(mishaps)
    BY <1>10 DEF Advance
  <2> QED
    BY <2>1, PersistShape DEF TypeOK
<1>11. CASE Reset
  <2>1. Persist(mishaps)
    BY <1>11 DEF Reset
  <2> QED
    BY <2>1, PersistShape DEF TypeOK
<1>12. ASSUME NEW o \in Offsets, SetOffset(o) PROVE Shapes'
  <2>1. Persist(mishaps)
    BY <1>12 DEF SetOffset
  <2> QED
    BY <2>1, PersistShape DEF TypeOK
<1>13. ASSUME NEW s \in Scales, EditScale(s) PROVE Shapes'
  BY <1>13 DEF Shapes, AnchorShape, ProbeShape, Fits, EditScale, Change
<1>14. CASE Tick
  <2>1. clock \in Nat /\ anchor.real \in Nat /\ probe.real \in Nat /\ last \in Nat
    BY DEF TypeOK, AnchorOK, AnchorType
  <2>2. clock' = clock + 1 /\ UNCHANGED <<anchor, intact, probing, line>>
    BY <1>14 DEF Tick
  <2>3. intact => Fits(anchor)'
    BY <2>1, <2>2 DEF Shapes, AnchorShape, Fits
  <2>4. fresh => Fits(probe)'
    BY <2>1, <2>2 DEF Shapes, ProbeShape, Fits
  <2> QED
    BY <2>2, <2>3, <2>4 DEF Shapes, AnchorShape, ProbeShape, Fits
<1>17. CASE ProbeReads
  <2>1. UNCHANGED <<clock, anchor, intact, line>>
    BY <1>17 DEF ProbeReads
  <2>2. AnchorShape'
    BY <2>1 DEF Shapes, AnchorShape, Fits
  <2> SUFFICES ASSUME fresh'
               PROVE  Fits(probe)'
    BY <2>2 DEF Shapes, ProbeShape
  <2>3. probe' = Restarted(anchor, scale) /\ intact /\ anchor.real <= clock
    BY <1>17 DEF ProbeReads
  <2>4. Fits(anchor)
    BY <2>3 DEF Shapes, AnchorShape
  <2>5. /\ last \in Nat /\ clock \in Nat /\ scale \in Int /\ elapsed \in Nat
        /\ offset \in Int /\ anchor.real \in Nat /\ anchor.scaled \in Int
    BY TimeAssumption DEF TypeOK, AnchorOK, AnchorType
  <2>6. anchor.exists /\ anchor.scale = scale /\ anchor.paused = paused
    BY <2>4, Zenon DEF Fits
  <2>7. /\ probe'.exists /\ probe'.real = clock /\ probe'.scale = scale
        /\ probe'.scaled = Resumed(anchor)
    BY <2>3, <2>6, Zenon DEF Restarted
  <2>8. probe'.paused = paused
    <3>1. probe'.paused = (anchor.exists /\ anchor.paused)
      BY <2>3, Zenon DEF Restarted
    <3>2. paused \in BOOLEAN
      BY DEF TypeOK
    <3> QED
      BY <2>6, <3>1, <3>2, Zenon
  <2>9. last <= clock
    BY <2>3, <2>4, <2>5 DEF Fits
  <2>10. paused => Resumed(anchor) = elapsed + offset
    BY <2>4, <2>5, <2>6 DEF Fits, Resumed
  <2>11. ~paused => Resumed(anchor) + (last - clock) * scale = elapsed + offset
    <3> SUFFICES ASSUME ~paused
                 PROVE  Resumed(anchor) + (last - clock) * scale = elapsed + offset
      OBVIOUS
    <3>1. Larger(0, clock - anchor.real) = clock - anchor.real
      BY <2>3, <2>5 DEF Larger
    <3>2. Resumed(anchor) = anchor.scaled + (clock - anchor.real) * scale
      BY <2>6, <3>1 DEF Resumed
    <3>3. (last - clock) * scale + (clock - anchor.real) * scale = (last - anchor.real) * scale
      BY <2>5, Distribute
    <3>4. anchor.scaled + (last - anchor.real) * scale = elapsed + offset
      BY <2>4 DEF Fits
    <3>5. (last - clock) * scale \in Int /\ (clock - anchor.real) * scale \in Int
      BY <2>5
    <3> QED
      BY <2>5, <3>2, <3>3, <3>4, <3>5
  <2> QED
    BY <2>1, <2>5, <2>7, <2>8, <2>9, <2>10, <2>11 DEF Fits
<1>18. CASE ProbePersists
  <2>1. UNCHANGED <<clock, line>> /\ ~fresh'
    BY <1>18 DEF ProbePersists
  <2>2. CASE anchor' = probe /\ intact' = fresh
    BY <2>1, <2>2 DEF Shapes, AnchorShape, ProbeShape, Fits
  <2>3. CASE UNCHANGED <<anchor, intact>>
    BY <2>1, <2>3 DEF Shapes, AnchorShape, ProbeShape, Fits
  <2> QED
    BY <1>18, <2>2, <2>3 DEF ProbePersists
<1>15. CASE SetBack
  BY <1>15 DEF SetBack, Shapes, AnchorShape, ProbeShape
<1>16. CASE UNCHANGED vars
  BY <1>16 DEF Shapes, AnchorShape, ProbeShape, Fits, vars
<1> QED
  BY <1>1, <1>2, <1>3, <1>4, <1>5, <1>6, <1>7, <1>8, <1>9, <1>10, <1>11, <1>12, <1>13, <1>14, <1>15, <1>16, <1>17, <1>18 DEF Next, Jump

\* As long as the last write of the anchor succeeded, the real clock was not
\* set back since and no health check overwrote it with another scale, projecting the anchor gives what the clock returns.
THEOREM ProjectionIsExact == Spec => []ProjectionAgrees
<1>1. Init => Shapes
  BY DEF Init, Shapes, AnchorShape, ProbeShape
<1>2. TypeOK /\ Shapes => ProjectionAgrees
  <2> SUFFICES ASSUME TypeOK, Shapes, intact
               PROVE  Projection(anchor) = Now
    BY DEF ProjectionAgrees
  <2>0. Fits(anchor)
    BY DEF Shapes, AnchorShape
  <2>1. /\ last \in Nat /\ clock \in Nat /\ scale \in Int /\ elapsed \in Nat
        /\ offset \in Int /\ anchor.real \in Nat /\ anchor.scaled \in Int
    BY TimeAssumption DEF TypeOK, AnchorOK, AnchorType
  <2>2. CASE paused
    BY <2>0, <2>1, <2>2 DEF Fits, Projection, Now, Elapsed
  <2>3. CASE ~paused /\ clock < last
    <3>0. ~anchor.paused
      BY <2>0, <2>3, Zenon DEF Fits
    <3>1. anchor.real = last /\ anchor.scale = scale
      BY <2>0, <2>1, <2>3 DEF Fits
    <3>2. anchor.scaled = elapsed + offset
      <4>1. (last - last) * scale = 0
        BY <2>1
      <4> QED
        BY <2>0, <2>1, <2>3, <3>1, <4>1 DEF Fits
    <3>3. Larger(0, clock - last) = 0 /\ 0 * scale = 0
      BY <2>1, <2>3 DEF Larger
    <3> QED
      BY <2>1, <2>3, <3>0, <3>1, <3>2, <3>3 DEF Projection, Now, Elapsed
  <2>4. CASE ~paused /\ clock >= last
    <3>1. Larger(0, clock - last) = clock - last
      BY <2>1, <2>4 DEF Larger
    <3>2. anchor.real <= clock /\ anchor.scale = scale /\ ~anchor.paused
      BY <2>0, <2>1, <2>4 DEF Fits
    <3>3. Larger(0, clock - anchor.real) = clock - anchor.real
      BY <2>1, <2>4, <3>2 DEF Larger
    <3>4. (clock - last) * scale + (last - anchor.real) * scale = (clock - anchor.real) * scale
      BY <2>1, Distribute
    <3>5. (clock - last) * scale \in Int /\ (last - anchor.real) * scale \in Int
      BY <2>1
    <3>6. anchor.scaled + (last - anchor.real) * scale = elapsed + offset
      BY <2>0, <2>4 DEF Fits
    <3>7. Projection(anchor) = anchor.scaled + (clock - anchor.real) * scale
      BY <3>2, <3>3 DEF Projection
    <3>8. Now = elapsed + (clock - last) * scale + offset
      BY <2>4, <3>1 DEF Now, Elapsed
    <3> QED
      BY <2>1, <3>4, <3>5, <3>6, <3>7, <3>8
  <2> QED
    BY <2>1, <2>2, <2>3, <2>4
<1>3. QED
  BY <1>1, <1>2, TypeCorrect, ShapesStep, PTL DEF Spec

-----------------------------------------------------------------------------
(***************************************************************************)
(* Proofs about AgentRegistry, for every number of agents, accounts, names *)
(* and overlapping requests: an agent, its account and its thread go by    *)
(* one name, and memories go with the agent, except where a step was lost  *)
(* or met another half-way (torn, orphans, unsynced).                      *)
(*                                                                         *)
(* The proof follows what a request or a session still owes.  A request    *)
(* that has renamed the account knows the name the account has (EditSound),*)
(* and so does a session (VisitSound), as long as no other renames the     *)
(* same account (OneRenames).  The thread of an agent differs from its row *)
(* only while some request is still to tell the scheduler (ThreadOwed).    *)
(***************************************************************************)

Registering(q) == editing[q].stage \in {"register", "link", "undo"}
RenamesAccount(q, a) == editing[q].stage = "local" /\ editing[q].account = a
VisitRenames(i, a) == session[i].stage \in {"sync", "revert"} /\ session[i].account = a

\* What a request has written, and what it takes for granted.
EditSound(q) ==
  LET e == editing[q] IN
  /\ e.stage # "idle" => e.agent \in AgentIds /\ rows[e.agent].status # "none"
  /\ Registering(q) => /\ e.action \in {"start", "none", "all", "stream"}
                       /\ e.new \in Names /\ rows[e.agent].account = 0
  /\ e.stage = "link" => e.account \in AccountIds /\ names[e.account] # None
  /\ e.stage = "platform" => e.account \in AccountIds /\ e.old \in Names
  /\ e.stage \in {"platform", "local"} =>
       /\ e.action = "restart" /\ e.new \in Names
       /\ e.account # 0 /\ Here(e.agent) => rows[e.agent].account = e.account
  /\ e.stage = "local" /\ e.account \in AccountIds \ torn => names[e.account] = e.new
  /\ e.stage \in {"halt", "clear", "drop"} => e.action = "stop"
  /\ e.stage = "notify" => e.action # "none"

VisitSound(i) ==
  LET s == session[i] IN
  s.stage # "out" =>
    /\ s.account \in AccountIds /\ names[s.account] # None /\ s.old \in Names
    /\ s.stage = "sync" => s.new \in Names /\ (s.account \notin torn => names[s.account] = s.new)

\* A row that is linked is there and its account exists; accounts are numbered
\* in turn.
RowsSound ==
  /\ \A i \in AgentIds : /\ Here(i) => rows[i].name \in Names
                         /\ rows[i].account # 0 => Here(i) /\ names[rows[i].account] # None
  /\ \E n \in 0..MaxPlatform : \A a \in AccountIds : names[a] # None <=> a <= n

\* One request creates an agent.
OneCreates ==
  \A q, r \in Requests :
    Registering(q) /\ Registering(r) /\ editing[q].agent = editing[r].agent => q = r

\* One request or session renames an account that is not torn.
OneRenames ==
  \A a \in AccountIds \ torn :
    /\ \A q, r \in Requests : RenamesAccount(q, a) /\ RenamesAccount(r, a) => q = r
    /\ \A i, j \in AgentIds : VisitRenames(i, a) /\ VisitRenames(j, a) => i = j
    /\ \A q \in Requests, i \in AgentIds : ~(RenamesAccount(q, a) /\ VisitRenames(i, a))

\* The inductive invariant behind NamesAgree.
NamingInv ==
  /\ RegistryTypeOK
  /\ \A q \in Requests : EditSound(q)
  /\ \A i \in AgentIds : VisitSound(i)
  /\ RowsSound /\ OneCreates /\ OneRenames
  /\ NamesAgree

\* Whoever is about to drop an agent has cleared its memories.
ClearedBeforeDrop ==
  \A q \in Requests : editing[q].stage = "drop" => editing[q].account \notin memories \ orphans

\* A request still has to tell the scheduler of an agent: to read the row
\* again, to start the thread, to stop it.
Reads(q, i) == /\ editing[q].agent = i /\ editing[q].stage = "notify"
               /\ editing[q].action \in {"restart", "all", "stream"}
Starts(q, i) == /\ editing[q].agent = i /\ editing[q].action \in {"start", "all", "stream"}
                /\ editing[q].stage \in {"register", "link", "undo", "notify"}
Stops(q, i) == /\ editing[q].agent = i /\ editing[q].action = "stop"
               /\ editing[q].stage = "notify"
Drops(q, i) == editing[q].agent = i /\ editing[q].stage \in {"clear", "drop"}

WillRead(i) == \E q \in Requests : Reads(q, i)
WillStart(i) == \E q \in Requests : Starts(q, i)
WillStop(i) == \E q \in Requests : Stops(q, i)
WillDrop(i) == \E q \in Requests : Drops(q, i)

ThreadOwed(i) ==
  /\ ~Here(i) => threads[i] = None
  /\ Here(i) /\ threads[i] # None => threads[i] = rows[i].name \/ WillRead(i)
  /\ Wanted(i) /\ threads[i] = None => WillStart(i) \/ WillRead(i) \/ WillDrop(i)
  /\ Here(i) /\ ~Wanted(i) /\ threads[i] # None => WillStop(i) \/ WillRead(i) \/ WillDrop(i)

MapOwed(i) ==
  Linked(i) => \A n \in Names : <<rows[i].account, n>> \in mapped =>
                 n = rows[i].name \/ rows[i].account \in torn \/ WillRead(i)

\* The inductive invariant behind SchedulerFollows.
FollowsInv == NamingInv /\ \A i \in AgentIds \ unsynced : ThreadOwed(i) /\ MapOwed(i)

-----------------------------------------------------------------------------
(* Helpers                                                                 *)

Stages == {"idle", "register", "link", "undo", "platform", "local", "notify", "halt", "clear",
           "drop"}

\* Only one request changes, and this is what it becomes.
EditBecomes(q, e) ==
  /\ editing' \in [Requests -> Edits] /\ editing'[q] = e
  /\ \A r \in Requests : r # q => editing'[r] = editing[r]

LEMMA EmptyRow == NoAgent \in AgentRows /\ NoAgent.account = 0
BY RegistryAssumption DEF NoAgent, AgentRows

LEMMA EmptyEdit ==
  /\ NotEditing \in Edits /\ NotEditing.stage = "idle" /\ NotEditing.action = "restart"
  /\ NotEditing.account = 0
BY RegistryAssumption DEF NotEditing, Edits

LEMMA EditGoes ==
  ASSUME RegistryTypeOK, NEW q \in Requests, NEW stage \in Stages, Goes(q, stage)
  PROVE  /\ EditBecomes(q, editing'[q]) /\ editing'[q].stage = stage
         /\ editing'[q].agent = editing[q].agent /\ editing'[q].account = editing[q].account
         /\ editing'[q].old = editing[q].old /\ editing'[q].new = editing[q].new
         /\ editing'[q].action = editing[q].action
<1>1. [editing[q] EXCEPT !.stage = stage] \in Edits
  BY DEF RegistryTypeOK, Edits, Stages
<1>2. editing'[q] = [editing[q] EXCEPT !.stage = stage]
  BY DEF Goes, RegistryTypeOK
<1>3. QED
  BY <1>1, <1>2 DEF Goes, RegistryTypeOK, Edits, EditBecomes

LEMMA EditEnds ==
  ASSUME RegistryTypeOK, NEW q \in Requests, Ends(q)
  PROVE  EditBecomes(q, editing'[q]) /\ editing'[q] = NotEditing /\ editing'[q].stage = "idle"
BY EmptyEdit DEF Ends, RegistryTypeOK, EditBecomes

LEMMA EditBegins ==
  ASSUME RegistryTypeOK, NEW q \in Requests, NEW e \in Edits, Begins(q, e)
  PROVE  EditBecomes(q, e) /\ editing[q].stage = "idle"
BY DEF Begins, RegistryTypeOK, EditBecomes

\* Steps that leave the names of accounts alone, and of rows the links and the
\* names of those that stay linked.
LEMMA AgreementStays ==
  ASSUME NamingInv, torn \subseteq torn', UNCHANGED <<names, session>>,
         \A i \in AgentIds : Linked(i)' => /\ Linked(i) /\ rows'[i].name = rows[i].name
                                           /\ rows'[i].account = rows[i].account,
         \A r \in Requests, a \in AccountIds : RenamesAccount(r, a)' => RenamesAccount(r, a),
         \A r \in Requests, a \in AccountIds \ torn' :
           RenamesAccount(r, a) => RenamesAccount(r, a)'
  PROVE  NamesAgree' /\ OneRenames' /\ \A i \in AgentIds : VisitSound(i)'
<1>1. \A i \in AgentIds : VisitSound(i)'
  BY DEF NamingInv, VisitSound
<1>2. OneRenames'
  <2>1. \A i \in AgentIds, a \in AccountIds : VisitRenames(i, a)' <=> VisitRenames(i, a)
    BY DEF VisitRenames
  <2>2. QED
    BY <2>1 DEF NamingInv, OneRenames
<1>3. NamesAgree'
  <2> SUFFICES ASSUME NEW i \in AgentIds, Linked(i)', rows'[i].account \notin torn'
               PROVE  /\ AgentsOf(rows[i].account)' = {i}
                      /\ ~Renaming(rows[i].account)' => names[rows[i].account] = rows[i].name
    BY DEF NamesAgree
  <2>1. Linked(i) /\ rows'[i].account = rows[i].account /\ rows'[i].name = rows[i].name
    OBVIOUS
  <2>2. PICK a \in AccountIds \ torn' : a = rows[i].account
    BY <2>1, RegistryAssumption DEF Linked, NamingInv, RegistryTypeOK, AgentRows, AccountIds
  <2>3. AgentsOf(a) = {i} /\ (~Renaming(a) => names[a] = rows[i].name)
    BY <2>1, <2>2 DEF NamingInv, NamesAgree
  <2>4. AgentsOf(a)' = {i}
    BY <2>1, <2>2, <2>3 DEF AgentsOf
  <2>5. Renaming(a) => Renaming(a)'
    BY <2>2 DEF Renaming, RenamesAccount
  <2>6. QED
    BY <2>2, <2>3, <2>4, <2>5
<1>4. QED
  BY <1>1, <1>2, <1>3

\* The rename of a request that changes counts as before, unless the account
\* is torn.
LEMMA RenamesStay ==
  ASSUME NEW q \in Requests, EditBecomes(q, editing'[q]),
         editing'[q].stage = "local" => editing'[q].account = 0,
         editing[q].stage = "local" => editing[q].account \in torn' \cup {0}
  PROVE  /\ \A r \in Requests, a \in AccountIds : RenamesAccount(r, a)' => RenamesAccount(r, a)
         /\ \A r \in Requests, a \in AccountIds \ torn' :
              RenamesAccount(r, a) => RenamesAccount(r, a)'
<1>1. \A a \in AccountIds : a # 0
  BY DEF AccountIds
<1>2. QED
  BY <1>1 DEF RenamesAccount, EditBecomes

\* What a request takes for granted of the rows stays true where its row keeps
\* status and account.
LEMMA EditSoundStays ==
  ASSUME NamingInv, torn \subseteq torn', UNCHANGED names,
         NEW r \in Requests, editing'[r] = editing[r],
         NEW i \in AgentIds, editing[r].stage # "idle" => i = editing[r].agent,
         rows'[i].status = rows[i].status, rows'[i].account = rows[i].account
  PROVE  EditSound(r)'
<1>1. EditSound(r) /\ (Registering(r)' <=> Registering(r)) /\ Here(i)' = Here(i)
  BY DEF NamingInv, Registering, Here
<1>2. CASE editing[r].stage = "idle"
  BY <1>1, <1>2 DEF EditSound, Registering
<1>3. CASE editing[r].stage # "idle"
  BY <1>1, <1>3 DEF EditSound
<1>4. QED
  BY <1>2, <1>3

\* What one request does, no name or account being changed.
LEMMA NamesStay ==
  ASSUME NamingInv, RegistryTypeOK', NEW q \in Requests, EditBecomes(q, editing'[q]),
         torn \subseteq torn', UNCHANGED <<names, session>>,
         \A i \in AgentIds : /\ rows'[i].status = rows[i].status /\ rows'[i].name = rows[i].name
                             /\ rows'[i].account = rows[i].account,
         EditSound(q)',
         editing'[q].stage = "local" => editing'[q].account = 0,
         editing[q].stage = "local" => editing[q].account \in torn' \cup {0},
         Registering(q)' => Registering(q) /\ editing'[q].agent = editing[q].agent
  PROVE  NamingInv'
<1>1. \A i \in AgentIds : Here(i)' = Here(i) /\ Linked(i)' = Linked(i)
  BY DEF Here, Linked
<1>2. \A r \in Requests : r # q => editing'[r] = editing[r] /\ (Registering(r)' <=> Registering(r))
  BY DEF EditBecomes, Registering
<1>3. \A r \in Requests : EditSound(r)'
  <2> SUFFICES ASSUME NEW r \in Requests, r # q PROVE EditSound(r)'
    OBVIOUS
  <2>1. EditSound(r) /\ editing'[r] = editing[r] /\ (Registering(r)' <=> Registering(r))
    BY <1>2 DEF NamingInv
  <2>2. CASE editing[r].stage = "idle"
    BY <2>1, <2>2 DEF EditSound, Registering
  <2>3. CASE editing[r].stage # "idle"
    <3>1. PICK i \in AgentIds : i = editing[r].agent
      BY <2>1, <2>3 DEF EditSound
    <3>2. QED
      BY <2>1, <3>1, EditSoundStays
  <2>4. QED
    BY <2>2, <2>3
<1>4. RowsSound'
  BY <1>1 DEF NamingInv, RowsSound
<1>5. OneCreates'
  <2>1. \A r \in Requests : Registering(r)' => Registering(r) /\ editing'[r].agent = editing[r].agent
    BY <1>2
  <2>2. QED
    BY <2>1 DEF NamingInv, OneCreates
<1>6. NamesAgree' /\ OneRenames' /\ \A i \in AgentIds : VisitSound(i)'
  BY <1>1, RenamesStay, AgreementStays
<1>7. QED
  BY <1>3, <1>4, <1>5, <1>6 DEF NamingInv

\* The steps of requests that change no name and no account.
LEMMA RegisteringGoesOn ==
  ASSUME NamingInv, NEW q \in Requests, RegisterFails(q) \/ SkipUser(q)
  PROVE  NamingInv'
<1>0. RegistryTypeOK /\ EditSound(q)
  BY DEF NamingInv
<1>1. PICK stage \in Stages :
        /\ Goes(q, stage) /\ Registering(q) /\ stage \in {"undo", "notify"}
        /\ stage = "notify" => editing[q].action = "stream"
  BY DEF RegisterFails, SkipUser, Stages, Registering
<1>2. UNCHANGED <<rows, names, threads, mapped, memories, session, torn, orphans, unsynced>>
  BY DEF RegisterFails, SkipUser
<1>3. /\ EditBecomes(q, editing'[q]) /\ editing'[q].stage = stage
      /\ editing'[q].agent = editing[q].agent /\ editing'[q].account = editing[q].account
      /\ editing'[q].new = editing[q].new /\ editing'[q].action = editing[q].action
  BY <1>0, <1>1, EditGoes
<1>4. EditSound(q)'
  BY <1>0, <1>1, <1>2, <1>3 DEF EditSound, Registering, Here
<1>5. RegistryTypeOK'
  BY <1>0, <1>2, <1>3 DEF RegistryTypeOK, EditBecomes
<1>6. QED
  BY <1>1, <1>2, <1>3, <1>4, <1>5, NamesStay DEF Registering

LEMMA NoticeRequested ==
  ASSUME NamingInv, NEW q \in Requests, NEW i \in AgentIds,
         \/ \E active \in BOOLEAN : SetActive(q, i, active)
         \/ RestartAgent(q, i) \/ DeleteAgent(q, i)
  PROVE  NamingInv'
<1>0. RegistryTypeOK /\ Here(i) /\ i \in 0..MaxAgent /\ rows[i] \in AgentRows
  <2>1. Here(i)
    BY DEF SetActive, RestartAgent, DeleteAgent
  <2>2. RegistryTypeOK /\ rows[i] \in AgentRows
    BY DEF NamingInv, RegistryTypeOK
  <2>3. QED
    BY <2>1, <2>2, RegistryAssumption DEF AgentIds
<1>1. PICK e \in Edits : /\ Begins(q, e) /\ e.agent = i
                         /\ \/ e.stage = "notify" /\ e.action # "none"
                            \/ e.stage = "halt" /\ e.action = "stop"
  <2>1. CASE \E active \in BOOLEAN : SetActive(q, i, active)
    <3>1. PICK action \in {"start", "stop"} :
            Begins(q, [NotEditing EXCEPT !.stage = "notify", !.agent = i, !.action = action])
      BY <2>1 DEF SetActive
    <3> DEFINE e == [NotEditing EXCEPT !.stage = "notify", !.agent = i, !.action = action]
    <3>2. e \in Edits /\ e.agent = i /\ e.stage = "notify" /\ e.action # "none"
      BY <1>0, EmptyEdit DEF Edits
    <3> HIDE DEF e
    <3>3. QED
      BY <3>1, <3>2 DEF e
  <2>2. CASE RestartAgent(q, i)
    <3> DEFINE e == [NotEditing EXCEPT !.stage = "notify", !.agent = i]
    <3>1. e \in Edits /\ e.agent = i /\ e.stage = "notify" /\ e.action # "none"
      BY <1>0, EmptyEdit DEF Edits
    <3>2. Begins(q, e)
      BY <2>2 DEF RestartAgent
    <3> HIDE DEF e
    <3>3. QED
      BY <3>1, <3>2
  <2>3. CASE DeleteAgent(q, i)
    <3> DEFINE e == [NotEditing EXCEPT !.stage = "halt", !.agent = i, !.account = rows[i].account,
                       !.action = "stop"]
    <3>1. rows[i].account \in 0..MaxPlatform
      BY <1>0 DEF AgentRows
    <3>2. e \in Edits /\ e.agent = i /\ e.stage = "halt" /\ e.action = "stop"
      BY <1>0, <3>1, EmptyEdit DEF Edits
    <3>3. Begins(q, e)
      BY <2>3 DEF DeleteAgent
    <3> HIDE DEF e
    <3>4. QED
      BY <3>2, <3>3
  <2>4. QED
    BY <2>1, <2>2, <2>3
<1>2. /\ UNCHANGED <<names, threads, mapped, memories, session, torn, orphans, unsynced>>
      /\ rows' \in [AgentIds -> AgentRows]
      /\ \A j \in AgentIds : /\ rows'[j].status = rows[j].status /\ rows'[j].name = rows[j].name
                             /\ rows'[j].account = rows[j].account
  <2>1. CASE UNCHANGED rows
    BY <1>0, <2>1 DEF SetActive, RestartAgent, DeleteAgent, RegistryTypeOK
  <2>2. CASE \E active \in BOOLEAN : SetActive(q, i, active)
    <3>1. PICK active \in BOOLEAN : rows' = [rows EXCEPT ![i].active = active]
      BY <2>2 DEF SetActive
    <3>2. [rows[i] EXCEPT !.active = active] \in AgentRows
      BY <1>0 DEF AgentRows
    <3>3. rows' \in [AgentIds -> AgentRows]
      BY <1>0, <3>1, <3>2 DEF RegistryTypeOK
    <3>4. \A j \in AgentIds : /\ rows'[j].status = rows[j].status /\ rows'[j].name = rows[j].name
                              /\ rows'[j].account = rows[j].account
      BY <1>0, <3>1 DEF RegistryTypeOK, AgentRows
    <3>5. QED
      BY <2>2, <3>3, <3>4 DEF SetActive
  <2>3. QED
    BY <2>1, <2>2 DEF RestartAgent, DeleteAgent
<1>3. EditBecomes(q, e) /\ editing[q].stage = "idle"
  BY <1>0, <1>1, EditBegins
<1>4. editing'[q] = e /\ EditBecomes(q, editing'[q])
  BY <1>3 DEF EditBecomes
<1>5. EditSound(q)'
  BY <1>0, <1>1, <1>2, <1>4 DEF EditSound, Registering, Here
<1>6. RegistryTypeOK'
  BY <1>0, <1>2, <1>3 DEF RegistryTypeOK, EditBecomes
<1>7. QED
  BY <1>1, <1>2, <1>3, <1>4, <1>5, <1>6, NamesStay DEF Registering

LEMMA ClearKeepsNames ==
  ASSUME NamingInv, NEW q \in Requests, Clear(q)
  PROVE  NamingInv'
<1>0. RegistryTypeOK /\ EditSound(q)
  BY DEF NamingInv
<1>1. /\ editing[q].stage = "clear" /\ Goes(q, "drop") /\ memories' \subseteq memories
      /\ UNCHANGED <<rows, names, threads, mapped, session, torn, orphans, unsynced>>
  BY DEF Clear, Cleared
<1>2. /\ EditBecomes(q, editing'[q]) /\ editing'[q].stage = "drop"
      /\ editing'[q].agent = editing[q].agent /\ editing'[q].action = editing[q].action
  BY <1>0, <1>1, EditGoes DEF Stages
<1>3. EditSound(q)'
  BY <1>0, <1>1, <1>2 DEF EditSound, Registering
<1>4. RegistryTypeOK'
  BY <1>0, <1>1, <1>2 DEF RegistryTypeOK, EditBecomes
<1>5. QED
  BY <1>1, <1>2, <1>3, <1>4, NamesStay DEF Registering

\* What the scheduler reads are names of rows.
LEMMA ReadingTypes ==
  ASSUME NamingInv
  PROVE  /\ Mapping \subseteq AccountIds \X Names
         /\ \A i \in AgentIds : /\ Target(i) \in Names \cup {None}
                                /\ Target(i) # None <=> Wanted(i)
<1>1. \A i \in AgentIds : Linked(i) => rows[i].account \in AccountIds /\ rows[i].name \in Names
  BY RegistryAssumption DEF NamingInv, RowsSound, RegistryTypeOK, AgentRows, AccountIds, Linked
<1>2. \A i \in AgentIds : Here(i) => rows[i].name \in Names
  BY DEF NamingInv, RowsSound
<1>3. QED
  BY <1>1, <1>2, RegistryAssumption DEF Mapping, Target, Wanted

LEMMA ContinueTypes ==
  ASSUME NamingInv, NEW q \in Requests, editing[q].stage \in {"notify", "halt"}, Continues(q)
  PROVE  /\ EditBecomes(q, editing'[q])
         /\ \/ editing[q].stage = "notify" /\ editing'[q].stage = "idle"
            \/ /\ editing[q].stage = "halt" /\ editing'[q].stage = "clear"
               /\ editing'[q].agent = editing[q].agent /\ editing'[q].account = editing[q].account
               /\ editing'[q].action = "stop"
<1>0. RegistryTypeOK /\ EditSound(q)
  BY DEF NamingInv
<1>1. CASE editing[q].stage = "halt"
  BY <1>0, <1>1, EditGoes DEF Continues, Stages, EditSound
<1>2. CASE editing[q].stage = "notify"
  BY <1>0, <1>2, EditEnds DEF Continues
<1>3. QED
  BY <1>1, <1>2

\* The notice of a request, heard or lost, its end and a step of the scheduler
\* on the way change no name and no account.
LEMMA NoticeKeepsNames ==
  ASSUME NamingInv, NEW q \in Requests, Notify(q) \/ LoseNotice(q)
  PROVE  NamingInv'
<1>0. RegistryTypeOK /\ EditSound(q) /\ editing[q].stage \in {"notify", "halt"} /\ Continues(q)
  BY DEF NamingInv, Notify, LoseNotice
<1>1. /\ EditBecomes(q, editing'[q])
      /\ \/ editing[q].stage = "notify" /\ editing'[q].stage = "idle"
         \/ /\ editing[q].stage = "halt" /\ editing'[q].stage = "clear"
            /\ editing'[q].agent = editing[q].agent /\ editing'[q].account = editing[q].account
            /\ editing'[q].action = "stop"
  BY <1>0, ContinueTypes
<1>2. UNCHANGED <<rows, names, memories, session, torn, orphans>>
  BY DEF Notify, LoseNotice
<1>3. EditSound(q)'
  BY <1>0, <1>1, <1>2 DEF EditSound, Registering
<1>4. mapped' \subseteq AccountIds \X Names /\ unsynced' \subseteq AgentIds
  BY <1>0, ReadingTypes DEF Notify, LoseNotice, RegistryTypeOK, EditSound
<1>5. threads' \in [AgentIds -> Names \cup {None}]
  <2>1. CASE LoseNotice(q)
    BY <1>0, <2>1 DEF LoseNotice, RegistryTypeOK
  <2>2. CASE Notify(q)
    <3>1. \A i \in AgentIds : Target(i) \in Names \cup {None} /\ threads[i] \in Names \cup {None}
      BY <1>0, ReadingTypes DEF RegistryTypeOK
    <3>2. ~Everything(q) => editing[q].action \in {"start", "stop", "restart"}
      BY <1>0 DEF Everything, EditSound, RegistryTypeOK, Edits
    <3>3. ~Everything(q) => \A i \in AgentIds : After(i, editing[q].action) \in Names \cup {None}
      BY <3>1, <3>2 DEF After, ReadAgain
    <3>4. QED
      BY <2>2, <3>1, <3>3 DEF Notify
  <2>3. QED
    BY <2>1, <2>2
<1>6. RegistryTypeOK'
  BY <1>0, <1>1, <1>2, <1>4, <1>5 DEF RegistryTypeOK, EditBecomes
<1>7. QED
  BY <1>1, <1>2, <1>3, <1>6, NamesStay DEF Registering

LEMMA AbandonKeepsNames ==
  ASSUME NamingInv, NEW q \in Requests, Abandon(q)
  PROVE  NamingInv'
<1>0. RegistryTypeOK /\ EditSound(q) /\ editing[q] \in Edits
  BY DEF NamingInv, RegistryTypeOK
<1>1. /\ UNCHANGED <<rows, names, threads, mapped, memories, session, orphans>>
      /\ Ends(q) /\ editing[q].stage # "idle"
      /\ torn' = torn \cup {a \in {editing[q].account} \ {0} : editing[q].stage = "local"}
      /\ unsynced' \subseteq unsynced \cup {editing[q].agent}
  BY DEF Abandon
<1>2. EditBecomes(q, editing'[q]) /\ editing'[q].stage = "idle"
  BY <1>0, <1>1, EditEnds
<1>3. EditSound(q)'
  BY <1>2 DEF EditSound, Registering
<1>4. torn' \subseteq AccountIds /\ torn \subseteq torn'
  <2>1. torn \subseteq torn' /\ torn' \subseteq torn \cup ({editing[q].account} \ {0})
    BY <1>1
  <2>2. {editing[q].account} \ {0} \subseteq AccountIds
    BY <1>0, RegistryAssumption DEF Edits, AccountIds
  <2>3. QED
    BY <1>0, <2>1, <2>2 DEF RegistryTypeOK
<1>5. unsynced' \subseteq AgentIds
  BY <1>0, <1>1 DEF RegistryTypeOK, EditSound
<1>6. RegistryTypeOK'
  BY <1>0, <1>1, <1>2, <1>4, <1>5 DEF RegistryTypeOK, EditBecomes
<1>7. QED
  BY <1>1, <1>2, <1>3, <1>4, <1>6, NamesStay DEF Registering

\* A row comes with a request that is to link it, ...
LEMMA CreationKeepsNames ==
  ASSUME NamingInv, NEW q \in Requests, NEW i \in AgentIds, NEW n \in Names,
         IsFresh(i), NEW active \in BOOLEAN,
         NEW action \in {"start", "none", "all", "stream"},
         rows' = [rows EXCEPT ![i] = [NoAgent EXCEPT !.status = "here", !.name = n,
                                                     !.active = active]],
         Begins(q, [NotEditing EXCEPT !.stage = "register", !.agent = i, !.new = n,
                      !.action = action]),
         UNCHANGED <<names, threads, mapped, memories, session, torn, orphans, unsynced>>
  PROVE  NamingInv'
<1> DEFINE e == [NotEditing EXCEPT !.stage = "register", !.agent = i, !.new = n,
                   !.action = action]
           row == [NoAgent EXCEPT !.status = "here", !.name = n, !.active = active]
<1>0. RegistryTypeOK /\ i \in 0..MaxAgent
  BY RegistryAssumption DEF NamingInv, AgentIds
<1>1. /\ e \in Edits /\ e.stage = "register" /\ e.agent = i /\ e.new = n /\ e.action = action
  BY <1>0, EmptyEdit DEF Edits
<1>2. row \in AgentRows /\ row.status = "here" /\ row.name = n /\ row.account = 0
  BY EmptyRow DEF AgentRows
<1>3. Begins(q, e) /\ rows' = [rows EXCEPT ![i] = row]
  OBVIOUS
<1> HIDE DEF e, row
<1>4. /\ editing'[q] = e /\ editing[q].stage = "idle" /\ EditBecomes(q, e)
      /\ \A r \in Requests : r # q => editing'[r] = editing[r] /\ (Registering(r)' <=> Registering(r))
  BY <1>0, <1>1, <1>3, EditBegins DEF EditBecomes, Registering
<1>5. rows'[i] = row /\ \A j \in AgentIds : j # i => rows'[j] = rows[j]
  BY <1>0, <1>3 DEF RegistryTypeOK
<1>6. rows[i].status = "none" /\ rows[i].account = 0
  BY DEF IsFresh, NamingInv, RowsSound, Here, AgentIds
<1>7. RegistryTypeOK'
  BY <1>0, <1>2, <1>3, <1>4 DEF RegistryTypeOK, EditBecomes
<1>8. \A r \in Requests : r # q /\ editing[r].stage # "idle" =>
        editing[r].agent \in AgentIds /\ editing[r].agent # i
  BY <1>6 DEF NamingInv, EditSound
<1>9. \A r \in Requests : EditSound(r)'
  <2>1. EditSound(q)'
    BY <1>1, <1>2, <1>4, <1>5 DEF EditSound, Registering
  <2>2. ASSUME NEW r \in Requests, r # q PROVE EditSound(r)'
    <3>1. CASE editing[r].stage = "idle"
      BY <1>4, <2>2, <3>1 DEF EditSound, Registering
    <3>2. CASE editing[r].stage # "idle"
      <4>1. PICK j \in AgentIds : j = editing[r].agent /\ j # i
        BY <1>8, <2>2, <3>2
      <4>2. QED
        BY <1>4, <1>5, <2>2, <4>1, EditSoundStays
    <3>3. QED
      BY <3>1, <3>2
  <2>3. QED
    BY <2>1, <2>2
<1>10. RowsSound'
  BY <1>2, <1>5 DEF NamingInv, RowsSound, Here
<1>11. OneCreates'
  <2>1. \A r \in Requests : r # q /\ Registering(r)' =>
          /\ Registering(r) /\ editing'[r].agent = editing[r].agent /\ editing[r].agent # i
    BY <1>4, <1>8 DEF Registering
  <2>2. editing'[q].agent = i
    BY <1>1, <1>4
  <2>3. QED
    BY <2>1, <2>2 DEF NamingInv, OneCreates
<1>12. NamesAgree' /\ OneRenames' /\ \A j \in AgentIds : VisitSound(j)'
  <2>1. \A j \in AgentIds : Linked(j)' => /\ Linked(j) /\ rows'[j].name = rows[j].name
                                          /\ rows'[j].account = rows[j].account
    BY <1>2, <1>5, <1>6 DEF Linked, Here
  <2>2. editing'[q].stage # "local" /\ editing[q].stage # "local"
    BY <1>1, <1>4
  <2>3. QED
    BY <1>4, <2>1, <2>2, RenamesStay, AgreementStays
<1>13. QED
  BY <1>7, <1>9, <1>10, <1>11, <1>12 DEF NamingInv

\* ... and goes with its link.
LEMMA RemovalKeepsNames ==
  ASSUME NamingInv, NEW q \in Requests, Undo(q) \/ Drop(q)
  PROVE  NamingInv'
<1>0. RegistryTypeOK /\ EditSound(q) /\ editing[q].stage \in {"undo", "drop"}
  BY DEF NamingInv, Undo, Drop
<1>1. PICK i \in AgentIds : i = editing[q].agent
  BY <1>0 DEF EditSound
<1> DEFINE row == [NoAgent EXCEPT !.status = "gone"]
<1>2. row \in AgentRows /\ row.status = "gone" /\ row.account = 0
  BY EmptyRow DEF AgentRows
<1>3. rows' = [rows EXCEPT ![i] = row] /\ UNCHANGED <<names, threads, mapped, memories, session>>
  BY <1>1 DEF Undo, Drop
<1> HIDE DEF row
<1>4. /\ EditBecomes(q, editing'[q])
      /\ \/ editing'[q].stage = "idle"
         \/ editing'[q].stage = "notify" /\ editing'[q].action \in {"all", "stream"}
            /\ editing'[q].agent = i
  <2>1. CASE Ends(q)
    BY <1>0, <2>1, EditEnds
  <2>2. CASE Everything(q) /\ Goes(q, "notify")
    BY <1>0, <1>1, <2>2, EditGoes DEF Everything, Stages
  <2>3. QED
    BY <2>1, <2>2 DEF Undo, Drop
<1>5. rows'[i] = row /\ \A j \in AgentIds : j # i => rows'[j] = rows[j]
  BY <1>0, <1>3 DEF RegistryTypeOK
<1>6. torn \subseteq torn' /\ torn' \subseteq AccountIds
  <2>1. CASE Undo(q)
    BY <1>0, <2>1 DEF Undo, RegistryTypeOK
  <2>2. CASE Drop(q)
    <3>1. editing[q].account \in 0..MaxPlatform
      BY <1>0 DEF RegistryTypeOK, Edits
    <3>2. {editing[q].account} \ {0} \subseteq AccountIds
      BY <3>1, RegistryAssumption DEF AccountIds
    <3>3. torn \subseteq torn' /\ torn' \subseteq torn \cup ({editing[q].account} \ {0})
      BY <2>2 DEF Drop
    <3>4. QED
      BY <1>0, <3>2, <3>3 DEF RegistryTypeOK
  <2>3. QED
    BY <2>1, <2>2
<1>7. orphans' \subseteq AccountIds /\ unsynced' \subseteq AgentIds
  <2>1. unsynced' \subseteq unsynced \cup {i}
    BY <1>1 DEF Undo, Drop
  <2>2. orphans' \subseteq orphans \cup ({rows[i].account} \ {0})
    BY <1>1 DEF Undo, Drop
  <2>3. rows[i].account \in 0..MaxPlatform
    BY <1>0 DEF RegistryTypeOK, AgentRows
  <2>4. {rows[i].account} \ {0} \subseteq AccountIds
    BY <2>3, RegistryAssumption DEF AccountIds
  <2>5. QED
    BY <1>0, <2>1, <2>2, <2>4 DEF RegistryTypeOK
<1>8. RegistryTypeOK'
  BY <1>0, <1>2, <1>3, <1>4, <1>6, <1>7 DEF RegistryTypeOK, EditBecomes
<1>9. \A r \in Requests : EditSound(r)'
  <2>1. EditSound(q)'
    BY <1>2, <1>4, <1>5 DEF EditSound, Registering
  <2>2. ASSUME NEW r \in Requests, r # q, editing[r].stage # "idle" PROVE EditSound(r)'
    <3>1. editing'[r] = editing[r]
      BY <1>4, <2>2 DEF EditBecomes
    <3>2. PICK j \in AgentIds : j = editing[r].agent
      BY <2>2 DEF NamingInv, EditSound
    <3>3. CASE j # i
      BY <1>3, <1>5, <1>6, <3>1, <3>2, <3>3, EditSoundStays
    <3>4. CASE j = i
      <4>1. EditSound(r) /\ (Registering(r)' <=> Registering(r))
        BY <3>1 DEF NamingInv, Registering
      <4>2. editing'[r].agent = i /\ ~Here(i)' /\ rows'[i].account = 0 /\ rows'[i].status # "none"
        BY <1>2, <1>5, <3>1, <3>2, <3>4 DEF Here
      <4>3. QED
        BY <1>1, <1>3, <1>6, <3>1, <4>1, <4>2 DEF EditSound
    <3>5. QED
      BY <3>3, <3>4
  <2>3. ASSUME NEW r \in Requests, r # q, editing[r].stage = "idle" PROVE EditSound(r)'
    BY <1>4, <2>3 DEF EditBecomes, EditSound, Registering
  <2>4. QED
    BY <2>1, <2>2, <2>3
<1>10. RowsSound'
  BY <1>2, <1>3, <1>5 DEF NamingInv, RowsSound, Here
<1>11. OneCreates'
  <2>1. \A r \in Requests : Registering(r)' => r # q /\ Registering(r) /\ editing'[r] = editing[r]
    BY <1>4 DEF Registering, EditBecomes
  <2>2. QED
    BY <2>1 DEF NamingInv, OneCreates
<1>12. NamesAgree' /\ OneRenames' /\ \A j \in AgentIds : VisitSound(j)'
  <2>1. \A j \in AgentIds : Linked(j)' => /\ Linked(j) /\ rows'[j].name = rows[j].name
                                          /\ rows'[j].account = rows[j].account
    BY <1>2, <1>5 DEF Linked, Here
  <2>2. QED
    BY <1>0, <1>3, <1>4, <1>6, <2>1, RenamesStay, AgreementStays
<1>13. QED
  BY <1>8, <1>9, <1>10, <1>11, <1>12 DEF NamingInv

\* An account that comes to be is nobody's; one that is found keeps its name.
LEMMA RegisterKeepsNames ==
  ASSUME NamingInv, NEW q \in Requests, Register(q)
  PROVE  NamingInv'
<1>0. RegistryTypeOK /\ EditSound(q) /\ editing[q].stage = "register"
  BY DEF NamingInv, Register
<1> DEFINE name == editing[q].new
           found == AccountOf(name)
           new == CHOOSE a \in AccountIds : \A b \in AccountIds : names[b] = None <=> b >= a
           a == IF found # {} THEN CHOOSE b \in found : TRUE ELSE new
<1>1. name \in Names /\ editing[q].agent \in AgentIds
  BY <1>0 DEF EditSound, Registering
<1>2. PICK n \in 0..MaxPlatform : \A b \in AccountIds : names[b] # None <=> b <= n
  BY DEF NamingInv, RowsSound
<1>3. /\ a \in AccountIds
      /\ \/ names[a] = name
         \/ names[a] = None /\ a = n + 1
  <2>1. CASE found # {}
    <3>1. a \in found
      BY <2>1
    <3>2. QED
      BY <3>1 DEF AccountOf
  <2>2. CASE found = {}
    <3>1. \E b \in AccountIds : names[b] = None
      BY <2>2 DEF Register
    <3>2. n + 1 \in AccountIds /\ \A b \in AccountIds : names[b] = None <=> b >= n + 1
      BY <1>2, <3>1, RegistryAssumption DEF AccountIds
    <3>3. new \in AccountIds /\ \A b \in AccountIds : names[b] = None <=> b >= new
      BY <3>2
    <3>4. names[new] = None /\ new >= n + 1 /\ n + 1 >= new
      BY <3>2, <3>3, RegistryAssumption DEF AccountIds
    <3>5. new = n + 1
      BY <3>3, <3>4, RegistryAssumption DEF AccountIds
    <3>6. a = new
      BY <2>2
    <3>7. QED
      BY <3>3, <3>4, <3>5, <3>6
  <2>3. QED
    BY <2>1, <2>2
<1>4. /\ names' = [names EXCEPT ![a] = name]
      /\ torn' = torn \cup {b \in {a} : AgentsOf(b) # {}}
      /\ UNCHANGED <<rows, threads, mapped, memories, session, orphans, unsynced>>
  BY DEF Register
<1>5. PICK stage \in {"link", "undo"} :
        editing' = [editing EXCEPT ![q].stage = stage, ![q].account = a]
  BY DEF Register
<1> HIDE DEF a
<1>6. /\ editing' \in [Requests -> Edits]
      /\ editing'[q].stage = stage /\ editing'[q].account = a
      /\ editing'[q].agent = editing[q].agent /\ editing'[q].new = name
      /\ editing'[q].action = editing[q].action
      /\ \A r \in Requests : r # q => editing'[r] = editing[r]
  <2>1. a \in 0..MaxPlatform /\ editing[q] \in Edits
    BY <1>0, <1>3, RegistryAssumption DEF RegistryTypeOK, AccountIds
  <2>2. [editing[q] EXCEPT !.stage = stage, !.account = a] \in Edits
    BY <2>1 DEF Edits
  <2>3. QED
    BY <1>0, <1>5, <2>2 DEF RegistryTypeOK, Edits
<1>7. names'[a] = name /\ name # None /\ \A b \in AccountIds : b # a => names'[b] = names[b]
  BY <1>0, <1>1, <1>3, <1>4, RegistryAssumption DEF RegistryTypeOK
<1>8. \A b \in AccountIds : names[b] # None => names'[b] = names[b]
  BY <1>3, <1>7
<1>9. RegistryTypeOK'
  BY <1>0, <1>1, <1>3, <1>4, <1>6 DEF RegistryTypeOK
<1>10. \A r \in Requests : EditSound(r)'
  <2>1. EditSound(q)'
    BY <1>0, <1>1, <1>3, <1>4, <1>6, <1>7 DEF EditSound, Registering, Here
  <2>2. ASSUME NEW r \in Requests, r # q PROVE EditSound(r)'
    <3>1. EditSound(r) /\ editing'[r] = editing[r] /\ (Registering(r)' <=> Registering(r))
      BY <1>6, <2>2 DEF NamingInv, Registering
    <3>2. editing[r].stage \in {"platform", "local"} => editing[r].new # None
      BY <3>1, RegistryAssumption DEF EditSound
    <3>3. QED
      BY <1>4, <1>8, <3>1, <3>2 DEF EditSound, Here
  <2>3. QED
    BY <2>1, <2>2
<1>11. \A i \in AgentIds : VisitSound(i)'
  <2> SUFFICES ASSUME NEW i \in AgentIds PROVE VisitSound(i)'
    OBVIOUS
  <2>1. VisitSound(i) /\ session' = session /\ torn \subseteq torn'
    BY <1>4 DEF NamingInv
  <2>2. QED
    BY <1>8, <2>1 DEF VisitSound
<1>12. RowsSound'
  <2>1. \A i \in AgentIds : /\ Here(i) => rows[i].name \in Names
                            /\ rows[i].account # 0 => Here(i) /\ names'[rows[i].account] # None
    BY <1>0, <1>8, RegistryAssumption DEF NamingInv, RowsSound, RegistryTypeOK, AgentRows, AccountIds
  <2>2. \E m \in 0..MaxPlatform : \A b \in AccountIds : names'[b] # None <=> b <= m
    <3>1. CASE names[a] = name
      BY <1>1, <1>2, <1>7, <3>1, RegistryAssumption
    <3>2. CASE names[a] = None /\ a = n + 1
      <4>1. a \in 0..MaxPlatform
        BY <1>3 DEF AccountIds
      <4>2. \A b \in AccountIds : names'[b] # None <=> b <= a
        BY <1>2, <1>7, <3>2 DEF AccountIds
      <4>3. QED
        BY <4>1, <4>2
    <3>3. QED
      BY <1>3, <3>1, <3>2
  <2>3. QED
    BY <1>4, <2>1, <2>2 DEF RowsSound, Here
<1>13. OneCreates'
  <2>1. \A r \in Requests : Registering(r)' => Registering(r) /\ editing'[r].agent = editing[r].agent
    BY <1>0, <1>6 DEF Registering
  <2>2. QED
    BY <2>1 DEF NamingInv, OneCreates
<1>14. \A b : \A r \in Requests : RenamesAccount(r, b)' <=> RenamesAccount(r, b)
  BY <1>0, <1>6 DEF RenamesAccount
<1>15. OneRenames'
  BY <1>4, <1>14 DEF NamingInv, OneRenames, VisitRenames
<1>16. NamesAgree'
  <2>1. \A b : AgentsOf(b)' = AgentsOf(b) /\ (Renaming(b)' <=> Renaming(b))
    BY <1>4, <1>14 DEF AgentsOf, Linked, Here, Renaming, RenamesAccount
  <2>2. \A i \in AgentIds : Linked(i) =>
          rows[i].account \in AccountIds /\ names'[rows[i].account] = names[rows[i].account]
    BY <1>0, <1>8, RegistryAssumption DEF NamingInv, RowsSound, Linked, RegistryTypeOK, AgentRows,
                                          AccountIds
  <2>3. QED
    BY <1>4, <2>1, <2>2 DEF NamingInv, NamesAgree, Linked, Here
<1>17. QED
  BY <1>9, <1>10, <1>11, <1>12, <1>13, <1>15, <1>16 DEF NamingInv

\* A link that fits gives the account its only agent, under the name it has.
LEMMA LinkKeepsNames ==
  ASSUME NamingInv, NEW q \in Requests, Link(q)
  PROVE  NamingInv'
<1>0. RegistryTypeOK /\ EditSound(q) /\ editing[q].stage = "link" /\ Registering(q)
  BY DEF NamingInv, Link, Registering
<1>1. PICK i \in AgentIds, a \in AccountIds :
        i = editing[q].agent /\ a = editing[q].account /\ Here(i) /\ names[a] # None
  BY <1>0 DEF EditSound, Link
<1>2. /\ rows' = [rows EXCEPT ![i].account = a]
      /\ torn \subseteq torn' /\ torn' \subseteq torn \cup {a}
      /\ a \notin torn' => names[a] = rows[i].name /\ AgentsOf(a) = {}
      /\ UNCHANGED <<names, threads, mapped, memories, session, orphans, unsynced>>
  BY <1>1 DEF Link, Links
<1>3. /\ EditBecomes(q, editing'[q])
      /\ \/ editing'[q].stage = "idle"
         \/ editing'[q].stage = "notify" /\ editing'[q].action # "none"
            /\ editing'[q].agent = i
  BY <1>0, <1>1, EditGoes, EditEnds DEF Link, Stages
<1>4. /\ rows' \in [AgentIds -> AgentRows]
      /\ rows'[i].account = a /\ rows'[i].name = rows[i].name /\ rows'[i].status = rows[i].status
      /\ \A j \in AgentIds : j # i => rows'[j] = rows[j]
  <2>1. a \in 0..MaxPlatform /\ rows[i] \in AgentRows
    BY <1>0, RegistryAssumption DEF RegistryTypeOK, AccountIds
  <2>2. [rows[i] EXCEPT !.account = a] \in AgentRows
    BY <2>1 DEF AgentRows
  <2>3. QED
    BY <1>0, <1>2, <2>2 DEF RegistryTypeOK, AgentRows
<1>5. a # 0 /\ rows[i].account = 0
  BY <1>0, <1>1 DEF EditSound, AccountIds
<1>6. RegistryTypeOK'
  BY <1>0, <1>2, <1>3, <1>4 DEF RegistryTypeOK, EditBecomes
<1>7. \A r \in Requests : EditSound(r)'
  <2>1. EditSound(q)'
    BY <1>1, <1>3, <1>4 DEF EditSound, Registering, Here
  <2>2. ASSUME NEW r \in Requests, r # q, editing[r].stage # "idle" PROVE EditSound(r)'
    <3>1. editing'[r] = editing[r] /\ EditSound(r) /\ (Registering(r)' <=> Registering(r))
      BY <1>3, <2>2 DEF EditBecomes, NamingInv, Registering
    <3>2. PICK j \in AgentIds : j = editing[r].agent
      BY <2>2, <3>1 DEF EditSound
    <3>3. CASE j # i
      BY <1>2, <1>4, <3>1, <3>2, <3>3, EditSoundStays
    <3>4. CASE j = i
      <4>1. ~Registering(r)
        BY <1>0, <1>1, <2>2, <3>2, <3>4 DEF NamingInv, OneCreates
      <4>2. editing[r].stage \in {"platform", "local"} => editing[r].account = 0
        BY <1>1, <1>5, <3>1, <3>2, <3>4 DEF EditSound
      <4>3. QED
        BY <1>2, <1>4, <3>1, <3>2, <3>4, <4>1, <4>2 DEF EditSound, Registering
    <3>5. QED
      BY <3>3, <3>4
  <2>3. ASSUME NEW r \in Requests, r # q, editing[r].stage = "idle" PROVE EditSound(r)'
    BY <1>3, <2>3 DEF EditBecomes, EditSound, Registering
  <2>4. QED
    BY <2>1, <2>2, <2>3
<1>8. \A j \in AgentIds : VisitSound(j)'
  BY <1>2 DEF NamingInv, VisitSound
<1>9. RowsSound'
  BY <1>1, <1>2, <1>4 DEF NamingInv, RowsSound, Here
<1>10. OneCreates'
  <2>1. \A r \in Requests : Registering(r)' => Registering(r) /\ editing'[r].agent = editing[r].agent
    BY <1>3 DEF Registering, EditBecomes
  <2>2. QED
    BY <2>1 DEF NamingInv, OneCreates
<1>11. \A b : \A r \in Requests : RenamesAccount(r, b)' <=> RenamesAccount(r, b)
  BY <1>0, <1>3 DEF RenamesAccount, EditBecomes
<1>12. OneRenames'
  BY <1>2, <1>11 DEF NamingInv, OneRenames, VisitRenames
<1>13. NamesAgree'
  <2>1. \A b : Renaming(b)' <=> Renaming(b)
    BY <1>2, <1>11 DEF Renaming, RenamesAccount
  <2>2. \A j \in AgentIds : j # i => (Linked(j)' <=> Linked(j))
    BY <1>4 DEF Linked, Here
  <2>3. Linked(i)' /\ ~Linked(i)
    BY <1>1, <1>4, <1>5 DEF Linked, Here
  <2>4. \A b : b # a => AgentsOf(b)' = AgentsOf(b)
    BY <1>4, <2>2, <2>3 DEF AgentsOf
  <2>5. AgentsOf(a)' = AgentsOf(a) \cup {i}
    BY <1>4, <2>2, <2>3 DEF AgentsOf
  <2> SUFFICES ASSUME NEW j \in AgentIds, Linked(j)', rows'[j].account \notin torn'
               PROVE  /\ AgentsOf(rows[j].account)' = {j}
                      /\ ~Renaming(rows[j].account)' => names'[rows'[j].account] = rows'[j].name
    BY DEF NamesAgree
  <2>6. CASE j = i
    BY <1>2, <1>4, <2>5, <2>6
  <2>7. CASE j # i
    <3>1. PICK b \in AccountIds : b = rows[j].account
      BY <1>0, <2>2, <2>7, RegistryAssumption DEF Linked, RegistryTypeOK, AgentRows, AccountIds
    <3>2. rows'[j] = rows[j] /\ Linked(j) /\ b \notin torn /\ b \notin torn'
      BY <1>2, <1>4, <2>2, <2>7, <3>1
    <3>3. AgentsOf(b) = {j} /\ (~Renaming(b) => names[b] = rows[j].name)
      BY <3>1, <3>2 DEF NamingInv, NamesAgree
    <3>4. b # a
      BY <1>2, <3>2, <3>3
    <3>5. QED
      BY <1>2, <2>1, <2>4, <3>1, <3>2, <3>3, <3>4
  <2>8. QED
    BY <2>6, <2>7
<1>14. QED
  BY <1>6, <1>7, <1>8, <1>9, <1>10, <1>12, <1>13 DEF NamingInv

\* Only an account without a row's link is renamed at the row alone.
LEMMA RenameKeepsNames ==
  ASSUME NamingInv, NEW q \in Requests, NEW i \in AgentIds, NEW n \in Names, Rename(q, i, n)
  PROVE  NamingInv'
<1>0. RegistryTypeOK /\ Here(i) /\ i \in 0..MaxAgent /\ rows[i] \in AgentRows /\ rows[i].name \in Names
  <2>1. RegistryTypeOK /\ rows[i] \in AgentRows /\ Here(i)
    BY DEF NamingInv, RegistryTypeOK, Rename
  <2>2. QED
    BY <2>1, RegistryAssumption DEF AgentIds, NamingInv, RowsSound
<1> DEFINE stage == IF Linked(i) THEN "platform" ELSE "local"
           e == [NotEditing EXCEPT !.stage = stage, !.agent = i, !.account = rows[i].account,
                                   !.old = rows[i].name, !.new = n]
<1>1. /\ e \in Edits /\ e.stage = stage /\ e.agent = i /\ e.account = rows[i].account
      /\ e.old = rows[i].name /\ e.new = n /\ e.action = "restart"
  <2>1. rows[i].account \in 0..MaxPlatform
    BY <1>0 DEF AgentRows
  <2>2. QED
    BY <1>0, <2>1, EmptyEdit DEF Edits
<1>2. /\ Begins(q, e)
      /\ UNCHANGED <<rows, names, threads, mapped, memories, session, torn, orphans, unsynced>>
  BY DEF Rename
<1> HIDE DEF e
<1>3. /\ stage = "platform" => e.account \in AccountIds
      /\ stage = "local" => e.account = 0
  BY <1>0, <1>1, RegistryAssumption DEF Linked, AgentRows, AccountIds
<1>4. editing'[q] = e /\ EditBecomes(q, editing'[q]) /\ editing[q].stage = "idle"
  BY <1>0, <1>1, <1>2, EditBegins DEF EditBecomes
<1>5. EditSound(q)'
  <2>1. editing'[q].stage = "local" => editing'[q].account \notin AccountIds
    BY <1>1, <1>3, <1>4 DEF AccountIds
  <2>2. rows'[i] = rows[i] /\ Here(i) /\ names' = names
    BY <1>0, <1>2
  <2>3. QED
    BY <1>0, <1>1, <1>3, <1>4, <2>1, <2>2 DEF EditSound, Registering, Here
<1>6. RegistryTypeOK'
  BY <1>0, <1>2, <1>4 DEF RegistryTypeOK, EditBecomes
<1>7. editing'[q].stage = "local" => editing'[q].account = 0
  BY <1>1, <1>3, <1>4
<1>8. ~Registering(q)'
  BY <1>1, <1>4 DEF Registering
<1>9. QED
  BY <1>2, <1>4, <1>5, <1>6, <1>7, <1>8, NamesStay

\* Steps that change the name of one account, which is torn already or now, or
\* is renamed by one request or session from here to its row.
LEMMA RenamedAccount ==
  ASSUME NamingInv, NEW a \in AccountIds, NEW n \in Names,
         names' = [names EXCEPT ![a] = n], names[a] # None, UNCHANGED rows,
         torn \subseteq torn',
         \A r \in Requests, b \in AccountIds \ torn' : b # a =>
           (RenamesAccount(r, b)' <=> RenamesAccount(r, b)),
         \A i \in AgentIds, b \in AccountIds \ torn' : b # a =>
           (VisitRenames(i, b)' <=> VisitRenames(i, b)),
         a \in torn' \/ Renaming(a)' \/ \A j \in AgentsOf(a) : rows[j].name = n
  PROVE  RowsSound' /\ NamesAgree'
<1>1. names'[a] = n /\ \A b \in AccountIds : b # a => names'[b] = names[b]
  BY DEF NamingInv, RegistryTypeOK
<1>2. \A b \in AccountIds : names'[b] # None <=> names[b] # None
  BY <1>1, RegistryAssumption
<1>3. \A i \in AgentIds : rows[i].account # 0 => rows[i].account \in AccountIds
  BY RegistryAssumption DEF NamingInv, RegistryTypeOK, AgentRows, AccountIds
<1>4. RowsSound'
  <2>1. \A i \in AgentIds : /\ Here(i) => rows[i].name \in Names
                            /\ rows[i].account # 0 => Here(i) /\ names'[rows[i].account] # None
    BY <1>2, <1>3 DEF NamingInv, RowsSound
  <2>2. QED
    BY <1>2, <2>1 DEF NamingInv, RowsSound, Here
<1>5. NamesAgree'
  <2>1. \A b : AgentsOf(b)' = AgentsOf(b)
    BY DEF AgentsOf, Linked, Here
  <2> SUFFICES ASSUME NEW i \in AgentIds, Linked(i), rows[i].account \notin torn'
               PROVE  /\ AgentsOf(rows[i].account) = {i}
                      /\ ~Renaming(rows[i].account)' => names'[rows[i].account] = rows[i].name
    BY <2>1 DEF NamesAgree, Linked, Here
  <2>2. PICK b \in AccountIds \ torn' : b = rows[i].account
    BY <1>3 DEF Linked
  <2>3. AgentsOf(b) = {i} /\ (~Renaming(b) => names[b] = rows[i].name)
    BY <2>2 DEF NamingInv, NamesAgree
  <2>4. CASE b # a
    <3>1. Renaming(b)' <=> Renaming(b)
      BY <2>2, <2>4 DEF Renaming, RenamesAccount, VisitRenames
    <3>2. QED
      BY <1>1, <2>2, <2>3, <2>4, <3>1
  <2>5. CASE b = a
    BY <1>1, <2>2, <2>3, <2>5
  <2>6. QED
    BY <2>4, <2>5, <2>2
<1>6. QED
  BY <1>4, <1>5

LEMMA RenameAtPlatformKeepsNames ==
  ASSUME NamingInv, NEW q \in Requests, RenameAtPlatform(q)
  PROVE  NamingInv'
<1>0. RegistryTypeOK /\ EditSound(q) /\ editing[q].stage = "platform"
  BY DEF NamingInv, RenameAtPlatform
<1>1. PICK a \in AccountIds, n \in Names : a = editing[q].account /\ n = editing[q].new
  BY <1>0 DEF EditSound
<1>2. /\ names' = [names EXCEPT ![a] = n] /\ names[a] # None
      /\ UNCHANGED <<rows, threads, mapped, memories, session, orphans, unsynced>>
  BY <1>0, <1>1, RegistryAssumption DEF RenameAtPlatform, EditSound
<1>3. /\ EditBecomes(q, editing'[q]) /\ torn \subseteq torn' /\ torn' \subseteq torn \cup {a}
      /\ \/ /\ editing'[q].stage = "local" /\ editing'[q].account = a /\ editing'[q].new = n
            /\ editing'[q].agent = editing[q].agent /\ editing'[q].action = editing[q].action
            /\ a \notin torn' => ~Unsettled(a)
         \/ editing'[q].stage = "idle" /\ a \in torn'
  <2>1. CASE Goes(q, "local") /\ torn' = torn \cup {b \in {editing[q].account} : Unsettled(b)}
    BY <1>0, <1>1, <2>1, EditGoes DEF Stages
  <2>2. CASE Ends(q) /\ torn' = torn \cup {editing[q].account}
    BY <1>0, <1>1, <2>2, EditEnds
  <2>3. QED
    BY <2>1, <2>2 DEF RenameAtPlatform
<1>4. names'[a] = n /\ \A b \in AccountIds : b # a => names'[b] = names[b]
  BY <1>0, <1>2 DEF RegistryTypeOK
<1>5. RegistryTypeOK'
  BY <1>0, <1>2, <1>3 DEF RegistryTypeOK, EditBecomes
<1>6. a \notin torn' => ~Renaming(a)
  BY <1>3 DEF Unsettled
<1>7. \A r \in Requests : EditSound(r)'
  <2>1. EditSound(q)'
    BY <1>0, <1>1, <1>2, <1>3, <1>4 DEF EditSound, Registering, Here
  <2>2. ASSUME NEW r \in Requests, r # q PROVE EditSound(r)'
    <3>1. EditSound(r) /\ editing'[r] = editing[r] /\ (Registering(r)' <=> Registering(r))
      BY <1>3, <2>2 DEF NamingInv, Registering, EditBecomes
    <3>2. editing[r].stage = "local" /\ editing[r].account = a => a \in torn'
      BY <1>6 DEF Renaming
    <3>3. n # None
      BY RegistryAssumption
    <3>4. QED
      BY <1>2, <1>3, <1>4, <3>1, <3>2, <3>3 DEF EditSound, Here
  <2>3. QED
    BY <2>1, <2>2
<1>8. \A i \in AgentIds : VisitSound(i)'
  <2> SUFFICES ASSUME NEW i \in AgentIds PROVE VisitSound(i)'
    OBVIOUS
  <2>1. VisitSound(i) /\ session' = session /\ n # None
    BY <1>2, RegistryAssumption DEF NamingInv
  <2>2. session[i].stage = "sync" /\ session[i].account = a => a \in torn'
    BY <1>6 DEF Renaming
  <2>3. QED
    BY <1>3, <1>4, <2>1, <2>2 DEF VisitSound
<1>9. OneCreates'
  <2>1. \A r \in Requests : Registering(r)' => Registering(r) /\ editing'[r].agent = editing[r].agent
    BY <1>3 DEF Registering, EditBecomes
  <2>2. QED
    BY <2>1 DEF NamingInv, OneCreates
<1>10. /\ \A b : \A r \in Requests : RenamesAccount(r, b)' => RenamesAccount(r, b) \/ (r = q /\ b = a)
       /\ \A b : \A r \in Requests : RenamesAccount(r, b) => RenamesAccount(r, b)'
       /\ \A b : \A i \in AgentIds : VisitRenames(i, b)' <=> VisitRenames(i, b)
  BY <1>0, <1>2, <1>3 DEF RenamesAccount, EditBecomes, VisitRenames
<1>11. a \notin torn' => /\ \A r \in Requests : ~RenamesAccount(r, a)
                         /\ \A i \in AgentIds : ~VisitRenames(i, a)
  BY <1>6 DEF Renaming, RenamesAccount, VisitRenames
<1>12. OneRenames'
  BY <1>3, <1>10, <1>11 DEF NamingInv, OneRenames
<1>13. RowsSound' /\ NamesAgree'
  <2>1. a \in torn' \/ Renaming(a)'
    BY <1>3 DEF Renaming
  <2>2. \A r \in Requests, b \in AccountIds \ torn' : b # a =>
          (RenamesAccount(r, b)' <=> RenamesAccount(r, b))
    BY <1>10
  <2>3. \A i \in AgentIds, b \in AccountIds \ torn' : b # a =>
          (VisitRenames(i, b)' <=> VisitRenames(i, b))
    BY <1>10
  <2>4. torn \subseteq torn' /\ UNCHANGED rows
    BY <1>2, <1>3
  <2>5. names' = [names EXCEPT ![a] = n] /\ names[a] # None
    BY <1>2
  <2>6. QED
    BY <2>1, <2>2, <2>3, <2>4, <2>5, RenamedAccount
<1>14. QED
  BY <1>5, <1>7, <1>8, <1>9, <1>12, <1>13 DEF NamingInv

\* The row takes the name that the account has, unless that is torn.
LEMMA UpdateRowKeepsNames ==
  ASSUME NamingInv, NEW q \in Requests, UpdateRow(q)
  PROVE  NamingInv'
<1>0. RegistryTypeOK /\ EditSound(q) /\ editing[q].stage = "local"
  BY DEF NamingInv, UpdateRow
<1>1. PICK i \in AgentIds, n \in Names :
        i = editing[q].agent /\ n = editing[q].new /\ Here(i)
  BY <1>0 DEF EditSound, UpdateRow
<1>2. /\ rows' = [rows EXCEPT ![i].name = n]
      /\ torn' = torn \cup {a \in {rows[i].account} \ {0} : names[a] # n}
      /\ UNCHANGED <<names, threads, mapped, memories, session, orphans, unsynced>>
  BY <1>1 DEF UpdateRow, SavesName
<1>3. /\ EditBecomes(q, editing'[q]) /\ editing'[q].stage = "notify"
      /\ editing'[q].agent = i /\ editing'[q].action = "restart"
  <2>1. editing[q].action = "restart"
    BY <1>0 DEF EditSound
  <2>2. QED
    BY <1>0, <1>1, <2>1, EditGoes DEF UpdateRow, Stages
<1>4. /\ rows' \in [AgentIds -> AgentRows]
      /\ rows'[i].account = rows[i].account /\ rows'[i].name = n /\ rows'[i].status = rows[i].status
      /\ \A j \in AgentIds : j # i => rows'[j] = rows[j]
  <2>1. rows[i] \in AgentRows
    BY <1>0 DEF RegistryTypeOK
  <2>2. [rows[i] EXCEPT !.name = n] \in AgentRows
    BY <2>1 DEF AgentRows
  <2>3. QED
    BY <1>0, <1>2, <2>2 DEF RegistryTypeOK, AgentRows
<1>5. torn \subseteq torn' /\ torn' \subseteq AccountIds
  <2>1. rows[i].account \in 0..MaxPlatform
    BY <1>0 DEF RegistryTypeOK, AgentRows
  <2>2. {rows[i].account} \ {0} \subseteq AccountIds
    BY <2>1, RegistryAssumption DEF AccountIds
  <2>3. torn \subseteq torn' /\ torn' \subseteq torn \cup ({rows[i].account} \ {0})
    BY <1>2
  <2>4. QED
    BY <1>0, <2>2, <2>3 DEF RegistryTypeOK
<1>6. RegistryTypeOK'
  BY <1>0, <1>2, <1>3, <1>4, <1>5 DEF RegistryTypeOK, EditBecomes
<1>7. \A r \in Requests : EditSound(r)'
  <2>1. EditSound(q)'
    BY <1>1, <1>3, <1>4 DEF EditSound, Registering, Here
  <2>2. ASSUME NEW r \in Requests, r # q, editing[r].stage # "idle" PROVE EditSound(r)'
    <3>1. editing'[r] = editing[r]
      BY <1>3, <2>2 DEF EditBecomes
    <3>2. PICK j \in AgentIds : j = editing[r].agent
      BY <2>2 DEF NamingInv, EditSound
    <3>3. rows'[j].status = rows[j].status /\ rows'[j].account = rows[j].account
      BY <1>4
    <3>4. QED
      BY <1>2, <1>5, <3>1, <3>2, <3>3, EditSoundStays
  <2>3. ASSUME NEW r \in Requests, r # q, editing[r].stage = "idle" PROVE EditSound(r)'
    BY <1>3, <2>3 DEF EditBecomes, EditSound, Registering
  <2>4. QED
    BY <2>1, <2>2, <2>3
<1>8. \A j \in AgentIds : VisitSound(j)'
  BY <1>2, <1>5 DEF NamingInv, VisitSound
<1>9. RowsSound'
  BY <1>2, <1>4 DEF NamingInv, RowsSound, Here
<1>10. OneCreates'
  <2>1. \A r \in Requests : Registering(r)' => Registering(r) /\ editing'[r].agent = editing[r].agent
    BY <1>3 DEF Registering, EditBecomes
  <2>2. QED
    BY <2>1 DEF NamingInv, OneCreates
<1>11. /\ \A b : \A r \in Requests : RenamesAccount(r, b)' => RenamesAccount(r, b)
       /\ \A b : \A r \in Requests : RenamesAccount(r, b) => RenamesAccount(r, b)' \/ b = editing[q].account
       /\ \A b : \A j \in AgentIds : VisitRenames(j, b)' <=> VisitRenames(j, b)
  BY <1>2, <1>3 DEF RenamesAccount, EditBecomes, VisitRenames
<1>12. OneRenames'
  BY <1>5, <1>11 DEF NamingInv, OneRenames
<1>13. NamesAgree'
  <2>1. \A j \in AgentIds : Linked(j)' <=> Linked(j)
    BY <1>4 DEF Linked, Here
  <2>2. \A b : AgentsOf(b)' = AgentsOf(b)
    BY <1>4, <2>1 DEF AgentsOf
  <2> SUFFICES ASSUME NEW j \in AgentIds, Linked(j), rows[j].account \notin torn'
               PROVE  /\ AgentsOf(rows[j].account) = {j}
                      /\ ~Renaming(rows[j].account)' => names[rows[j].account] = rows'[j].name
    BY <1>2, <1>4, <2>1, <2>2 DEF NamesAgree
  <2>3. PICK b \in AccountIds \ torn' : b = rows[j].account
    BY <1>0, RegistryAssumption DEF Linked, RegistryTypeOK, AgentRows, AccountIds
  <2>4. AgentsOf(b) = {j} /\ (~Renaming(b) => names[b] = rows[j].name) /\ b # 0
    BY <1>5, <2>3 DEF NamingInv, NamesAgree, AccountIds
  <2>5. CASE j = i
    BY <1>2, <1>4, <2>3, <2>4, <2>5
  <2>6. CASE j # i
    <3>1. rows[i].account # b
      BY <1>1, <2>3, <2>4, <2>6 DEF AgentsOf, Linked
    <3>2. editing[q].account # b
      BY <1>0, <1>1, <2>4, <3>1 DEF EditSound
    <3>3. Renaming(b) => Renaming(b)'
      BY <1>11, <3>2 DEF Renaming, RenamesAccount, VisitRenames
    <3>4. QED
      BY <1>4, <2>3, <2>4, <2>6, <3>3
  <2>7. QED
    BY <2>5, <2>6
<1>14. QED
  BY <1>6, <1>7, <1>8, <1>9, <1>10, <1>12, <1>13 DEF NamingInv

-----------------------------------------------------------------------------
(* Sessions                                                                *)

\* What an agent does in its session.
VisitBecomes(i, s) ==
  /\ session' \in [AgentIds -> Visits] /\ session'[i] = s
  /\ \A j \in AgentIds : j # i => session'[j] = session[j]

LEMMA EmptyVisit == NoSession \in Visits /\ NoSession.stage = "out"
BY RegistryAssumption DEF NoSession, Visits

\* Sessions that begin and end, and steps that change no name.
LEMMA VisitsStay ==
  ASSUME NamingInv, RegistryTypeOK', UNCHANGED <<rows, names, editing>>, torn \subseteq torn',
         \A i \in AgentIds : VisitSound(i)',
         \A i \in AgentIds, a \in AccountIds : VisitRenames(i, a)' => VisitRenames(i, a),
         \A i \in AgentIds, a \in AccountIds \ torn' : VisitRenames(i, a) => VisitRenames(i, a)'
  PROVE  NamingInv'
<1>1. \A r \in Requests : EditSound(r)'
  <2> SUFFICES ASSUME NEW r \in Requests PROVE EditSound(r)'
    OBVIOUS
  <2>1. EditSound(r) /\ (Registering(r)' <=> Registering(r)) /\ \A i : Here(i)' <=> Here(i)
    BY DEF NamingInv, Registering, Here
  <2>2. QED
    BY <2>1 DEF EditSound
<1>2. RowsSound' /\ OneCreates'
  BY DEF NamingInv, RowsSound, OneCreates, Registering, Here
<1>3. \A a : \A r \in Requests : RenamesAccount(r, a)' <=> RenamesAccount(r, a)
  BY DEF RenamesAccount
<1>4. OneRenames'
  BY <1>3 DEF NamingInv, OneRenames
<1>5. NamesAgree'
  <2>1. /\ \A a : AgentsOf(a)' = AgentsOf(a)
        /\ \A i \in AgentIds : Linked(i)' <=> Linked(i)
    BY DEF AgentsOf, Linked, Here
  <2>2. \A a \in AccountIds \ torn' : Renaming(a) => Renaming(a)'
    BY DEF Renaming, VisitRenames
  <2>3. \A i \in AgentIds : Linked(i) => rows[i].account \in AccountIds
    BY RegistryAssumption DEF Linked, NamingInv, RegistryTypeOK, AgentRows, AccountIds
  <2>4. QED
    BY <2>1, <2>2, <2>3 DEF NamingInv, NamesAgree
<1>6. QED
  BY <1>1, <1>2, <1>4, <1>5 DEF NamingInv

\* A session stays with the account of the name it has logged in with.
LEMMA LoginKeepsNames ==
  ASSUME NamingInv, NEW i \in AgentIds, Login(i)
  PROVE  NamingInv'
<1>0. RegistryTypeOK /\ threads[i] \in Names
  BY DEF NamingInv, RegistryTypeOK, Login
<1>1. PICK a \in AccountIds :
        /\ names[a] = threads[i]
        /\ session' = [session EXCEPT ![i] = [NoSession EXCEPT !.stage = "in", !.account = a,
                                                !.old = threads[i]]]
  BY DEF Login, AccountOf
<1> DEFINE s == [NoSession EXCEPT !.stage = "in", !.account = a, !.old = threads[i]]
<1>2. s \in Visits /\ s.stage = "in" /\ s.account = a /\ s.old = threads[i]
  <2>1. a \in 0..MaxPlatform
    BY RegistryAssumption DEF AccountIds
  <2>2. QED
    BY <1>0, <2>1, EmptyVisit DEF Visits
<1>3. session' = [session EXCEPT ![i] = s]
  BY <1>1
<1> HIDE DEF s
<1>4. /\ VisitBecomes(i, s) /\ session[i].stage = "out"
      /\ UNCHANGED <<rows, names, threads, mapped, memories, editing, torn, orphans, unsynced>>
  BY <1>0, <1>2, <1>3 DEF Login, VisitBecomes, RegistryTypeOK
<1>5. RegistryTypeOK'
  BY <1>0, <1>4 DEF RegistryTypeOK, VisitBecomes
<1>6. \A j \in AgentIds : VisitSound(j)'
  <2>1. VisitSound(i)'
    BY <1>0, <1>1, <1>2, <1>4, RegistryAssumption DEF VisitSound, VisitBecomes
  <2>2. QED
    BY <1>4, <2>1 DEF NamingInv, VisitSound, VisitBecomes
<1>7. \A j \in AgentIds, b \in AccountIds : VisitRenames(j, b)' <=> VisitRenames(j, b)
  BY <1>2, <1>4 DEF VisitRenames, VisitBecomes
<1>8. QED
  BY <1>4, <1>5, <1>6, <1>7, VisitsStay

LEMMA RememberKeepsNames ==
  ASSUME NamingInv, NEW i \in AgentIds, Remember(i)
  PROVE  NamingInv'
<1>0. RegistryTypeOK /\ session[i].account \in AccountIds
  BY DEF NamingInv, VisitSound, Remember
<1>1. /\ memories' \subseteq AccountIds /\ orphans' \subseteq AccountIds
      /\ UNCHANGED <<rows, names, threads, mapped, editing, session, torn, unsynced>>
  BY <1>0 DEF Remember, RegistryTypeOK
<1>2. RegistryTypeOK'
  BY <1>0, <1>1 DEF RegistryTypeOK
<1>3. \A j \in AgentIds : VisitSound(j)'
  BY <1>1 DEF NamingInv, VisitSound
<1>4. \A b : \A j \in AgentIds : VisitRenames(j, b)' <=> VisitRenames(j, b)
  BY <1>1 DEF VisitRenames
<1>5. QED
  BY <1>1, <1>2, <1>3, <1>4, VisitsStay

\* A session that ends, a change of a name that the row does not take, and a
\* compensation that fails.
LEMMA LeavingKeepsNames ==
  ASSUME NamingInv, NEW i \in AgentIds, EndSession(i) \/ SyncFails(i) \/ RevertFails(i)
  PROVE  NamingInv'
<1>0. RegistryTypeOK /\ VisitSound(i) /\ session[i] \in Visits
  BY DEF NamingInv, RegistryTypeOK
<1>1. PICK s \in Visits :
        /\ session' = [session EXCEPT ![i] = s]
        /\ \/ s.stage = "out" /\ session[i].stage = "in"
           \/ /\ s.account = session[i].account /\ s.old = session[i].old
              /\ \/ s.stage = "revert" /\ session[i].stage = "sync"
                 \/ s.stage = "in" /\ session[i].stage = "revert" /\ session[i].account \in torn'
  <2>1. CASE EndSession(i)
    BY <2>1, EmptyVisit DEF EndSession
  <2>2. CASE SyncFails(i)
    <3> DEFINE s == [session[i] EXCEPT !.stage = "revert"]
    <3>1. s \in Visits /\ s.stage = "revert" /\ s.account = session[i].account
          /\ s.old = session[i].old
      BY <1>0 DEF Visits
    <3>2. session' = [session EXCEPT ![i] = s] /\ session[i].stage = "sync"
      BY <2>2 DEF SyncFails
    <3> HIDE DEF s
    <3>3. QED
      BY <3>1, <3>2
  <2>3. CASE RevertFails(i)
    <3> DEFINE s == [session[i] EXCEPT !.stage = "in", !.new = None]
    <3>1. s \in Visits /\ s.stage = "in" /\ s.account = session[i].account
          /\ s.old = session[i].old
      BY <1>0 DEF Visits
    <3>2. session' = [session EXCEPT ![i] = s] /\ session[i].stage = "revert"
          /\ session[i].account \in torn'
      BY <2>3 DEF RevertFails
    <3> HIDE DEF s
    <3>3. QED
      BY <3>1, <3>2
  <2>4. QED
    BY <2>1, <2>2, <2>3
<1>2. /\ UNCHANGED <<rows, names, threads, mapped, memories, editing, orphans, unsynced>>
      /\ torn \subseteq torn' /\ torn' \subseteq AccountIds
  BY <1>0 DEF EndSession, SyncFails, RevertFails, RegistryTypeOK, VisitSound
<1>3. VisitBecomes(i, s)
  BY <1>0, <1>1 DEF VisitBecomes, RegistryTypeOK
<1>4. RegistryTypeOK'
  BY <1>0, <1>2, <1>3 DEF RegistryTypeOK, VisitBecomes
<1>5. \A j \in AgentIds : VisitSound(j)'
  <2>1. VisitSound(i)'
    BY <1>0, <1>1, <1>2, <1>3 DEF VisitSound, VisitBecomes
  <2>2. QED
    BY <1>2, <1>3, <2>1 DEF NamingInv, VisitSound, VisitBecomes
<1>6. /\ \A j \in AgentIds, b \in AccountIds : VisitRenames(j, b)' => VisitRenames(j, b)
      /\ \A j \in AgentIds, b \in AccountIds \ torn' : VisitRenames(j, b) => VisitRenames(j, b)'
  BY <1>1, <1>3 DEF VisitRenames, VisitBecomes
<1>7. QED
  BY <1>2, <1>4, <1>5, <1>6, VisitsStay

LEMMA RestartKeepsNames ==
  ASSUME NamingInv, RestartScheduler
  PROVE  NamingInv'
<1>0. RegistryTypeOK
  BY DEF NamingInv
<1>1. /\ UNCHANGED <<rows, names, memories, editing, orphans>>
      /\ threads' = [i \in AgentIds |-> Target(i)] /\ mapped' = Mapping
      /\ torn' = torn \cup {session[i].account : i \in {j \in AgentIds :
                                                  session[j].stage \in {"sync", "revert"}}}
      /\ session' = [i \in AgentIds |-> NoSession]
      /\ unsynced' \subseteq unsynced
  BY DEF RestartScheduler
<1>2. torn \subseteq torn' /\ torn' \subseteq AccountIds
  BY <1>0, <1>1 DEF RegistryTypeOK, NamingInv, VisitSound
<1>3. RegistryTypeOK'
  BY <1>0, <1>1, <1>2, ReadingTypes, EmptyVisit DEF RegistryTypeOK
<1>4. \A j \in AgentIds : VisitSound(j)' /\ session'[j].stage = "out"
  BY <1>1, EmptyVisit DEF VisitSound
<1>5. /\ \A j \in AgentIds, b \in AccountIds : VisitRenames(j, b)' => VisitRenames(j, b)
      /\ \A j \in AgentIds, b \in AccountIds \ torn' : VisitRenames(j, b) => VisitRenames(j, b)'
  BY <1>1, <1>4 DEF VisitRenames
<1>6. QED
  BY <1>1, <1>2, <1>3, <1>4, <1>5, VisitsStay

\* Where an account is renamed, what requests and sessions know of its name
\* is excepted, or nobody else is renaming it.
LEMMA SoundAfterRename ==
  ASSUME NamingInv, NEW a \in AccountIds, NEW n \in Names,
         names' = [names EXCEPT ![a] = n], UNCHANGED <<rows, editing>>, torn \subseteq torn',
         a \in torn' \/ \A r \in Requests : ~RenamesAccount(r, a)
  PROVE  /\ \A r \in Requests : EditSound(r)'
         /\ OneCreates'
         /\ \A b : \A r \in Requests : RenamesAccount(r, b)' <=> RenamesAccount(r, b)
<1>1. names'[a] = n /\ n # None /\ \A b \in AccountIds : b # a => names'[b] = names[b]
  BY RegistryAssumption DEF NamingInv, RegistryTypeOK
<1>2. ASSUME NEW r \in Requests PROVE EditSound(r)'
  <2>1. EditSound(r) /\ (Registering(r)' <=> Registering(r)) /\ \A i : Here(i)' <=> Here(i)
    BY DEF NamingInv, Registering, Here
  <2>2. editing[r].stage = "local" /\ editing[r].account = a => a \in torn'
    BY DEF RenamesAccount
  <2>3. QED
    BY <1>1, <2>1, <2>2 DEF EditSound
<1>3. OneCreates'
  BY DEF NamingInv, OneCreates, Registering
<1>4. QED
  BY <1>2, <1>3 DEF RenamesAccount

\* A session changes the name of its account, ...
LEMMA UpdateProfileKeepsNames ==
  ASSUME NamingInv, NEW i \in AgentIds, NEW n \in Names, UpdateProfile(i, n)
  PROVE  NamingInv'
<1>0. RegistryTypeOK /\ VisitSound(i) /\ session[i] \in Visits /\ session[i].stage = "in"
  BY DEF NamingInv, RegistryTypeOK, UpdateProfile
<1>1. PICK a \in AccountIds : a = session[i].account /\ names[a] # None
  BY <1>0 DEF VisitSound
<1> DEFINE s == [session[i] EXCEPT !.stage = "sync", !.new = n]
<1>2. s \in Visits /\ s.stage = "sync" /\ s.account = a /\ s.old = session[i].old /\ s.new = n
  BY <1>0, <1>1 DEF Visits
<1>3. /\ names' = [names EXCEPT ![a] = n]
      /\ session' = [session EXCEPT ![i] = s]
      /\ torn' = torn \cup {b \in {a} : Unsettled(b)}
      /\ UNCHANGED <<rows, threads, mapped, memories, editing, orphans, unsynced>>
  BY <1>1 DEF UpdateProfile
<1> HIDE DEF s
<1>4. VisitBecomes(i, s)
  BY <1>0, <1>2, <1>3 DEF VisitBecomes, RegistryTypeOK
<1>5. names'[a] = n /\ n # None /\ \A b \in AccountIds : b # a => names'[b] = names[b]
  BY <1>0, <1>3, RegistryAssumption DEF RegistryTypeOK
<1>6. RegistryTypeOK'
  BY <1>0, <1>3, <1>4 DEF RegistryTypeOK, VisitBecomes
<1>7. a \notin torn' => /\ \A r \in Requests : ~RenamesAccount(r, a)
                        /\ \A j \in AgentIds : ~VisitRenames(j, a)
  BY <1>3 DEF Unsettled, Renaming, RenamesAccount, VisitRenames
<1>8. torn \subseteq torn'
  BY <1>3
<1>9. /\ \A r \in Requests : EditSound(r)'
      /\ OneCreates'
      /\ \A b : \A r \in Requests : RenamesAccount(r, b)' <=> RenamesAccount(r, b)
  BY <1>3, <1>7, <1>8, SoundAfterRename
<1>10. \A j \in AgentIds : VisitSound(j)'
  <2>1. VisitSound(i)'
    BY <1>0, <1>1, <1>2, <1>4, <1>5 DEF VisitSound, VisitBecomes
  <2>2. ASSUME NEW j \in AgentIds, j # i PROVE VisitSound(j)'
    <3>1. VisitSound(j) /\ session'[j] = session[j]
      BY <1>4, <2>2 DEF NamingInv, VisitBecomes
    <3>2. session[j].stage = "sync" /\ session[j].account = a => a \in torn'
      BY <1>7 DEF VisitRenames
    <3>3. QED
      BY <1>5, <1>8, <3>1, <3>2 DEF VisitSound
  <2>3. QED
    BY <2>1, <2>2
<1>11. /\ \A b : \A j \in AgentIds : VisitRenames(j, b)' => VisitRenames(j, b) \/ (j = i /\ b = a)
       /\ \A b : \A j \in AgentIds : VisitRenames(j, b) => VisitRenames(j, b)'
  BY <1>0, <1>2, <1>4 DEF VisitRenames, VisitBecomes
<1>12. OneRenames'
  BY <1>7, <1>8, <1>9, <1>11 DEF NamingInv, OneRenames
<1>13. RowsSound' /\ NamesAgree'
  <2>1. Renaming(a)'
    BY <1>2, <1>4 DEF Renaming, VisitBecomes
  <2>2. \A r \in Requests, b \in AccountIds \ torn' : b # a =>
          (RenamesAccount(r, b)' <=> RenamesAccount(r, b))
    BY <1>9
  <2>3. \A j \in AgentIds, b \in AccountIds \ torn' : b # a =>
          (VisitRenames(j, b)' <=> VisitRenames(j, b))
    BY <1>11
  <2>4. UNCHANGED rows
    BY <1>3
  <2>5. QED
    BY <1>1, <1>3, <1>8, <2>1, <2>2, <2>3, <2>4, RenamedAccount
<1>14. QED
  BY <1>6, <1>9, <1>10, <1>12, <1>13 DEF NamingInv

\* ... which the row takes over, ...
LEMMA SyncProfileKeepsNames ==
  ASSUME NamingInv, NEW i \in AgentIds, SyncProfile(i)
  PROVE  NamingInv'
<1>0. /\ RegistryTypeOK /\ VisitSound(i) /\ session[i] \in Visits /\ session[i].stage = "sync"
      /\ rows[i] \in AgentRows
  BY DEF NamingInv, RegistryTypeOK, SyncProfile
<1>1. PICK a \in AccountIds, n \in Names :
        /\ a = session[i].account /\ names[a] # None /\ n = session[i].new
        /\ a \notin torn => names[a] = n
        /\ Here(i) /\ rows[i].account = a
  BY <1>0 DEF VisitSound, SyncProfile, OwnRow
<1> DEFINE s == [session[i] EXCEPT !.stage = "in", !.old = n, !.new = None]
<1>2. s \in Visits /\ s.stage = "in" /\ s.account = a /\ s.old = n
  BY <1>0, <1>1 DEF Visits
<1>3. /\ rows' = [rows EXCEPT ![i].name = n]
      /\ threads' = [threads EXCEPT ![i] = IF @ = None THEN None ELSE n]
      /\ mapped' = {<<rows'[j].account, rows'[j].name>> : j \in {j \in AgentIds : Linked(j)}}
      /\ session' = [session EXCEPT ![i] = s]
      /\ UNCHANGED <<names, memories, editing, torn, orphans, unsynced>>
  BY <1>1 DEF SyncProfile
<1> HIDE DEF s
<1>4. VisitBecomes(i, s)
  BY <1>0, <1>2, <1>3 DEF VisitBecomes, RegistryTypeOK
<1>5. /\ rows' \in [AgentIds -> AgentRows]
      /\ rows'[i].account = rows[i].account /\ rows'[i].name = n /\ rows'[i].status = rows[i].status
      /\ \A j \in AgentIds : j # i => rows'[j] = rows[j]
  <2>1. [rows[i] EXCEPT !.name = n] \in AgentRows
    BY <1>0 DEF AgentRows
  <2>2. QED
    BY <1>0, <1>3, <2>1 DEF RegistryTypeOK, AgentRows
<1>6. \A j \in AgentIds : Linked(j)' = Linked(j) /\ Here(j)' = Here(j)
  BY <1>5 DEF Linked, Here
<1>7. mapped' \subseteq AccountIds \X Names
  <2>1. \A j \in AgentIds : Linked(j) => rows'[j].account \in AccountIds /\ rows'[j].name \in Names
    BY <1>0, <1>5, RegistryAssumption DEF NamingInv, RowsSound, RegistryTypeOK, AgentRows,
                                          AccountIds, Linked
  <2>2. QED
    BY <1>3, <2>1
<1>8. threads' \in [AgentIds -> Names \cup {None}]
  BY <1>0, <1>3 DEF RegistryTypeOK
<1>9. RegistryTypeOK'
  BY <1>0, <1>3, <1>4, <1>5, <1>7, <1>8 DEF RegistryTypeOK, VisitBecomes
<1>10. \A r \in Requests : EditSound(r)'
  <2> SUFFICES ASSUME NEW r \in Requests PROVE EditSound(r)'
    OBVIOUS
  <2>1. EditSound(r) /\ editing'[r] = editing[r] /\ (Registering(r)' <=> Registering(r))
    BY <1>3 DEF NamingInv, Registering
  <2>2. CASE editing[r].stage = "idle"
    BY <2>1, <2>2 DEF EditSound, Registering
  <2>3. CASE editing[r].stage # "idle"
    <3>1. PICK j \in AgentIds : j = editing[r].agent
      BY <2>1, <2>3 DEF EditSound
    <3>2. rows'[j].status = rows[j].status /\ rows'[j].account = rows[j].account
      BY <1>5
    <3>3. QED
      BY <1>3, <2>1, <3>1, <3>2, EditSoundStays
  <2>4. QED
    BY <2>2, <2>3
<1>11. \A j \in AgentIds : VisitSound(j)'
  <2>1. VisitSound(i)'
    BY <1>1, <1>2, <1>3, <1>4 DEF VisitSound, VisitBecomes
  <2>2. QED
    BY <1>3, <1>4, <2>1 DEF NamingInv, VisitSound, VisitBecomes
<1>12. RowsSound' /\ OneCreates'
  BY <1>3, <1>5, <1>6 DEF NamingInv, RowsSound, OneCreates, Registering
<1>13. /\ \A b : \A r \in Requests : RenamesAccount(r, b)' <=> RenamesAccount(r, b)
       /\ \A b : \A j \in AgentIds : VisitRenames(j, b)' => VisitRenames(j, b)
       /\ \A b : \A j \in AgentIds : VisitRenames(j, b) => VisitRenames(j, b)' \/ b = a
  BY <1>1, <1>2, <1>3, <1>4 DEF RenamesAccount, VisitRenames, VisitBecomes
<1>14. OneRenames'
  BY <1>3, <1>13 DEF NamingInv, OneRenames
<1>15. NamesAgree'
  <2>1. \A b : AgentsOf(b)' = AgentsOf(b)
    BY <1>5, <1>6 DEF AgentsOf
  <2> SUFFICES ASSUME NEW j \in AgentIds, Linked(j), rows[j].account \notin torn
               PROVE  /\ AgentsOf(rows[j].account) = {j}
                      /\ ~Renaming(rows[j].account)' => names[rows[j].account] = rows'[j].name
    BY <1>3, <1>5, <1>6, <2>1 DEF NamesAgree
  <2>2. PICK b \in AccountIds \ torn : b = rows[j].account
    BY <1>0, RegistryAssumption DEF Linked, RegistryTypeOK, AgentRows, AccountIds
  <2>3. AgentsOf(b) = {j} /\ (~Renaming(b) => names[b] = rows[j].name) /\ b # 0
    BY <2>2 DEF NamingInv, NamesAgree, AccountIds
  <2>4. CASE j = i
    BY <1>1, <1>5, <2>2, <2>3, <2>4
  <2>5. CASE j # i
    <3>1. a # b
      BY <1>1, <2>2, <2>3, <2>5 DEF AgentsOf, Linked
    <3>2. Renaming(b) => Renaming(b)'
      BY <1>13, <3>1 DEF Renaming, RenamesAccount, VisitRenames
    <3>3. QED
      BY <1>5, <2>2, <2>3, <2>5, <3>2
  <2>6. QED
    BY <2>4, <2>5
<1>16. QED
  BY <1>9, <1>10, <1>11, <1>12, <1>14, <1>15 DEF NamingInv

\* ... or the compensation puts back, which is compared with the row.
LEMMA RevertKeepsNames ==
  ASSUME NamingInv, NEW i \in AgentIds, Revert(i)
  PROVE  NamingInv'
<1>0. RegistryTypeOK /\ VisitSound(i) /\ session[i] \in Visits /\ session[i].stage = "revert"
  BY DEF NamingInv, RegistryTypeOK, Revert
<1>1. PICK a \in AccountIds, n \in Names :
        a = session[i].account /\ names[a] # None /\ n = session[i].old
  BY <1>0 DEF VisitSound
<1> DEFINE s == [session[i] EXCEPT !.stage = "in", !.new = None]
<1>2. s \in Visits /\ s.stage = "in" /\ s.account = a /\ s.old = n
  BY <1>0, <1>1 DEF Visits
<1>3. /\ names' = [names EXCEPT ![a] = n]
      /\ session' = [session EXCEPT ![i] = s]
      /\ torn' = torn \cup {b \in {a} : \E j \in AgentsOf(b) : rows[j].name # n}
      /\ UNCHANGED <<rows, threads, mapped, memories, editing, orphans, unsynced>>
  BY <1>1 DEF Revert, Restores
<1> HIDE DEF s
<1>4. VisitBecomes(i, s)
  BY <1>0, <1>2, <1>3 DEF VisitBecomes, RegistryTypeOK
<1>5. names'[a] = n /\ n # None /\ \A b \in AccountIds : b # a => names'[b] = names[b]
  BY <1>0, <1>3, RegistryAssumption DEF RegistryTypeOK
<1>6. RegistryTypeOK'
  BY <1>0, <1>3, <1>4 DEF RegistryTypeOK, VisitBecomes
<1>7. a \notin torn => /\ \A r \in Requests : ~RenamesAccount(r, a)
                       /\ \A j \in AgentIds : j # i => ~VisitRenames(j, a)
  <2>1. VisitRenames(i, a)
    BY <1>0, <1>1 DEF VisitRenames
  <2>2. QED
    BY <2>1 DEF NamingInv, OneRenames
<1>8. torn \subseteq torn'
  BY <1>3
<1>9. /\ \A r \in Requests : EditSound(r)'
      /\ OneCreates'
      /\ \A b : \A r \in Requests : RenamesAccount(r, b)' <=> RenamesAccount(r, b)
  BY <1>3, <1>7, <1>8, SoundAfterRename
<1>10. \A j \in AgentIds : VisitSound(j)'
  <2>1. VisitSound(i)'
    BY <1>1, <1>2, <1>4, <1>5 DEF VisitSound, VisitBecomes
  <2>2. ASSUME NEW j \in AgentIds, j # i PROVE VisitSound(j)'
    <3>1. VisitSound(j) /\ session'[j] = session[j]
      BY <1>4, <2>2 DEF NamingInv, VisitBecomes
    <3>2. session[j].stage = "sync" /\ session[j].account = a => a \in torn'
      BY <1>7, <1>8, <2>2 DEF VisitRenames
    <3>3. QED
      BY <1>5, <1>8, <3>1, <3>2 DEF VisitSound
  <2>3. QED
    BY <2>1, <2>2
<1>11. /\ \A b : \A j \in AgentIds : VisitRenames(j, b)' => VisitRenames(j, b)
       /\ \A b : \A j \in AgentIds : VisitRenames(j, b) => VisitRenames(j, b)' \/ b = a
  BY <1>1, <1>2, <1>4 DEF VisitRenames, VisitBecomes
<1>12. OneRenames'
  BY <1>8, <1>9, <1>11 DEF NamingInv, OneRenames
<1>13. RowsSound' /\ NamesAgree'
  <2>1. a \in torn' \/ \A j \in AgentsOf(a) : rows[j].name = n
    BY <1>3
  <2>2. \A r \in Requests, b \in AccountIds \ torn' : b # a =>
          (RenamesAccount(r, b)' <=> RenamesAccount(r, b))
    BY <1>9
  <2>3. \A j \in AgentIds, b \in AccountIds \ torn' : b # a =>
          (VisitRenames(j, b)' <=> VisitRenames(j, b))
    BY <1>11
  <2>4. UNCHANGED rows
    BY <1>3
  <2>5. QED
    BY <1>1, <1>3, <1>8, <2>1, <2>2, <2>3, <2>4, RenamedAccount
<1>14. QED
  BY <1>6, <1>9, <1>10, <1>12, <1>13 DEF NamingInv

-----------------------------------------------------------------------------
LEMMA NamingInit == RegistryInit => NamingInv
<1> SUFFICES ASSUME RegistryInit PROVE NamingInv
  OBVIOUS
<1> USE DEF RegistryInit
<1>1. RegistryTypeOK
  BY EmptyRow, EmptyEdit, EmptyVisit DEF RegistryTypeOK
<1>2. \A q \in Requests : EditSound(q) /\ ~Registering(q)
  BY EmptyEdit DEF EditSound, Registering
<1>3. \A i \in AgentIds : VisitSound(i)
  BY EmptyVisit DEF VisitSound
<1>4. \A i \in AgentIds : rows[i].status = "none" /\ rows[i].account = 0
  BY DEF NoAgent
<1>5. RowsSound
  <2>1. \A a \in AccountIds : names[a] # None <=> a <= 0
    BY RegistryAssumption DEF AccountIds
  <2>2. 0 \in 0..MaxPlatform
    BY RegistryAssumption
  <2>3. QED
    BY <1>4, <2>1, <2>2 DEF RowsSound, Here
<1>6. OneCreates /\ OneRenames
  BY <1>2, EmptyEdit, EmptyVisit DEF OneCreates, OneRenames, RenamesAccount, VisitRenames
<1>7. NamesAgree
  BY <1>4 DEF NamesAgree, Linked
<1>8. QED
  BY <1>1, <1>2, <1>3, <1>5, <1>6, <1>7 DEF NamingInv

LEMMA NamingNext == NamingInv /\ [RegistryNext]_registryVars => NamingInv'
<1> SUFFICES ASSUME NamingInv, [RegistryNext]_registryVars PROVE NamingInv'
  OBVIOUS
<1>1. CASE UNCHANGED registryVars
  <2>1. RegistryTypeOK' /\ \A i \in AgentIds : VisitSound(i)'
    BY <1>1 DEF registryVars, NamingInv, RegistryTypeOK, VisitSound
  <2>2. \A a : \A i \in AgentIds : VisitRenames(i, a)' <=> VisitRenames(i, a)
    BY <1>1 DEF registryVars, VisitRenames
  <2>3. QED
    BY <1>1, <2>1, <2>2, VisitsStay DEF registryVars
<1>2. ASSUME NEW q \in Requests, NEW i \in AgentIds, NEW n \in Names,
             \/ \E active \in BOOLEAN : Create(q, i, n, active)
             \/ Import(q, i, n) \/ ImportStream(q, i, n)
      PROVE  NamingInv'
  <2>1. PICK active \in BOOLEAN, action \in {"start", "none", "all", "stream"} :
          /\ IsFresh(i)
          /\ rows' = [rows EXCEPT ![i] = [NoAgent EXCEPT !.status = "here", !.name = n,
                                                         !.active = active]]
          /\ Begins(q, [NotEditing EXCEPT !.stage = "register", !.agent = i, !.new = n,
                          !.action = action])
          /\ UNCHANGED <<names, threads, mapped, memories, session, torn, orphans, unsynced>>
    <3>1. CASE \E active \in BOOLEAN : Create(q, i, n, active)
      BY <3>1 DEF Create
    <3>2. CASE Import(q, i, n)
      BY <3>2 DEF Import, Imports
    <3>3. CASE ImportStream(q, i, n)
      BY <3>3 DEF ImportStream, Imports
    <3>4. QED
      BY <1>2, <3>1, <3>2, <3>3
  <2>2. QED
    BY <2>1, CreationKeepsNames
<1>3. CASE \E q \in Requests :
             \/ \E i \in AgentIds :
                  \/ \E n \in Names : \/ \E active \in BOOLEAN : Create(q, i, n, active)
                                      \/ Import(q, i, n) \/ ImportStream(q, i, n)
                                      \/ Rename(q, i, n)
                  \/ \E active \in BOOLEAN : SetActive(q, i, active)
                  \/ RestartAgent(q, i) \/ DeleteAgent(q, i)
             \/ Register(q) \/ RegisterFails(q) \/ Link(q) \/ Undo(q) \/ SkipUser(q)
             \/ RenameAtPlatform(q) \/ UpdateRow(q)
             \/ Clear(q) \/ Drop(q)
             \/ Notify(q) \/ LoseNotice(q) \/ Abandon(q)
  BY <1>2, <1>3, RenameKeepsNames, NoticeRequested, RegisterKeepsNames, RegisteringGoesOn,
     LinkKeepsNames, RemovalKeepsNames, RenameAtPlatformKeepsNames, UpdateRowKeepsNames,
     ClearKeepsNames, NoticeKeepsNames, AbandonKeepsNames
<1>4. CASE RestartScheduler
  BY <1>4, RestartKeepsNames
<1>5. CASE \E i \in AgentIds :
             \/ Login(i) \/ \E n \in Names : UpdateProfile(i, n)
             \/ SyncProfile(i) \/ SyncFails(i) \/ Revert(i) \/ RevertFails(i)
             \/ Remember(i) \/ EndSession(i)
  BY <1>5, LoginKeepsNames, UpdateProfileKeepsNames, SyncProfileKeepsNames, LeavingKeepsNames,
     RevertKeepsNames, RememberKeepsNames
<1>6. QED
  BY <1>1, <1>3, <1>4, <1>5 DEF RegistryNext

LEMMA NamingInvariant == RegistrySpec => []NamingInv
BY NamingInit, NamingNext, PTL DEF RegistrySpec

\* The rows of agents, their accounts and threads, and what requests and
\* sessions carry, keep their types.
THEOREM RegistryTypes == RegistrySpec => []RegistryTypeOK
<1>1. NamingInv => RegistryTypeOK
  BY DEF NamingInv
<1>2. QED
  BY <1>1, NamingInvariant, PTL

\* An agent is called the same in its row and on the platform and shares its
\* account with no other, for every number of agents, accounts, names and
\* overlapping requests, unless the account is torn (api/agents.py:424-462,
\* 521-572, registrar.py:285-339, registry.py:419-476).
THEOREM AgentsKeepOneName == RegistrySpec => []NamesAgree
<1>1. NamingInv => NamesAgree
  BY DEF NamingInv
<1>2. QED
  BY <1>1, NamingInvariant, PTL

-----------------------------------------------------------------------------
(* Memories                                                                *)

\* The inductive invariant behind MemoriesGoWithAgent.
MemoriesInv == NamingInv /\ ClearedBeforeDrop /\ MemoriesGoWithAgent

\* Only a deletion takes away a link, ...
LEMMA LinksKept ==
  ASSUME NamingInv, RegistryNext, \A q \in Requests : ~Drop(q)
  PROVE  \A i \in AgentIds : Linked(i) => Linked(i)' /\ rows'[i].account = rows[i].account
<1>0. rows \in [AgentIds -> AgentRows]
  BY DEF NamingInv, RegistryTypeOK
<1> USE DEF Linked, Here
<1>1. CASE UNCHANGED rows
  BY <1>1
<1>2. ASSUME NEW i \in AgentIds, IsFresh(i), NEW row, rows' = [rows EXCEPT ![i] = row]
      PROVE  \A j \in AgentIds : Linked(j) => Linked(j)' /\ rows'[j].account = rows[j].account
  <2>1. rows[i].status = "none"
    BY <1>2 DEF IsFresh, AgentIds
  <2>2. QED
    BY <1>0, <1>2, <2>1
<1>3. ASSUME NEW q \in Requests, Registering(q), NEW row, rows' = [rows EXCEPT ![editing[q].agent] = row]
      PROVE  \A j \in AgentIds : Linked(j) => Linked(j)' /\ rows'[j].account = rows[j].account
  <2>1. editing[q].agent \in AgentIds /\ rows[editing[q].agent].account = 0
    BY <1>3 DEF NamingInv, EditSound, Registering
  <2>2. QED
    BY <1>0, <1>3, <2>1
<1>4. ASSUME NEW i \in AgentIds, NEW n, rows' = [rows EXCEPT ![i].name = n]
      PROVE  \A j \in AgentIds : Linked(j) => Linked(j)' /\ rows'[j].account = rows[j].account
  BY <1>0, <1>4 DEF AgentRows
<1>5. ASSUME NEW i \in AgentIds, NEW active, rows' = [rows EXCEPT ![i].active = active]
      PROVE  \A j \in AgentIds : Linked(j) => Linked(j)' /\ rows'[j].account = rows[j].account
  BY <1>0, <1>5 DEF AgentRows
<1>6. ASSUME NEW q \in Requests, NEW i \in AgentIds, NEW n \in Names,
             \/ \E active \in BOOLEAN : Create(q, i, n, active)
             \/ Import(q, i, n) \/ ImportStream(q, i, n)
      PROVE  \E row : IsFresh(i) /\ rows' = [rows EXCEPT ![i] = row]
  BY <1>6 DEF Create, Import, ImportStream, Imports
<1>7. ASSUME NEW q \in Requests, Link(q) \/ Undo(q)
      PROVE  \A j \in AgentIds : Linked(j) => Linked(j)' /\ rows'[j].account = rows[j].account
  <2>1. Registering(q)
    BY <1>7 DEF Link, Undo, Registering
  <2>2. \E row : rows' = [rows EXCEPT ![editing[q].agent] = row]
    BY <1>7 DEF Link, Links, Undo
  <2>3. QED
    BY <1>3, <2>1, <2>2
<1>8. ASSUME NEW q \in Requests, UpdateRow(q)
      PROVE  \A j \in AgentIds : Linked(j) => Linked(j)' /\ rows'[j].account = rows[j].account
  <2>1. editing[q].agent \in AgentIds
    BY <1>8 DEF NamingInv, EditSound, UpdateRow
  <2>2. QED
    BY <1>4, <1>8, <2>1 DEF UpdateRow, SavesName
<1>9. ASSUME NEW q \in Requests,
             \/ Register(q) \/ RegisterFails(q) \/ SkipUser(q) \/ RenameAtPlatform(q) \/ Clear(q)
             \/ Notify(q) \/ LoseNotice(q) \/ Abandon(q)
             \/ \E i \in AgentIds : \/ RestartAgent(q, i) \/ DeleteAgent(q, i)
                                    \/ \E n \in Names : Rename(q, i, n)
      PROVE  UNCHANGED rows
  BY <1>9 DEF Register, RegisterFails, SkipUser, RenameAtPlatform, Clear, Notify, LoseNotice,
              Abandon, RestartAgent, DeleteAgent, Rename
<1>10. ASSUME NEW i \in AgentIds,
              \/ Login(i) \/ \E n \in Names : UpdateProfile(i, n)
              \/ SyncFails(i) \/ Revert(i) \/ RevertFails(i) \/ Remember(i) \/ EndSession(i)
       PROVE  UNCHANGED rows
  BY <1>10 DEF Login, UpdateProfile, SyncFails, Revert, RevertFails, Remember, EndSession
<1>11. CASE RestartScheduler
  BY <1>11 DEF RestartScheduler
<1>12. QED
  BY <1>1, <1>2, <1>4, <1>5, <1>6, <1>7, <1>8, <1>9, <1>10, <1>11
     DEF RegistryNext, SetActive, SyncProfile

\* ... and only one that has cleared the memories is about to drop the row.
LEMMA DropsKept ==
  ASSUME NamingInv, RegistryNext, NEW q \in Requests, editing'[q].stage = "drop"
  PROVE  editing'[q] = editing[q] \/ Clear(q)
<1>0. RegistryTypeOK /\ editing \in [Requests -> Edits]
  BY DEF NamingInv, RegistryTypeOK
<1>1. CASE UNCHANGED editing
  BY <1>1
<1>2. ASSUME NEW r \in Requests, NEW stage \in Stages \ {"drop"}, Goes(r, stage)
      PROVE  editing'[q] = editing[q]
  BY <1>0, <1>2, EditGoes DEF EditBecomes
<1>3. ASSUME NEW r \in Requests, Ends(r)
      PROVE  editing'[q] = editing[q]
  BY <1>0, <1>3, EditEnds DEF EditBecomes
<1>4. ASSUME NEW r \in Requests, NEW e, e.stage # "drop", Begins(r, e)
      PROVE  editing'[q] = editing[q]
  BY <1>0, <1>4 DEF Begins
<1>5. ASSUME NEW r \in Requests, NEW i \in AgentIds,
             \/ \E n \in Names : \/ \E active \in BOOLEAN : Create(r, i, n, active)
                                 \/ Import(r, i, n) \/ ImportStream(r, i, n)
                                 \/ Rename(r, i, n)
             \/ \E active \in BOOLEAN : SetActive(r, i, active)
             \/ RestartAgent(r, i) \/ DeleteAgent(r, i)
      PROVE  \E e : e.stage # "drop" /\ Begins(r, e)
  <2> USE DEF NotEditing
  <2>1. CASE \E n \in Names, active \in BOOLEAN : Create(r, i, n, active)
    BY <2>1 DEF Create
  <2>2. CASE \E n \in Names : Import(r, i, n) \/ ImportStream(r, i, n)
    BY <2>2 DEF Import, ImportStream, Imports
  <2>3. CASE \E n \in Names : Rename(r, i, n)
    BY <2>3 DEF Rename
  <2>4. CASE \E active \in BOOLEAN : SetActive(r, i, active)
    BY <2>4 DEF SetActive
  <2>5. CASE RestartAgent(r, i) \/ DeleteAgent(r, i)
    BY <2>5 DEF RestartAgent, DeleteAgent
  <2>6. QED
    BY <1>5, <2>1, <2>2, <2>3, <2>4, <2>5
<1>6. ASSUME NEW r \in Requests, Register(r)
      PROVE  editing'[q] = editing[q]
  <2>1. PICK stage \in {"link", "undo"} :
          \E a : editing' = [editing EXCEPT ![r].stage = stage, ![r].account = a]
    BY <1>6 DEF Register
  <2>2. QED
    BY <1>0, <2>1 DEF Edits
<1>7. ASSUME NEW r \in Requests,
             \/ RegisterFails(r) \/ Link(r) \/ Undo(r) \/ SkipUser(r)
             \/ RenameAtPlatform(r) \/ UpdateRow(r) \/ Drop(r)
             \/ Notify(r) \/ LoseNotice(r) \/ Abandon(r)
      PROVE  Ends(r) \/ \E stage \in Stages \ {"drop"} : Goes(r, stage)
  BY <1>7 DEF RegisterFails, Link, Undo, SkipUser, RenameAtPlatform, UpdateRow, Drop, Notify,
              LoseNotice, Abandon, Continues, Stages
<1>8. ASSUME NEW i \in AgentIds,
             \/ Login(i) \/ \E n \in Names : UpdateProfile(i, n)
             \/ SyncProfile(i) \/ SyncFails(i) \/ Revert(i) \/ RevertFails(i)
             \/ Remember(i) \/ EndSession(i)
      PROVE  UNCHANGED editing
  BY <1>8 DEF Login, UpdateProfile, SyncProfile, SyncFails, Revert, RevertFails, Remember,
              EndSession
<1>9. CASE \E r \in Requests : Clear(r)
  <2>1. PICK r \in Requests : Clear(r)
    BY <1>9
  <2>2. CASE r = q
    BY <2>1, <2>2
  <2>3. CASE r # q
    BY <1>0, <2>1, <2>3 DEF Clear, Goes
  <2>4. QED
    BY <2>2, <2>3
<1>10. CASE RestartScheduler
  BY <1>10 DEF RestartScheduler
<1>11. QED
  BY <1>1, <1>2, <1>3, <1>4, <1>5, <1>6, <1>7, <1>8, <1>9, <1>10 DEF RegistryNext

LEMMA MemoriesNext == MemoriesInv /\ [RegistryNext]_registryVars => MemoriesInv'
<1> SUFFICES ASSUME MemoriesInv, [RegistryNext]_registryVars PROVE MemoriesInv'
  OBVIOUS
<1>0. NamingInv /\ NamingInv' /\ RegistryTypeOK
  BY NamingNext DEF MemoriesInv, NamingInv
<1>1. CASE UNCHANGED registryVars
  BY <1>0, <1>1 DEF registryVars, MemoriesInv, ClearedBeforeDrop, MemoriesGoWithAgent, AgentsOf,
                    Linked, Here
<1>2. CASE \E q \in Requests : Clear(q)
  <2>1. PICK q \in Requests : Clear(q)
    BY <1>2
  <2>2. /\ memories' = memories \ {editing[q].account}
        /\ editing'[q].account = editing[q].account /\ UNCHANGED <<rows, orphans>>
        /\ \A r \in Requests : r # q => editing'[r] = editing[r]
    BY <1>0, <2>1, EditGoes DEF Clear, Cleared, Stages, EditBecomes
  <2>3. MemoriesGoWithAgent'
    BY <2>2 DEF MemoriesInv, MemoriesGoWithAgent, AgentsOf, Linked, Here
  <2>4. ClearedBeforeDrop'
    BY <2>2 DEF MemoriesInv, ClearedBeforeDrop
  <2>5. QED
    BY <1>0, <2>3, <2>4 DEF MemoriesInv
<1>3. CASE \E q \in Requests : Drop(q)
  <2>1. PICK q \in Requests : Drop(q)
    BY <1>3
  <2>2. PICK i \in AgentIds : i = editing[q].agent
    BY <1>0, <2>1 DEF Drop, NamingInv, EditSound
  <2>3. /\ \A j \in AgentIds : j # i => rows'[j] = rows[j]
        /\ memories' = memories /\ orphans' = orphans \cup ({rows[i].account} \ {0, editing[q].account})
        /\ Ends(q)
    BY <1>0, <2>1, <2>2 DEF Drop, RegistryTypeOK
  <2>4. editing[q].account \notin memories \ orphans
    BY <2>1 DEF Drop, MemoriesInv, ClearedBeforeDrop
  <2>5. MemoriesGoWithAgent'
    <3> SUFFICES ASSUME NEW a \in memories \ orphans, a \notin orphans' PROVE AgentsOf(a)' # {}
      BY <2>3 DEF MemoriesGoWithAgent
    <3>1. PICK j \in AgentIds : Linked(j) /\ rows[j].account = a /\ a # 0
      BY DEF MemoriesInv, MemoriesGoWithAgent, AgentsOf, Linked
    <3>2. j # i
      BY <2>3, <2>4, <3>1
    <3>3. QED
      BY <2>3, <3>1, <3>2 DEF AgentsOf, Linked, Here
  <2>6. ClearedBeforeDrop'
    <3>1. \A r \in Requests : editing'[r].stage = "drop" => editing'[r] = editing[r]
      BY <1>0, <2>3, EditEnds DEF EditBecomes
    <3>2. QED
      BY <2>3, <3>1 DEF MemoriesInv, ClearedBeforeDrop
  <2>7. QED
    BY <1>0, <2>5, <2>6 DEF MemoriesInv
<1>4. CASE \E i \in AgentIds : Remember(i)
  <2>1. PICK i \in AgentIds : Remember(i)
    BY <1>4
  <2> DEFINE a == session[i].account
  <2>2. /\ memories' = memories \cup {a} /\ orphans \subseteq orphans'
        /\ AgentsOf(a) = {} => a \in orphans'
        /\ \A q \in Requests : editing[q].stage = "drop" /\ editing[q].account = a => a \in orphans'
        /\ UNCHANGED <<rows, editing>>
    BY <2>1 DEF Remember
  <2> HIDE DEF a
  <2>3. MemoriesGoWithAgent'
    BY <2>2 DEF MemoriesInv, MemoriesGoWithAgent, AgentsOf, Linked, Here
  <2>4. ClearedBeforeDrop'
    BY <2>2 DEF MemoriesInv, ClearedBeforeDrop
  <2>5. QED
    BY <1>0, <2>3, <2>4 DEF MemoriesInv
<1>5. CASE /\ RegistryNext
           /\ ~\E q \in Requests : Clear(q) \/ Drop(q)
           /\ ~\E i \in AgentIds : Remember(i)
  <2>1. UNCHANGED <<memories, orphans>>
    <3>1. ASSUME NEW q \in Requests, NEW i \in AgentIds,
                 \/ \E n \in Names : \/ \E active \in BOOLEAN : Create(q, i, n, active)
                                     \/ Import(q, i, n) \/ ImportStream(q, i, n)
                                     \/ Rename(q, i, n)
                 \/ \E active \in BOOLEAN : SetActive(q, i, active)
                 \/ RestartAgent(q, i) \/ DeleteAgent(q, i)
          PROVE  UNCHANGED <<memories, orphans>>
      BY <3>1 DEF Create, Import, ImportStream, Imports, Rename, SetActive, RestartAgent, DeleteAgent
    <3>2. ASSUME NEW q \in Requests,
                 \/ Register(q) \/ RegisterFails(q) \/ Link(q) \/ Undo(q) \/ SkipUser(q)
                 \/ RenameAtPlatform(q) \/ UpdateRow(q)
                 \/ Notify(q) \/ LoseNotice(q) \/ Abandon(q)
          PROVE  UNCHANGED <<memories, orphans>>
      BY <3>2 DEF Register, RegisterFails, Link, Undo, SkipUser, RenameAtPlatform, UpdateRow,
                  Notify, LoseNotice, Abandon
    <3>3. ASSUME NEW i \in AgentIds,
                 \/ Login(i) \/ \E n \in Names : UpdateProfile(i, n)
                 \/ SyncProfile(i) \/ SyncFails(i) \/ Revert(i) \/ RevertFails(i)
                 \/ EndSession(i)
          PROVE  UNCHANGED <<memories, orphans>>
      BY <3>3 DEF Login, UpdateProfile, SyncProfile, SyncFails, Revert, RevertFails, EndSession
    <3>4. CASE RestartScheduler
      BY <3>4 DEF RestartScheduler
    <3>5. QED
      BY <1>5, <3>1, <3>2, <3>3, <3>4 DEF RegistryNext
  <2>2. \A i \in AgentIds : Linked(i) => Linked(i)' /\ rows'[i].account = rows[i].account
    BY <1>0, <1>5, LinksKept
  <2>3. \A q \in Requests : editing'[q].stage = "drop" => editing'[q] = editing[q]
    BY <1>0, <1>5, DropsKept
  <2>4. MemoriesGoWithAgent'
    BY <2>1, <2>2 DEF MemoriesInv, MemoriesGoWithAgent, AgentsOf
  <2>5. ClearedBeforeDrop'
    BY <2>1, <2>3 DEF MemoriesInv, ClearedBeforeDrop
  <2>6. QED
    BY <1>0, <2>4, <2>5 DEF MemoriesInv
<1>6. QED
  BY <1>1, <1>2, <1>3, <1>4, <1>5

\* Memories go when the agent is deleted, for every number of agents, accounts
\* and overlapping requests and sessions, unless a session wrote them after
\* they were cleared (api/agents.py:77-92, 575-603).
THEOREM NoMemoriesWithoutAgent == RegistrySpec => []MemoriesGoWithAgent
<1>1. RegistryInit => MemoriesInv
  BY NamingInit, EmptyEdit DEF RegistryInit, MemoriesInv, ClearedBeforeDrop, MemoriesGoWithAgent
<1>2. MemoriesInv => MemoriesGoWithAgent
  BY DEF MemoriesInv
<1>3. QED
  BY <1>1, <1>2, MemoriesNext, PTL DEF RegistrySpec

-----------------------------------------------------------------------------
(* What the scheduler follows                                              *)

\* Nothing that was owed to an agent is forgotten.
StillOwed(i) ==
  /\ WillRead(i) => WillRead(i)'
  /\ WillStart(i) => WillStart(i)'
  /\ WillStop(i) => WillStop(i)'
  /\ WillDrop(i) => WillDrop(i)'

\* The request that changes has told the scheduler of no agent, or another.
LEMMA OwedByOthers ==
  ASSUME NEW q \in Requests, EditBecomes(q, editing'[q]), NEW i \in AgentIds,
         Reads(q, i) => Reads(q, i)', Starts(q, i) => Starts(q, i)',
         Stops(q, i) => Stops(q, i)', Drops(q, i) => Drops(q, i)'
  PROVE  StillOwed(i)
<1>1. \A r \in Requests : r # q =>
        /\ Reads(r, i)' <=> Reads(r, i)
        /\ Starts(r, i)' <=> Starts(r, i)
        /\ Stops(r, i)' <=> Stops(r, i)
        /\ Drops(r, i)' <=> Drops(r, i)
  BY DEF EditBecomes, Reads, Starts, Stops, Drops
<1>2. QED
  BY <1>1 DEF StillOwed, WillRead, WillStart, WillStop, WillDrop

\* An agent that a step does not concern.
LEMMA OwedStays ==
  ASSUME NEW i \in AgentIds, ThreadOwed(i), rows'[i] = rows[i], threads'[i] = threads[i],
         StillOwed(i)
  PROVE  ThreadOwed(i)'
BY DEF ThreadOwed, StillOwed, Here, Wanted

LEMMA MapStays ==
  ASSUME NEW i \in AgentIds, MapOwed(i), mapped' = mapped, torn \subseteq torn',
         rows'[i].status = rows[i].status, rows'[i].account = rows[i].account,
         rows'[i].name = rows[i].name \/ WillRead(i)', StillOwed(i)
  PROVE  MapOwed(i)'
BY DEF MapOwed, StillOwed, Linked, Here

\* What is read anew is true of every agent whose account is not torn.
LEMMA MapReadAnew ==
  ASSUME NEW i \in AgentIds, NamesAgree',
         mapped' = {<<rows'[j].account, rows'[j].name>> : j \in {j \in AgentIds : Linked(j)'}}
  PROVE  MapOwed(i)'
<1> SUFFICES ASSUME Linked(i)', NEW n \in Names, <<rows'[i].account, n>> \in mapped',
                    rows'[i].account \notin torn'
             PROVE  n = rows'[i].name
  BY DEF MapOwed
<1>1. PICK j \in AgentIds : Linked(j)' /\ <<rows'[i].account, n>> = <<rows'[j].account, rows'[j].name>>
  OBVIOUS
<1>2. rows'[j].account = rows'[i].account /\ n = rows'[j].name
  BY <1>1
<1>3. AgentsOf(rows[i].account)' = {i}
  BY DEF NamesAgree
<1>4. j = i
  BY <1>1, <1>2, <1>3 DEF AgentsOf
<1>5. QED
  BY <1>2, <1>4

\* Steps that change neither rows nor what the scheduler knows.
LEMMA FollowsStays ==
  ASSUME FollowsInv, NamingInv', UNCHANGED <<rows, threads, mapped>>, torn \subseteq torn',
         \A i \in AgentIds \ unsynced' : i \notin unsynced /\ StillOwed(i)
  PROVE  FollowsInv'
BY OwedStays, MapStays DEF FollowsInv

\* Steps of sessions that do not reach the row.
LEMMA VisitsFollow ==
  ASSUME FollowsInv, NamingInv', UNCHANGED <<rows, threads, mapped, editing, unsynced>>,
         torn \subseteq torn'
  PROVE  FollowsInv'
<1>1. \A i \in AgentIds : StillOwed(i)
  BY DEF StillOwed, WillRead, WillStart, WillStop, WillDrop, Reads, Starts, Stops, Drops
<1>2. QED
  BY <1>1, FollowsStays

\* A request that begins owes nothing before.
LEMMA BeginningFollows ==
  ASSUME FollowsInv, NEW q \in Requests, NEW e, EditBecomes(q, e),
         editing[q].stage = "idle", NEW i \in AgentIds
  PROVE  StillOwed(i)
<1>1. EditBecomes(q, editing'[q])
  BY DEF EditBecomes
<1>2. ~Reads(q, i) /\ ~Starts(q, i) /\ ~Stops(q, i) /\ ~Drops(q, i)
  BY DEF Reads, Starts, Stops, Drops
<1>3. QED
  BY <1>1, <1>2, OwedByOthers

\* Requests that go on, are lost, or end without the scheduler.
LEMMA RequestsFollow ==
  ASSUME FollowsInv, NamingInv', NEW q \in Requests,
         \/ Register(q) \/ RegisterFails(q) \/ SkipUser(q) \/ RenameAtPlatform(q) \/ Clear(q)
         \/ LoseNotice(q) \/ Abandon(q)
  PROVE  FollowsInv'
<1>0. RegistryTypeOK /\ EditSound(q) /\ NamingInv
  BY DEF FollowsInv, NamingInv
<1>1. /\ UNCHANGED <<rows, threads, mapped>> /\ torn \subseteq torn' /\ unsynced \subseteq unsynced'
  BY DEF Register, RegisterFails, SkipUser, RenameAtPlatform, Clear, LoseNotice, Abandon
<1>2. /\ EditBecomes(q, editing'[q])
      /\ \A i \in AgentIds \ unsynced' :
           /\ Reads(q, i) => Reads(q, i)'
           /\ Starts(q, i) => Starts(q, i)'
           /\ Stops(q, i) => Stops(q, i)'
           /\ Drops(q, i) => Drops(q, i)'
  <2>1. CASE Register(q)
    <3>1. PICK stage \in {"link", "undo"} :
            \E a : editing' = [editing EXCEPT ![q].stage = stage, ![q].account = a]
      BY <2>1 DEF Register
    <3>2. editing[q].stage = "register"
      BY <2>1 DEF Register
    <3>3. /\ editing'[q].stage = stage /\ editing'[q].agent = editing[q].agent
          /\ editing'[q].action = editing[q].action
          /\ \A r \in Requests : r # q => editing'[r] = editing[r]
      BY <1>0, <3>1 DEF RegistryTypeOK, Edits
    <3>4. editing' \in [Requests -> Edits]
      BY DEF NamingInv, RegistryTypeOK
    <3>5. QED
      BY <3>2, <3>3, <3>4 DEF EditBecomes, Reads, Starts, Stops, Drops
  <2>2. CASE RegisterFails(q)
    <3>1. editing[q].stage = "register" /\ Goes(q, "undo")
      BY <2>2 DEF RegisterFails
    <3>2. QED
      BY <1>0, <3>1, EditGoes DEF Stages, Reads, Starts, Stops, Drops
  <2>3. CASE SkipUser(q)
    <3>1. /\ editing[q].stage \in {"register", "link", "undo"} /\ editing[q].action = "stream"
          /\ Goes(q, "notify")
      BY <2>3 DEF SkipUser
    <3>2. QED
      BY <1>0, <3>1, EditGoes DEF Stages, Reads, Starts, Stops, Drops
  <2>4. CASE RenameAtPlatform(q)
    <3>1. editing[q].stage = "platform" /\ (Goes(q, "local") \/ Ends(q))
      BY <2>4 DEF RenameAtPlatform
    <3>2. EditBecomes(q, editing'[q])
      BY <1>0, <3>1, EditGoes, EditEnds DEF Stages
    <3>3. QED
      BY <3>1, <3>2 DEF Reads, Starts, Stops, Drops
  <2>5. CASE Clear(q)
    <3>1. editing[q].stage = "clear" /\ Goes(q, "drop")
      BY <2>5 DEF Clear
    <3>2. QED
      BY <1>0, <3>1, EditGoes DEF Stages, Reads, Starts, Stops, Drops
  <2>6. CASE LoseNotice(q)
    <3>1. editing[q].agent \in unsynced'
      BY <1>0, <2>6 DEF LoseNotice, EditSound
    <3>2. EditBecomes(q, editing'[q])
      BY <1>0, <2>6, ContinueTypes DEF LoseNotice
    <3>3. QED
      BY <3>1, <3>2 DEF Reads, Starts, Stops, Drops
  <2>7. CASE Abandon(q)
    <3>1. editing[q].stage \notin {"platform", "local", "halt"} => editing[q].agent \in unsynced'
      BY <2>7 DEF Abandon
    <3>2. EditBecomes(q, editing'[q])
      BY <1>0, <2>7, EditEnds DEF Abandon
    <3>3. QED
      BY <3>1, <3>2 DEF Reads, Starts, Stops, Drops
  <2>8. QED
    BY <2>1, <2>2, <2>3, <2>4, <2>5, <2>6, <2>7
<1>3. \A i \in AgentIds \ unsynced' : i \notin unsynced /\ StillOwed(i)
  BY <1>1, <1>2, OwedByOthers
<1>4. QED
  BY <1>1, <1>3, FollowsStays

\* The thread of an agent that is told to start, stop or read its row again.
LEMMA NotifyFollows ==
  ASSUME FollowsInv, NamingInv', NEW q \in Requests, Notify(q)
  PROVE  FollowsInv'
<1>0. /\ RegistryTypeOK /\ EditSound(q) /\ NamingInv
      /\ editing[q].stage \in {"notify", "halt"} /\ Continues(q) /\ editing[q] \in Edits
  BY DEF FollowsInv, NamingInv, Notify, RegistryTypeOK
<1>1. /\ EditBecomes(q, editing'[q])
      /\ \/ editing[q].stage = "notify" /\ editing'[q].stage = "idle"
         \/ /\ editing[q].stage = "halt" /\ editing'[q].stage = "clear"
            /\ editing'[q].agent = editing[q].agent /\ editing'[q].account = editing[q].account
            /\ editing'[q].action = "stop"
  BY <1>0, ContinueTypes
<1>2. /\ mapped' = Mapping /\ UNCHANGED rows /\ unsynced \subseteq unsynced'
      /\ \A i \in AgentIds : threads'[i] =
           IF Everything(q) THEN (IF Here(i) THEN Target(i) ELSE threads[i])
           ELSE IF i = editing[q].agent THEN After(i, editing[q].action) ELSE threads[i]
      /\ editing[q].stage = "notify" /\ editing[q].action = "stop" /\ Wanted(editing[q].agent)
         => editing[q].agent \in unsynced'
  BY DEF Notify
<1>3. \A i \in AgentIds : MapOwed(i)'
  <2>1. mapped' = {<<rows'[j].account, rows'[j].name>> : j \in {j \in AgentIds : Linked(j)'}}
    BY <1>2 DEF Mapping, Linked, Here
  <2>2. QED
    BY <2>1, MapReadAnew DEF NamingInv
<1>4. \A i \in AgentIds : i # editing[q].agent => StillOwed(i)
  <2> SUFFICES ASSUME NEW i \in AgentIds, i # editing[q].agent PROVE StillOwed(i)
    OBVIOUS
  <2>1. ~Reads(q, i) /\ ~Starts(q, i) /\ ~Stops(q, i) /\ ~Drops(q, i)
    BY DEF Reads, Starts, Stops, Drops
  <2>2. QED
    BY <1>1, <2>1, OwedByOthers
<1>5. ASSUME NEW i \in AgentIds \ unsynced' PROVE ThreadOwed(i)'
  <2>0. /\ ThreadOwed(i) /\ i \in AgentIds /\ (Here(i)' <=> Here(i)) /\ (Wanted(i)' <=> Wanted(i))
        /\ rows'[i] = rows[i]
    BY <1>2 DEF FollowsInv, Here, Wanted
  <2>1. Wanted(i) => Here(i) /\ rows[i].name \in Names /\ rows[i].name # None
    BY <1>0, RegistryAssumption DEF Wanted, NamingInv, RowsSound
  <2>2. CASE threads'[i] = Target(i)
    BY <2>0, <2>1, <2>2 DEF ThreadOwed, Target, Wanted
  <2>3. CASE Everything(q) /\ threads'[i] # Target(i)
    BY <1>2, <2>0, <2>1, <2>3 DEF ThreadOwed, Target, Wanted
  <2>4. CASE ~Everything(q) /\ i # editing[q].agent
    BY <1>2, <1>4, <2>0, <2>4, OwedStays
  <2>5. CASE ~Everything(q) /\ i = editing[q].agent /\ threads'[i] # Target(i)
    <3>1. editing[q].action \in {"start", "stop", "restart"}
      BY <1>0, <2>5 DEF Everything, EditSound, Edits
    <3>2. threads'[i] = After(i, editing[q].action)
      BY <1>2, <2>5
    <3>3. CASE editing[q].action = "stop"
      <4>1. threads'[i] = None
        BY <3>2, <3>3 DEF After
      <4>2. Wanted(i)
        BY <2>5, <4>1 DEF Target
      <4>3. editing'[q].stage = "clear" /\ editing'[q].agent = i
        BY <1>1, <1>2, <2>5, <3>3, <4>2
      <4>4. WillDrop(i)'
        BY <4>3 DEF WillDrop, Drops
      <4>5. QED
        BY <2>0, <4>1, <4>2, <4>4 DEF ThreadOwed
    <3>4. CASE editing[q].action = "restart"
      <4>1. ~Here(i) /\ threads'[i] = threads[i]
        BY <2>5, <3>2, <3>4 DEF After, ReadAgain
      <4>2. QED
        BY <2>0, <2>1, <4>1 DEF ThreadOwed
    <3>5. CASE editing[q].action = "start"
      <4>1. threads'[i] = threads[i] /\ threads[i] # None
        BY <2>5, <3>2, <3>5 DEF After
      <4>2. ~Reads(q, i) /\ ~Stops(q, i) /\ ~Drops(q, i)
        BY <1>0, <3>5 DEF Reads, Stops, Drops
      <4>3. /\ WillRead(i) => WillRead(i)'
            /\ WillStop(i) => WillStop(i)' 
            /\ WillDrop(i) => WillDrop(i)'
        BY <1>1, <4>2 DEF WillRead, WillStop, WillDrop, Reads, Stops, Drops, EditBecomes
      <4>4. QED
        BY <2>0, <4>1, <4>3 DEF ThreadOwed
    <3>6. QED
      BY <3>1, <3>3, <3>4, <3>5
  <2>6. QED
    BY <2>2, <2>3, <2>4, <2>5
<1>6. QED
  BY <1>3, <1>5 DEF FollowsInv

LEMMA Begun ==
  ASSUME NamingInv, NamingInv', NEW q \in Requests, NEW e, Begins(q, e)
  PROVE  EditBecomes(q, e) /\ editing[q].stage = "idle"
BY DEF Begins, EditBecomes, NamingInv, RegistryTypeOK

\* Requests that begin: a change of the active flag owes a start or a stop, ...
LEMMA NoticeFollows ==
  ASSUME FollowsInv, NamingInv', NEW q \in Requests, NEW i \in AgentIds,
         \/ \E n \in Names : Rename(q, i, n)
         \/ \E active \in BOOLEAN : SetActive(q, i, active)
         \/ RestartAgent(q, i) \/ DeleteAgent(q, i)
  PROVE  FollowsInv'
<1>0. NamingInv /\ RegistryTypeOK /\ rows[i] \in AgentRows
  BY DEF FollowsInv, NamingInv, RegistryTypeOK
<1>1. CASE (\E n \in Names : Rename(q, i, n)) \/ RestartAgent(q, i) \/ DeleteAgent(q, i)
  <2>1. UNCHANGED <<rows, threads, mapped, torn, unsynced>> /\ \E e : Begins(q, e)
    BY <1>1 DEF Rename, RestartAgent, DeleteAgent
  <2>2. PICK e : EditBecomes(q, e) /\ editing[q].stage = "idle"
    BY <1>0, <2>1, Begun
  <2>3. \A j \in AgentIds : StillOwed(j)
    BY <2>2, BeginningFollows
  <2>4. QED
    BY <2>1, <2>3, FollowsStays
<1>2. CASE \E active \in BOOLEAN : SetActive(q, i, active)
  <2>1. PICK active \in BOOLEAN : SetActive(q, i, active)
    BY <1>2
  <2> DEFINE e == [NotEditing EXCEPT !.stage = "notify", !.agent = i,
                     !.action = IF active THEN "start" ELSE "stop"]
  <2>2. /\ e.stage = "notify" /\ e.agent = i
        /\ e.action = IF active THEN "start" ELSE "stop"
    BY EmptyEdit DEF Edits
  <2>3. /\ Begins(q, e) /\ rows' = [rows EXCEPT ![i].active = active] /\ Here(i)
        /\ UNCHANGED <<threads, mapped, torn, unsynced>>
    BY <2>1 DEF SetActive
  <2> HIDE DEF e
  <2>4. EditBecomes(q, e) /\ editing[q].stage = "idle"
    BY <1>0, <2>3, Begun
  <2>5. \A j \in AgentIds : StillOwed(j)
    BY <2>4, BeginningFollows
  <2>6. /\ \A j \in AgentIds : j # i => rows'[j] = rows[j]
        /\ rows'[i].status = rows[i].status /\ rows'[i].name = rows[i].name
        /\ rows'[i].account = rows[i].account /\ rows'[i].active = active
    BY <1>0, <2>3 DEF RegistryTypeOK, AgentRows
  <2>7. ASSUME NEW j \in AgentIds \ unsynced' PROVE ThreadOwed(j)' /\ MapOwed(j)'
    <3>0. ThreadOwed(j) /\ MapOwed(j) /\ StillOwed(j) /\ j \in AgentIds
      BY <2>3, <2>5 DEF FollowsInv
    <3>1. MapOwed(j)'
      BY <2>3, <2>6, <3>0, MapStays
    <3>2. CASE j # i
      BY <2>3, <2>6, <3>0, <3>1, <3>2, OwedStays
    <3>3. CASE j = i
      <4>1. Here(i)' /\ (Wanted(i)' <=> active)
        BY <2>3, <2>6 DEF Here, Wanted
      <4>2. IF active THEN WillStart(i)' ELSE WillStop(i)'
        BY <2>2, <2>4 DEF EditBecomes, WillStart, WillStop, Starts, Stops
      <4>3. QED
        BY <2>3, <2>6, <3>0, <3>1, <3>3, <4>1, <4>2 DEF ThreadOwed, StillOwed
    <3>4. QED
      BY <3>2, <3>3
  <2>8. QED
    BY <2>7 DEF FollowsInv
<1>3. QED
  BY <1>1, <1>2

\* ... and a new agent that is active the start.
LEMMA CreationFollows ==
  ASSUME FollowsInv, NamingInv', NEW q \in Requests, NEW i \in AgentIds, NEW n \in Names,
         \/ \E active \in BOOLEAN : Create(q, i, n, active)
         \/ Import(q, i, n) \/ ImportStream(q, i, n)
  PROVE  FollowsInv'
<1>0. NamingInv /\ RegistryTypeOK
  BY DEF FollowsInv, NamingInv
<1>1. PICK active \in BOOLEAN, action \in {"start", "none", "all", "stream"} :
        /\ IsFresh(i) /\ (active => action # "none")
        /\ rows' = [rows EXCEPT ![i] = [NoAgent EXCEPT !.status = "here", !.name = n,
                                                       !.active = active]]
        /\ Begins(q, [NotEditing EXCEPT !.stage = "register", !.agent = i, !.new = n,
                        !.action = action])
        /\ UNCHANGED <<threads, mapped, torn, unsynced>>
  <2>1. CASE \E active \in BOOLEAN : Create(q, i, n, active)
    BY <2>1 DEF Create
  <2>2. CASE Import(q, i, n)
    BY <2>2 DEF Import, Imports
  <2>3. CASE ImportStream(q, i, n)
    BY <2>3 DEF ImportStream, Imports
  <2>4. QED
    BY <2>1, <2>2, <2>3
<1> DEFINE e == [NotEditing EXCEPT !.stage = "register", !.agent = i, !.new = n,
                   !.action = action]
           row == [NoAgent EXCEPT !.status = "here", !.name = n, !.active = active]
<1>2. e.stage = "register" /\ e.agent = i /\ e.action = action
  BY EmptyEdit DEF Edits
<1>3. row.account = 0 /\ row.status = "here" /\ row.active = active
  BY EmptyRow DEF AgentRows
<1>4. Begins(q, e) /\ rows' = [rows EXCEPT ![i] = row]
  BY <1>1
<1> HIDE DEF e, row
<1>5. EditBecomes(q, e) /\ editing[q].stage = "idle"
  BY <1>0, <1>4, Begun
<1>6. \A j \in AgentIds : StillOwed(j)
  BY <1>5, BeginningFollows
<1>7. rows'[i] = row /\ \A j \in AgentIds : j # i => rows'[j] = rows[j]
  BY <1>0, <1>4 DEF RegistryTypeOK
<1>8. ASSUME NEW j \in AgentIds \ unsynced' PROVE ThreadOwed(j)' /\ MapOwed(j)'
  <2>0. ThreadOwed(j) /\ MapOwed(j) /\ StillOwed(j) /\ j \in AgentIds
    BY <1>1, <1>6 DEF FollowsInv
  <2>1. CASE j # i
    BY <1>1, <1>7, <2>0, <2>1, OwedStays, MapStays
  <2>2. CASE j = i
    <3>1. ~Here(i)
      BY <1>1 DEF IsFresh, Here, AgentIds
    <3>2. threads'[i] = None
      BY <1>1, <2>0, <2>2, <3>1 DEF ThreadOwed
    <3>3. active => WillStart(i)'
      BY <1>1, <1>2, <1>5 DEF EditBecomes, WillStart, Starts
    <3>4. Here(i)' /\ ~Linked(i)' /\ (Wanted(i)' => active)
      BY <1>3, <1>7 DEF Here, Linked, Wanted
    <3>5. QED
      BY <2>2, <3>2, <3>3, <3>4 DEF ThreadOwed, MapOwed
  <2>3. QED
    BY <2>1, <2>2
<1>9. QED
  BY <1>8 DEF FollowsInv

\* The rest of a creation still owes the start; an account that was mapped to
\* another name is torn.
LEMMA LinkFollows ==
  ASSUME FollowsInv, NamingInv', NEW q \in Requests, Link(q)
  PROVE  FollowsInv'
<1>0. NamingInv /\ RegistryTypeOK /\ EditSound(q) /\ editing[q].stage = "link"
  BY DEF FollowsInv, NamingInv, Link
<1>1. PICK i \in AgentIds, a \in AccountIds :
        i = editing[q].agent /\ a = editing[q].account /\ Here(i)
  BY <1>0 DEF EditSound, Link
<1>2. /\ rows' = [rows EXCEPT ![i].account = a]
      /\ torn \subseteq torn'
      /\ a \notin torn' => /\ names[a] = rows[i].name
                           /\ \A n \in Names \ {names[a]} : <<a, n>> \notin mapped
      /\ UNCHANGED <<threads, mapped, unsynced>>
  BY <1>1 DEF Link, Links
<1>3. /\ EditBecomes(q, editing'[q])
      /\ IF editing[q].action = "none" THEN editing'[q].stage = "idle"
         ELSE /\ editing'[q].stage = "notify" /\ editing'[q].agent = i
              /\ editing'[q].action = editing[q].action
  BY <1>0, <1>1, EditGoes, EditEnds DEF Link, Stages
<1>4. /\ \A j \in AgentIds : j # i => rows'[j] = rows[j]
      /\ rows'[i].status = rows[i].status /\ rows'[i].name = rows[i].name
      /\ rows'[i].account = a /\ rows'[i].active = rows[i].active
  BY <1>0, <1>2 DEF RegistryTypeOK, AgentRows
<1>5. \A j \in AgentIds : StillOwed(j)
  <2>1. \A j \in AgentIds : /\ ~Reads(q, j) /\ ~Stops(q, j) /\ ~Drops(q, j)
                            /\ Starts(q, j) => Starts(q, j)'
    BY <1>0, <1>1, <1>3 DEF Reads, Stops, Drops, Starts
  <2>2. QED
    BY <1>3, <2>1, OwedByOthers
<1>6. ASSUME NEW j \in AgentIds \ unsynced' PROVE ThreadOwed(j)' /\ MapOwed(j)'
  <2>0. ThreadOwed(j) /\ MapOwed(j) /\ StillOwed(j) /\ j \in AgentIds
    BY <1>2, <1>5 DEF FollowsInv
  <2>1. CASE j # i
    BY <1>2, <1>4, <2>0, <2>1, OwedStays, MapStays
  <2>2. CASE j = i
    <3>1. (Here(i)' <=> Here(i)) /\ (Wanted(i)' <=> Wanted(i))
      BY <1>4 DEF Here, Wanted
    <3>2. ThreadOwed(i)'
      BY <1>2, <1>4, <2>0, <2>2, <3>1 DEF ThreadOwed, StillOwed
    <3>3. MapOwed(i)'
      BY <1>2, <1>4 DEF MapOwed
    <3>4. QED
      BY <2>2, <3>2, <3>3
  <2>3. QED
    BY <2>1, <2>2
<1>7. QED
  BY <1>6 DEF FollowsInv

\* A row goes without its thread, or the agent is excepted.
LEMMA RemovalFollows ==
  ASSUME FollowsInv, NamingInv', NEW q \in Requests, Undo(q) \/ Drop(q)
  PROVE  FollowsInv'
<1>0. NamingInv /\ RegistryTypeOK /\ EditSound(q) /\ editing[q].stage \in {"undo", "drop"}
  BY DEF FollowsInv, NamingInv, Undo, Drop
<1>1. PICK i \in AgentIds : i = editing[q].agent
  BY <1>0 DEF EditSound
<1>2. /\ rows' = [rows EXCEPT ![i] = [NoAgent EXCEPT !.status = "gone"]]
      /\ unsynced' = unsynced \cup {j \in {i} : threads[j] # None}
      /\ torn \subseteq torn' /\ UNCHANGED <<threads, mapped>>
  BY <1>1 DEF Undo, Drop
<1>3. ~Here(i)' /\ \A j \in AgentIds : j # i => rows'[j] = rows[j]
  BY <1>0, <1>2, EmptyRow DEF RegistryTypeOK, AgentRows, Here
<1>4. EditBecomes(q, editing'[q])
  BY <1>0, EditGoes, EditEnds DEF Undo, Drop, Stages
<1>5. \A j \in AgentIds : j # i => StillOwed(j)
  <2>1. \A j \in AgentIds : j # i => ~Reads(q, j) /\ ~Stops(q, j) /\ ~Drops(q, j) /\ ~Starts(q, j)
    BY <1>1 DEF Reads, Stops, Drops, Starts
  <2>2. QED
    BY <1>4, <2>1, OwedByOthers
<1>6. ASSUME NEW j \in AgentIds \ unsynced' PROVE ThreadOwed(j)' /\ MapOwed(j)'
  <2>0. ThreadOwed(j) /\ MapOwed(j) /\ j \in AgentIds
    BY <1>2 DEF FollowsInv
  <2>1. CASE j # i
    BY <1>2, <1>3, <1>5, <2>0, <2>1, OwedStays, MapStays
  <2>2. CASE j = i
    <3>1. threads'[i] = None
      BY <1>2, <2>2
    <3>2. ~Linked(i)' /\ ~Wanted(i)'
      BY <1>3 DEF Linked, Wanted
    <3>3. QED
      BY <1>3, <2>2, <3>1, <3>2 DEF ThreadOwed, MapOwed
  <2>3. QED
    BY <2>1, <2>2
<1>7. QED
  BY <1>6 DEF FollowsInv

\* A name that the row takes is still to be read by the thread.
LEMMA UpdateRowFollows ==
  ASSUME FollowsInv, NamingInv', NEW q \in Requests, UpdateRow(q)
  PROVE  FollowsInv'
<1>0. NamingInv /\ RegistryTypeOK /\ EditSound(q) /\ editing[q].stage = "local"
  BY DEF FollowsInv, NamingInv, UpdateRow
<1>1. PICK i \in AgentIds : i = editing[q].agent /\ editing[q].action = "restart"
  BY <1>0 DEF EditSound
<1>2. /\ rows' = [rows EXCEPT ![i].name = editing[q].new] /\ torn \subseteq torn'
      /\ UNCHANGED <<threads, mapped, unsynced>>
  BY <1>1 DEF UpdateRow, SavesName
<1>3. /\ EditBecomes(q, editing'[q]) /\ editing'[q].stage = "notify"
      /\ editing'[q].agent = i /\ editing'[q].action = "restart"
  BY <1>0, <1>1, EditGoes DEF UpdateRow, Stages
<1>4. /\ \A j \in AgentIds : j # i => rows'[j] = rows[j]
      /\ rows'[i].status = rows[i].status /\ rows'[i].account = rows[i].account
      /\ rows'[i].active = rows[i].active
  BY <1>0, <1>2 DEF RegistryTypeOK, AgentRows
<1>5. \A j \in AgentIds : StillOwed(j)
  <2>1. \A j \in AgentIds : ~Reads(q, j) /\ ~Stops(q, j) /\ ~Drops(q, j) /\ ~Starts(q, j)
    BY <1>0 DEF Reads, Stops, Drops, Starts
  <2>2. QED
    BY <1>3, <2>1, OwedByOthers
<1>6. WillRead(i)'
  BY <1>3 DEF WillRead, Reads
<1>7. ASSUME NEW j \in AgentIds \ unsynced' PROVE ThreadOwed(j)' /\ MapOwed(j)'
  <2>0. ThreadOwed(j) /\ MapOwed(j) /\ StillOwed(j) /\ j \in AgentIds
    BY <1>2, <1>5 DEF FollowsInv
  <2>1. CASE j # i
    BY <1>2, <1>4, <2>0, <2>1, OwedStays, MapStays
  <2>2. CASE j = i
    <3>1. Here(i)' <=> Here(i)
      BY <1>4 DEF Here
    <3>2. ThreadOwed(i)'
      BY <1>2, <1>6, <2>0, <2>2, <3>1 DEF ThreadOwed
    <3>3. MapOwed(i)'
      BY <1>6 DEF MapOwed
    <3>4. QED
      BY <2>2, <3>2, <3>3
  <2>3. QED
    BY <2>1, <2>2
<1>8. QED
  BY <1>7 DEF FollowsInv

\* A name that comes from the session is taken by the thread at once.
LEMMA SyncProfileFollows ==
  ASSUME FollowsInv, NamingInv', NEW i \in AgentIds, SyncProfile(i)
  PROVE  FollowsInv'
<1>0. NamingInv /\ RegistryTypeOK
  BY DEF FollowsInv, NamingInv
<1> DEFINE n == session[i].new
<1>1. /\ rows' = [rows EXCEPT ![i].name = n] /\ Here(i)
      /\ threads' = [threads EXCEPT ![i] = IF @ = None THEN None ELSE n]
      /\ mapped' = {<<rows'[j].account, rows'[j].name>> : j \in {j \in AgentIds : Linked(j)}}
      /\ UNCHANGED <<editing, torn, unsynced>>
  BY DEF SyncProfile, OwnRow
<1> HIDE DEF n
<1>2. /\ \A j \in AgentIds : j # i => rows'[j] = rows[j] /\ threads'[j] = threads[j]
      /\ rows'[i].status = rows[i].status /\ rows'[i].account = rows[i].account
      /\ rows'[i].active = rows[i].active /\ rows'[i].name = n
      /\ threads'[i] = IF threads[i] = None THEN None ELSE n
  BY <1>0, <1>1 DEF RegistryTypeOK, AgentRows
<1>3. \A j \in AgentIds : StillOwed(j)
  BY <1>1 DEF StillOwed, WillRead, WillStart, WillStop, WillDrop, Reads, Starts, Stops, Drops
<1>4. \A j \in AgentIds : (Here(j)' <=> Here(j)) /\ (Linked(j)' <=> Linked(j)) /\ (Wanted(j)' <=> Wanted(j))
  BY <1>2 DEF Here, Linked, Wanted
<1>5. mapped' = {<<rows'[j].account, rows'[j].name>> : j \in {j \in AgentIds : Linked(j)'}}
  BY <1>1, <1>4
<1>6. \A j \in AgentIds : MapOwed(j)'
  BY <1>5, MapReadAnew DEF NamingInv
<1>7. ASSUME NEW j \in AgentIds \ unsynced' PROVE ThreadOwed(j)'
  <2>0. ThreadOwed(j) /\ StillOwed(j) /\ j \in AgentIds
    BY <1>1, <1>3 DEF FollowsInv
  <2>1. CASE j # i
    BY <1>2, <2>0, <2>1, OwedStays
  <2>2. CASE j = i
    <3>1. Here(i) /\ Here(i)' /\ (Wanted(i)' <=> Wanted(i))
      BY <1>1, <1>4
    <3>2. threads'[i] # None => threads[i] # None /\ threads'[i] = rows'[i].name
      BY <1>2
    <3>3. threads'[i] = None => threads[i] = None
      <4>1. n # None
        BY RegistryAssumption DEF n, SyncProfile, NamingInv, VisitSound, FollowsInv
      <4>2. QED
        BY <1>2, <4>1
    <3>4. QED
      BY <2>0, <2>2, <3>1, <3>2, <3>3 DEF ThreadOwed, StillOwed
  <2>3. QED
    BY <2>1, <2>2
<1>8. QED
  BY <1>6, <1>7 DEF FollowsInv

\* A scheduler that starts has read every row.
LEMMA RestartFollows ==
  ASSUME FollowsInv, NamingInv', RestartScheduler
  PROVE  FollowsInv'
<1>0. NamingInv
  BY DEF FollowsInv
<1>1. /\ UNCHANGED rows /\ mapped' = Mapping
      /\ \A i \in AgentIds : threads'[i] = Target(i)
  BY DEF RestartScheduler
<1>2. \A i \in AgentIds : MapOwed(i)'
  <2>1. mapped' = {<<rows'[j].account, rows'[j].name>> : j \in {j \in AgentIds : Linked(j)'}}
    BY <1>1 DEF Mapping, Linked, Here
  <2>2. QED
    BY <2>1, MapReadAnew DEF NamingInv
<1>3. ASSUME NEW i \in AgentIds PROVE ThreadOwed(i)'
  <2>1. (Here(i)' <=> Here(i)) /\ (Wanted(i)' <=> Wanted(i)) /\ rows'[i] = rows[i]
    BY <1>1 DEF Here, Wanted
  <2>2. threads'[i] = Target(i) /\ (Target(i) # None <=> Wanted(i))
    BY <1>0, <1>1, ReadingTypes
  <2>3. QED
    BY <2>1, <2>2 DEF ThreadOwed, Target, Wanted
<1>4. QED
  BY <1>2, <1>3 DEF FollowsInv

LEMMA FollowsNext == FollowsInv /\ [RegistryNext]_registryVars => FollowsInv'
<1> SUFFICES ASSUME FollowsInv, [RegistryNext]_registryVars PROVE FollowsInv'
  OBVIOUS
<1>0. NamingInv'
  BY NamingNext DEF FollowsInv
<1>1. CASE UNCHANGED registryVars
  <2>1. UNCHANGED <<rows, threads, mapped, editing, unsynced>> /\ torn \subseteq torn'
    BY <1>1 DEF registryVars
  <2>2. QED
    BY <1>0, <2>1, VisitsFollow
<1>2. CASE \E q \in Requests :
             \/ \E i \in AgentIds :
                  \/ \E n \in Names : \/ \E active \in BOOLEAN : Create(q, i, n, active)
                                      \/ Import(q, i, n) \/ ImportStream(q, i, n)
                                      \/ Rename(q, i, n)
                  \/ \E active \in BOOLEAN : SetActive(q, i, active)
                  \/ RestartAgent(q, i) \/ DeleteAgent(q, i)
             \/ Register(q) \/ RegisterFails(q) \/ Link(q) \/ Undo(q) \/ SkipUser(q)
             \/ RenameAtPlatform(q) \/ UpdateRow(q)
             \/ Clear(q) \/ Drop(q)
             \/ Notify(q) \/ LoseNotice(q) \/ Abandon(q)
  BY <1>0, <1>2, CreationFollows, NoticeFollows, RequestsFollow, LinkFollows, RemovalFollows,
     UpdateRowFollows, NotifyFollows
<1>3. CASE RestartScheduler
  BY <1>0, <1>3, RestartFollows
<1>4. ASSUME NEW i \in AgentIds,
             \/ Login(i) \/ \E n \in Names : UpdateProfile(i, n)
             \/ SyncFails(i) \/ Revert(i) \/ RevertFails(i)
             \/ Remember(i) \/ EndSession(i)
      PROVE  FollowsInv'
  <2>1. UNCHANGED <<rows, threads, mapped, editing, unsynced>> /\ torn \subseteq torn'
    BY <1>4 DEF Login, UpdateProfile, SyncFails, Revert, RevertFails, Remember, EndSession
  <2>2. QED
    BY <1>0, <2>1, VisitsFollow
<1>5. QED
  BY <1>0, <1>1, <1>2, <1>3, <1>4, SyncProfileFollows DEF RegistryNext

\* Once its requests are over, the scheduler runs an agent with the name of its
\* row, or not at all if it is not active, for every number of agents and
\* overlapping requests, unless a notice was lost or came out of order
\* (internal_server.py:202-325, relation_map.py:119-151).
THEOREM SchedulerFollowsRows == RegistrySpec => []SchedulerFollows
<1>1. RegistryInit => FollowsInv
  BY NamingInit, EmptyRow DEF RegistryInit, FollowsInv, ThreadOwed, MapOwed, Wanted, Here, Linked, NoAgent
<1>2. FollowsInv => SchedulerFollows
  <2> SUFFICES ASSUME FollowsInv, NEW i \in AgentIds \ unsynced, ~Pending(i)
               PROVE  /\ threads[i] = Target(i)
                      /\ Linked(i) => \A n \in Names : <<rows[i].account, n>> \in mapped
                                                       => n = rows[i].name \/ rows[i].account \in torn
    BY DEF SchedulerFollows
  <2>1. ~WillRead(i) /\ ~WillStart(i) /\ ~WillStop(i) /\ ~WillDrop(i)
    BY DEF Pending, WillRead, WillStart, WillStop, WillDrop, Reads, Starts, Stops, Drops
  <2>2. ThreadOwed(i) /\ MapOwed(i)
    BY DEF FollowsInv
  <2>3. threads[i] = Target(i)
    BY <2>1, <2>2 DEF ThreadOwed, Target, Wanted
  <2>4. QED
    BY <2>1, <2>2, <2>3 DEF MapOwed
<1>3. QED
  BY <1>1, <1>2, FollowsNext, PTL DEF RegistrySpec

=============================================================================
