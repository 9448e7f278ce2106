----------------------------- MODULE AccessProofs -----------------------------
(***************************************************************************)
(* Proofs about the accounts, their codes and sessions (Accounts), the     *)
(* avatars (ProfileAvatars), the hot topics (HotTopics) and browsing       *)
(* (FeedScroll), one part after the other, for every number of requests,   *)
(* codes, sessions, files, topics, runs and items.  The four share no      *)
(* variable.                                                               *)
(***************************************************************************)
EXTENDS Accounts, ProfileAvatars, HotTopics, FeedScroll, FiniteSetTheorems, SequenceTheorems,
        TLAPS

(***************************************************************************)
(* Sessions of an account follow its password, an ended session never      *)
(* comes back, and the invitation is accounted for.                        *)
(*                                                                         *)
(* A login and a password reset each decide which sessions to end one step *)
(* before they commit.  The invariant says what makes that good enough: a  *)
(* session that comes between is late, or the overlap is remembered.       *)
(***************************************************************************)

\* Accounts are numbered one after the other, and nobody refers to one that is
\* still to come.
NumbersSound ==
  /\ account \in {0, accounts}
  /\ \A s \in SessionIds : sessions[s].user <= accounts
  /\ \A q \in Requests : signing[q].user <= accounts

\* A reset ends every session of its account that does not come too late.
ResetSound ==
  \A q \in Requests, s \in Active :
    signing[q].stage = "reset" /\ sessions[s].user = signing[q].user =>
      s \in signing[q].met \/ sessions[s].late

\* A session of the account has its password, or came too late.
PasswordSound ==
  \A s \in Active : account # 0 /\ sessions[s].user = account =>
    sessions[s].password = password \/ sessions[s].late

\* A login ends every session of its client type.
InsertSound ==
  \A q \in Requests : signing[q].stage = "insert" =>
    \A s \in Active : sessions[s].user = signing[q].user
                      /\ sessions[s].client = signing[q].client => s \in signing[q].met

\* Logins of one client type do not overlap.
InsertsApart ==
  \A q, o \in Requests :
    signing[q].stage = "insert" /\ signing[o].stage = "insert"
    /\ signing[q].client = signing[o].client => q = o

\* One session per account and client type.
OnePerClient ==
  \A s, t \in Active :
    sessions[s].user = sessions[t].user /\ sessions[s].client = sessions[t].client => s = t

ClientsSound == "open" \notin oddities => InsertSound /\ InsertsApart /\ OnePerClient

\* A registration that is to use the invitation has its account.
ConsumeSound == \A q \in Requests : signing[q].stage = "consume" => signing[q].user # 0

\* The inductive invariant.
AccountsInv ==
  /\ AccountsTypeOK /\ NumbersSound /\ ResetSound /\ PasswordSound /\ ClientsSound
  /\ ConsumeSound /\ InvitationAccounted

-----------------------------------------------------------------------------
(* Types                                                                   *)

LEMMA NothingTypes ==
  NoCode \in CodeRows /\ NoSession \in SessionRows /\ NotSigning \in SigningRows
<1>1. 0 \in 0..MaxAccount /\ 0 \in 0..MaxToken /\ 0 \in 0..MaxCode /\ 0 \in 0..MaxSession
  BY AccountBounds
<1>2. NoSession \in SessionRows  BY <1>1 DEF NoSession, SessionRows
<1> QED  BY <1>1, <1>2 DEF NoCode, CodeRows, NotSigning, SigningRows

\* What the lemmas below take from the types.
LEMMA Parts ==
  ASSUME AccountsTypeOK
  PROVE  /\ account \in 0..MaxAccount /\ accounts \in 0..MaxAccount /\ password \in Nat
         /\ invitation \in 0..MaxAccount /\ codes \in [CodeIds -> CodeRows]
         /\ sessions \in [SessionIds -> SessionRows]
         /\ signing \in [Requests -> SigningRows]
         /\ oddities \subseteq {"send", "open", "cut"}
BY DEF AccountsTypeOK

LEMMA AccountsInitInv == AccountsInit => AccountsInv
<1> SUFFICES ASSUME AccountsInit PROVE AccountsInv  OBVIOUS
<1>1. codes \in [CodeIds -> CodeRows] /\ sessions \in [SessionIds -> SessionRows]
      /\ signing \in [Requests -> SigningRows]
  BY NothingTypes DEF AccountsInit
<1>2. account \in 0..MaxAccount /\ accounts \in 0..MaxAccount /\ password \in Nat
      /\ invitation \in 0..MaxAccount
  BY AccountBounds DEF AccountsInit
<1>3. oddities = {} /\ account = 0 /\ accounts = 0 /\ invitation = 0  BY DEF AccountsInit
<1>4. AccountsTypeOK  BY <1>1, <1>2, <1>3 DEF AccountsTypeOK
<1>5. \A s \in SessionIds : sessions[s].status = "none" /\ sessions[s].user = 0
  BY DEF AccountsInit, NoSession
<1>6. \A q \in Requests : signing[q].stage = "idle" /\ signing[q].user = 0
  BY DEF AccountsInit, NotSigning
<1>7. Active = {}  BY <1>5 DEF Active
<1>8. NumbersSound  BY <1>3, <1>5, <1>6 DEF NumbersSound
<1>9. ResetSound /\ PasswordSound /\ ClientsSound
  BY <1>6, <1>7 DEF ResetSound, PasswordSound, ClientsSound, InsertSound, InsertsApart,
                    OnePerClient
<1>10. ConsumeSound /\ InvitationAccounted
  BY <1>3, <1>6 DEF ConsumeSound, InvitationAccounted
<1> QED  BY <1>4, <1>8, <1>9, <1>10 DEF AccountsInv

-----------------------------------------------------------------------------
(* What a step does to the sessions                                        *)

\* Sessions end, and their tokens change; nothing else does.
Shrinks ==
  /\ sessions' \in [SessionIds -> SessionRows]
  /\ \A s \in SessionIds :
       /\ sessions'[s].status = "active" => sessions[s].status = "active"
       /\ sessions'[s].user = sessions[s].user /\ sessions'[s].client = sessions[s].client
       /\ sessions'[s].password = sessions[s].password
       /\ sessions'[s].late = sessions[s].late

LEMMA RevokedShrinks ==
  ASSUME AccountsTypeOK, NEW S, sessions' = Revoked(S) PROVE Shrinks
<1>1. \A s \in SessionIds :
        sessions'[s] = IF s \in S THEN [sessions[s] EXCEPT !.status = "over"] ELSE sessions[s]
  BY DEF Revoked
<1>2. ASSUME NEW s \in SessionIds
      PROVE  /\ sessions'[s] \in SessionRows
             /\ sessions'[s].status = "active" => sessions[s].status = "active"
             /\ sessions'[s].user = sessions[s].user /\ sessions'[s].client = sessions[s].client
             /\ sessions'[s].password = sessions[s].password
             /\ sessions'[s].late = sessions[s].late
  <2>1. sessions[s] \in SessionRows  BY Parts
  <2>2. CASE s \in S
    <3> DEFINE ended == [sessions[s] EXCEPT !.status = "over"]
    <3>1. /\ ended \in SessionRows /\ ended.status = "over"
          /\ ended.user = sessions[s].user /\ ended.client = sessions[s].client
          /\ ended.password = sessions[s].password /\ ended.late = sessions[s].late
      BY <2>1 DEF SessionRows
    <3>2. sessions'[s] = ended  BY <1>1, <2>2
    <3> HIDE DEF ended
    <3> QED  BY <3>1, <3>2
  <2>3. CASE s \notin S  BY <1>1, <2>1, <2>3
  <2> QED  BY <2>2, <2>3
<1>3. sessions' = [s \in SessionIds |-> sessions'[s]]  BY DEF Revoked
<1> QED  BY <1>2, <1>3 DEF Shrinks

LEMMA SameShrinks == ASSUME AccountsInv, sessions' = sessions PROVE Shrinks
BY Parts DEF AccountsInv, Shrinks

-----------------------------------------------------------------------------
(* Steps of a request that are not about sessions                          *)

\* A request comes to a stage the invariant says nothing about, whatever the
\* password.
LEMMA RestKeeps ==
  ASSUME AccountsInv, NEW q \in Requests, NEW new \in SigningRows,
         UNCHANGED <<account, accounts, invitation>>, Shrinks, password' \in Nat,
         codes' \in [CodeIds -> CodeRows],
         signing' = [signing EXCEPT ![q] = new],
         new.stage \notin {"reset", "insert", "consume"}, new.user <= accounts,
         oddities \subseteq oddities', oddities' \subseteq {"send", "open", "cut"},
         signing[q].stage = "consume" => "cut" \in oddities'
  PROVE  /\ AccountsTypeOK' /\ NumbersSound' /\ ResetSound' /\ ClientsSound'
         /\ ConsumeSound' /\ InvitationAccounted'
<1>1. \A o \in Requests : signing'[o] = IF o = q THEN new ELSE signing[o]
  BY Parts DEF AccountsInv
<1>2. signing' \in [Requests -> SigningRows]  BY Parts DEF AccountsInv
<1>3. AccountsTypeOK'  BY <1>2 DEF AccountsInv, AccountsTypeOK, Shrinks
<1>4. NumbersSound'  BY <1>1 DEF AccountsInv, NumbersSound, Shrinks
<1>5. \A s \in Active' : s \in Active /\ s \in SessionIds  BY DEF Active, Shrinks
<1>6. ResetSound'  BY <1>1, <1>5 DEF AccountsInv, ResetSound, Shrinks
<1>7. ClientsSound'
  <2> SUFFICES ASSUME "open" \notin oddities'
               PROVE  InsertSound' /\ InsertsApart' /\ OnePerClient'
    BY DEF ClientsSound
  <2>1. InsertSound /\ InsertsApart /\ OnePerClient  BY DEF AccountsInv, ClientsSound
  <2>2. InsertSound'  BY <2>1, <1>1, <1>5 DEF InsertSound, Shrinks
  <2>3. InsertsApart'  BY <2>1, <1>1 DEF InsertsApart
  <2>4. OnePerClient'  BY <2>1, <1>5 DEF OnePerClient, Shrinks
  <2> QED  BY <2>2, <2>3, <2>4
<1>8. ConsumeSound'  BY <1>1 DEF AccountsInv, ConsumeSound
<1>9. InvitationAccounted'
  <2>1. invitation \in {0, account}  BY DEF AccountsInv, InvitationAccounted
  <2>2. CASE "cut" \in oddities'  BY <2>1, <2>2 DEF InvitationAccounted
  <2>3. CASE "cut" \notin oddities'
    <3>1. In({"consume"}) \subseteq In({"consume"})'  BY <1>1, <2>3 DEF In
    <3>2. account # 0 /\ invitation = 0 => In({"consume"}) # {}
      BY <2>3 DEF AccountsInv, InvitationAccounted
    <3> QED  BY <2>1, <3>1, <3>2 DEF InvitationAccounted
  <2> QED  BY <2>2, <2>3
<1> QED  BY <1>3, <1>4, <1>6, <1>7, <1>8, <1>9

\* The same under the same password.
LEMMA SigningKeeps ==
  ASSUME AccountsInv, NEW q \in Requests, NEW new \in SigningRows,
         UNCHANGED <<account, accounts, password, invitation>>, Shrinks,
         codes' \in [CodeIds -> CodeRows],
         signing' = [signing EXCEPT ![q] = new],
         new.stage \notin {"reset", "insert", "consume"}, new.user <= accounts,
         oddities \subseteq oddities', oddities' \subseteq {"send", "open", "cut"},
         signing[q].stage = "consume" => "cut" \in oddities'
  PROVE  AccountsInv'
<1>1. password' \in Nat  BY Parts DEF AccountsInv
<1>2. \A s \in Active' : s \in Active /\ s \in SessionIds  BY DEF Active, Shrinks
<1>3. PasswordSound'  BY <1>2 DEF AccountsInv, PasswordSound, Shrinks
<1>4. /\ AccountsTypeOK' /\ NumbersSound' /\ ResetSound' /\ ClientsSound'
      /\ ConsumeSound' /\ InvitationAccounted'
  BY <1>1, RestKeeps
<1> QED  BY <1>3, <1>4 DEF AccountsInv

\* The requests that begin, and those that end in nothing.
LEMMA IdleRow ==
  /\ NotSigning \in SigningRows
  /\ NotSigning.stage \notin {"reset", "insert", "consume"} /\ NotSigning.user = 0
BY NothingTypes DEF NotSigning

LEMMA SendKeeps ==
  ASSUME AccountsInv, NEW q \in Requests, NEW purpose \in Purposes, ReadSend(q, purpose)
  PROVE  AccountsInv'
<1> DEFINE new == [NotSigning EXCEPT !.stage = "send", !.purpose = purpose, !.user = account]
<1>1. new \in SigningRows /\ new.stage = "send" /\ new.user = account
  BY NothingTypes, Parts DEF AccountsInv, SigningRows, NotSigning
<1>2. account <= accounts
  BY Parts, AccountBounds DEF AccountsInv, NumbersSound
<1>3. /\ signing[q].stage = "idle" /\ signing' = [signing EXCEPT ![q] = new]
      /\ oddities' = oddities \cup {x \in {"send"} : In({"send"}) # {}}
      /\ UNCHANGED <<account, accounts, password, invitation, codes, sessions>>
  BY DEF ReadSend, Starts, Signs
<1> HIDE DEF new
<1>4. oddities \subseteq oddities' /\ oddities' \subseteq {"send", "open", "cut"}
  BY <1>3, Parts DEF AccountsInv
<1>5. codes' \in [CodeIds -> CodeRows]  BY <1>3, Parts DEF AccountsInv
<1> QED  BY <1>1, <1>2, <1>3, <1>4, <1>5, SameShrinks, SigningKeeps

LEMMA CommitSendKeeps ==
  ASSUME AccountsInv, NEW q \in Requests, NEW c \in CodeIds, CommitSend(q, c)
  PROVE  AccountsInv'
<1> DEFINE code == [NoCode EXCEPT !.purpose = signing[q].purpose, !.age = "fresh",
                                  !.user = signing[q].user]
<1>1. signing[q].purpose \in Purposes \cup {None} /\ signing[q].user \in 0..MaxAccount
  BY Parts DEF AccountsInv, SigningRows
<1>2. code \in CodeRows  BY <1>1, NothingTypes DEF CodeRows
<1>3. /\ signing[q].stage = "send" /\ signing' = [signing EXCEPT ![q] = NotSigning]
      /\ codes' = [codes EXCEPT ![c] = code]
      /\ UNCHANGED <<account, accounts, password, invitation, sessions, oddities>>
  BY DEF CommitSend, Signs
<1> HIDE DEF code
<1>4. codes' \in [CodeIds -> CodeRows]  BY <1>2, <1>3, Parts DEF AccountsInv
<1>5. 0 <= accounts  BY Parts DEF AccountsInv
<1> QED  BY <1>3, <1>4, <1>5, IdleRow, Parts, SameShrinks, SigningKeeps DEF AccountsInv

LEMMA RedeemKeeps ==
  ASSUME AccountsInv, NEW q \in Requests, NEW purpose \in Purposes, NEW right \in BOOLEAN,
         NEW client \in Clients \cup {None}, Redeem(q, purpose, right, client)
  PROVE  AccountsInv'
<1>1. PICK c \in Newest(purpose) :
        /\ Starts(q, [NotSigning EXCEPT !.stage = IF right THEN "accept" ELSE "miss",
                       !.purpose = purpose, !.user = account, !.password = password,
                       !.code = c, !.tries = codes[c].tries, !.client = client])
        /\ codes' = [codes EXCEPT ![c].raced =
             @ \/ \E o \in In({"accept", "miss", "reset"}) : signing[o].code = c]
  BY DEF Redeem
<1> DEFINE new == [NotSigning EXCEPT !.stage = IF right THEN "accept" ELSE "miss",
                       !.purpose = purpose, !.user = account, !.password = password,
                       !.code = c, !.tries = codes[c].tries, !.client = client]
           raced == codes[c].raced \/ \E o \in In({"accept", "miss", "reset"}) :
                                         signing[o].code = c
<1>2. c \in CodeIds  BY DEF Newest, Usable, Sent
<1>3. codes[c] \in CodeRows /\ codes[c].tries \in Nat /\ c \in 0..MaxCode
  BY <1>2, Parts, AccountBounds DEF AccountsInv, CodeRows, CodeIds
<1>4. new \in SigningRows
  <2>1. account \in 0..MaxAccount /\ password \in Nat  BY Parts DEF AccountsInv
  <2> QED  BY <2>1, <1>3, NothingTypes DEF SigningRows
<1>5. new.stage \notin {"reset", "insert", "consume"} /\ new.user = account
  BY DEF NotSigning
<1>6. account <= accounts  BY Parts, AccountBounds DEF AccountsInv, NumbersSound
<1>7. signing[q].stage = "idle" /\ signing' = [signing EXCEPT ![q] = new]
  BY <1>1 DEF Starts, Signs
<1>8. codes' \in [CodeIds -> CodeRows]
  <2>1. codes' = [codes EXCEPT ![c].raced = raced]  BY <1>1
  <2>2. raced \in BOOLEAN  OBVIOUS
  <2> HIDE DEF raced
  <2>3. [codes[c] EXCEPT !.raced = raced] \in CodeRows  BY <1>3, <2>2 DEF CodeRows
  <2>4. codes' = [codes EXCEPT ![c] = [codes[c] EXCEPT !.raced = raced]]
    BY <2>1, <1>2, Parts DEF AccountsInv
  <2> QED  BY <2>3, <2>4, Parts DEF AccountsInv
<1>9. UNCHANGED <<account, accounts, password, invitation, sessions, oddities>>
  BY DEF Redeem
<1> HIDE DEF new
<1> QED  BY <1>4, <1>5, <1>6, <1>7, <1>8, <1>9, Parts, SameShrinks, SigningKeeps DEF AccountsInv

LEMMA MissKeeps ==
  ASSUME AccountsInv, NEW q \in Requests, Miss(q)
  PROVE  AccountsInv'
<1> DEFINE c == signing[q].code
<1>1. signing[q].tries \in Nat  BY Parts DEF AccountsInv, SigningRows
<1>2. /\ signing[q].stage = "miss" /\ signing' = [signing EXCEPT ![q] = NotSigning]
      /\ codes' = [codes EXCEPT ![c].tries = signing[q].tries + 1, ![c].guesses = @ + 1]
      /\ UNCHANGED <<account, accounts, password, invitation, sessions, oddities>>
  BY DEF Miss, Signs
<1>3. codes' \in [CodeIds -> CodeRows]
  <2>1. ASSUME NEW d \in CodeIds
        PROVE  [codes[d] EXCEPT !.tries = signing[q].tries + 1, !.guesses = @ + 1] \in CodeRows
    <3>1. codes[d] \in CodeRows  BY Parts DEF AccountsInv
    <3>2. codes[d].guesses + 1 \in Nat /\ signing[q].tries + 1 \in Nat
      BY <1>1, <3>1 DEF CodeRows
    <3> QED  BY <3>1, <3>2 DEF CodeRows
  <2>2. codes' = [d \in CodeIds |-> IF d = c
                    THEN [codes[d] EXCEPT !.tries = signing[q].tries + 1, !.guesses = @ + 1]
                    ELSE codes[d]]
    BY <1>2, Parts DEF AccountsInv
  <2> QED  BY <2>1, <2>2, Parts DEF AccountsInv
<1>4. 0 <= accounts  BY Parts DEF AccountsInv
<1> QED  BY <1>2, <1>3, <1>4, IdleRow, Parts, SameShrinks, SigningKeeps DEF AccountsInv

LEMMA SpendType ==
  ASSUME AccountsTypeOK, NEW c PROVE Spend(c) \in [CodeIds -> CodeRows]
<1>1. ASSUME NEW d \in CodeIds
      PROVE  [codes[d] EXCEPT !.used = TRUE, !.spent = @ + 1] \in CodeRows
  <2>1. codes[d] \in CodeRows  BY Parts
  <2>2. codes[d].spent + 1 \in Nat  BY <2>1 DEF CodeRows
  <2> QED  BY <2>1, <2>2 DEF CodeRows
<1>2. Spend(c) = [d \in CodeIds |-> IF d = c
                    THEN [codes[d] EXCEPT !.used = TRUE, !.spent = @ + 1] ELSE codes[d]]
  BY Parts DEF Spend
<1> QED  BY <1>1, <1>2, Parts

\* A request that goes on to another stage is what it was.
LEMMA Advanced ==
  ASSUME AccountsInv, NEW q \in Requests, NEW stage \in {"open"}
  PROVE  /\ [signing[q] EXCEPT !.stage = stage] \in SigningRows
         /\ [signing[q] EXCEPT !.stage = stage].stage = stage
         /\ [signing[q] EXCEPT !.stage = stage].user = signing[q].user
         /\ signing[q].user <= accounts
BY Parts DEF AccountsInv, SigningRows, NumbersSound

LEMMA AcceptLoginKeeps ==
  ASSUME AccountsInv, NEW q \in Requests, AcceptLogin(q)
  PROVE  AccountsInv'
<1>1. /\ signing[q].stage = "accept" /\ codes' = Spend(signing[q].code)
      /\ signing' = [signing EXCEPT ![q] = [signing[q] EXCEPT !.stage = "open"]]
      /\ UNCHANGED <<account, accounts, password, invitation, sessions, oddities>>
  BY DEF AcceptLogin, Advances, Signs
<1>2. codes' \in [CodeIds -> CodeRows]  BY <1>1, SpendType DEF AccountsInv
<1> QED  BY <1>1, <1>2, Advanced, Parts, SameShrinks, SigningKeeps DEF AccountsInv

LEMMA PasswordLoginKeeps ==
  ASSUME AccountsInv, NEW q \in Requests, NEW client \in Clients, PasswordLogin(q, client)
  PROVE  AccountsInv'
<1> DEFINE new == [NotSigning EXCEPT !.stage = "open", !.user = account,
                                     !.password = password, !.client = client]
<1>1. account \in 0..MaxAccount /\ password \in Nat  BY Parts DEF AccountsInv
<1>2. new \in SigningRows  BY <1>1, NothingTypes DEF SigningRows
<1>3. new.stage = "open" /\ new.user = account  BY DEF NotSigning
<1>4. account <= accounts  BY Parts, AccountBounds DEF AccountsInv, NumbersSound
<1>5. /\ signing[q].stage = "idle" /\ signing' = [signing EXCEPT ![q] = new]
      /\ UNCHANGED <<account, accounts, password, invitation, codes, sessions, oddities>>
  BY DEF PasswordLogin, Starts, Signs
<1> HIDE DEF new
<1> QED  BY <1>2, <1>3, <1>4, <1>5, Parts, SameShrinks, SigningKeeps DEF AccountsInv

LEMMA ReadRefreshKeeps ==
  ASSUME AccountsInv, NEW q \in Requests, NEW s \in SessionIds, ReadRefresh(q, s)
  PROVE  AccountsInv'
<1> DEFINE new == [NotSigning EXCEPT !.stage = "rotate", !.session = s, !.row = sessions[s]]
<1>1. sessions[s] \in SessionRows /\ s \in 0..MaxSession
  BY Parts, AccountBounds DEF AccountsInv, SessionIds
<1>2. new \in SigningRows  BY <1>1, NothingTypes DEF SigningRows
<1>3. new.stage = "rotate" /\ new.user = 0  BY DEF NotSigning
<1>4. 0 <= accounts  BY Parts DEF AccountsInv
<1>5. /\ signing[q].stage = "idle" /\ signing' = [signing EXCEPT ![q] = new]
      /\ UNCHANGED <<account, accounts, password, invitation, codes, sessions, oddities>>
  BY DEF ReadRefresh, Starts, Signs
<1> HIDE DEF new
<1> QED  BY <1>2, <1>3, <1>4, <1>5, Parts, SameShrinks, SigningKeeps DEF AccountsInv

LEMMA AbandonKeeps ==
  ASSUME AccountsInv, NEW q \in Requests, AbandonSigning(q)
  PROVE  AccountsInv'
<1>1. /\ signing' = [signing EXCEPT ![q] = NotSigning]
      /\ oddities' = oddities \cup {x \in {"cut"} : signing[q].stage = "consume"}
      /\ UNCHANGED <<account, accounts, password, invitation, codes, sessions>>
  BY DEF AbandonSigning, Signs
<1>2. oddities \subseteq oddities' /\ oddities' \subseteq {"send", "open", "cut"}
      /\ (signing[q].stage = "consume" => "cut" \in oddities')
  BY <1>1, Parts DEF AccountsInv
<1>3. 0 <= accounts  BY Parts DEF AccountsInv
<1>4. codes' \in [CodeIds -> CodeRows]  BY <1>1, Parts DEF AccountsInv
<1> QED  BY <1>1, <1>2, <1>3, <1>4, IdleRow, SameShrinks, SigningKeeps

-----------------------------------------------------------------------------
(* Resets and logins that decide which sessions to end                     *)

LEMMA RevokeAllKeeps ==
  ASSUME AccountsInv, NEW q \in Requests, RevokeAll(q)
  PROVE  AccountsInv'
<1> DEFINE new == [signing[q] EXCEPT !.stage = "reset", !.met = RevokedByReset(signing[q].user)]
<1>0. AccountsTypeOK  BY DEF AccountsInv
<1>1. signing[q] \in SigningRows  BY <1>0, Parts
<1>2. RevokedByReset(signing[q].user) \in SUBSET SessionIds
  BY DEF RevokedByReset, Active
<1>3. new \in SigningRows /\ new.stage = "reset" /\ new.user = signing[q].user
      /\ new.met = RevokedByReset(signing[q].user)
  BY <1>1, <1>2 DEF SigningRows
<1>4. signing[q].stage = "accept" /\ signing' = [signing EXCEPT ![q] = new]
      /\ UNCHANGED <<account, accounts, password, invitation, codes, sessions, oddities>>
  BY DEF RevokeAll, Signs
<1> HIDE DEF new
<1>5. \A o \in Requests : signing'[o] = IF o = q THEN new ELSE signing[o]
  BY <1>0, <1>4, Parts
<1>6. AccountsTypeOK'
  <2>1. signing' \in [Requests -> SigningRows]  BY <1>0, <1>3, <1>4, Parts
  <2> QED  BY <1>0, <1>4, <2>1 DEF AccountsTypeOK
<1>7. NumbersSound'  BY <1>3, <1>4, <1>5 DEF AccountsInv, NumbersSound
<1>8. Active' = Active  BY <1>4 DEF Active
<1>9. ResetSound'
  BY <1>3, <1>4, <1>5, <1>8 DEF AccountsInv, ResetSound, RevokedByReset
<1>10. PasswordSound'  BY <1>4, <1>8 DEF AccountsInv, PasswordSound
<1>11. ClientsSound'
  <2> SUFFICES ASSUME "open" \notin oddities'
               PROVE  InsertSound' /\ InsertsApart' /\ OnePerClient'
    BY DEF ClientsSound
  <2>1. InsertSound /\ InsertsApart /\ OnePerClient  BY <1>4 DEF AccountsInv, ClientsSound
  <2>2. InsertSound'  BY <2>1, <1>3, <1>4, <1>5, <1>8 DEF InsertSound
  <2>3. InsertsApart'  BY <2>1, <1>3, <1>5 DEF InsertsApart
  <2>4. OnePerClient'  BY <2>1, <1>4, <1>8 DEF OnePerClient
  <2> QED  BY <2>2, <2>3, <2>4
<1>12. ConsumeSound'  BY <1>3, <1>5 DEF AccountsInv, ConsumeSound
<1>13. InvitationAccounted'
  <2>1. In({"consume"})' = In({"consume"})  BY <1>3, <1>4, <1>5 DEF In
  <2> QED  BY <2>1, <1>4 DEF AccountsInv, InvitationAccounted
<1> QED  BY <1>6, <1>7, <1>9, <1>10, <1>11, <1>12, <1>13 DEF AccountsInv

LEMMA RevokeSameKeeps ==
  ASSUME AccountsInv, NEW q \in Requests, RevokeSame(q)
  PROVE  AccountsInv'
<1> DEFINE met == RevokedByLogin(signing[q].user, signing[q].client)
           new == [signing[q] EXCEPT !.stage = "insert", !.met = met]
<1>0. AccountsTypeOK  BY DEF AccountsInv
<1>1. signing[q] \in SigningRows  BY <1>0, Parts
<1>2. met \in SUBSET SessionIds  BY DEF RevokedByLogin, Active
<1>3. new \in SigningRows /\ new.stage = "insert" /\ new.user = signing[q].user
      /\ new.client = signing[q].client /\ new.met = met
  BY <1>1, <1>2 DEF SigningRows
<1>4. /\ signing[q].stage = "open" /\ signing' = [signing EXCEPT ![q] = new]
      /\ oddities' = oddities \cup {x \in {"open"} : \E o \in In({"insert"}) :
                                                      signing[o].client = signing[q].client}
      /\ UNCHANGED <<account, accounts, password, invitation, codes, sessions>>
  BY DEF RevokeSame, Signs
<1> HIDE DEF new
<1>5. \A o \in Requests : signing'[o] = IF o = q THEN new ELSE signing[o]
  BY <1>0, <1>4, Parts
<1>6. AccountsTypeOK'
  <2>1. signing' \in [Requests -> SigningRows]  BY <1>0, <1>3, <1>4, Parts
  <2>2. oddities' \subseteq {"send", "open", "cut"}  BY <1>0, <1>4, Parts
  <2> QED  BY <1>0, <1>4, <2>1, <2>2 DEF AccountsTypeOK
<1>7. NumbersSound'  BY <1>3, <1>4, <1>5 DEF AccountsInv, NumbersSound
<1>8. Active' = Active  BY <1>4 DEF Active
<1>9. ResetSound'  BY <1>3, <1>4, <1>5, <1>8 DEF AccountsInv, ResetSound
<1>10. PasswordSound'  BY <1>4, <1>8 DEF AccountsInv, PasswordSound
<1>11. ClientsSound'
  <2> SUFFICES ASSUME "open" \notin oddities'
               PROVE  InsertSound' /\ InsertsApart' /\ OnePerClient'
    BY DEF ClientsSound
  <2>1. InsertSound /\ InsertsApart /\ OnePerClient  BY <1>4 DEF AccountsInv, ClientsSound
  <2>2. \A o \in Requests : signing[o].stage = "insert" => signing[o].client # signing[q].client
    BY <1>4 DEF In
  <2>3. InsertSound'
    BY <2>1, <1>3, <1>4, <1>5, <1>8 DEF InsertSound, RevokedByLogin
  <2>4. InsertsApart'  BY <2>1, <2>2, <1>3, <1>5 DEF InsertsApart
  <2>5. OnePerClient'  BY <2>1, <1>4, <1>8 DEF OnePerClient
  <2> QED  BY <2>3, <2>4, <2>5
<1>12. ConsumeSound'  BY <1>3, <1>5 DEF AccountsInv, ConsumeSound
<1>13. InvitationAccounted'
  <2>1. In({"consume"})' = In({"consume"})  BY <1>3, <1>4, <1>5 DEF In
  <2>2. "cut" \in oddities' <=> "cut" \in oddities  BY <1>4
  <2> QED  BY <2>1, <2>2, <1>4 DEF AccountsInv, InvitationAccounted
<1> QED  BY <1>6, <1>7, <1>9, <1>10, <1>11, <1>12, <1>13 DEF AccountsInv

-----------------------------------------------------------------------------
(* Steps that end sessions                                                 *)

\* What is known of the sessions stays known when they end.
LEMMA ShrinkKeeps ==
  ASSUME AccountsInv, Shrinks,
         UNCHANGED <<account, accounts, invitation, oddities>>,
         UNCHANGED signing, password' = password, codes' \in [CodeIds -> CodeRows]
  PROVE  AccountsInv'
<1>1. AccountsTypeOK'  BY DEF AccountsInv, AccountsTypeOK, Shrinks
<1>2. Active' \subseteq Active  BY DEF Active, Shrinks
<1>3. \A s \in Active' : s \in SessionIds  BY DEF Active
<1>4. NumbersSound'  BY DEF AccountsInv, NumbersSound, Shrinks
<1>5. ResetSound'  BY <1>2, <1>3 DEF AccountsInv, ResetSound, Shrinks
<1>6. PasswordSound'  BY <1>2, <1>3 DEF AccountsInv, PasswordSound, Shrinks
<1>7. ClientsSound'
  <2>1. InsertSound => InsertSound'  BY <1>2, <1>3 DEF InsertSound, Shrinks
  <2>2. InsertsApart => InsertsApart'  BY DEF InsertsApart
  <2>3. OnePerClient => OnePerClient'  BY <1>2, <1>3 DEF OnePerClient, Shrinks
  <2> QED  BY <2>1, <2>2, <2>3 DEF AccountsInv, ClientsSound
<1>8. ConsumeSound' /\ InvitationAccounted'
  BY DEF AccountsInv, ConsumeSound, InvitationAccounted, In
<1> QED  BY <1>1, <1>4, <1>5, <1>6, <1>7, <1>8 DEF AccountsInv

LEMMA EndsKeeps ==
  ASSUME AccountsInv, NEW S, Ends(S)
  PROVE  AccountsInv'
BY RevokedShrinks, ShrinkKeeps, Parts DEF Ends, AccountsInv

LEMMA CommitRefreshKeeps ==
  ASSUME AccountsInv, NEW q \in Requests, CommitRefresh(q)
  PROVE  AccountsInv'
<1> DEFINE x == signing[q].session
           token == signing[q].row.token + 1
<1>0. AccountsTypeOK  BY DEF AccountsInv
<1>1. token \in Nat  BY <1>0, Parts DEF SigningRows, SessionRows
<1>2. /\ signing[q].stage = "rotate" /\ signing' = [signing EXCEPT ![q] = NotSigning]
      /\ sessions' = [sessions EXCEPT ![x] = [@ EXCEPT !.token = token]]
      /\ UNCHANGED <<account, accounts, password, invitation, codes, oddities>>
  BY DEF CommitRefresh, Signs, Rotated
<1> HIDE DEF token
<1>3. Shrinks
  <2>1. \A s \in SessionIds :
          sessions'[s] = IF s = x THEN [sessions[s] EXCEPT !.token = token] ELSE sessions[s]
    BY <1>0, <1>2, Parts
  <2>2. ASSUME NEW s \in SessionIds
        PROVE  /\ sessions'[s] \in SessionRows
               /\ sessions'[s].status = sessions[s].status
               /\ sessions'[s].user = sessions[s].user
               /\ sessions'[s].client = sessions[s].client
               /\ sessions'[s].password = sessions[s].password
               /\ sessions'[s].late = sessions[s].late
    <3>1. sessions[s] \in SessionRows  BY <1>0, Parts
    <3>2. CASE s = x
      <4> DEFINE new == [sessions[s] EXCEPT !.token = token]
      <4>1. /\ new \in SessionRows /\ new.status = sessions[s].status
            /\ new.user = sessions[s].user /\ new.client = sessions[s].client
            /\ new.password = sessions[s].password /\ new.late = sessions[s].late
        BY <1>1, <3>1 DEF SessionRows
      <4>2. sessions'[s] = new  BY <2>1, <3>2
      <4> HIDE DEF new
      <4> QED  BY <4>1, <4>2
    <3>3. CASE s # x  BY <2>1, <3>1, <3>3
    <3> QED  BY <3>2, <3>3
  <2>3. sessions' = [s \in SessionIds |-> sessions'[s]]  BY <1>0, <1>2, Parts
  <2> QED  BY <2>2, <2>3 DEF Shrinks
<1>4. 0 <= accounts  BY <1>0, Parts
<1> QED  BY <1>0, <1>2, <1>3, <1>4, IdleRow, Parts, SigningKeeps

\* A reset changes the password and ends the sessions it has found: those that
\* came since are late.
LEMMA CommitResetKeeps ==
  ASSUME AccountsInv, NEW q \in Requests, CommitReset(q)
  PROVE  AccountsInv'
<1>0. AccountsTypeOK  BY DEF AccountsInv
<1>1. /\ signing[q].stage = "reset" /\ account = signing[q].user
      /\ password' = password + 1 /\ codes' = Spend(signing[q].code)
      /\ sessions' = Revoked(signing[q].met)
      /\ signing' = [signing EXCEPT ![q] = NotSigning]
      /\ UNCHANGED <<account, accounts, invitation, oddities>>
  BY DEF CommitReset, Signs
<1>2. Shrinks  BY <1>0, <1>1, RevokedShrinks
<1>3. password' \in Nat  BY <1>0, <1>1, Parts
<1>4. codes' \in [CodeIds -> CodeRows]  BY <1>0, <1>1, SpendType
<1>5. 0 <= accounts  BY <1>0, Parts
<1>6. /\ AccountsTypeOK' /\ NumbersSound' /\ ResetSound' /\ ClientsSound'
      /\ ConsumeSound' /\ InvitationAccounted'
  BY <1>0, <1>1, <1>2, <1>3, <1>4, <1>5, IdleRow, Parts, RestKeeps
<1>7. PasswordSound'
  <2> SUFFICES ASSUME NEW s \in Active', account' # 0, sessions'[s].user = account'
               PROVE  sessions'[s].late
    BY DEF PasswordSound
  <2>1. s \in SessionIds /\ s \in Active /\ sessions[s].user = account
        /\ sessions'[s].late = sessions[s].late
    BY <1>1, <1>2 DEF Active, Shrinks
  <2>2. s \notin signing[q].met
    <3> SUFFICES ASSUME s \in signing[q].met PROVE sessions'[s].status = "over"
      BY DEF Active
    <3>1. sessions'[s] = [sessions[s] EXCEPT !.status = "over"]  BY <1>1, <2>1 DEF Revoked
    <3>2. sessions[s] \in SessionRows  BY <1>0, <2>1, Parts
    <3> QED  BY <3>1, <3>2 DEF SessionRows
  <2>3. sessions[s].late  BY <1>1, <2>1, <2>2 DEF AccountsInv, ResetSound
  <2> QED  BY <2>1, <2>3
<1> QED  BY <1>6, <1>7 DEF AccountsInv

-----------------------------------------------------------------------------
(* A session opens                                                         *)

LEMMA OpenSessionKeeps ==
  ASSUME AccountsInv, NEW q \in Requests, NEW s \in SessionIds, OpenSession(q, s)
  PROVE  AccountsInv'
<1> DEFINE r == signing[q]
           delayed == r.password # password \/ In({"reset"}) # {}
           new == [NoSession EXCEPT !.status = "active", !.user = r.user, !.client = r.client,
                                    !.password = r.password, !.late = delayed]
<1>0. AccountsTypeOK  BY DEF AccountsInv
<1>1. /\ r.stage = "insert" /\ SessionFresh(s)
      /\ sessions' = [Revoked(r.met) EXCEPT ![s] = new]
      /\ signing' = [signing EXCEPT ![q] = NotSigning]
      /\ UNCHANGED <<account, accounts, password, invitation, codes, oddities>>
  BY DEF OpenSession, Signs
<1>2. r \in SigningRows  BY <1>0, Parts
<1>3. delayed \in BOOLEAN  OBVIOUS
<1>4. delayed <=> r.password # password \/ In({"reset"}) # {}  OBVIOUS
<1> HIDE DEF delayed
<1>5. /\ new \in SessionRows /\ new.status = "active" /\ new.user = r.user
      /\ new.client = r.client /\ new.password = r.password /\ new.late = delayed
  BY <1>2, <1>3, NothingTypes DEF SigningRows, SessionRows, NoSession
<1> HIDE DEF new
<1>6. s \notin Active
  <2>1. s >= s  BY AccountBounds DEF SessionIds
  <2>2. sessions[s].status = "none"  BY <1>1, <2>1 DEF SessionFresh
  <2> QED  BY <2>2 DEF Active
<1>7. sessions' \in [SessionIds -> SessionRows] /\ sessions'[s] = new
      /\ \A t \in SessionIds \ {s} :
           sessions'[t] = IF t \in r.met THEN [sessions[t] EXCEPT !.status = "over"]
                          ELSE sessions[t]
  <2>1. \A t \in SessionIds : sessions[t] \in SessionRows  BY <1>0, Parts
  <2>2. \A t \in SessionIds : [sessions[t] EXCEPT !.status = "over"] \in SessionRows
    BY <2>1 DEF SessionRows
  <2>3. Revoked(r.met) \in [SessionIds -> SessionRows]  BY <2>1, <2>2 DEF Revoked
  <2> QED  BY <1>1, <1>5, <2>3 DEF Revoked
<1>8. ASSUME NEW t \in Active', t # s
      PROVE  t \in SessionIds /\ t \in Active /\ t \notin r.met /\ sessions'[t] = sessions[t]
  <2>1. t \in SessionIds /\ sessions'[t].status = "active"  BY DEF Active
  <2>2. t \notin r.met
    <3> SUFFICES ASSUME t \in r.met PROVE sessions'[t].status = "over"
      BY <2>1
    <3>1. sessions[t] \in SessionRows  BY <1>0, <2>1, Parts
    <3> QED  BY <1>7, <1>8, <2>1, <3>1 DEF SessionRows
  <2> QED  BY <2>1, <2>2, <1>7, <1>8 DEF Active
<1>9. \A o \in Requests : signing'[o] = IF o = q THEN NotSigning ELSE signing[o]
  BY <1>0, <1>1, Parts
<1>10. NotSigning.stage = "idle" /\ NotSigning.user = 0  BY DEF NotSigning
<1>11. AccountsTypeOK'
  <2>1. signing' \in [Requests -> SigningRows]  BY <1>0, <1>1, NothingTypes, Parts
  <2> QED  BY <1>0, <1>1, <1>7, <2>1 DEF AccountsTypeOK
<1>12. NumbersSound'
  <2>1. ASSUME NEW t \in SessionIds PROVE sessions'[t].user <= accounts
    <3>1. CASE t = s  BY <1>5, <1>7, <3>1 DEF AccountsInv, NumbersSound
    <3>2. CASE t # s
      <4>1. sessions[t] \in SessionRows  BY <1>0, Parts
      <4>2. sessions'[t].user = sessions[t].user  BY <1>7, <3>2, <4>1 DEF SessionRows
      <4> QED  BY <4>2 DEF AccountsInv, NumbersSound
    <3> QED  BY <3>1, <3>2
  <2>2. 0 <= accounts  BY <1>0, Parts
  <2> QED  BY <1>1, <1>9, <1>10, <2>1, <2>2 DEF AccountsInv, NumbersSound
<1>13. ResetSound'
  <2> SUFFICES ASSUME NEW o \in Requests, NEW t \in Active', signing'[o].stage = "reset",
                      sessions'[t].user = signing'[o].user
               PROVE  t \in signing'[o].met \/ sessions'[t].late
    BY DEF ResetSound
  <2>1. signing'[o] = signing[o] /\ o \in In({"reset"})  BY <1>9, <1>10 DEF In
  <2>2. CASE t = s  BY <2>1, <2>2, <1>4, <1>5, <1>7
  <2>3. CASE t # s  BY <2>1, <2>3, <1>8 DEF AccountsInv, ResetSound
  <2> QED  BY <2>2, <2>3
<1>14. PasswordSound'
  <2> SUFFICES ASSUME NEW t \in Active', account # 0, sessions'[t].user = account
               PROVE  sessions'[t].password = password \/ sessions'[t].late
    BY <1>1 DEF PasswordSound
  <2>1. CASE t = s  BY <2>1, <1>4, <1>5, <1>7
  <2>2. CASE t # s  BY <2>2, <1>8 DEF AccountsInv, PasswordSound
  <2> QED  BY <2>1, <2>2
<1>15. ClientsSound'
  <2> SUFFICES ASSUME "open" \notin oddities
               PROVE  InsertSound' /\ InsertsApart' /\ OnePerClient'
    BY <1>1 DEF ClientsSound
  <2>1. InsertSound /\ InsertsApart /\ OnePerClient  BY DEF AccountsInv, ClientsSound
  <2>2. InsertSound'
    <3> SUFFICES ASSUME NEW o \in Requests, signing'[o].stage = "insert", NEW t \in Active',
                        sessions'[t].user = signing'[o].user,
                        sessions'[t].client = signing'[o].client
                 PROVE  t \in signing'[o].met
      BY DEF InsertSound
    <3>1. o # q /\ signing'[o] = signing[o]  BY <1>9, <1>10
    <3>2. signing[o].client # r.client  BY <3>1, <2>1, <1>1 DEF InsertsApart
    <3>3. t # s  BY <3>1, <3>2, <1>5, <1>7
    <3> QED  BY <3>1, <3>3, <2>1, <1>8 DEF InsertSound
  <2>3. InsertsApart'  BY <2>1, <1>9, <1>10 DEF InsertsApart
  <2>4. OnePerClient'
    <3>1. ASSUME NEW t \in Active', t # s,
                 sessions'[t].user = r.user, sessions'[t].client = r.client
          PROVE  FALSE
      BY <3>1, <2>1, <1>1, <1>8 DEF InsertSound
    <3>2. ASSUME NEW t \in Active', NEW v \in Active', t # s, v # s,
                 sessions'[t].user = sessions'[v].user,
                 sessions'[t].client = sessions'[v].client
          PROVE  t = v
      BY <3>2, <2>1, <1>8 DEF OnePerClient
    <3> QED  BY <3>1, <3>2, <1>5, <1>7 DEF OnePerClient
  <2> QED  BY <2>2, <2>3, <2>4
<1>16. ConsumeSound'  BY <1>9, <1>10 DEF AccountsInv, ConsumeSound
<1>17. InvitationAccounted'
  <2>1. In({"consume"})' = In({"consume"})  BY <1>1, <1>9, <1>10 DEF In
  <2> QED  BY <2>1, <1>1 DEF AccountsInv, InvitationAccounted
<1> QED  BY <1>11, <1>12, <1>13, <1>14, <1>15, <1>16, <1>17 DEF AccountsInv

-----------------------------------------------------------------------------
(* Accounts come and go                                                    *)

\* A new account has a number that no session has.
LEMMA AcceptRegistrationKeeps ==
  ASSUME AccountsInv, NEW q \in Requests, AcceptRegistration(q)
  PROVE  AccountsInv'
<1> DEFINE new == [signing[q] EXCEPT !.stage = "consume", !.user = accounts + 1]
<1>0. AccountsTypeOK /\ NumbersSound  BY DEF AccountsInv
<1>1. /\ account = 0 /\ accounts < MaxAccount /\ accounts' = accounts + 1
      /\ account' = accounts + 1 /\ password' = 0 /\ codes' = Spend(signing[q].code)
      /\ signing' = [signing EXCEPT ![q] = new]
      /\ UNCHANGED <<invitation, sessions, oddities>>
  BY DEF AcceptRegistration, Signs
<1>2. accounts \in Nat /\ accounts + 1 \in 0..MaxAccount
  BY <1>0, <1>1, Parts, AccountBounds
<1>3. signing[q] \in SigningRows  BY <1>0, Parts
<1>4. new \in SigningRows /\ new.stage = "consume" /\ new.user = accounts + 1
  BY <1>2, <1>3 DEF SigningRows
<1> HIDE DEF new
<1>5. \A o \in Requests : signing'[o] = IF o = q THEN new ELSE signing[o]
  BY <1>0, <1>1, Parts
<1>6. AccountsTypeOK'
  <2>1. codes' \in [CodeIds -> CodeRows]  BY <1>0, <1>1, SpendType
  <2>2. signing' \in [Requests -> SigningRows]  BY <1>0, <1>1, <1>4, Parts
  <2>3. account' \in 0..MaxAccount /\ accounts' \in 0..MaxAccount /\ password' \in Nat
    BY <1>1, <1>2
  <2> QED  BY <1>0, <1>1, <2>1, <2>2, <2>3 DEF AccountsTypeOK
<1>7. NumbersSound'
  <2>1. ASSUME NEW s \in SessionIds PROVE sessions[s].user <= accounts + 1
    <3>1. sessions[s].user \in 0..MaxAccount  BY <1>0, Parts DEF SessionRows
    <3>2. sessions[s].user <= accounts  BY <1>0 DEF NumbersSound
    <3> QED  BY <3>1, <3>2, <1>2
  <2>2. ASSUME NEW o \in Requests PROVE signing[o].user <= accounts + 1
    <3>1. signing[o].user \in 0..MaxAccount  BY <1>0, Parts DEF SigningRows
    <3>2. signing[o].user <= accounts  BY <1>0 DEF NumbersSound
    <3> QED  BY <3>1, <3>2, <1>2
  <2>3. ASSUME NEW o \in Requests PROVE signing'[o].user <= accounts + 1
    BY <2>2, <1>2, <1>4, <1>5
  <2> QED  BY <1>1, <2>1, <2>3 DEF NumbersSound
<1>8. Active' = Active  BY <1>1 DEF Active
<1>9. ResetSound'  BY <1>1, <1>4, <1>5, <1>8 DEF AccountsInv, ResetSound
<1>10. PasswordSound'
  <2>1. ASSUME NEW s \in Active PROVE sessions[s].user # accounts + 1
    <3>1. s \in SessionIds  BY DEF Active
    <3>2. sessions[s].user \in 0..MaxAccount  BY <1>0, <3>1, Parts DEF SessionRows
    <3>3. sessions[s].user <= accounts  BY <1>0, <3>1 DEF NumbersSound
    <3> QED  BY <3>2, <3>3, <1>2
  <2> QED  BY <2>1, <1>1, <1>8 DEF PasswordSound
<1>11. ClientsSound'
  <2> SUFFICES ASSUME "open" \notin oddities
               PROVE  InsertSound' /\ InsertsApart' /\ OnePerClient'
    BY <1>1 DEF ClientsSound
  <2>1. InsertSound /\ InsertsApart /\ OnePerClient  BY DEF AccountsInv, ClientsSound
  <2>2. InsertSound'  BY <2>1, <1>1, <1>4, <1>5, <1>8 DEF InsertSound
  <2>3. InsertsApart'  BY <2>1, <1>4, <1>5 DEF InsertsApart
  <2>4. OnePerClient'  BY <2>1, <1>1, <1>8 DEF OnePerClient
  <2> QED  BY <2>2, <2>3, <2>4
<1>12. ConsumeSound'
  <2>1. accounts + 1 # 0  BY <1>2
  <2> QED  BY <2>1, <1>4, <1>5 DEF AccountsInv, ConsumeSound
<1>13. InvitationAccounted'
  <2>1. invitation = 0  BY <1>1 DEF AccountsInv, InvitationAccounted
  <2>2. q \in In({"consume"})'  BY <1>4, <1>5 DEF In
  <2> QED  BY <2>1, <2>2, <1>1 DEF InvitationAccounted
<1> QED  BY <1>6, <1>7, <1>9, <1>10, <1>11, <1>12, <1>13 DEF AccountsInv

LEMMA ConsumeKeeps ==
  ASSUME AccountsInv, NEW q \in Requests, ConsumeInvitation(q)
  PROVE  AccountsInv'
<1> DEFINE u == signing[q].user
           c == signing[q].code
           new == [signing[q] EXCEPT !.stage = "open"]
<1>0. AccountsTypeOK  BY DEF AccountsInv
<1>1. /\ signing[q].stage = "consume" /\ account = u /\ invitation' = u
      /\ codes' = [codes EXCEPT ![c].user = u] /\ signing' = [signing EXCEPT ![q] = new]
      /\ UNCHANGED <<account, accounts, password, sessions, oddities>>
  BY DEF ConsumeInvitation, Consumed, Advances, Signs
<1>2. u # 0 /\ u \in 0..MaxAccount
  BY <1>0, <1>1, Parts DEF AccountsInv, ConsumeSound
<1>3. new \in SigningRows /\ new.stage = "open" /\ new.user = u /\ u <= accounts
  BY Advanced
<1> HIDE DEF new
<1>4. \A o \in Requests : signing'[o] = IF o = q THEN new ELSE signing[o]
  BY <1>0, <1>1, Parts
<1>5. AccountsTypeOK'
  <2>1. \A d \in CodeIds : [codes[d] EXCEPT !.user = u] \in CodeRows
    BY <1>0, <1>2, Parts DEF CodeRows
  <2>2. codes' = [d \in CodeIds |-> IF d = c THEN [codes[d] EXCEPT !.user = u] ELSE codes[d]]
    BY <1>0, <1>1, Parts
  <2>3. codes' \in [CodeIds -> CodeRows]  BY <1>0, <2>1, <2>2, Parts
  <2>4. signing' \in [Requests -> SigningRows]  BY <1>0, <1>1, <1>3, Parts
  <2> QED  BY <1>0, <1>1, <1>2, <2>3, <2>4 DEF AccountsTypeOK
<1>6. NumbersSound'  BY <1>1, <1>3, <1>4 DEF AccountsInv, NumbersSound
<1>7. Active' = Active  BY <1>1 DEF Active
<1>8. ResetSound' /\ PasswordSound'
  BY <1>1, <1>3, <1>4, <1>7 DEF AccountsInv, ResetSound, PasswordSound
<1>9. ClientsSound'
  <2> SUFFICES ASSUME "open" \notin oddities
               PROVE  InsertSound' /\ InsertsApart' /\ OnePerClient'
    BY <1>1 DEF ClientsSound
  <2>1. InsertSound /\ InsertsApart /\ OnePerClient  BY DEF AccountsInv, ClientsSound
  <2>2. InsertSound'  BY <2>1, <1>1, <1>3, <1>4, <1>7 DEF InsertSound
  <2>3. InsertsApart'  BY <2>1, <1>3, <1>4 DEF InsertsApart
  <2>4. OnePerClient'  BY <2>1, <1>1, <1>7 DEF OnePerClient
  <2> QED  BY <2>2, <2>3, <2>4
<1>10. ConsumeSound'  BY <1>3, <1>4 DEF AccountsInv, ConsumeSound
<1>11. InvitationAccounted'  BY <1>1, <1>2 DEF InvitationAccounted
<1> QED  BY <1>5, <1>6, <1>8, <1>9, <1>10, <1>11 DEF AccountsInv

LEMMA DeleteKeeps ==
  ASSUME AccountsInv, DeleteAccount
  PROVE  AccountsInv'
<1>0. AccountsTypeOK  BY DEF AccountsInv
<1>1. /\ account' = 0
      /\ codes' = [c \in CodeIds |-> [codes[c] EXCEPT !.user = IF @ = account THEN 0 ELSE @]]
      /\ invitation' = IF invitation = account THEN 0 ELSE invitation
      /\ UNCHANGED <<accounts, password, sessions, signing, oddities>>
  BY DEF DeleteAccount
<1>2. invitation' = 0  BY <1>1 DEF AccountsInv, InvitationAccounted
<1>3. AccountsTypeOK'
  <2>1. 0 \in 0..MaxAccount  BY AccountBounds
  <2>2. ASSUME NEW c \in CodeIds, NEW u \in 0..MaxAccount
        PROVE  [codes[c] EXCEPT !.user = u] \in CodeRows
    BY <1>0, Parts DEF CodeRows
  <2>3. ASSUME NEW c \in CodeIds PROVE codes[c].user \in 0..MaxAccount
    BY <1>0, Parts DEF CodeRows
  <2>4. codes' \in [CodeIds -> CodeRows]  BY <1>1, <2>1, <2>2, <2>3
  <2> QED  BY <1>0, <1>1, <1>2, <2>1, <2>4 DEF AccountsTypeOK
<1>4. Active' = Active  BY <1>1 DEF Active
<1>5. NumbersSound'  BY <1>1 DEF AccountsInv, NumbersSound
<1>6. ResetSound' /\ PasswordSound'
  BY <1>1, <1>4 DEF AccountsInv, ResetSound, PasswordSound
<1>7. ClientsSound'
  <2>1. InsertSound => InsertSound'  BY <1>1, <1>4 DEF InsertSound
  <2>2. InsertsApart => InsertsApart'  BY <1>1 DEF InsertsApart
  <2>3. OnePerClient => OnePerClient'  BY <1>1, <1>4 DEF OnePerClient
  <2> QED  BY <1>1, <2>1, <2>2, <2>3 DEF AccountsInv, ClientsSound
<1>8. ConsumeSound' /\ InvitationAccounted'
  BY <1>1, <1>2 DEF AccountsInv, ConsumeSound, InvitationAccounted
<1> QED  BY <1>3, <1>5, <1>6, <1>7, <1>8 DEF AccountsInv

LEMMA AgeKeeps ==
  ASSUME AccountsInv, NEW c \in CodeIds, Age(c)
  PROVE  AccountsInv'
<1> DEFINE after == [fresh |-> "valid", valid |-> "expired"]
<1>0. AccountsTypeOK  BY DEF AccountsInv
<1>1. /\ codes[c].age \in {"fresh", "valid"}
      /\ codes' = [codes EXCEPT ![c].age = after[codes[c].age]]
      /\ UNCHANGED <<account, accounts, password, invitation, sessions, signing, oddities>>
  BY <1>0, Parts DEF Age
<1>2. after[codes[c].age] \in {"valid", "expired"}
  <2>1. CASE codes[c].age = "fresh"  BY <2>1
  <2>2. CASE codes[c].age = "valid"  BY <2>2
  <2> QED  BY <1>1, <2>1, <2>2
<1> HIDE DEF after
<1>3. [codes[c] EXCEPT !.age = after[codes[c].age]] \in CodeRows
  BY <1>0, <1>2, Parts DEF CodeRows
<1>4. codes' \in [CodeIds -> CodeRows]  BY <1>0, <1>1, <1>3, Parts
<1> QED  BY <1>1, <1>4, SameShrinks, ShrinkKeeps

-----------------------------------------------------------------------------
(* The invariant                                                           *)

LEMMA AccountsStep == AccountsInv /\ [AccountsNext]_accountVars => AccountsInv'
<1> SUFFICES ASSUME AccountsInv, [AccountsNext]_accountVars PROVE AccountsInv'
  OBVIOUS
<1>1. CASE UNCHANGED accountVars
  <2>1. codes' \in [CodeIds -> CodeRows]  BY <1>1, Parts DEF AccountsInv, accountVars
  <2> QED  BY <1>1, <2>1, SameShrinks, ShrinkKeeps DEF accountVars
<1>2. ASSUME NEW q \in Requests, SendRegister(q) \/ SendLogin(q) \/ SendReset(q)
      PROVE  AccountsInv'
  BY <1>2, SendKeeps DEF SendRegister, SendLogin, SendReset, Purposes
<1>3. ASSUME NEW q \in Requests, NEW c \in CodeIds, CommitSend(q, c) PROVE AccountsInv'
  BY <1>3, CommitSendKeeps
<1>4. ASSUME NEW q \in Requests, NEW right \in BOOLEAN,
             \/ \E k \in Clients : Register(q, right, k) \/ CodeLogin(q, right, k)
             \/ ResetPassword(q, right)
      PROVE  AccountsInv'
  BY <1>4, RedeemKeeps DEF Register, CodeLogin, ResetPassword, Purposes
<1>5. ASSUME NEW q \in Requests,
             Miss(q) \/ AcceptRegistration(q) \/ ConsumeInvitation(q) \/ AcceptLogin(q)
      PROVE  AccountsInv'
  BY <1>5, MissKeeps, AcceptRegistrationKeeps, ConsumeKeeps, AcceptLoginKeeps
<1>6. ASSUME NEW q \in Requests, RevokeAll(q) \/ CommitReset(q) \/ RevokeSame(q)
      PROVE  AccountsInv'
  BY <1>6, RevokeAllKeeps, CommitResetKeeps, RevokeSameKeeps
<1>7. ASSUME NEW q \in Requests, NEW k \in Clients, PasswordLogin(q, k) PROVE AccountsInv'
  BY <1>7, PasswordLoginKeeps
<1>8. ASSUME NEW q \in Requests, NEW s \in SessionIds, OpenSession(q, s) \/ ReadRefresh(q, s)
      PROVE  AccountsInv'
  BY <1>8, OpenSessionKeeps, ReadRefreshKeeps
<1>9. ASSUME NEW q \in Requests, CommitRefresh(q) \/ AbandonSigning(q) PROVE AccountsInv'
  BY <1>9, CommitRefreshKeeps, AbandonKeeps
<1>10. ASSUME NEW s \in SessionIds,
              \/ LogOut(s) \/ LogOutAll(s) \/ ExpireSession(s)
              \/ \E t \in SessionIds : RevokeSession(s, t)
       PROVE  AccountsInv'
  BY <1>10, EndsKeeps DEF LogOut, LogOutAll, ExpireSession, RevokeSession
<1>11. ASSUME NEW c \in CodeIds, Age(c) PROVE AccountsInv'
  BY <1>11, AgeKeeps
<1>12. CASE DeleteAccount  BY <1>12, DeleteKeeps
<1> QED
  BY <1>1, <1>2, <1>3, <1>4, <1>5, <1>6, <1>7, <1>8, <1>9, <1>10, <1>11, <1>12
  DEF AccountsNext

\* The inductive invariant holds in every state of every behaviour of the
\* accounts of an address.
THEOREM AccountsInvariant == AccountsSpec => []AccountsInv
<1> QED  BY AccountsInitInv, AccountsStep, PTL DEF AccountsSpec

\* Every variable of accounts, codes, invitations and sessions keeps its type.
THEOREM AccountsTypesHold == AccountsSpec => []AccountsTypeOK
<1>1. AccountsInv => AccountsTypeOK  BY DEF AccountsInv
<1> QED  BY <1>1, AccountsInvariant, PTL

\* No session of the account outlives the password it was opened with, and each
\* client type has one, whatever overlaps with the reset and the logins, but
\* for the sessions and logins the property excepts (confirm_password_reset,
\* create_session_token_pair).
THEOREM SessionsFollow == AccountsSpec => []SessionsFollowPassword
<1>1. AccountsInv => SessionsFollowPassword
  BY DEF AccountsInv, PasswordSound, ClientsSound, OnePerClient, SessionsFollowPassword,
         Accepted
<1> QED  BY <1>1, AccountsInvariant, PTL

\* The invitation names the account it was used for, but for a registration
\* that stops between its two commits.
THEOREM InvitationsAccounted == AccountsSpec => []InvitationAccounted
<1>1. AccountsInv => InvitationAccounted  BY DEF AccountsInv
<1> QED  BY <1>1, AccountsInvariant, PTL

-----------------------------------------------------------------------------
(* Ended sessions                                                          *)

\* Ended sessions stay ended.
StayEnded == \A s \in SessionIds : sessions[s].status = "over" => sessions'[s].status = "over"

LEMMA RevokedStayEnded ==
  ASSUME AccountsTypeOK, NEW S
  PROVE  \A s \in SessionIds : sessions[s].status = "over" => Revoked(S)[s].status = "over"
<1> TAKE s \in SessionIds
<1>1. sessions[s] \in SessionRows  BY Parts
<1>2. Revoked(S)[s] = IF s \in S THEN [sessions[s] EXCEPT !.status = "over"] ELSE sessions[s]
  BY DEF Revoked
<1> QED  BY <1>1, <1>2 DEF SessionRows

LEMMA EndedStep == AccountsInv /\ [AccountsNext]_accountVars => StayEnded
<1> SUFFICES ASSUME AccountsInv, [AccountsNext]_accountVars PROVE StayEnded
  OBVIOUS
<1>0. AccountsTypeOK  BY DEF AccountsInv
<1>1. CASE UNCHANGED sessions  BY <1>1 DEF StayEnded
<1>2. ASSUME NEW S, sessions' = Revoked(S) PROVE StayEnded
  BY <1>0, <1>2, RevokedStayEnded DEF StayEnded
<1>3. ASSUME NEW q \in Requests, CommitRefresh(q) PROVE StayEnded
  <2> SUFFICES ASSUME NEW s \in SessionIds, sessions[s].status = "over"
               PROVE  sessions'[s].status = "over"
    BY DEF StayEnded
  <2>1. sessions[s] \in SessionRows  BY <1>0, Parts
  <2>2. sessions' = [sessions EXCEPT ![signing[q].session] =
                       [@ EXCEPT !.token = signing[q].row.token + 1]]
    BY <1>3 DEF CommitRefresh, Rotated
  <2>3. sessions'[s] = IF s = signing[q].session
                       THEN [sessions[s] EXCEPT !.token = signing[q].row.token + 1]
                       ELSE sessions[s]
    BY <1>0, <2>2, Parts
  <2> QED  BY <2>1, <2>3 DEF SessionRows
<1>4. ASSUME NEW q \in Requests, NEW s \in SessionIds, OpenSession(q, s) PROVE StayEnded
  <2> SUFFICES ASSUME NEW t \in SessionIds, sessions[t].status = "over"
               PROVE  sessions'[t].status = "over"
    BY DEF StayEnded
  <2>1. SessionFresh(s)  BY <1>4 DEF OpenSession
  <2>2. s >= s  BY AccountBounds DEF SessionIds
  <2>3. sessions[s].status = "none"  BY <2>1, <2>2 DEF SessionFresh
  <2>4. t # s  BY <2>3
  <2>5. sessions'[t] = Revoked(signing[q].met)[t]  BY <1>4, <2>4 DEF OpenSession, Revoked
  <2> QED  BY <1>0, <2>5, RevokedStayEnded
<1>5. ASSUME NEW q \in Requests, CommitReset(q) PROVE StayEnded
  BY <1>2, <1>5 DEF CommitReset
<1>6. ASSUME NEW s \in SessionIds,
             \/ LogOut(s) \/ LogOutAll(s) \/ ExpireSession(s)
             \/ \E t \in SessionIds : RevokeSession(s, t)
      PROVE  StayEnded
  BY <1>2, <1>6 DEF LogOut, LogOutAll, ExpireSession, RevokeSession, Ends
<1>7. ASSUME NEW q \in Requests, SendRegister(q) \/ SendLogin(q) \/ SendReset(q)
      PROVE  UNCHANGED sessions
  BY <1>7 DEF SendRegister, SendLogin, SendReset, ReadSend
<1>8. ASSUME NEW q \in Requests, NEW c \in CodeIds, CommitSend(q, c) PROVE UNCHANGED sessions
  BY <1>8 DEF CommitSend
<1>9. ASSUME NEW q \in Requests, NEW right \in BOOLEAN,
             \/ \E k \in Clients : Register(q, right, k) \/ CodeLogin(q, right, k)
             \/ ResetPassword(q, right)
      PROVE  UNCHANGED sessions
  BY <1>9 DEF Register, CodeLogin, ResetPassword, Redeem
<1>10. ASSUME NEW q \in Requests,
              \/ Miss(q) \/ AcceptRegistration(q) \/ ConsumeInvitation(q) \/ AcceptLogin(q)
              \/ RevokeAll(q) \/ RevokeSame(q) \/ AbandonSigning(q)
       PROVE  UNCHANGED sessions
  BY <1>10 DEF Miss, AcceptRegistration, ConsumeInvitation, AcceptLogin, RevokeAll,
               RevokeSame, AbandonSigning
<1>11. ASSUME NEW q \in Requests,
              \/ \E k \in Clients : PasswordLogin(q, k)
              \/ \E s \in SessionIds : ReadRefresh(q, s)
       PROVE  UNCHANGED sessions
  BY <1>11 DEF PasswordLogin, ReadRefresh
<1>12. CASE DeleteAccount \/ \E c \in CodeIds : Age(c)
  BY <1>1, <1>12 DEF DeleteAccount, Age
<1>13. CASE UNCHANGED accountVars  BY <1>1, <1>13 DEF accountVars
<1> QED
  BY <1>1, <1>3, <1>4, <1>5, <1>6, <1>7, <1>8, <1>9, <1>10, <1>11, <1>12, <1>13
  DEF AccountsNext

\* An ended session never comes back: a refresh writes the token only, and a
\* login opens a session of its own.
THEOREM EndedSessionsStayEnded == AccountsSpec => EndedForGood
<1>1. AccountsInv /\ [AccountsNext]_accountVars
        => [\A s \in SessionIds : sessions[s].status = "over"
              => sessions'[s].status = "over"]_accountVars
  BY EndedStep DEF StayEnded
<1> QED  BY <1>1, AccountsInvariant, PTL DEF AccountsSpec, EndedForGood

-----------------------------------------------------------------------------
(***************************************************************************)
(* ProfileAvatars.  A new file belongs to the one request that wrote it    *)
(* until its commit, and an old one to the one user who had it; somebody   *)
(* answers for every file that no row refers to.                           *)
(***************************************************************************)

UploadRecords == [stage : {"idle", "save", "write", "commit", "clean", "undo"},
                  user : Users \cup {None}, old : 0..MaxFile, new : 0..MaxFile]

Holding == {"write", "commit", "undo"}

\* Files that are spoken of were there at some time.
FilesUsed ==
  /\ \A u \in Users : avatar[u] # 0 => stored[avatar[u]] # "unused"
  /\ \A q \in Requests : \A f \in {uploads[q].old, uploads[q].new} : f # 0 => stored[f] # "unused"
  /\ \A f \in named : stored[f] # "unused"

NewFilesOwn ==
  \A q \in Requests : uploads[q].stage \in Holding /\ uploads[q].new # 0 =>
    /\ uploads[q].new \notin named
    /\ \A u \in Users : avatar[u] # uploads[q].new
    /\ \A o \in Requests : uploads[o].old # uploads[q].new
    /\ \A o \in Requests \ {q} : uploads[o].new # uploads[q].new

UploadsSound ==
  \A q \in Requests :
    /\ uploads[q].stage \in {"idle", "save"} => uploads[q].new = 0
    /\ uploads[q].stage = "write" => uploads[q].new # 0
    /\ uploads[q].stage = "commit" /\ uploads[q].new # 0 => stored[uploads[q].new] = "whole"
    /\ uploads[q].stage # "idle" => uploads[q].user \in Users

OneOwner ==
  \A u, v \in Users : u # v /\ avatar[u] = avatar[v] => avatar[u] \in named \cup {0}

\* What a request takes for the old avatar is nobody else's, and nobody's once
\* the request removes it.
OldIsTheirs ==
  \A q \in Requests : uploads[q].old \notin named \cup {0} =>
    \A u \in Users : avatar[u] = uploads[q].old =>
      u = uploads[q].user /\ uploads[q].stage # "clean"

Kept(f) == f \in leftover \/ stored[f] \in {"unused", "gone"} \/ \E u \in Users : avatar[u] = f
AnswersFor(r, f) == (r.stage \in Holding /\ r.new = f) \/ (r.stage = "clean" /\ r.old = f)
AllKept == \A f \in FileIds : Kept(f) \/ \E q \in Requests : AnswersFor(uploads[q], f)

AvatarInv == /\ AvatarTypeOK /\ FilesUsed /\ NewFilesOwn /\ UploadsSound
             /\ OneOwner /\ OldIsTheirs /\ AllKept /\ AvatarShown /\ BegunHasBody

LEMMA FileNumbers ==
  /\ 0 \in 0..MaxFile /\ 0 \notin FileIds
  /\ \A f \in 0..MaxFile : f # 0 <=> f \in FileIds
  /\ \A f \in FileIds : f \in 0..MaxFile
BY AvatarAssumption DEF FileIds

LEMMA AvatarsTyped ==
  ASSUME AvatarTypeOK
  PROVE  /\ avatar \in [Users -> 0..MaxFile] /\ uploads \in [Requests -> UploadRecords]
         /\ stored \in [FileIds -> {"unused", "partial", "whole", "gone"}]
         /\ named \in SUBSET FileIds /\ leftover \in SUBSET FileIds
         /\ Waiting \in UploadRecords /\ Waiting.stage = "idle" /\ Waiting.old = 0 /\ Waiting.new = 0
<1>1. Waiting \in UploadRecords /\ Waiting.stage = "idle" /\ Waiting.old = 0 /\ Waiting.new = 0
  BY FileNumbers DEF Waiting, UploadRecords
<1>2. QED
  BY <1>1 DEF AvatarTypeOK, UploadRecords

LEMMA AvatarsStart ==
  ASSUME AvatarInit
  PROVE  AvatarInv
<1>1. /\ \A u \in Users : avatar[u] = 0
      /\ \A q \in Requests : uploads[q] = Waiting
      /\ \A f \in FileIds : stored[f] = "unused"
      /\ named = {} /\ leftover = {} /\ serving = NotServing
  BY DEF AvatarInit
<1>2. Waiting \in UploadRecords /\ Waiting.stage = "idle" /\ Waiting.old = 0 /\ Waiting.new = 0
  BY FileNumbers DEF Waiting, UploadRecords
<1>3. /\ NotServing.stage = "idle"
      /\ NotServing \in [stage : {"idle", "found", "ok", "not found"}, file : 0..MaxFile,
                         body : BOOLEAN]
  BY FileNumbers DEF NotServing
<1>4. AvatarTypeOK
  <2>1. uploads \in [Requests -> UploadRecords]
    BY <1>2 DEF AvatarInit
  <2>2. avatar \in [Users -> 0..MaxFile] /\ owner \in [Users -> {"ok", "banned", "gone"}]
    BY FileNumbers DEF AvatarInit
  <2>3. stored \in [FileIds -> {"unused", "partial", "whole", "gone"}]
    BY DEF AvatarInit
  <2>4. texts \in 0..MaxText /\ named \subseteq FileIds /\ leftover \subseteq FileIds
    BY AvatarAssumption DEF AvatarInit
  <2>5. strategy \in {"local", "object_storage"} /\ serving = NotServing
    BY DEF AvatarInit
  <2>6. QED
    BY <1>3, <2>1, <2>2, <2>3, <2>4, <2>5 DEF AvatarTypeOK, UploadRecords
<1>5. FilesUsed /\ NewFilesOwn /\ UploadsSound
  BY <1>1, <1>2 DEF FilesUsed, NewFilesOwn, UploadsSound
<1>6. OneOwner /\ OldIsTheirs /\ AllKept /\ AvatarShown /\ BegunHasBody
  BY <1>1, <1>2, <1>3 DEF OneOwner, OldIsTheirs, AllKept, Kept, AvatarShown, BegunHasBody
<1>7. QED
  BY <1>4, <1>5, <1>6 DEF AvatarInv

\* A request starts with what it takes for the old avatar.
LEMMA UploadStarts ==
  ASSUME AvatarInv, NEW q \in Requests, NEW u \in Users, NEW stage \in {"save", "commit"},
         uploads' = [uploads EXCEPT ![q] = [stage |-> stage, user |-> u, old |-> avatar[u], new |-> 0]],
         UNCHANGED <<strategy, avatar, owner, stored, serving, named, texts, leftover>>,
         uploads[q] = Waiting
  PROVE  AvatarInv'
<1>1. /\ avatar \in [Users -> 0..MaxFile] /\ uploads \in [Requests -> UploadRecords]
      /\ Waiting.stage = "idle"
  BY AvatarsTyped DEF AvatarInv
<1>2. PICK r \in UploadRecords : r = [stage |-> stage, user |-> u, old |-> avatar[u], new |-> 0]
  BY <1>1, FileNumbers DEF UploadRecords
<1>3. r.stage = stage /\ r.user = u /\ r.old = avatar[u] /\ r.new = 0
  BY <1>2
<1>4. \A o \in Requests : uploads'[o] = IF o = q THEN r ELSE uploads[o]
  BY <1>1, <1>2
<1>5. AvatarTypeOK'
  BY <1>1, <1>2 DEF AvatarInv, AvatarTypeOK, UploadRecords
<1>6. FilesUsed'
  BY <1>3, <1>4 DEF AvatarInv, FilesUsed
<1>7. NewFilesOwn'
  BY <1>3, <1>4 DEF AvatarInv, NewFilesOwn, Holding
<1>8. UploadsSound'
  BY <1>3, <1>4 DEF AvatarInv, UploadsSound
<1>9. OneOwner' /\ OldIsTheirs'
  BY <1>3, <1>4 DEF AvatarInv, OneOwner, OldIsTheirs
<1>10. AllKept'
  <2>1. \A f : ~AnswersFor(uploads[q], f)
    BY <1>1 DEF AnswersFor, Holding
  <2>2. SUFFICES ASSUME NEW f \in FileIds, ~Kept(f) PROVE \E o \in Requests : AnswersFor(uploads[o], f)'
    BY DEF AllKept, Kept
  <2>3. PICK o \in Requests : AnswersFor(uploads[o], f) /\ o # q
    BY <2>1, <2>2 DEF AvatarInv, AllKept
  <2>4. AnswersFor(uploads[o], f)'
    BY <1>4, <2>3 DEF AnswersFor
  <2>5. QED
    BY <2>4
<1>11. AvatarShown' /\ BegunHasBody'
  BY DEF AvatarInv, AvatarShown, BegunHasBody
<1>12. QED
  BY <1>5, <1>6, <1>7, <1>8, <1>9, <1>10, <1>11 DEF AvatarInv

\* A file is made for one request.
LEMMA FileMade ==
  ASSUME AvatarInv, NEW q \in Requests, NEW f \in FileIds, NEW stage \in {"write", "commit"},
         NewFile(f), uploads[q].stage = "save",
         uploads' = [uploads EXCEPT ![q].stage = stage, ![q].new = f],
         stored' = [stored EXCEPT ![f] = IF stage = "write" THEN "partial" ELSE "whole"],
         UNCHANGED <<strategy, avatar, owner, serving, named, texts, leftover>>
  PROVE  AvatarInv'
<1>1. /\ avatar \in [Users -> 0..MaxFile] /\ uploads \in [Requests -> UploadRecords]
      /\ stored \in [FileIds -> {"unused", "partial", "whole", "gone"}]
  BY AvatarsTyped DEF AvatarInv
<1>2. PICK r \in UploadRecords : r = [uploads[q] EXCEPT !.stage = stage, !.new = f]
  BY <1>1, FileNumbers DEF UploadRecords
<1>3. r.stage = stage /\ r.user = uploads[q].user /\ r.old = uploads[q].old /\ r.new = f
  BY <1>1, <1>2 DEF UploadRecords
<1>4. \A o \in Requests : uploads'[o] = IF o = q THEN r ELSE uploads[o]
  BY <1>1, <1>2
<1>5. stored[f] = "unused"
  <2>1. f >= f
    BY DEF FileIds
  <2>2. QED
    BY <2>1 DEF NewFile
<1>6. \A g \in FileIds : stored'[g] = IF g = f THEN (IF stage = "write" THEN "partial" ELSE "whole")
                                               ELSE stored[g]
  BY <1>1
<1>7. f # 0 /\ \A g \in 0..MaxFile : g # 0 => g \in FileIds
  BY FileNumbers
<1>8. AvatarTypeOK'
  <2>1. uploads' \in [Requests -> UploadRecords]
    BY <1>1, <1>2
  <2>2. stored' \in [FileIds -> {"unused", "partial", "whole", "gone"}]
    BY <1>1
  <2>3. QED
    BY <2>1, <2>2 DEF AvatarInv, AvatarTypeOK, UploadRecords
<1>9. FilesUsed'
  <2>1. \A u \in Users : avatar[u] # 0 => stored'[avatar[u]] # "unused"
    BY <1>1, <1>6, <1>7 DEF AvatarInv, FilesUsed
  <2>2. \A o \in Requests : uploads[o].old \in 0..MaxFile /\ uploads[o].new \in 0..MaxFile
    BY <1>1 DEF UploadRecords
  <2>3. \A o \in Requests : \A g \in {uploads'[o].old, uploads'[o].new} : g # 0 => stored'[g] # "unused"
    BY <1>3, <1>4, <1>6, <1>7, <2>2 DEF AvatarInv, FilesUsed
  <2>4. \A g \in named : stored'[g] # "unused"
    BY <1>6, AvatarsTyped DEF AvatarInv, FilesUsed
  <2>5. QED
    BY <2>1, <2>3, <2>4 DEF FilesUsed
<1>10. /\ f \notin named /\ \A u \in Users : avatar[u] # f
       /\ \A o \in Requests : uploads[o].old # f /\ uploads[o].new # f
  BY <1>5, <1>7 DEF AvatarInv, FilesUsed
<1>11. /\ uploads'[q].stage = stage /\ uploads'[q].user = uploads[q].user
       /\ uploads'[q].old = uploads[q].old /\ uploads'[q].new = f
       /\ \A o \in Requests : o # q => uploads'[o] = uploads[o]
  BY <1>3, <1>4
<1>12. NewFilesOwn'
  <2>1. \A o \in Requests : uploads'[o].old = uploads[o].old
    BY <1>11
  <2>2. SUFFICES ASSUME NEW o \in Requests, uploads'[o].stage \in Holding, uploads'[o].new # 0
                 PROVE  /\ uploads'[o].new \notin named
                        /\ \A u \in Users : avatar[u] # uploads'[o].new
                        /\ \A p \in Requests : uploads[p].old # uploads'[o].new
                        /\ \A p \in Requests \ {o} : uploads'[p].new # uploads'[o].new
    BY <2>1 DEF NewFilesOwn
  <2>3. CASE o = q
    <3>1. uploads'[o].new = f
      BY <2>3, <1>11
    <3>2. \A p \in Requests \ {o} : uploads'[p].new = uploads[p].new
      BY <2>3, <1>11
    <3>3. QED
      BY <3>1, <3>2, <1>10
  <2>4. CASE o # q
    <3>1. uploads'[o] = uploads[o]
      BY <2>4, <1>11
    <3>2. /\ uploads[o].new \notin named
          /\ \A u \in Users : avatar[u] # uploads[o].new
          /\ \A p \in Requests : uploads[p].old # uploads[o].new
          /\ \A p \in Requests \ {o} : uploads[p].new # uploads[o].new
      BY <2>2, <3>1 DEF AvatarInv, NewFilesOwn
    <3>3. \A p \in Requests \ {o} : uploads'[p].new # uploads[o].new
      BY <3>2, <1>10, <1>11
    <3>4. QED
      BY <3>1, <3>2, <3>3
  <2>5. QED
    BY <2>3, <2>4
<1>13. UploadsSound'
  <2>1. ASSUME NEW o \in Requests, o # q
        PROVE  /\ uploads[o].stage \in {"idle", "save"} => uploads[o].new = 0
               /\ uploads[o].stage = "write" => uploads[o].new # 0
               /\ uploads[o].stage = "commit" /\ uploads[o].new # 0 => stored'[uploads[o].new] = "whole"
               /\ uploads[o].stage # "idle" => uploads[o].user \in Users
    <3>1. uploads[o].new \in 0..MaxFile
      BY <1>1 DEF UploadRecords
    <3>2. uploads[o].new # 0 => stored'[uploads[o].new] = stored[uploads[o].new]
      BY <3>1, <1>6, <1>7, <1>10
    <3>3. QED
      BY <3>2 DEF AvatarInv, UploadsSound
  <2>2. stage = "commit" => stored'[f] = "whole"
    BY <1>6
  <2>3. uploads[q].user \in Users
    BY DEF AvatarInv, UploadsSound
  <2>4. QED
    BY <2>1, <2>2, <2>3, <1>7, <1>11 DEF UploadsSound
<1>14. OneOwner' /\ OldIsTheirs'
  <2>1. OneOwner'
    BY DEF AvatarInv, OneOwner
  <2>2. \A o \in Requests : /\ uploads'[o].old = uploads[o].old /\ uploads'[o].user = uploads[o].user
                            /\ uploads'[o].stage = "clean" => uploads[o].stage = "clean"
    BY <1>11
  <2>3. OldIsTheirs'
    BY <2>2 DEF AvatarInv, OldIsTheirs
  <2>4. QED
    BY <2>1, <2>3
<1>15. AllKept'
  <2>1. AnswersFor(uploads[q], f)'
    BY <1>3, <1>4 DEF AnswersFor, Holding
  <2>2. ASSUME NEW g \in FileIds, g # f
        PROVE  (Kept(g) \/ \E o \in Requests : AnswersFor(uploads[o], g))'
    <3>1. Kept(g) => Kept(g)'
      BY <2>2, <1>6 DEF Kept
    <3>2. \A o \in Requests : AnswersFor(uploads[o], g) => AnswersFor(uploads[o], g)'
      BY <1>4 DEF AnswersFor, Holding
    <3>3. QED
      BY <3>1, <3>2 DEF AvatarInv, AllKept
  <2>3. QED
    BY <2>1, <2>2 DEF AllKept
<1>16. AvatarShown'
  BY <1>1, <1>6, <1>7, <1>10 DEF AvatarInv, AvatarShown
<1>17. BegunHasBody'
  BY DEF AvatarInv, BegunHasBody
<1>18. QED
  BY <1>8, <1>9, <1>12, <1>13, <1>14, <1>15, <1>16, <1>17 DEF AvatarInv

\* A file is written to its end; or the commit failed.
LEMMA StageMoves ==
  ASSUME AvatarInv, NEW q \in Requests, NEW stage \in {"commit", "undo"},
         uploads[q].stage \in {"write", "commit"},
         uploads' = [uploads EXCEPT ![q].stage = stage],
         stored' \in [FileIds -> {"unused", "partial", "whole", "gone"}],
         \A g \in FileIds : stored'[g] = IF g = uploads[q].new THEN "whole" ELSE stored[g],
         UNCHANGED <<strategy, avatar, owner, serving, named, texts, leftover>>
  PROVE  AvatarInv'
<1>1. /\ avatar \in [Users -> 0..MaxFile] /\ uploads \in [Requests -> UploadRecords]
      /\ named \in SUBSET FileIds
  BY AvatarsTyped DEF AvatarInv
<1>2. PICK r \in UploadRecords : r = [uploads[q] EXCEPT !.stage = stage]
  BY <1>1 DEF UploadRecords
<1>3. r.stage = stage /\ r.user = uploads[q].user /\ r.old = uploads[q].old /\ r.new = uploads[q].new
  BY <1>1, <1>2 DEF UploadRecords
<1>4. /\ \A o \in Requests : o # q => uploads'[o] = uploads[o]
      /\ uploads'[q] = r
  BY <1>1, <1>2
<1>5. \A o \in Requests : /\ uploads'[o].old = uploads[o].old /\ uploads'[o].new = uploads[o].new
                          /\ uploads'[o].user = uploads[o].user
                          /\ uploads'[o].stage = "clean" => uploads[o].stage = "clean"
                          /\ uploads'[o].stage \in Holding <=> uploads[o].stage \in Holding
  BY <1>3, <1>4 DEF Holding
<1>6. \A g \in 0..MaxFile : g # 0 => g \in FileIds
  BY FileNumbers
<1>7. \A o \in Requests : uploads[o].old \in 0..MaxFile /\ uploads[o].new \in 0..MaxFile
  BY <1>1 DEF UploadRecords
<1>8. AvatarTypeOK'
  <2>1. uploads' \in [Requests -> UploadRecords]
    BY <1>1, <1>2
  <2>2. QED
    BY <2>1 DEF AvatarInv, AvatarTypeOK, UploadRecords
<1>9. FilesUsed'
  <2>1. \A u \in Users : avatar[u] # 0 => stored'[avatar[u]] # "unused"
    BY <1>1, <1>6 DEF AvatarInv, FilesUsed
  <2>2. \A o \in Requests : \A f \in {uploads'[o].old, uploads'[o].new} : f # 0 => stored'[f] # "unused"
    BY <1>5, <1>6, <1>7 DEF AvatarInv, FilesUsed
  <2>3. \A f \in named : stored'[f] # "unused"
    BY <1>1 DEF AvatarInv, FilesUsed
  <2>4. QED
    BY <2>1, <2>2, <2>3 DEF FilesUsed
<1>10. NewFilesOwn'
  BY <1>5 DEF AvatarInv, NewFilesOwn
<1>11. UploadsSound'
  <2>1. ASSUME NEW o \in Requests, o # q
        PROVE  /\ uploads[o].stage \in {"idle", "save"} => uploads[o].new = 0
               /\ uploads[o].stage = "write" => uploads[o].new # 0
               /\ uploads[o].stage = "commit" /\ uploads[o].new # 0 => stored'[uploads[o].new] = "whole"
               /\ uploads[o].stage # "idle" => uploads[o].user \in Users
    BY <1>6, <1>7 DEF AvatarInv, UploadsSound
  <2>2. /\ r.new # 0 => stored'[r.new] = "whole"
        /\ r.user \in Users
    BY <1>3, <1>6, <1>7 DEF AvatarInv, UploadsSound
  <2>3. QED
    BY <2>1, <2>2, <1>3, <1>4 DEF UploadsSound
<1>12. OneOwner' /\ OldIsTheirs'
  <2>1. OneOwner'
    BY DEF AvatarInv, OneOwner
  <2>2. OldIsTheirs'
    BY <1>5 DEF AvatarInv, OldIsTheirs
  <2>3. QED
    BY <2>1, <2>2
<1>13. AllKept'
  <2>1. ASSUME NEW f \in FileIds
        PROVE  (Kept(f) \/ \E o \in Requests : AnswersFor(uploads[o], f))'
    <3>1. \A o \in Requests : AnswersFor(uploads[o], f) => AnswersFor(uploads[o], f)'
      BY <1>3, <1>4 DEF AnswersFor, Holding
    <3>2. CASE f = uploads[q].new
      BY <3>2, <1>3, <1>4 DEF AnswersFor, Holding
    <3>3. CASE f # uploads[q].new
      BY <3>1, <3>3 DEF Kept, AvatarInv, AllKept
    <3>4. QED
      BY <3>2, <3>3
  <2>2. QED
    BY <2>1 DEF AllKept
<1>14. AvatarShown' /\ BegunHasBody'
  <2>1. AvatarShown'
    BY <1>1, <1>6 DEF AvatarInv, AvatarShown
  <2>2. QED
    BY <2>1 DEF AvatarInv, BegunHasBody
<1>15. QED
  BY <1>8, <1>9, <1>10, <1>11, <1>12, <1>13, <1>14 DEF AvatarInv

\* The commit: the row has the new file, and the request the old one alone.
LEMMA AvatarCommitted ==
  ASSUME AvatarInv, NEW q \in Requests, CommitAvatar(q)
  PROVE  AvatarInv'
<1>1. /\ avatar \in [Users -> 0..MaxFile] /\ uploads \in [Requests -> UploadRecords]
      /\ named \in SUBSET FileIds /\ leftover \in SUBSET FileIds
  BY AvatarsTyped DEF AvatarInv
<1>2. PICK r \in UploadRecords : r = [uploads[q] EXCEPT !.stage = "clean"]
  BY <1>1 DEF UploadRecords
<1>3. r.stage = "clean" /\ r.user = uploads[q].user /\ r.old = uploads[q].old /\ r.new = uploads[q].new
  BY <1>1, <1>2 DEF UploadRecords
<1>4. /\ \A o \in Requests : o # q => uploads'[o] = uploads[o]
      /\ uploads'[q] = r /\ uploads' \in [Requests -> UploadRecords]
  BY <1>1, <1>2 DEF CommitAvatar, At
<1>5. PICK u \in Users : u = uploads[q].user
  BY DEF CommitAvatar, AvatarInv, UploadsSound
<1>6. PICK n \in 0..MaxFile : n = uploads[q].new
  BY <1>1 DEF UploadRecords
<1>7. PICK old \in 0..MaxFile : old = uploads[q].old
  BY <1>1 DEF UploadRecords
<1>8. n # 0 => /\ n \notin named
               /\ \A v \in Users : avatar[v] # n
               /\ \A o \in Requests : uploads[o].old # n
               /\ \A o \in Requests \ {q} : uploads[o].new # n
  BY <1>6 DEF CommitAvatar, AvatarInv, NewFilesOwn, Holding
<1>9. /\ avatar' = IF n = old THEN avatar ELSE [avatar EXCEPT ![u] = n]
      /\ leftover' = leftover \cup {f \in ({avatar[u]} \ {avatar'[u], old}) \ {0} : stored[f] # "gone"}
      /\ UNCHANGED <<strategy, owner, stored, serving, named, texts>>
      /\ uploads[q].stage = "commit"
  BY <1>5, <1>6, <1>7 DEF CommitAvatar, Stores, Leaves
<1>10. n = old => n = 0
  BY <1>7, <1>8
<1>11. avatar'[u] = n \/ (n = 0 /\ old = 0 /\ avatar' = avatar)
  BY <1>1, <1>9, <1>10
<1>12. \A v \in Users : v # u => avatar'[v] = avatar[v]
  BY <1>1, <1>9
<1>13. \A g \in 0..MaxFile : g # 0 <=> g \in FileIds
  BY FileNumbers
<1>14. AvatarTypeOK'
  <2>1. avatar' \in [Users -> 0..MaxFile]
    BY <1>1, <1>9
  <2>2. leftover' \subseteq FileIds
    BY <1>1, <1>9, <1>13
  <2>3. QED
    BY <2>1, <2>2, <1>4, <1>9 DEF AvatarInv, AvatarTypeOK, UploadRecords
<1>15. \A o \in Requests : /\ uploads'[o].old = uploads[o].old /\ uploads'[o].new = uploads[o].new
                           /\ uploads'[o].user = uploads[o].user
  BY <1>3, <1>4
<1>16. FilesUsed'
  <2>1. n # 0 => stored[n] # "unused"
    BY <1>6 DEF AvatarInv, FilesUsed
  <2>2. \A v \in Users : avatar'[v] # 0 => stored[avatar'[v]] # "unused"
    BY <2>1, <1>11, <1>12 DEF AvatarInv, FilesUsed
  <2>3. QED
    BY <2>2, <1>9, <1>15 DEF AvatarInv, FilesUsed
<1>17. NewFilesOwn'
  <2>1. SUFFICES ASSUME NEW o \in Requests, o # q, uploads[o].stage \in Holding, uploads[o].new # 0
                 PROVE  /\ uploads[o].new \notin named
                        /\ \A v \in Users : avatar'[v] # uploads[o].new
                        /\ \A p \in Requests : uploads[p].old # uploads[o].new
                        /\ \A p \in Requests \ {o} : uploads[p].new # uploads[o].new
    BY <1>3, <1>4, <1>9, <1>15 DEF NewFilesOwn, Holding
  <2>2. /\ uploads[o].new \notin named
        /\ \A v \in Users : avatar[v] # uploads[o].new
        /\ \A p \in Requests : uploads[p].old # uploads[o].new
        /\ \A p \in Requests \ {o} : uploads[p].new # uploads[o].new
    BY <2>1 DEF AvatarInv, NewFilesOwn
  <2>3. n # uploads[o].new
    BY <2>1, <1>8
  <2>4. QED
    BY <2>2, <2>3, <1>11, <1>12
<1>18. UploadsSound'
  BY <1>3, <1>4, <1>5, <1>9 DEF AvatarInv, UploadsSound
<1>19. OneOwner'
  <2>1. \A v \in Users : v # u /\ avatar'[v] = n => n = 0
    BY <1>8, <1>12
  <2>2. SUFFICES ASSUME NEW v \in Users, NEW w \in Users, v # w, avatar'[v] = avatar'[w]
                 PROVE  avatar'[v] \in named \cup {0}
    BY <1>9 DEF OneOwner
  <2>3. CASE avatar' = avatar
    BY <2>2, <2>3 DEF AvatarInv, OneOwner
  <2>4. CASE avatar'[u] = n
    BY <2>1, <2>2, <2>4, <1>12 DEF AvatarInv, OneOwner
  <2>5. QED
    BY <2>3, <2>4, <1>11
<1>20. OldIsTheirs'
  <2>1. SUFFICES ASSUME NEW o \in Requests, uploads[o].old \notin named \cup {0},
                        NEW w \in Users, avatar'[w] = uploads[o].old
                 PROVE  w = uploads[o].user /\ uploads'[o].stage # "clean"
    BY <1>9, <1>15 DEF OldIsTheirs
  <2>2. avatar[w] = uploads[o].old => w = uploads[o].user /\ uploads[o].stage # "clean"
    BY <2>1 DEF AvatarInv, OldIsTheirs
  <2>3. CASE avatar' = avatar /\ old = 0
    BY <2>1, <2>2, <2>3, <1>4, <1>7
  <2>4. CASE avatar'[u] = n
    <3>1. w # u
      BY <2>1, <2>4, <1>8
    <3>2. w = uploads[o].user /\ uploads[o].stage # "clean"
      BY <3>1, <2>1, <2>2, <1>12
    <3>3. o # q
      BY <3>1, <3>2, <1>5
    <3>4. QED
      BY <3>2, <3>3, <1>4
  <2>5. QED
    BY <2>3, <2>4, <1>11
<1>21. AllKept'
  <2>1. SUFFICES ASSUME NEW f \in FileIds PROVE (Kept(f) \/ \E o \in Requests : AnswersFor(uploads[o], f))'
    BY DEF AllKept
  <2>2. f # 0
    BY FileNumbers
  <2>3. CASE f \in leftover \/ stored[f] \in {"unused", "gone"}
    BY <2>3, <1>9 DEF Kept
  <2>4. ASSUME NEW w \in Users, avatar[w] = f
        PROVE  (Kept(f) \/ \E o \in Requests : AnswersFor(uploads[o], f))'
    <3>1. CASE avatar'[w] = f
      BY <3>1 DEF Kept
    <3>2. CASE avatar'[w] # f /\ f = old
      BY <3>2, <1>3, <1>4, <1>7 DEF AnswersFor
    <3>3. CASE avatar'[w] # f /\ f # old
      <4>1. w = u
        BY <2>4, <3>3, <1>12
      <4>2. f \in leftover' \/ stored[f] = "gone"
        BY <4>1, <2>2, <2>4, <3>3, <1>9
      <4>3. QED
        BY <4>2, <1>9 DEF Kept
    <3>4. QED
      BY <3>1, <3>2, <3>3
  <2>5. ASSUME NEW o \in Requests, AnswersFor(uploads[o], f)
        PROVE  (Kept(f) \/ \E p \in Requests : AnswersFor(uploads[p], f))'
    <3>1. CASE o # q
      BY <3>1, <2>5, <1>4 DEF AnswersFor
    <3>2. CASE o = q
      <4>1. n = f
        BY <3>2, <2>5, <1>6, <1>9 DEF AnswersFor
      <4>2. avatar'[u] = f
        BY <4>1, <2>2, <1>11
      <4>3. QED
        BY <4>2 DEF Kept
    <3>3. QED
      BY <3>1, <3>2
  <2>6. QED
    BY <2>3, <2>4, <2>5 DEF AvatarInv, AllKept, Kept
<1>22. AvatarShown' /\ BegunHasBody'
  <2>1. n # 0 => stored[n] = "whole"
    BY <1>6, <1>9 DEF AvatarInv, UploadsSound
  <2>2. AvatarShown'
    BY <2>1, <1>9, <1>11, <1>12 DEF AvatarInv, AvatarShown
  <2>3. QED
    BY <2>2, <1>9 DEF AvatarInv, BegunHasBody
<1>23. QED
  BY <1>14, <1>16, <1>17, <1>18, <1>19, <1>20, <1>21, <1>22 DEF AvatarInv

\* The end of a request: what it removes is nobody's avatar, and what it was to
\* answer for is gone or known to be left.
LEMMA UploadEnds ==
  ASSUME AvatarInv, NEW q \in Requests, NEW s \in 0..MaxFile, s = Stale(uploads[q]),
         uploads' = [uploads EXCEPT ![q] = Waiting],
         \/ stored' = stored /\ leftover' = leftover \cup {f \in {s} \ {0} : stored[f] # "gone"}
         \/ /\ stored' = Removed(s) /\ leftover' = leftover
            /\ uploads[q].stage \in {"clean", "undo"},
         UNCHANGED <<strategy, avatar, owner, serving, named, texts>>
  PROVE  AvatarInv'
<1>1. /\ avatar \in [Users -> 0..MaxFile] /\ uploads \in [Requests -> UploadRecords]
      /\ stored \in [FileIds -> {"unused", "partial", "whole", "gone"}]
      /\ named \in SUBSET FileIds /\ leftover \in SUBSET FileIds
      /\ Waiting \in UploadRecords /\ Waiting.stage = "idle" /\ Waiting.old = 0 /\ Waiting.new = 0
  BY AvatarsTyped DEF AvatarInv
<1>2. /\ \A o \in Requests : o # q => uploads'[o] = uploads[o]
      /\ uploads'[q] = Waiting /\ uploads' \in [Requests -> UploadRecords]
  BY <1>1
<1>3. \A g \in 0..MaxFile : g # 0 <=> g \in FileIds
  BY FileNumbers
<1>4. \A g \in FileIds : stored'[g] = stored[g] \/ (stored'[g] = "gone" /\ g = s)
  BY DEF Removed
<1>5. s # 0 /\ stored' # stored =>
        \/ uploads[q].stage = "clean" /\ s = uploads[q].old
        \/ uploads[q].stage = "undo" /\ s = uploads[q].new
  BY DEF Stale
<1>6. stored' # stored => \A u \in Users : avatar[u] = s => s \in named \cup {0}
  BY <1>5 DEF AvatarInv, OldIsTheirs, NewFilesOwn, Holding
<1>7. \A o \in Requests : uploads[o].old \in 0..MaxFile /\ uploads[o].new \in 0..MaxFile
  BY <1>1 DEF UploadRecords
<1>8. AvatarTypeOK'
  <2>1. stored' \in [FileIds -> {"unused", "partial", "whole", "gone"}]
    BY <1>1 DEF Removed
  <2>2. leftover' \subseteq FileIds
    BY <1>1, <1>3
  <2>3. QED
    BY <2>1, <2>2, <1>2 DEF AvatarInv, AvatarTypeOK, UploadRecords
<1>9. FilesUsed'
  <2>1. \A u \in Users : avatar[u] # 0 => stored'[avatar[u]] # "unused"
    BY <1>1, <1>3, <1>4 DEF AvatarInv, FilesUsed
  <2>2. \A o \in Requests : \A f \in {uploads'[o].old, uploads'[o].new} : f # 0 => stored'[f] # "unused"
    BY <1>1, <1>2, <1>3, <1>4, <1>7 DEF AvatarInv, FilesUsed
  <2>3. \A f \in named : stored'[f] # "unused"
    BY <1>1, <1>4 DEF AvatarInv, FilesUsed
  <2>4. QED
    BY <2>1, <2>2, <2>3 DEF FilesUsed
<1>10. NewFilesOwn'
  <2>1. SUFFICES ASSUME NEW o \in Requests, o # q, uploads[o].stage \in Holding, uploads[o].new # 0
                 PROVE  /\ uploads[o].new \notin named
                        /\ \A v \in Users : avatar[v] # uploads[o].new
                        /\ \A p \in Requests : uploads'[p].old # uploads[o].new
                        /\ \A p \in Requests \ {o} : uploads'[p].new # uploads[o].new
    BY <1>1, <1>2 DEF NewFilesOwn, Holding
  <2>2. /\ uploads[o].new \notin named
        /\ \A v \in Users : avatar[v] # uploads[o].new
        /\ \A p \in Requests : uploads[p].old # uploads[o].new
        /\ \A p \in Requests \ {o} : uploads[p].new # uploads[o].new
    BY <2>1 DEF AvatarInv, NewFilesOwn
  <2>3. QED
    BY <2>1, <2>2, <1>1, <1>2
<1>11. UploadsSound'
  <2>1. ASSUME NEW o \in Requests, o # q
        PROVE  /\ uploads[o].stage \in {"idle", "save"} => uploads[o].new = 0
               /\ uploads[o].stage = "write" => uploads[o].new # 0
               /\ uploads[o].stage = "commit" /\ uploads[o].new # 0 => stored'[uploads[o].new] = "whole"
               /\ uploads[o].stage # "idle" => uploads[o].user \in Users
    <3>1. ASSUME uploads[o].stage = "commit", uploads[o].new # 0
          PROVE  stored'[uploads[o].new] = "whole"
      <4>1. uploads[o].new \in FileIds /\ stored[uploads[o].new] = "whole"
        BY <3>1, <1>3, <1>7 DEF AvatarInv, UploadsSound
      <4>2. /\ \A p \in Requests : uploads[p].old # uploads[o].new
            /\ \A p \in Requests \ {o} : uploads[p].new # uploads[o].new
        BY <3>1 DEF AvatarInv, NewFilesOwn, Holding
      <4>3. uploads[o].new # s
        BY <2>1, <4>2 DEF Stale
      <4>4. QED
        BY <4>1, <4>3, <1>4
    <3>2. QED
      BY <3>1 DEF AvatarInv, UploadsSound
  <2>2. QED
    BY <2>1, <1>1, <1>2 DEF UploadsSound
<1>12. OneOwner' /\ OldIsTheirs'
  <2>1. OneOwner'
    BY DEF AvatarInv, OneOwner
  <2>2. OldIsTheirs'
    BY <1>1, <1>2 DEF AvatarInv, OldIsTheirs
  <2>3. QED
    BY <2>1, <2>2
<1>13. AllKept'
  <2>1. SUFFICES ASSUME NEW f \in FileIds PROVE (Kept(f) \/ \E o \in Requests : AnswersFor(uploads[o], f))'
    BY DEF AllKept
  <2>2. f # 0
    BY FileNumbers
  <2>3. Kept(f) => Kept(f)'
    BY <1>4 DEF Kept
  <2>4. ASSUME NEW o \in Requests, AnswersFor(uploads[o], f)
        PROVE  (Kept(f) \/ \E p \in Requests : AnswersFor(uploads[p], f))'
    <3>1. CASE o # q
      BY <3>1, <2>4, <1>2 DEF AnswersFor
    <3>2. CASE o = q
      <4>1. s = f
        BY <3>2, <2>4 DEF AnswersFor, Holding, Stale
      <4>2. stored'[f] = "gone" \/ f \in leftover'
        BY <4>1, <2>2 DEF Removed
      <4>3. QED
        BY <4>2 DEF Kept
    <3>3. QED
      BY <3>1, <3>2
  <2>5. QED
    BY <2>3, <2>4 DEF AvatarInv, AllKept
<1>14. AvatarShown' /\ BegunHasBody'
  <2>1. AvatarShown'
    <3>1. SUFFICES ASSUME NEW u \in Users, avatar[u] \notin named \cup {0}
                   PROVE  stored'[avatar[u]] = "whole"
      BY DEF AvatarShown
    <3>2. stored[avatar[u]] = "whole" /\ avatar[u] \in FileIds
      BY <3>1, <1>1, <1>3 DEF AvatarInv, AvatarShown
    <3>3. stored' # stored => avatar[u] # s
      BY <3>1, <1>6
    <3>4. QED
      BY <3>2, <3>3, <1>4
  <2>2. QED
    BY <2>1 DEF AvatarInv, BegunHasBody
<1>15. QED
  BY <1>8, <1>9, <1>10, <1>11, <1>12, <1>13, <1>14 DEF AvatarInv

\* A row is set to a file that is named, or to none.
LEMMA AvatarGiven ==
  ASSUME AvatarInv, NEW u \in Users, NEW f \in 0..MaxFile,
         f # 0 => /\ stored[f] # "unused"
                  /\ \A q \in Requests : uploads[q].stage \in Holding => uploads[q].new # f,
         avatar' = [avatar EXCEPT ![u] = f],
         named' = named \cup ({f} \ {0}),
         leftover' = leftover \cup {g \in {avatar[u]} \ {0} : stored[g] # "gone"},
         owner' \in [Users -> {"ok", "banned", "gone"}], texts' \in 0..MaxText,
         UNCHANGED <<strategy, stored, uploads, serving>>
  PROVE  AvatarInv'
<1>1. /\ avatar \in [Users -> 0..MaxFile] /\ uploads \in [Requests -> UploadRecords]
      /\ named \in SUBSET FileIds /\ leftover \in SUBSET FileIds
  BY AvatarsTyped DEF AvatarInv
<1>2. \A g \in 0..MaxFile : g # 0 <=> g \in FileIds
  BY FileNumbers
<1>3. /\ avatar'[u] = f
      /\ \A v \in Users : v # u => avatar'[v] = avatar[v]
  BY <1>1
<1>4. AvatarTypeOK'
  <2>1. avatar' \in [Users -> 0..MaxFile]
    BY <1>1
  <2>2. named' \subseteq FileIds /\ leftover' \subseteq FileIds
    BY <1>1, <1>2
  <2>3. QED
    BY <2>1, <2>2 DEF AvatarInv, AvatarTypeOK
<1>5. FilesUsed'
  <2>1. \A v \in Users : avatar'[v] # 0 => stored[avatar'[v]] # "unused"
    BY <1>3 DEF AvatarInv, FilesUsed
  <2>2. \A g \in named' : stored[g] # "unused"
    BY DEF AvatarInv, FilesUsed
  <2>3. QED
    BY <2>1, <2>2 DEF AvatarInv, FilesUsed
<1>6. NewFilesOwn'
  <2>1. SUFFICES ASSUME NEW o \in Requests, uploads[o].stage \in Holding, uploads[o].new # 0
                 PROVE  /\ uploads[o].new \notin named'
                        /\ \A v \in Users : avatar'[v] # uploads[o].new
                        /\ \A p \in Requests : uploads[p].old # uploads[o].new
                        /\ \A p \in Requests \ {o} : uploads[p].new # uploads[o].new
    BY DEF NewFilesOwn
  <2>2. /\ uploads[o].new \notin named
        /\ \A v \in Users : avatar[v] # uploads[o].new
        /\ \A p \in Requests : uploads[p].old # uploads[o].new
        /\ \A p \in Requests \ {o} : uploads[p].new # uploads[o].new
    BY <2>1 DEF AvatarInv, NewFilesOwn
  <2>3. uploads[o].new # f
    BY <2>1
  <2>4. QED
    BY <2>2, <2>3, <1>3
<1>7. UploadsSound'
  BY DEF AvatarInv, UploadsSound
<1>8. OneOwner'
  BY <1>3 DEF AvatarInv, OneOwner
<1>9. OldIsTheirs'
  BY <1>3 DEF AvatarInv, OldIsTheirs
<1>10. AllKept'
  <2>1. SUFFICES ASSUME NEW g \in FileIds, Kept(g) PROVE Kept(g)'
    BY DEF AllKept, AvatarInv, AnswersFor
  <2>2. CASE g \in leftover \/ stored[g] \in {"unused", "gone"}
    BY <2>2 DEF Kept
  <2>3. ASSUME NEW w \in Users, avatar[w] = g PROVE Kept(g)'
    <3>1. CASE w # u
      BY <3>1, <2>3, <1>3 DEF Kept
    <3>2. CASE w = u
      <4>1. g # 0
        BY FileNumbers
      <4>2. g \in leftover' \/ stored[g] = "gone"
        BY <4>1, <3>2, <2>3
      <4>3. QED
        BY <4>2 DEF Kept
    <3>3. QED
      BY <3>1, <3>2
  <2>4. QED
    BY <2>1, <2>2, <2>3 DEF Kept
<1>11. AvatarShown' /\ BegunHasBody'
  <2>1. AvatarShown'
    BY <1>3 DEF AvatarInv, AvatarShown
  <2>2. QED
    BY <2>1 DEF AvatarInv, BegunHasBody
<1>12. QED
  BY <1>4, <1>5, <1>6, <1>7, <1>8, <1>9, <1>10, <1>11 DEF AvatarInv

\* A step that touches neither rows, files nor requests.
LEMMA FilesUntouched ==
  ASSUME AvatarInv, UNCHANGED <<strategy, avatar, stored, uploads, named, texts, leftover>>,
         owner' \in [Users -> {"ok", "banned", "gone"}],
         serving' \in [stage : {"idle", "found", "ok", "not found"}, file : 0..MaxFile,
                       body : BOOLEAN],
         BegunHasBody'
  PROVE  AvatarInv'
<1>1. AvatarTypeOK'
  BY DEF AvatarInv, AvatarTypeOK
<1>2. FilesUsed' /\ NewFilesOwn' /\ UploadsSound'
  BY DEF AvatarInv, FilesUsed, NewFilesOwn, UploadsSound
<1>3. OneOwner' /\ OldIsTheirs' /\ AvatarShown'
  BY DEF AvatarInv, OneOwner, OldIsTheirs, AvatarShown
<1>4. AllKept'
  BY DEF AvatarInv, AllKept, Kept, AnswersFor
<1>5. QED
  BY <1>1, <1>2, <1>3, <1>4 DEF AvatarInv

LEMMA RequestGoesOn ==
  ASSUME AvatarInv, NEW q \in Requests,
         \/ WriteFile(q) \/ SaveFails(q) \/ CommitFails(q) \/ CleanUp(q) \/ Break(q)
  PROVE  AvatarInv'
<1>1. /\ uploads \in [Requests -> UploadRecords]
      /\ stored \in [FileIds -> {"unused", "partial", "whole", "gone"}]
  BY AvatarsTyped DEF AvatarInv
<1>2. /\ uploads[q].new \in 0..MaxFile /\ uploads[q].old \in 0..MaxFile
      /\ \A g \in 0..MaxFile : g # 0 => g \in FileIds
  BY <1>1, FileNumbers DEF UploadRecords
<1>3. PICK s \in 0..MaxFile : s = Stale(uploads[q])
  BY <1>2 DEF Stale
<1>4. CASE WriteFile(q)
  <2>1. /\ stored' \in [FileIds -> {"unused", "partial", "whole", "gone"}]
        /\ \A g \in FileIds : stored'[g] = IF g = uploads[q].new THEN "whole" ELSE stored[g]
    BY <1>1, <1>4 DEF WriteFile
  <2>2. QED
    BY <2>1, <1>4, StageMoves DEF WriteFile, At
<1>5. CASE CommitFails(q)
  <2>1. \A g \in FileIds : stored'[g] = IF g = uploads[q].new THEN "whole" ELSE stored[g]
    BY <1>5, <1>2, FileNumbers DEF CommitFails, AvatarInv, UploadsSound
  <2>2. stored' \in [FileIds -> {"unused", "partial", "whole", "gone"}]
    BY <1>1, <1>5 DEF CommitFails
  <2>3. QED
    BY <2>1, <2>2, <1>5, StageMoves DEF CommitFails, At
<1>6. CASE SaveFails(q)
  <2>1. s = uploads[q].new
    BY <1>3, <1>6 DEF Stale, SaveFails
  <2>2. QED
    BY <2>1, <1>3, <1>6, UploadEnds DEF SaveFails, Leaves, Over
<1>7. CASE Break(q)
  BY <1>3, <1>7, UploadEnds DEF Break, Leaves, Over
<1>8. CASE CleanUp(q)
  <2>1. /\ uploads[q].stage \in {"clean", "undo"} /\ uploads' = [uploads EXCEPT ![q] = Waiting]
        /\ UNCHANGED <<strategy, avatar, owner, serving, named, texts>>
        /\ \/ stored' = Removed(s) /\ leftover' = leftover
           \/ stored' = stored /\ leftover' = leftover \cup {f \in {s} \ {0} : stored[f] # "gone"}
    BY <1>3, <1>8 DEF CleanUp, RemoveFile, Over, Leaves
  <2>2. QED
    BY <2>1, <1>3, UploadEnds
<1>9. QED
  BY <1>4, <1>5, <1>6, <1>7, <1>8

LEMMA OwnerSteps ==
  ASSUME AvatarInv, NEW u \in Users,
         \/ \E f \in 0..MaxFile : SetAvatarText(u, f)
         \/ BanAvatar(u) \/ LiftBan(u) \/ DeleteUser(u)
  PROVE  AvatarInv'
<1>1. owner \in [Users -> {"ok", "banned", "gone"}] /\ texts \in 0..MaxText /\ 0 \in 0..MaxFile
  BY FileNumbers DEF AvatarInv, AvatarTypeOK
<1>2. ASSUME NEW f \in 0..MaxFile, SetAvatarText(u, f)
      PROVE  AvatarInv'
  <2>1. texts' \in 0..MaxText
    BY <1>1, <1>2, AvatarAssumption DEF SetAvatarText
  <2>2. f # 0 => /\ stored[f] # "unused"
                 /\ \A q \in Requests : uploads[q].stage \in Holding => uploads[q].new # f
    BY <1>2 DEF SetAvatarText, Holding
  <2>3. /\ avatar' = [avatar EXCEPT ![u] = f] /\ named' = named \cup ({f} \ {0})
        /\ leftover' = leftover \cup {g \in {avatar[u]} \ {0} : stored[g] # "gone"}
        /\ UNCHANGED <<strategy, stored, uploads, serving>> /\ owner' = owner
    BY <1>2 DEF SetAvatarText, Leaves
  <2>4. QED
    BY <2>1, <2>2, <2>3, <1>1, AvatarGiven
<1>3. CASE BanAvatar(u) \/ DeleteUser(u)
  <2>1. owner' \in [Users -> {"ok", "banned", "gone"}]
    BY <1>1, <1>3 DEF BanAvatar, DeleteUser
  <2>2. /\ avatar' = [avatar EXCEPT ![u] = 0] /\ named' = named \cup ({0} \ {0})
        /\ leftover' = leftover \cup {g \in {avatar[u]} \ {0} : stored[g] # "gone"}
        /\ UNCHANGED <<strategy, stored, uploads, serving>> /\ texts' = texts
    BY <1>3 DEF BanAvatar, DeleteUser, Leaves
  <2>3. QED
    BY <2>1, <2>2, <1>1, AvatarGiven
<1>4. CASE LiftBan(u)
  <2>1. owner' \in [Users -> {"ok", "banned", "gone"}]
    BY <1>1, <1>4 DEF LiftBan
  <2>2. QED
    BY <2>1, <1>4, FilesUntouched DEF LiftBan, AvatarInv, AvatarTypeOK, BegunHasBody
<1>5. QED
  BY <1>2, <1>3, <1>4

LEMMA DownloadSteps ==
  ASSUME AvatarInv, (\E f \in FileIds : FindFile(f)) \/ OpenDownload \/ EndDownload
  PROVE  AvatarInv'
<1> DEFINE Downloads == [stage : {"idle", "found", "ok", "not found"}, file : 0..MaxFile,
                         body : BOOLEAN]
<1>1. serving \in Downloads /\ owner \in [Users -> {"ok", "banned", "gone"}]
  BY DEF AvatarInv, AvatarTypeOK
<1>2. serving' \in Downloads /\ BegunHasBody'
  <2>1. CASE \E f \in FileIds : FindFile(f)
    BY <2>1, FileNumbers DEF FindFile, BegunHasBody
  <2>2. CASE OpenDownload
    <3>1. PICK b \in BOOLEAN : b = (stored[serving.file] # "gone")
      OBVIOUS
    <3>2. PICK stage \in {"ok", "not found"} : stage = Begun
      BY DEF Begun
    <3>3. serving' = [serving EXCEPT !.stage = stage, !.body = b]
      BY <2>2, <3>1, <3>2 DEF OpenDownload
    <3>4. stage = "ok" => b
      BY <3>1, <3>2 DEF Begun
    <3>5. QED
      BY <3>3, <3>4, <1>1 DEF BegunHasBody
  <2>3. CASE EndDownload
    BY <2>3, FileNumbers DEF EndDownload, NotServing, BegunHasBody
  <2>4. QED
    BY <2>1, <2>2, <2>3
<1>3. /\ UNCHANGED <<strategy, avatar, stored, uploads, named, texts, leftover>>
      /\ owner' = owner
  BY DEF FindFile, OpenDownload, EndDownload
<1>4. QED
  BY <1>1, <1>2, <1>3, FilesUntouched

LEMMA AvatarsStep ==
  ASSUME AvatarInv, [AvatarNext]_avatarVars
  PROVE  AvatarInv'
<1>1. ASSUME NEW q \in Requests,
             \/ \E u \in Users : StartUpload(q, u) \/ StartDeletion(q, u)
             \/ \E f \in FileIds : OpenFile(q, f) \/ PutObject(q, f)
      PROVE  AvatarInv'
  <2>1. ASSUME NEW u \in Users, StartUpload(q, u) \/ StartDeletion(q, u) PROVE AvatarInv'
    <3>1. CASE StartUpload(q, u)
      BY <3>1, UploadStarts DEF StartUpload, Sends
    <3>2. CASE StartDeletion(q, u)
      BY <3>2, UploadStarts DEF StartDeletion, Sends
    <3>3. QED
      BY <2>1, <3>1, <3>2
  <2>2. ASSUME NEW f \in FileIds, OpenFile(q, f) \/ PutObject(q, f) PROVE AvatarInv'
    <3>1. CASE OpenFile(q, f)
      BY <3>1, FileMade DEF OpenFile
    <3>2. CASE PutObject(q, f)
      BY <3>2, FileMade DEF PutObject
    <3>3. QED
      BY <2>2, <3>1, <3>2
  <2>3. QED
    BY <1>1, <2>1, <2>2
<1>2. CASE UNCHANGED avatarVars
  BY <1>2, FilesUntouched DEF avatarVars, AvatarInv, AvatarTypeOK, BegunHasBody
<1>3. QED
  BY <1>1, <1>2, RequestGoesOn, AvatarCommitted, OwnerSteps, DownloadSteps DEF AvatarNext

LEMMA AvatarsInvariant == AvatarSpec => []AvatarInv
<1>1. AvatarInit => AvatarInv
  BY AvatarsStart
<1>2. AvatarInv /\ [AvatarNext]_avatarVars => AvatarInv'
  BY AvatarsStep
<1>3. QED  BY <1>1, <1>2, PTL DEF AvatarSpec

\* The variables of avatars keep their types.
THEOREM AvatarTypes == AvatarSpec => []AvatarTypeOK
<1>1. AvatarInv => AvatarTypeOK
  BY DEF AvatarInv
<1>2. QED  BY <1>1, AvatarsInvariant, PTL

\* Rows, files and downloads of avatars fit together at every moment: a row
\* refers to a whole file, a file no row refers to is about to be removed or
\* known to be left, and a download that has begun goes on to its end
\* (user/application.py:555-621, static_files.py:46-178).
THEOREM AvatarsStayKept == AvatarSpec => []AvatarsKept
<1>1. AvatarInv => AvatarsKept
  <2>1. ASSUME AvatarInv, NEW f \in FileIds \ leftover, stored[f] \in {"partial", "whole"}
        PROVE  \/ \E u \in Users : avatar[u] = f
               \/ \E q \in Requests : f \in {uploads[q].old, uploads[q].new}
    BY <2>1 DEF AvatarInv, AllKept, Kept, AnswersFor
  <2>2. QED
    BY <2>1 DEF AvatarInv, AvatarsKept, NoFileForgotten
<1>2. QED  BY <1>1, AvatarsInvariant, PTL

-----------------------------------------------------------------------------
(***************************************************************************)
(* Codes.  A request that has read a code knows it as it is, unless        *)
(* another redeems it too; a request that is to send one has found that    *)
(* it may, unless another sends too.                                       *)
(***************************************************************************)

Redeeming == {"accept", "miss", "reset"}

CodesInOrder == \E n \in Nat : Sent = 1..n

\* One request redeems a code, and the code is as it has read it.
RedeemersSound ==
  /\ \A q, o \in Requests :
       q # o /\ signing[q].stage \in Redeeming /\ signing[o].stage \in Redeeming
             /\ signing[q].code = signing[o].code => codes[signing[q].code].raced
  /\ \A q \in Requests : signing[q].stage \in Redeeming =>
       /\ signing[q].code \in Sent
       /\ ~codes[signing[q].code].raced =>
            /\ ~codes[signing[q].code].used
            /\ signing[q].tries = codes[signing[q].code].tries
            /\ signing[q].tries < MaxAttempts

\* Every guess was counted, and a spent code is used.
CodesCounted ==
  \A c \in Sent : ~codes[c].raced =>
    /\ codes[c].guesses = codes[c].tries /\ codes[c].tries <= MaxAttempts
    /\ codes[c].spent <= 1
    /\ ~codes[c].used => codes[c].spent = 0

\* One request is about to send, and it may.
SendsSound ==
  "send" \notin oddities =>
    /\ \A q, o \in Requests : signing[q].stage = "send" /\ signing[o].stage = "send" => q = o
    /\ \A q \in Requests : signing[q].stage = "send" =>
         /\ Cardinality(Sent) < DailyLimit
         /\ \A c \in Sent : codes[c].purpose = signing[q].purpose => codes[c].age # "fresh"

\* The limits of sending, as CodesLimited states them.
SendsLimited ==
  "send" \notin oddities =>
    /\ Cardinality(Sent) <= DailyLimit
    /\ \A c, d \in Sent : codes[c].age = "fresh" /\ codes[d].age = "fresh"
                            /\ codes[c].purpose = codes[d].purpose => c = d

CodesInv == CodesInOrder /\ RedeemersSound /\ CodesCounted /\ SendsSound /\ SendsLimited

LEMMA SentSize ==
  ASSUME NEW n \in Nat, Sent = 1..n
  PROVE  Cardinality(Sent) = n
BY FS_Interval

LEMMA CodesStart ==
  ASSUME AccountsInit
  PROVE  CodesInv
<1>1. NoCode.age = "unsent" /\ NotSigning.stage = "idle"
  BY DEF NoCode, NotSigning
<1>2. Sent = {}
  BY <1>1 DEF AccountsInit, Sent
<1>3. \A q \in Requests : signing[q].stage = "idle"
  BY <1>1 DEF AccountsInit
<1>4. CodesInOrder
  <2>1. 1..0 = {}
    OBVIOUS
  <2>2. QED
    BY <1>2, <2>1 DEF CodesInOrder
<1>5. RedeemersSound /\ CodesCounted /\ SendsSound
  BY <1>2, <1>3 DEF RedeemersSound, Redeeming, CodesCounted, SendsSound
<1>6. SendsLimited
  <2>1. Cardinality(Sent) = 0
    BY <1>2, FS_EmptySet
  <2>2. QED
    BY <1>2, <2>1, AccountBounds DEF SendsLimited
<1>7. QED
  BY <1>4, <1>5, <1>6 DEF CodesInv

\* No code changes but in age and account, and no request begins to redeem or
\* to send.
NobodyBegins ==
  /\ \A o \in Requests : signing'[o].stage \in Redeeming =>
       /\ signing[o].stage \in Redeeming
       /\ signing'[o].code = signing[o].code /\ signing'[o].tries = signing[o].tries
  /\ \A o \in Requests : signing'[o].stage = "send" =>
       signing[o].stage = "send" /\ signing'[o].purpose = signing[o].purpose

OnlyAges ==
  \A c \in CodeIds :
    /\ codes'[c].age = "unsent" <=> codes[c].age = "unsent"
    /\ codes'[c].age = "fresh" => codes[c].age = "fresh"
    /\ codes'[c].purpose = codes[c].purpose /\ codes'[c].used = codes[c].used
    /\ codes'[c].tries = codes[c].tries /\ codes'[c].guesses = codes[c].guesses
    /\ codes'[c].spent = codes[c].spent /\ codes'[c].raced = codes[c].raced

LEMMA CodesStay ==
  ASSUME CodesInv, NobodyBegins, OnlyAges, oddities \subseteq oddities'
  PROVE  CodesInv'
<1>1. Sent' = Sent /\ \A c \in Sent : c \in CodeIds
  BY DEF OnlyAges, Sent
<1>2. CodesInOrder'
  BY <1>1 DEF CodesInv, CodesInOrder
<1>3. RedeemersSound'
  <2>1. \A q \in Requests : signing[q].stage \in Redeeming =>
          /\ codes'[signing[q].code].raced = codes[signing[q].code].raced
          /\ codes'[signing[q].code].used = codes[signing[q].code].used
          /\ codes'[signing[q].code].tries = codes[signing[q].code].tries
    BY <1>1 DEF CodesInv, RedeemersSound, OnlyAges
  <2>2. QED
    BY <1>1, <2>1 DEF CodesInv, RedeemersSound, NobodyBegins
<1>4. CodesCounted'
  BY <1>1 DEF CodesInv, CodesCounted, OnlyAges
<1>5. SendsSound'
  BY <1>1 DEF CodesInv, SendsSound, OnlyAges, NobodyBegins
<1>6. SendsLimited'
  BY <1>1 DEF CodesInv, SendsLimited, OnlyAges
<1>7. QED
  BY <1>2, <1>3, <1>4, <1>5, <1>6 DEF CodesInv

LEMMA SomebodyElse ==
  ASSUME AccountsTypeOK, NEW q \in Requests, NEW new,
         signing' = [signing EXCEPT ![q] = new], new.stage \notin Redeeming \cup {"send"}
  PROVE  NobodyBegins
<1>1. \A o \in Requests : signing'[o] = IF o = q THEN new ELSE signing[o]
  BY Parts
<1>2. QED
  BY <1>1 DEF NobodyBegins

LEMMA SendRead ==
  ASSUME CodesInv, AccountsTypeOK, NEW q \in Requests, NEW purpose \in Purposes,
         ReadSend(q, purpose)
  PROVE  CodesInv'
<1>1. PICK new \in SigningRows : /\ new.stage = "send" /\ new.purpose = purpose
                                 /\ signing' = [signing EXCEPT ![q] = new]
  <2> DEFINE new == [NotSigning EXCEPT !.stage = "send", !.purpose = purpose, !.user = account]
  <2>1. new \in SigningRows /\ new.stage = "send" /\ new.purpose = purpose
    BY NothingTypes, Parts DEF SigningRows, NotSigning
  <2>2. signing' = [signing EXCEPT ![q] = new]
    BY DEF ReadSend, Starts, Signs
  <2>3. QED
    BY <2>1, <2>2
<1>2. \A o \in Requests : signing'[o] = IF o = q THEN new ELSE signing[o]
  BY <1>1, Parts
<1>3. /\ codes' = codes /\ signing[q].stage = "idle"
      /\ oddities' = oddities \cup {x \in {"send"} : In({"send"}) # {}}
      /\ MaySend(purpose)
  BY DEF ReadSend, Starts
<1>4. Sent' = Sent
  BY <1>3 DEF Sent
<1>5. CodesInOrder' /\ CodesCounted'
  BY <1>3, <1>4 DEF CodesInv, CodesInOrder, CodesCounted
<1>6. RedeemersSound'
  BY <1>1, <1>2, <1>3, <1>4 DEF CodesInv, RedeemersSound, Redeeming
<1>7. SendsSound'
  <2>1. SUFFICES ASSUME "send" \notin oddities'
                 PROVE  /\ \A o, p \in Requests :
                             signing'[o].stage = "send" /\ signing'[p].stage = "send" => o = p
                        /\ \A o \in Requests : signing'[o].stage = "send" =>
                             /\ Cardinality(Sent') < DailyLimit
                             /\ \A c \in Sent' : codes'[c].purpose = signing'[o].purpose =>
                                                   codes'[c].age # "fresh"
    BY DEF SendsSound
  <2>2. \A o \in Requests : signing[o].stage # "send"
    BY <1>3, <2>1 DEF In
  <2>3. \A o \in Requests : signing'[o].stage = "send" => o = q /\ signing'[o].purpose = purpose
    BY <1>1, <1>2, <2>2
  <2>4. QED
    BY <1>3, <1>4, <2>3 DEF MaySend
<1>8. SendsLimited'
  BY <1>3, <1>4 DEF CodesInv, SendsLimited
<1>9. QED
  BY <1>5, <1>6, <1>7, <1>8 DEF CodesInv

LEMMA CodeSent ==
  ASSUME CodesInv, AccountsTypeOK, NEW q \in Requests, NEW c \in CodeIds, CommitSend(q, c)
  PROVE  CodesInv'
<1>1. PICK new \in CodeRows :
        /\ new.purpose = signing[q].purpose /\ new.age = "fresh" /\ ~new.used /\ new.tries = 0
        /\ new.guesses = 0 /\ new.spent = 0 /\ codes' = [codes EXCEPT ![c] = new]
  <2> DEFINE new == [NoCode EXCEPT !.purpose = signing[q].purpose, !.age = "fresh",
                                   !.user = signing[q].user]
  <2>1. signing[q].purpose \in Purposes \cup {None} /\ signing[q].user \in 0..MaxAccount
    BY Parts DEF SigningRows
  <2>2. /\ new \in CodeRows /\ new.purpose = signing[q].purpose /\ new.age = "fresh"
        /\ ~new.used /\ new.tries = 0 /\ new.guesses = 0 /\ new.spent = 0
    BY <2>1, NothingTypes DEF CodeRows, NoCode
  <2>3. codes' = [codes EXCEPT ![c] = new]
    BY DEF CommitSend
  <2>4. QED
    BY <2>2, <2>3
<1>2. \A d \in CodeIds : codes'[d] = IF d = c THEN new ELSE codes[d]
  BY <1>1, Parts
<1>3. \A o \in Requests : signing'[o] = IF o = q THEN NotSigning ELSE signing[o]
  BY Parts DEF CommitSend, Signs
<1>4. /\ signing[q].stage = "send" /\ c = Cardinality(Sent) + 1 /\ oddities' = oddities
      /\ NotSigning.stage = "idle"
  BY DEF CommitSend, NotSigning
<1>5. PICK n \in Nat : Sent = 1..n
  BY DEF CodesInv, CodesInOrder
<1>6. c = n + 1 /\ c \notin Sent
  BY <1>4, <1>5, SentSize
<1>7. Sent' = Sent \cup {c}
  BY <1>1, <1>2 DEF Sent
<1>8. Sent' = 1..(n + 1)
  BY <1>5, <1>6, <1>7
<1>9. CodesInOrder'
  BY <1>8 DEF CodesInOrder
<1>10. \A d \in Sent : d # c /\ codes'[d] = codes[d] /\ d \in CodeIds
  BY <1>2, <1>6 DEF Sent
<1>11. RedeemersSound'
  <2>1. \A o \in Requests : signing'[o].stage \in Redeeming =>
          o # q /\ signing'[o] = signing[o] /\ codes'[signing[o].code] = codes[signing[o].code]
    BY <1>3, <1>4, <1>10 DEF CodesInv, RedeemersSound, Redeeming
  <2>2. QED
    BY <1>7, <2>1 DEF CodesInv, RedeemersSound
<1>12. CodesCounted'
  BY <1>1, <1>2, <1>7, <1>10, AccountBounds DEF CodesInv, CodesCounted
<1>13. SendsSound'
  BY <1>3, <1>4 DEF CodesInv, SendsSound
<1>14. SendsLimited'
  <2>1. SUFFICES ASSUME "send" \notin oddities
                 PROVE  /\ Cardinality(Sent') <= DailyLimit
                        /\ \A d, e \in Sent' : codes'[d].age = "fresh" /\ codes'[e].age = "fresh"
                             /\ codes'[d].purpose = codes'[e].purpose => d = e
    BY <1>4 DEF SendsLimited
  <2>2. Cardinality(Sent') = n + 1
    BY <1>8, FS_Interval
  <2>3. n < DailyLimit /\ \A d \in Sent : codes[d].purpose = new.purpose => codes[d].age # "fresh"
    BY <1>1, <1>4, <1>5, <2>1, SentSize DEF CodesInv, SendsSound
  <2>4. \A d, e \in Sent : codes[d].age = "fresh" /\ codes[e].age = "fresh"
                             /\ codes[d].purpose = codes[e].purpose => d = e
    BY <2>1 DEF CodesInv, SendsLimited
  <2>5. codes'[c] = new
    BY <1>2
  <2>6. QED
    BY <1>7, <1>10, <2>2, <2>3, <2>4, <2>5, AccountBounds
<1>15. QED
  BY <1>9, <1>11, <1>12, <1>13, <1>14 DEF CodesInv

LEMMA CodeRead ==
  ASSUME CodesInv, AccountsTypeOK, NEW q \in Requests, NEW purpose \in Purposes,
         NEW right \in BOOLEAN, NEW client \in Clients \cup {None},
         Redeem(q, purpose, right, client)
  PROVE  CodesInv'
<1>1. PICK c \in Newest(purpose) :
        /\ MayTry(c)
        /\ Starts(q, [NotSigning EXCEPT !.stage = IF right THEN "accept" ELSE "miss",
                       !.purpose = purpose, !.user = account, !.password = password,
                       !.code = c, !.tries = codes[c].tries, !.client = client])
        /\ codes' = [codes EXCEPT ![c].raced =
             @ \/ \E o \in In({"accept", "miss", "reset"}) : signing[o].code = c]
  BY DEF Redeem
<1>2. c \in Sent /\ c \in CodeIds /\ ~codes[c].used
  BY DEF Newest, Usable, Sent
<1>3. PICK b \in BOOLEAN :
        b = (codes[c].raced \/ \E o \in In({"accept", "miss", "reset"}) : signing[o].code = c)
  OBVIOUS
<1>4. codes[c] \in CodeRows
  BY <1>2, Parts
<1>5. PICK row \in CodeRows : row = [codes[c] EXCEPT !.raced = b]
  BY <1>4 DEF CodeRows
<1>6. /\ row.purpose = codes[c].purpose /\ row.age = codes[c].age /\ row.used = codes[c].used
      /\ row.tries = codes[c].tries /\ row.guesses = codes[c].guesses
      /\ row.spent = codes[c].spent /\ row.raced = b
  BY <1>4, <1>5 DEF CodeRows
<1>7. \A d \in CodeIds : codes'[d] = IF d = c THEN row ELSE codes[d]
  BY <1>1, <1>2, <1>3, <1>5, Parts
<1>8. PICK new : /\ new.stage \in {"accept", "miss"} /\ new.code = c /\ new.tries = codes[c].tries
                 /\ signing' = [signing EXCEPT ![q] = new]
  <2> DEFINE new == [NotSigning EXCEPT !.stage = IF right THEN "accept" ELSE "miss",
                       !.purpose = purpose, !.user = account, !.password = password,
                       !.code = c, !.tries = codes[c].tries, !.client = client]
  <2>1. new.stage \in {"accept", "miss"} /\ new.code = c /\ new.tries = codes[c].tries
    BY DEF NotSigning
  <2>2. signing' = [signing EXCEPT ![q] = new]
    BY <1>1 DEF Starts, Signs
  <2>3. QED
    BY <2>1, <2>2
<1>9. \A o \in Requests : signing'[o] = IF o = q THEN new ELSE signing[o]
  BY <1>8, Parts
<1>10. Sent' = Sent /\ \A d \in Sent : d \in CodeIds
  BY <1>6, <1>7 DEF Sent
<1>11. \A d \in CodeIds :
         /\ codes'[d].purpose = codes[d].purpose /\ codes'[d].age = codes[d].age
         /\ codes'[d].used = codes[d].used /\ codes'[d].tries = codes[d].tries
         /\ codes'[d].guesses = codes[d].guesses /\ codes'[d].spent = codes[d].spent
         /\ ~codes'[d].raced => ~codes[d].raced
  BY <1>3, <1>6, <1>7
<1>12. CodesInOrder' /\ CodesCounted'
  BY <1>10, <1>11 DEF CodesInv, CodesInOrder, CodesCounted
<1>13. RedeemersSound'
  <2>1. ASSUME NEW o \in Requests, o # q, signing[o].stage \in Redeeming
        PROVE  /\ signing[o].code \in Sent
               /\ ~codes'[signing[o].code].raced =>
                    /\ signing[o].code # c
                    /\ ~codes'[signing[o].code].used
                    /\ signing[o].tries = codes'[signing[o].code].tries
                    /\ signing[o].tries < MaxAttempts
    <3>1. signing[o].code \in Sent
      BY <2>1 DEF CodesInv, RedeemersSound
    <3>2. signing[o].code = c => b
      BY <1>3, <2>1 DEF In, Redeeming
    <3>3. signing[o].code = c => codes'[signing[o].code].raced
      BY <3>2, <1>2, <1>6, <1>7
    <3>4. QED
      BY <2>1, <3>1, <3>3, <1>10, <1>11 DEF CodesInv, RedeemersSound
  <2>2. /\ new.code \in Sent /\ ~codes'[new.code].used /\ new.tries = codes'[new.code].tries
        /\ new.tries < MaxAttempts
    BY <1>1, <1>2, <1>8, <1>11 DEF MayTry
  <2>3. \A o, p \in Requests :
          o # p /\ signing'[o].stage \in Redeeming /\ signing'[p].stage \in Redeeming
                /\ signing'[o].code = signing'[p].code => codes'[signing'[o].code].raced
    <3>1. SUFFICES ASSUME NEW o \in Requests, NEW p \in Requests, o # p,
                          signing'[o].stage \in Redeeming, signing'[p].stage \in Redeeming,
                          signing'[o].code = signing'[p].code
                   PROVE  codes'[signing'[o].code].raced
      OBVIOUS
    <3>2. CASE o = q
      BY <3>1, <3>2, <2>1, <1>8, <1>9
    <3>3. CASE p = q
      BY <3>1, <3>3, <2>1, <1>8, <1>9
    <3>4. CASE o # q /\ p # q
      <4>1. codes[signing[o].code].raced /\ signing[o].code \in Sent
        BY <3>1, <3>4, <1>9 DEF CodesInv, RedeemersSound
      <4>2. QED
        BY <4>1, <3>4, <1>9, <1>10, <1>11
    <3>5. QED
      BY <3>2, <3>3, <3>4
  <2>4. \A o \in Requests : signing'[o].stage \in Redeeming =>
          /\ signing'[o].code \in Sent'
          /\ ~codes'[signing'[o].code].raced =>
               /\ ~codes'[signing'[o].code].used
               /\ signing'[o].tries = codes'[signing'[o].code].tries
               /\ signing'[o].tries < MaxAttempts
    BY <2>1, <2>2, <1>9, <1>10
  <2>5. QED
    BY <2>3, <2>4 DEF RedeemersSound
<1>14. oddities' = oddities
  BY DEF Redeem
<1>15. SendsSound'
  BY <1>8, <1>9, <1>10, <1>11, <1>14 DEF CodesInv, SendsSound
<1>16. SendsLimited'
  BY <1>10, <1>11, <1>14 DEF CodesInv, SendsLimited
<1>17. QED
  BY <1>12, <1>13, <1>15, <1>16 DEF CodesInv

\* A request is done with its code.
LEMMA CodeTried ==
  ASSUME CodesInv, AccountsTypeOK, NEW q \in Requests, signing[q].stage \in Redeeming,
         NEW new, new.stage \notin Redeeming \cup {"send"},
         signing' = [signing EXCEPT ![q] = new],
         NEW row, codes' = [codes EXCEPT ![signing[q].code] = row],
         row.age = codes[signing[q].code].age, row.purpose = codes[signing[q].code].purpose,
         row.raced = codes[signing[q].code].raced,
         ~row.raced => /\ row.guesses = row.tries /\ row.tries <= MaxAttempts
                       /\ row.spent <= 1
                       /\ ~row.used => row.spent = 0,
         UNCHANGED oddities
  PROVE  CodesInv'
<1>1. PICK c \in Sent : c = signing[q].code
  BY DEF CodesInv, RedeemersSound
<1>2. c \in CodeIds
  BY DEF Sent
<1>3. \A d \in CodeIds : codes'[d] = IF d = c THEN row ELSE codes[d]
  BY <1>1, Parts
<1>4. \A o \in Requests : signing'[o] = IF o = q THEN new ELSE signing[o]
  BY Parts
<1>5. \A d \in CodeIds :
        /\ codes'[d].age = codes[d].age /\ codes'[d].purpose = codes[d].purpose
        /\ codes'[d].raced = codes[d].raced
        /\ d # c => codes'[d] = codes[d]
  BY <1>1, <1>3
<1>6. Sent' = Sent /\ \A d \in Sent : d \in CodeIds
  BY <1>5 DEF Sent
<1>7. CodesInOrder'
  BY <1>6 DEF CodesInv, CodesInOrder
<1>8. CodesCounted'
  BY <1>1, <1>3, <1>6 DEF CodesInv, CodesCounted
<1>9. RedeemersSound'
  <2>1. ASSUME NEW o \in Requests, signing'[o].stage \in Redeeming
        PROVE  /\ o # q /\ signing'[o] = signing[o] /\ signing[o].code \in Sent
               /\ codes'[signing[o].code].raced = codes[signing[o].code].raced
               /\ ~codes[signing[o].code].raced => codes'[signing[o].code] = codes[signing[o].code]
    <3>1. o # q /\ signing'[o] = signing[o]
      BY <2>1, <1>4
    <3>2. signing[o].code \in Sent
      BY <2>1, <3>1 DEF CodesInv, RedeemersSound
    <3>3. signing[o].code = c => codes[c].raced
      BY <2>1, <3>1, <1>1 DEF CodesInv, RedeemersSound
    <3>4. QED
      BY <3>1, <3>2, <3>3, <1>5, <1>6
  <2>2. \A o, p \in Requests :
          o # p /\ signing'[o].stage \in Redeeming /\ signing'[p].stage \in Redeeming
                /\ signing'[o].code = signing'[p].code => codes'[signing'[o].code].raced
    BY <2>1 DEF CodesInv, RedeemersSound
  <2>3. \A o \in Requests : signing'[o].stage \in Redeeming =>
          /\ signing'[o].code \in Sent'
          /\ ~codes'[signing'[o].code].raced =>
               /\ ~codes'[signing'[o].code].used
               /\ signing'[o].tries = codes'[signing'[o].code].tries
               /\ signing'[o].tries < MaxAttempts
    BY <2>1, <1>6 DEF CodesInv, RedeemersSound
  <2>4. QED
    BY <2>2, <2>3 DEF RedeemersSound
<1>10. SendsSound'
  BY <1>4, <1>5, <1>6 DEF CodesInv, SendsSound
<1>11. SendsLimited'
  BY <1>5, <1>6 DEF CodesInv, SendsLimited
<1>12. QED
  BY <1>7, <1>8, <1>9, <1>10, <1>11 DEF CodesInv

LEMMA WrongGuess ==
  ASSUME CodesInv, AccountsTypeOK, NEW q \in Requests, Miss(q)
  PROVE  CodesInv'
<1>1. PICK c \in Sent : c = signing[q].code
  BY DEF CodesInv, RedeemersSound, Redeeming, Miss
<1>2. c \in CodeIds /\ codes[c] \in CodeRows /\ signing[q].tries \in Nat
  BY Parts DEF Sent, SigningRows
<1>3. PICK row \in CodeRows :
        row = [codes[c] EXCEPT !.tries = signing[q].tries + 1, !.guesses = @ + 1]
  <2>1. PICK t \in Nat, g \in Nat : t = signing[q].tries + 1 /\ g = codes[c].guesses + 1
    BY <1>2 DEF CodeRows
  <2>2. [codes[c] EXCEPT !.tries = t, !.guesses = g] \in CodeRows
    BY <1>2 DEF CodeRows
  <2>3. QED
    BY <2>1, <2>2
<1>4. /\ row.tries = signing[q].tries + 1 /\ row.guesses = codes[c].guesses + 1
      /\ row.age = codes[c].age /\ row.purpose = codes[c].purpose /\ row.raced = codes[c].raced
      /\ row.spent = codes[c].spent /\ row.used = codes[c].used
  BY <1>2, <1>3 DEF CodeRows
<1>5. codes' = [codes EXCEPT ![c] = row]
  BY <1>1, <1>2, <1>3, Parts DEF Miss
<1>6. ~codes[c].raced =>
        /\ ~codes[c].used /\ signing[q].tries = codes[c].tries /\ signing[q].tries < MaxAttempts
        /\ codes[c].guesses = codes[c].tries /\ codes[c].spent = 0
  BY <1>1 DEF CodesInv, RedeemersSound, CodesCounted, Miss, Redeeming
<1>7. ~row.raced => /\ row.guesses = row.tries /\ row.tries <= MaxAttempts /\ row.spent <= 1
                    /\ ~row.used => row.spent = 0
  BY <1>2, <1>4, <1>6, AccountBounds
<1>8. /\ signing[q].stage \in Redeeming /\ signing' = [signing EXCEPT ![q] = NotSigning]
      /\ NotSigning.stage \notin Redeeming \cup {"send"} /\ oddities' = oddities
  BY DEF Miss, Signs, Redeeming, NotSigning
<1>9. QED
  BY <1>1, <1>4, <1>5, <1>7, <1>8, CodeTried

LEMMA CodeSpent ==
  ASSUME CodesInv, AccountsTypeOK, NEW q \in Requests, signing[q].stage \in Redeeming,
         NEW new, new.stage \notin Redeeming \cup {"send"},
         signing' = [signing EXCEPT ![q] = new],
         codes' = Spend(signing[q].code), UNCHANGED oddities
  PROVE  CodesInv'
<1>1. PICK c \in Sent : c = signing[q].code
  BY DEF CodesInv, RedeemersSound
<1>2. c \in CodeIds /\ codes[c] \in CodeRows
  BY Parts DEF Sent
<1>3. PICK row \in CodeRows : row = [codes[c] EXCEPT !.used = TRUE, !.spent = @ + 1]
  <2>1. PICK n \in Nat : n = codes[c].spent + 1
    BY <1>2 DEF CodeRows
  <2>2. [codes[c] EXCEPT !.used = TRUE, !.spent = n] \in CodeRows
    BY <1>2 DEF CodeRows
  <2>3. QED
    BY <2>1, <2>2
<1>4. /\ row.tries = codes[c].tries /\ row.guesses = codes[c].guesses
      /\ row.age = codes[c].age /\ row.purpose = codes[c].purpose /\ row.raced = codes[c].raced
      /\ row.spent = codes[c].spent + 1 /\ row.used
  BY <1>2, <1>3 DEF CodeRows
<1>5. codes' = [codes EXCEPT ![c] = row]
  BY <1>1, <1>2, <1>3, Parts DEF Spend
<1>6. ~codes[c].raced => /\ codes[c].guesses = codes[c].tries /\ codes[c].tries <= MaxAttempts
                         /\ codes[c].spent = 0
  BY <1>1 DEF CodesInv, RedeemersSound, CodesCounted
<1>7. ~row.raced => /\ row.guesses = row.tries /\ row.tries <= MaxAttempts /\ row.spent <= 1
                    /\ ~row.used => row.spent = 0
  BY <1>4, <1>6
<1>8. QED
  BY <1>1, <1>4, <1>5, <1>7, CodeTried

LEMMA CodeAccepted ==
  ASSUME CodesInv, AccountsTypeOK, NEW q \in Requests,
         AcceptRegistration(q) \/ AcceptLogin(q) \/ CommitReset(q)
  PROVE  CodesInv'
<1>1. signing[q] \in SigningRows
  BY Parts
<1>2. CASE AcceptRegistration(q)
  <2>1. PICK new : /\ new.stage = "consume" /\ signing' = [signing EXCEPT ![q] = new]
    <3> DEFINE new == [signing[q] EXCEPT !.stage = "consume", !.user = accounts']
    <3>1. new.stage = "consume"
      BY <1>1 DEF SigningRows
    <3>2. QED
      BY <3>1, <1>2 DEF AcceptRegistration, Signs
  <2>2. QED
    BY <2>1, <1>2, CodeSpent DEF AcceptRegistration, Redeeming
<1>3. CASE AcceptLogin(q)
  <2>1. PICK new : /\ new.stage = "open" /\ signing' = [signing EXCEPT ![q] = new]
    <3> DEFINE new == [signing[q] EXCEPT !.stage = "open"]
    <3>1. new.stage = "open"
      BY <1>1 DEF SigningRows
    <3>2. QED
      BY <3>1, <1>3 DEF AcceptLogin, Advances, Signs
  <2>2. QED
    BY <2>1, <1>3, CodeSpent DEF AcceptLogin, Redeeming
<1>4. CASE CommitReset(q)
  <2>1. NotSigning.stage = "idle"
    BY DEF NotSigning
  <2>2. QED
    BY <2>1, <1>4, CodeSpent DEF CommitReset, Signs, Redeeming
<1>5. QED
  BY <1>2, <1>3, <1>4

LEMMA AgesOnly ==
  ASSUME AccountsTypeOK, UNCHANGED codes
  PROVE  OnlyAges
BY DEF OnlyAges

\* The steps of a request that are not about its code.
LEMMA OtherStep ==
  ASSUME CodesInv, AccountsTypeOK, NEW q \in Requests,
         \/ RevokeSame(q) \/ CommitRefresh(q) \/ AbandonSigning(q) \/ RevokeAll(q)
         \/ \E s \in SessionIds : OpenSession(q, s) \/ ReadRefresh(q, s)
         \/ \E k \in Clients : PasswordLogin(q, k)
  PROVE  CodesInv'
<1>1. signing[q] \in SigningRows /\ NotSigning.stage = "idle"
  BY Parts DEF NotSigning
<1>2. OnlyAges /\ oddities \subseteq oddities'
  BY AgesOnly DEF RevokeSame, CommitRefresh, AbandonSigning, RevokeAll, OpenSession, ReadRefresh,
                  PasswordLogin
<1>3. CASE RevokeAll(q)
  <2>1. PICK new : /\ new.stage = "reset" /\ new.code = signing[q].code
                   /\ new.tries = signing[q].tries
                   /\ signing' = [signing EXCEPT ![q] = new]
    <3> DEFINE new == [signing[q] EXCEPT !.stage = "reset",
                                         !.met = RevokedByReset(signing[q].user)]
    <3>1. new.stage = "reset" /\ new.code = signing[q].code /\ new.tries = signing[q].tries
      BY <1>1 DEF SigningRows
    <3>2. QED
      BY <3>1, <1>3 DEF RevokeAll, Signs
  <2>2. \A o \in Requests : signing'[o] = IF o = q THEN new ELSE signing[o]
    BY <2>1, Parts
  <2>3. NobodyBegins
    BY <2>1, <2>2, <1>3 DEF NobodyBegins, RevokeAll, Redeeming
  <2>4. QED
    BY <2>3, <1>2, CodesStay
<1>4. CASE RevokeSame(q)
  <2>1. PICK new : new.stage = "insert" /\ signing' = [signing EXCEPT ![q] = new]
    <3> DEFINE new == [signing[q] EXCEPT !.stage = "insert",
                         !.met = RevokedByLogin(signing[q].user, signing[q].client)]
    <3>1. new.stage = "insert"
      BY <1>1 DEF SigningRows
    <3>2. QED
      BY <3>1, <1>4 DEF RevokeSame, Signs
  <2>2. QED
    BY <2>1, <1>2, SomebodyElse, CodesStay DEF Redeeming
<1>5. CASE CommitRefresh(q) \/ AbandonSigning(q) \/ \E s \in SessionIds : OpenSession(q, s)
  <2>1. signing' = [signing EXCEPT ![q] = NotSigning]
    BY <1>5 DEF CommitRefresh, AbandonSigning, OpenSession, Signs
  <2>2. QED
    BY <2>1, <1>1, <1>2, SomebodyElse, CodesStay DEF Redeeming
<1>6. ASSUME NEW s \in SessionIds, ReadRefresh(q, s)
      PROVE  CodesInv'
  <2>1. PICK new : new.stage = "rotate" /\ signing' = [signing EXCEPT ![q] = new]
    <3> DEFINE new == [NotSigning EXCEPT !.stage = "rotate", !.session = s, !.row = sessions[s]]
    <3>1. new.stage = "rotate"
      BY DEF NotSigning
    <3>2. QED
      BY <3>1, <1>6 DEF ReadRefresh, Starts, Signs
  <2>2. QED
    BY <2>1, <1>2, SomebodyElse, CodesStay DEF Redeeming
<1>7. ASSUME NEW k \in Clients, PasswordLogin(q, k)
      PROVE  CodesInv'
  <2>1. PICK new : new.stage = "open" /\ signing' = [signing EXCEPT ![q] = new]
    <3> DEFINE new == [NotSigning EXCEPT !.stage = "open", !.user = account,
                                         !.password = password, !.client = k]
    <3>1. new.stage = "open"
      BY DEF NotSigning
    <3>2. QED
      BY <3>1, <1>7 DEF PasswordLogin, Starts, Signs
  <2>2. QED
    BY <2>1, <1>2, SomebodyElse, CodesStay DEF Redeeming
<1>8. QED
  BY <1>3, <1>4, <1>5, <1>6, <1>7

\* The account of a code comes or goes, and time passes.
LEMMA RowsAge ==
  ASSUME CodesInv, AccountsTypeOK,
         \/ \E q \in Requests : ConsumeInvitation(q)
         \/ \E c \in CodeIds : Age(c)
         \/ DeleteAccount
         \/ \E S : Ends(S)
         \/ UNCHANGED accountVars
  PROVE  CodesInv'
<1>1. codes \in [CodeIds -> CodeRows] /\ signing \in [Requests -> SigningRows]
  BY Parts
<1>2. ASSUME NEW q \in Requests, ConsumeInvitation(q)
      PROVE  CodesInv'
  <2>1. signing[q] \in SigningRows /\ signing[q].user \in 0..MaxAccount
    BY <1>1 DEF SigningRows
  <2>2. PICK new : new.stage = "open" /\ signing' = [signing EXCEPT ![q] = new]
    <3> DEFINE new == [signing[q] EXCEPT !.stage = "open"]
    <3>1. new.stage = "open"
      BY <2>1 DEF SigningRows
    <3>2. QED
      BY <3>1, <1>2 DEF ConsumeInvitation, Advances, Signs
  <2>3. OnlyAges
    <3>1. PICK u \in 0..MaxAccount : u = signing[q].user
      BY <2>1
    <3>2. codes' = [codes EXCEPT ![signing[q].code].user = u]
      BY <3>1, <1>2 DEF ConsumeInvitation
    <3>3. \A c \in CodeIds : codes'[c] = codes[c] \/ codes'[c] = [codes[c] EXCEPT !.user = u]
      BY <3>2, <1>1
    <3>4. \A c \in CodeIds : codes[c] \in CodeRows
      BY <1>1
    <3>5. QED
      BY <3>3, <3>4 DEF OnlyAges, CodeRows
  <2>4. oddities' = oddities
    BY <1>2 DEF ConsumeInvitation
  <2>5. QED
    BY <2>2, <2>3, <2>4, SomebodyElse, CodesStay DEF Redeeming
<1>3. ASSUME signing' = signing
      PROVE  NobodyBegins
  BY <1>3 DEF NobodyBegins
<1>4. ASSUME NEW c \in CodeIds, Age(c)
      PROVE  CodesInv'
  <2>1. PICK age \in {"valid", "expired"} : codes' = [codes EXCEPT ![c].age = age]
    <3>1. codes[c].age \in {"fresh", "valid"}
          /\ codes' = [codes EXCEPT ![c].age = [fresh |-> "valid", valid |-> "expired"][@]]
      BY <1>4 DEF Age
    <3>2. PICK age : age = [fresh |-> "valid", valid |-> "expired"][codes[c].age]
      OBVIOUS
    <3>3. age \in {"valid", "expired"}
      BY <3>1, <3>2
    <3>4. codes' = [codes EXCEPT ![c].age = age]
      BY <3>1, <3>2
    <3>5. QED
      BY <3>3, <3>4
  <2>2. codes[c] \in CodeRows /\ codes[c].age \in {"fresh", "valid"}
    BY <1>1, <1>4 DEF Age
  <2>3. \A d \in CodeIds : codes'[d] = IF d = c THEN [codes[c] EXCEPT !.age = age] ELSE codes[d]
    BY <2>1, <1>1
  <2>4. OnlyAges
    BY <2>2, <2>3 DEF OnlyAges, CodeRows
  <2>5. signing' = signing /\ oddities' = oddities
    BY <1>4 DEF Age
  <2>6. QED
    BY <2>4, <2>5, <1>3, CodesStay
<1>5. CASE DeleteAccount
  <2>1. \A c \in CodeIds : codes'[c] = [codes[c] EXCEPT !.user = IF @ = account THEN 0 ELSE @]
    BY <1>5 DEF DeleteAccount
  <2>2. \A c \in CodeIds : codes[c] \in CodeRows
    BY <1>1
  <2>3. OnlyAges
    BY <2>1, <2>2 DEF OnlyAges, CodeRows
  <2>4. signing' = signing /\ oddities' = oddities
    BY <1>5 DEF DeleteAccount
  <2>5. QED
    BY <2>3, <2>4, <1>3, CodesStay
<1>6. CASE (\E S : Ends(S)) \/ UNCHANGED accountVars
  <2>1. signing' = signing /\ oddities' = oddities /\ codes' = codes
    BY <1>6 DEF Ends, accountVars
  <2>2. QED
    BY <2>1, <1>3, AgesOnly, CodesStay
<1>7. QED
  BY <1>2, <1>4, <1>5, <1>6

LEMMA CodesStep == CodesInv /\ AccountsTypeOK /\ [AccountsNext]_accountVars => CodesInv'
<1> SUFFICES ASSUME CodesInv, AccountsTypeOK, [AccountsNext]_accountVars PROVE CodesInv'
  OBVIOUS
<1>1. ASSUME NEW q \in Requests, SendRegister(q) \/ SendLogin(q) \/ SendReset(q)
      PROVE  CodesInv'
  BY <1>1, SendRead DEF SendRegister, SendLogin, SendReset, Purposes
<1>2. ASSUME NEW q \in Requests, NEW right \in BOOLEAN,
             (\E k \in Clients : Register(q, right, k) \/ CodeLogin(q, right, k))
             \/ ResetPassword(q, right)
      PROVE  CodesInv'
  <2>1. PICK purpose \in Purposes, client \in Clients \cup {None} :
          Redeem(q, purpose, right, client)
    BY <1>2 DEF Register, CodeLogin, ResetPassword, Purposes
  <2>2. QED
    BY <2>1, CodeRead
<1>3. ASSUME NEW s \in SessionIds,
             LogOut(s) \/ LogOutAll(s) \/ ExpireSession(s) \/ \E t \in SessionIds : RevokeSession(s, t)
      PROVE  CodesInv'
  <2>1. \E S : Ends(S)
    BY <1>3 DEF LogOut, LogOutAll, ExpireSession, RevokeSession
  <2>2. QED
    BY <2>1, RowsAge
<1>4. QED
  BY <1>1, <1>2, <1>3, CodeSent, WrongGuess, CodeAccepted, OtherStep, RowsAge DEF AccountsNext

\* Codes open one door once, are guessed only so often and sent only so often,
\* for every limit and any number of codes and requests, except where two
\* requests overlapped (verification.py:150-200, identity/application.py:24-57).
THEOREM CodesAreLimited == AccountsSpec => []CodesLimited
<1>1. AccountsInit => CodesInv
  BY CodesStart
<1>2. AccountsInv => AccountsTypeOK
  BY DEF AccountsInv
<1>3. CodesInv /\ AccountsTypeOK => CodesLimited
  <2>1. ASSUME CodesInv, AccountsTypeOK
        PROVE  \A c \in Sent : ~codes[c].raced =>
                 codes[c].spent <= 1 /\ codes[c].guesses <= MaxAttempts
    BY <2>1 DEF CodesInv, CodesCounted
  <2>2. QED
    BY <2>1 DEF CodesInv, SendsLimited, CodesLimited
<1>4. QED  BY <1>1, <1>2, <1>3, CodesStep, AccountsInvariant, PTL DEF AccountsSpec

-----------------------------------------------------------------------------
(***************************************************************************)
(* Hot topics.  Counting the rows before a row numbers a bucket 1, 2, ...: *)
(* the places are numbers up to the size of the bucket and no two rows     *)
(* have the same, so every number is taken.                                *)
(***************************************************************************)

LEMMA TopicsCounted ==
  ASSUME NEW S \in SUBSET TopicIds
  PROVE  IsFiniteSet(S) /\ Cardinality(S) \in Nat /\ Cardinality(S) <= MaxTopic
<1>1. IsFiniteSet(TopicIds) /\ Cardinality(TopicIds) = MaxTopic
  BY HotAssumption, FS_Interval DEF TopicIds
<1>2. QED
  BY <1>1, FS_Subset, FS_CardinalityType

LEMMA TopicNumbers == \A S \in SUBSET TopicIds : \A i \in S : i \in Nat
<1>1. MaxTopic \in Nat
  BY HotAssumption
<1>2. QED
  BY <1>1 DEF TopicIds

LEMMA PlacesInjective ==
  ASSUME NEW rows, NEW S \in SUBSET TopicIds, \A i \in S : rows[i].rank \in Nat,
         NEW i \in S, NEW j \in S, Before(rows, i, j)
  PROVE  Place(rows, S, i) < Place(rows, S, j)
<1> DEFINE P == {k \in S : Before(rows, k, i)}
           Q == {k \in S : Before(rows, k, j)}
<1>0. /\ i \in Nat /\ j \in Nat /\ \A k \in S : k \in Nat
      /\ rows[i].rank \in Nat /\ rows[j].rank \in Nat /\ \A k \in S : rows[k].rank \in Nat
  BY TopicNumbers
<1>1. P \in SUBSET TopicIds /\ Q \in SUBSET TopicIds
  OBVIOUS
<1>2. i \notin P /\ i \in Q
  BY <1>0 DEF Before
<1>3. P \subseteq Q
  <2>1. SUFFICES ASSUME NEW k \in S, Before(rows, k, i) PROVE Before(rows, k, j)
    OBVIOUS
  <2>2. k \in Nat /\ rows[k].rank \in Nat
    BY <1>0
  <2>3. QED
    BY <1>0, <2>1, <2>2 DEF Before
<1>4. Cardinality(P) \in Nat /\ Cardinality(Q) \in Nat /\ IsFiniteSet(P) /\ IsFiniteSet(Q)
  BY <1>1, TopicsCounted
<1>5. Cardinality(P \cup {i}) = Cardinality(P) + 1
  BY <1>2, <1>4, FS_AddElement
<1>6. Cardinality(P \cup {i}) <= Cardinality(Q)
  <2>1. P \cup {i} \in SUBSET Q
    BY <1>2, <1>3
  <2>2. QED
    BY <2>1, <1>4, FS_Subset
<1>7. Place(rows, S, i) = 1 + Cardinality(P) /\ Place(rows, S, j) = 1 + Cardinality(Q)
  BY DEF Place
<1>8. QED
  BY <1>4, <1>5, <1>6, <1>7

LEMMA PlacesTaken ==
  ASSUME NEW rows, NEW S \in SUBSET TopicIds, \A i \in S : rows[i].rank \in Nat
  PROVE  /\ \A i \in S : Place(rows, S, i) \in 1..Cardinality(S)
         /\ \A n \in 1..Cardinality(S) : \E i \in S : Place(rows, S, i) = n
<1>1. PICK n \in Nat : n = Cardinality(S)
  BY TopicsCounted
<1>2. IsFiniteSet(S) /\ \A i \in S : i \in Nat
  BY TopicsCounted, TopicNumbers
<1>3. ASSUME NEW i \in S PROVE Place(rows, S, i) \in 1..n
  <2> DEFINE P == {k \in S : Before(rows, k, i)}
  <2>1. P \in SUBSET (S \ {i})
    BY <1>2 DEF Before
  <2>2. IsFiniteSet(S \ {i}) /\ Cardinality(S \ {i}) = n - 1
    BY <1>1, <1>2, FS_RemoveElement
  <2>3. Cardinality(P) <= n - 1 /\ IsFiniteSet(P)
    BY <2>1, <2>2, FS_Subset
  <2>4. Cardinality(P) \in Nat
    BY <2>3, FS_CardinalityType
  <2>5. Place(rows, S, i) = 1 + Cardinality(P)
    BY DEF Place
  <2>6. QED
    BY <2>3, <2>4, <2>5
<1> DEFINE f == [i \in S |-> Place(rows, S, i)]
<1>4. f \in [S -> 1..n]
  BY <1>3
<1>5. \A i, j \in S : f[i] = f[j] => i = j
  <2>1. SUFFICES ASSUME NEW i \in S, NEW j \in S, i # j PROVE f[i] # f[j]
    OBVIOUS
  <2>2. Before(rows, i, j) \/ Before(rows, j, i)
    BY <2>1, <1>2 DEF Before
  <2>3. f[i] \in 1..n /\ f[j] \in 1..n
    BY <1>4
  <2>4. CASE Before(rows, i, j)
    BY <2>3, <2>4, PlacesInjective
  <2>5. CASE Before(rows, j, i)
    BY <2>3, <2>5, PlacesInjective
  <2>6. QED
    BY <2>2, <2>4, <2>5
<1>6. f \in Injection(S, 1..n)
  BY <1>4, <1>5 DEF Injection, IsInjective
<1>7. IsFiniteSet(1..n) /\ Cardinality(1..n) = n
  BY FS_Interval
<1>8. f \in Surjection(S, 1..n)
  BY <1>1, <1>6, <1>7, FS_Injection
<1>9. \A m \in 1..n : \E i \in S : f[i] = m
  BY <1>8 DEF Surjection
<1>10. QED
  BY <1>1, <1>3, <1>9

\* The last place of a set of ids is that of the greatest.
LEMMA GreatestTopic ==
  ASSUME NEW S \in SUBSET TopicIds
  PROVE  \E m \in S \cup {0} : \A i \in S : i <= m
<1>1. CASE S = {}
  BY <1>1
<1>2. CASE S # {}
  <2> DEFINE rows == [i \in TopicIds |-> NoTopic]
  <2>1. \A i \in S : rows[i].rank = 0
    BY DEF NoTopic
  <2>2. IsFiniteSet(S) /\ Cardinality(S) \in Nat /\ Cardinality(S) # 0
    BY <1>2, TopicsCounted, FS_EmptySet
  <2>3. PICK m \in S : Place(rows, S, m) = Cardinality(S)
    <3>1. \A i \in S : rows[i].rank \in Nat
      BY <2>1
    <3>2. Cardinality(S) \in 1..Cardinality(S)
      BY <2>2
    <3>3. QED
      BY <3>1, <3>2, PlacesTaken
  <2>4. \A i \in S : i \in Nat
    BY HotAssumption DEF TopicIds
  <2> HIDE DEF rows
  <2>5. ASSUME NEW i \in S PROVE i <= m
    <3>1. CASE i = m
      BY <2>4, <3>1
    <3>2. CASE i < m
      BY <2>4, <3>2
    <3>3. CASE m < i
      <4>1. Before(rows, m, i)
        BY <2>1, <3>3 DEF Before
      <4>2. \A k \in S : rows[k].rank \in Nat
        BY <2>1
      <4>3. Place(rows, S, m) < Place(rows, S, i) /\ Place(rows, S, i) \in 1..Cardinality(S)
        BY <4>1, <4>2, PlacesInjective, PlacesTaken
      <4>4. QED
        BY <2>2, <2>3, <4>3
    <3>4. QED
      BY <2>4, <3>1, <3>2, <3>3
  <2>6. QED
    BY <2>5
<1>3. QED
  BY <1>1, <1>2

\* A new topic has an id that no row has, committed or not.
LEMMA NewTopicIds ==
  ASSUME NEW n \in Nat, NEW i \in NewIds(n), i \in TopicIds
  PROVE  topics[i].status = "none" /\ edit.new[i].status = "none" /\ run.tx.new[i].status = "none"
<1> DEFINE taken == {k \in TopicIds : \/ topics[k].status # "none"
                                      \/ edit.new[k].status # "none"
                                      \/ run.tx.new[k].status # "none"}
           last == CHOOSE m \in taken \cup {0} : \A k \in taken : k <= m
<1>1. taken \in SUBSET TopicIds
  OBVIOUS
<1>2. last \in taken \cup {0} /\ \A k \in taken : k <= last
  <2>1. \E m \in taken \cup {0} : \A k \in taken : k <= m
    BY <1>1, GreatestTopic
  <2>2. QED
    BY <2>1
<1>3. i \in (last + 1)..(last + n)
  BY DEF NewIds
<1> HIDE DEF last
<1>4. last \in Nat /\ i \in Nat
  <2>1. \A k \in taken : k \in Nat
    BY HotAssumption DEF TopicIds
  <2>2. last \in Nat
    BY <1>2, <2>1
  <2>3. QED
    BY <2>2, HotAssumption DEF TopicIds
<1>5. i \notin taken
  <2>1. ~(i <= last)
    BY <1>3, <1>4
  <2>2. QED
    BY <1>2, <2>1
<1>6. QED
  BY <1>5

\* A row whose rank is not yet one of its bucket.
WideRows == [status : {"none", "gone"} \cup Buckets, generation : 0..MaxGeneration, rank : Nat]

Numbered(rows, b) == {rows[i].rank : i \in Bucket(rows, b)} = 1..Cardinality(Bucket(rows, b))

\* The ranks of the others leave exactly the place of the focus free.
LEMMA RanksLeaveRoom ==
  ASSUME NEW rows, NEW S \in SUBSET TopicIds, \A i \in S : rows[i].rank \in Nat,
         NEW at \in 1..(Cardinality(S) + 1),
         NEW rank, \A i \in S : rank[i] = IF Place(rows, S, i) >= at THEN Place(rows, S, i) + 1
                                          ELSE Place(rows, S, i)
  PROVE  /\ \A i \in S : rank[i] \in 1..(Cardinality(S) + 1) /\ rank[i] # at
         /\ \A n \in 1..(Cardinality(S) + 1) : n # at => \E i \in S : rank[i] = n
<1>1. PICK n \in Nat : n = Cardinality(S)
  BY TopicsCounted
<1>2. \A i \in S : Place(rows, S, i) \in 1..n
  BY <1>1, PlacesTaken
<1>3. \A i \in S : rank[i] \in 1..(n + 1) /\ rank[i] # at
  BY <1>1, <1>2
<1>4. ASSUME NEW m \in 1..(n + 1), m < at PROVE \E i \in S : rank[i] = m
  <2>1. m \in 1..n
    BY <1>1, <1>4
  <2>2. PICK i \in S : Place(rows, S, i) = m
    BY <1>1, <2>1, PlacesTaken
  <2>3. QED
    BY <1>1, <1>4, <2>2
<1>5. ASSUME NEW m \in 1..(n + 1), at < m PROVE \E i \in S : rank[i] = m
  <2>1. m - 1 \in 1..n /\ m - 1 >= at
    BY <1>1, <1>5
  <2>2. PICK i \in S : Place(rows, S, i) = m - 1
    BY <1>1, <2>1, PlacesTaken
  <2>3. QED
    BY <1>1, <2>1, <2>2
<1>6. \A m \in 1..(n + 1) : m # at => \E i \in S : rank[i] = m
  BY <1>1, <1>4, <1>5
<1>7. QED
  BY <1>1, <1>3, <1>6

LEMMA RenumberedFacts ==
  ASSUME NEW table \in [TopicIds -> WideRows], NEW b \in Buckets, NEW focus \in Nat,
         NEW desired \in Nat, focus \in Bucket(table, b) => desired >= 1,
         NEW new, new = Renumbered(table, b, focus, desired)
  PROVE  /\ new \in [TopicIds -> WideRows]
         /\ \A i \in TopicIds : /\ new[i].status = table[i].status
                                /\ new[i].generation = table[i].generation
                                /\ table[i].status # b => new[i] = table[i]
                                /\ table[i].status = b => new[i].rank \in 1..MaxTopic
         /\ Numbered(new, b)
<1>1. PICK B \in SUBSET TopicIds : B = Bucket(table, b)
  BY DEF Bucket
<1>2. PICK others \in SUBSET B : others = B \ {focus}
  OBVIOUS
<1>3. others \in SUBSET TopicIds /\ \A i \in others : table[i].rank \in Nat
  BY <1>1, <1>2 DEF WideRows
<1>4. PICK n \in Nat : n = Cardinality(others)
  BY <1>3, TopicsCounted
<1>5. PICK at \in 1..(n + 1) :
        at = IF focus \notin B THEN n + 1 ELSE IF desired < n + 1 THEN desired ELSE n + 1
  <2>1. (IF focus \notin B THEN n + 1 ELSE IF desired < n + 1 THEN desired ELSE n + 1)
          \in 1..(n + 1)
    BY <1>1
  <2>2. QED
    BY <2>1
<1>6. PICK rank : rank = [i \in TopicIds |->
                            IF i = focus THEN at
                            ELSE IF Place(table, others, i) >= at
                                 THEN Place(table, others, i) + 1
                                 ELSE Place(table, others, i)]
  OBVIOUS
<1>7. new = [i \in TopicIds |-> IF i \in B THEN [table[i] EXCEPT !.rank = rank[i]] ELSE table[i]]
  <2>1. ASSUME NEW i \in TopicIds
        PROVE  rank[i] = IF i = focus THEN at
                         ELSE LET p == Place(table, others, i) IN IF p >= at THEN p + 1 ELSE p
    BY <1>6
  <2>2. QED
    BY <1>1, <1>2, <1>4, <1>5, <2>1 DEF Renumbered
<1>8. /\ \A i \in others : rank[i] \in 1..(n + 1) /\ rank[i] # at
      /\ \A m \in 1..(n + 1) : m # at => \E i \in others : rank[i] = m
  <2>1. \A i \in others : rank[i] = IF Place(table, others, i) >= at
                                    THEN Place(table, others, i) + 1
                                    ELSE Place(table, others, i)
    BY <1>2, <1>3, <1>6
  <2>2. QED
    BY <1>3, <1>4, <2>1, RanksLeaveRoom
<1>9. PICK size \in Nat : size = Cardinality(B)
  BY TopicsCounted
<1>10. /\ focus \in B => size = n + 1 /\ rank[focus] = at
       /\ focus \notin B => size = n /\ at = n + 1 /\ others = B
  <2>1. IsFiniteSet(B)
    BY TopicsCounted
  <2>2. CASE focus \in B
    <3>1. Cardinality(others) = Cardinality(B) - 1
      BY <1>2, <2>1, <2>2, FS_RemoveElement
    <3>2. QED
      BY <1>4, <1>6, <1>9, <2>2, <3>1
  <2>3. CASE focus \notin B
    BY <1>2, <1>4, <1>5, <1>9, <2>3
  <2>4. QED
    BY <2>2, <2>3
<1>11. \A i \in B : rank[i] \in 1..size
  <2>1. SUFFICES ASSUME NEW i \in B PROVE rank[i] \in 1..size
    OBVIOUS
  <2>2. CASE i = focus
    BY <1>10, <2>2
  <2>3. CASE i # focus
    BY <1>2, <1>8, <1>10, <2>3
  <2>4. QED
    BY <2>2, <2>3
<1>12. \A m \in 1..size : \E i \in B : rank[i] = m
  <2>1. SUFFICES ASSUME NEW m \in 1..size PROVE \E i \in B : rank[i] = m
    OBVIOUS
  <2>2. CASE m = at
    BY <1>10, <2>1, <2>2
  <2>3. CASE m # at
    BY <1>2, <1>8, <1>10, <2>1, <2>3
  <2>4. QED
    BY <2>2, <2>3
<1>13. size <= MaxTopic
  BY <1>9, TopicsCounted
<1>14. ASSUME NEW i \in TopicIds, i \in B
       PROVE  /\ new[i] \in WideRows /\ new[i].status = b /\ table[i].status = b
              /\ new[i].generation = table[i].generation /\ new[i].rank = rank[i]
              /\ rank[i] \in 1..MaxTopic
  <2>1. rank[i] \in 1..MaxTopic /\ rank[i] \in Nat
    BY <1>11, <1>13, <1>14, HotAssumption
  <2>2. table[i] \in WideRows /\ table[i].status = b
    BY <1>1, <1>14 DEF Bucket
  <2>3. PICK k \in Nat : k = rank[i]
    BY <2>1
  <2>4. new[i] = [table[i] EXCEPT !.rank = k]
    BY <1>7, <1>14, <2>3
  <2>5. QED
    BY <2>1, <2>2, <2>3, <2>4 DEF WideRows
<1>15. ASSUME NEW i \in TopicIds, i \notin B
       PROVE  new[i] = table[i] /\ table[i].status # b /\ new[i] \in WideRows
  BY <1>1, <1>7, <1>15 DEF Bucket
<1>16. new \in [TopicIds -> WideRows]
  BY <1>7, <1>14, <1>15
<1>17. Bucket(new, b) = B
  BY <1>14, <1>15 DEF Bucket
<1>18. Numbered(new, b)
  <2>1. {new[i].rank : i \in B} = 1..size
    BY <1>11, <1>12, <1>14
  <2>2. QED
    BY <1>9, <1>17, <2>1 DEF Numbered
<1>19. QED
  BY <1>14, <1>15, <1>16, <1>18

\* What concerns a bucket is the rows in it.
LEMMA SameBucket ==
  ASSUME NEW one, NEW two, NEW b, Numbered(one, b),
         \A i \in TopicIds : (one[i].status = b <=> two[i].status = b)
                             /\ (one[i].status = b => two[i].rank = one[i].rank)
  PROVE  Numbered(two, b)
<1>1. Bucket(two, b) = Bucket(one, b)
  BY DEF Bucket
<1>2. {two[i].rank : i \in Bucket(two, b)} = {one[i].rank : i \in Bucket(one, b)}
  BY <1>1 DEF Bucket
<1>3. QED
  BY <1>1, <1>2 DEF Numbered

-----------------------------------------------------------------------------
(* What a transaction makes of the topics it has read                      *)

GoneTopic == [NoTopic EXCEPT !.status = "gone"]

Shaped(row) ==
  /\ row.status = "none" => row = NoTopic
  /\ row.status = "gone" => row = GoneTopic
  /\ row.status \in Buckets => row.rank >= 1

\* A topic keeps its generation and is never brought back.
Follows(row, seen) ==
  /\ seen.status = "gone" => row = seen
  /\ seen.status \in Buckets =>
       \/ row.status = "gone"
       \/ row.status \in Buckets /\ row.generation = seen.generation
  /\ seen.status = "none" => row.status \in Buckets \cup {"none"}

\* New topics are of a generation of G and have ids of their own.
Prepared(table, G) ==
  \A i \in TopicIds :
    /\ Shaped(table[i]) /\ Follows(table[i], topics[i])
    /\ topics[i].status = "none" /\ table[i].status # "none" =>
         /\ edit.new[i].status = "none" /\ run.tx.new[i].status = "none"
         /\ table[i].generation \in G

\* The ranks are those of a list, but for the buckets still to be numbered.
Fitting(table, B) == \A i \in TopicIds : table[i].rank <= MaxTopic \/ table[i].status \in B

MadeOf(new, buckets, G) ==
  /\ new \in [TopicIds -> TopicRows] /\ buckets \subseteq Buckets
  /\ Prepared(new, G) /\ \A b \in buckets : Numbered(new, b)

TopicsShaped == \A i \in TopicIds : Shaped(topics[i])

LEMMA TopicsPrepared ==
  ASSUME HotTypeOK, TopicsShaped, NEW G
  PROVE  /\ topics \in [TopicIds -> WideRows] /\ topics \in [TopicIds -> TopicRows]
         /\ Prepared(topics, G) /\ Fitting(topics, {})
<1>1. \A i \in TopicIds : topics[i] \in TopicRows /\ topics[i] \in WideRows
                          /\ topics[i].rank \in 0..MaxTopic
  BY HotAssumption DEF HotTypeOK, TopicRows, WideRows
<1>2. topics \in [TopicIds -> WideRows] /\ topics \in [TopicIds -> TopicRows]
  BY <1>1 DEF HotTypeOK
<1>3. \A i \in TopicIds : Follows(topics[i], topics[i])
  BY DEF Follows
<1>4. QED
  BY <1>1, <1>2, <1>3 DEF Prepared, TopicsShaped, Fitting

LEMMA RenumberingPrepares ==
  ASSUME NEW G, NEW table \in [TopicIds -> WideRows], Prepared(table, G), NEW b \in Buckets,
         NEW focus \in Nat, NEW desired \in Nat, focus \in Bucket(table, b) => desired >= 1,
         NEW new, new = Renumbered(table, b, focus, desired), NEW B, Fitting(table, B)
  PROVE  /\ new \in [TopicIds -> WideRows] /\ Prepared(new, G) /\ Fitting(new, B \ {b})
         /\ Numbered(new, b) /\ \A c \in Buckets \ {b} : Numbered(table, c) => Numbered(new, c)
         /\ \A i \in TopicIds : new[i].status = table[i].status
<1>1. /\ new \in [TopicIds -> WideRows]
      /\ \A i \in TopicIds : /\ new[i].status = table[i].status
                             /\ new[i].generation = table[i].generation
                             /\ table[i].status # b => new[i] = table[i]
                             /\ table[i].status = b => new[i].rank \in 1..MaxTopic
      /\ Numbered(new, b)
  BY RenumberedFacts
<1>2. ASSUME NEW i \in TopicIds, table[i].status = b
      PROVE  Shaped(new[i]) /\ Follows(new[i], topics[i]) /\ new[i].rank <= MaxTopic
  <2>1. new[i].rank \in 1..MaxTopic /\ new[i].status = b
    BY <1>1, <1>2
  <2>2. Follows(table[i], topics[i])
    BY DEF Prepared
  <2>3. b # "none" /\ b # "gone" /\ b \in Buckets
    BY DEF Buckets
  <2>4. topics[i].status # "gone"
    BY <1>2, <2>2, <2>3 DEF Follows
  <2>5. Follows(new[i], topics[i])
    BY <1>1, <1>2, <2>1, <2>2, <2>3, <2>4 DEF Follows
  <2>6. QED
    BY <2>1, <2>3, <2>5, HotAssumption DEF Shaped
<1>3. Prepared(new, G)
  BY <1>1, <1>2 DEF Prepared
<1>4. Fitting(new, B \ {b})
  BY <1>1, <1>2 DEF Fitting
<1>5. ASSUME NEW c \in Buckets \ {b}, Numbered(table, c) PROVE Numbered(new, c)
  BY <1>1, <1>5, SameBucket
<1>6. QED
  BY <1>1, <1>3, <1>4, <1>5

\* A renumbering without a focus.
LEMMA TidyingPrepares ==
  ASSUME NEW G, NEW table \in [TopicIds -> WideRows], Prepared(table, G), NEW b \in Buckets,
         NEW new, new = Tidied(table, b), NEW B, Fitting(table, B)
  PROVE  /\ new \in [TopicIds -> WideRows] /\ Prepared(new, G) /\ Fitting(new, B \ {b})
         /\ Numbered(new, b) /\ \A c \in Buckets \ {b} : Numbered(table, c) => Numbered(new, c)
         /\ \A i \in TopicIds : new[i].status = table[i].status
<1>1. 0 \notin Bucket(table, b)
  BY HotAssumption DEF Bucket, TopicIds
<1>2. new = Renumbered(table, b, 0, 0)
  BY DEF Tidied
<1>3. PICK nobody \in Nat : nobody = 0
  OBVIOUS
<1>4. new = Renumbered(table, b, nobody, nobody) /\ nobody \notin Bucket(table, b)
  BY <1>1, <1>2, <1>3
<1>5. QED
  BY <1>4, RenumberingPrepares

LEMMA FittingMade ==
  ASSUME NEW new \in [TopicIds -> WideRows], NEW G, Prepared(new, G), Fitting(new, {}),
         NEW buckets \in SUBSET Buckets, \A b \in buckets : Numbered(new, b)
  PROVE  MadeOf(new, buckets, G)
<1>1. ASSUME NEW i \in TopicIds PROVE new[i] \in TopicRows
  <2>1. new[i] \in WideRows /\ new[i].rank <= MaxTopic
    BY DEF Fitting
  <2>2. QED
    BY <2>1, HotAssumption DEF WideRows, TopicRows
<1>2. QED
  BY <1>1 DEF MadeOf

\* What is written for a topic, new or moved.
Puts(i, row, G) ==
  /\ row.status \in Buckets /\ row.rank >= 1
  /\ \/ topics[i].status \in Buckets /\ row.generation = topics[i].generation
     \/ /\ topics[i].status = "none" /\ row.generation \in G
        /\ edit.new[i].status = "none" /\ run.tx.new[i].status = "none"

LEMMA RowsPrepare ==
  ASSUME HotTypeOK, TopicsShaped, NEW G, NEW B, NEW table \in [TopicIds -> WideRows],
         \A i \in TopicIds :
           \/ table[i] = topics[i]
           \/ Puts(i, table[i], G) /\ (table[i].rank = topics[i].rank \/ table[i].status \in B)
  PROVE  Prepared(table, G) /\ Fitting(table, B)
<1>1. Prepared(topics, G) /\ Fitting(topics, {})
  BY TopicsPrepared
<1>2. ASSUME NEW i \in TopicIds
      PROVE  /\ Shaped(table[i]) /\ Follows(table[i], topics[i])
             /\ topics[i].status = "none" /\ table[i].status # "none" =>
                  /\ edit.new[i].status = "none" /\ run.tx.new[i].status = "none"
                  /\ table[i].generation \in G
  <2>1. CASE table[i] = topics[i]
    BY <1>1, <2>1 DEF Prepared
  <2>2. CASE Puts(i, table[i], G)
    <3>1. table[i].status # "none" /\ table[i].status # "gone"
      BY <2>2 DEF Puts, Buckets
    <3>2. Shaped(table[i])
      BY <2>2, <3>1 DEF Puts, Shaped
    <3>3. Follows(table[i], topics[i])
      <4>1. CASE topics[i].status \in Buckets
        BY <2>2, <4>1 DEF Puts, Follows, Buckets
      <4>2. CASE topics[i].status = "none"
        BY <2>2, <4>2 DEF Puts, Follows, Buckets
      <4>3. QED
        BY <2>2, <4>1, <4>2 DEF Puts
    <3>4. topics[i].status = "none" =>
            /\ edit.new[i].status = "none" /\ run.tx.new[i].status = "none"
            /\ table[i].generation \in G
      BY <2>2 DEF Puts, Buckets
    <3>5. QED
      BY <3>2, <3>3, <3>4
  <2>3. QED
    BY <2>1, <2>2
<1>3. Fitting(table, B)
  BY <1>1 DEF Fitting
<1>4. QED
  BY <1>2, <1>3 DEF Prepared

LEMMA PutPrepares ==
  ASSUME HotTypeOK, TopicsShaped, NEW i \in TopicIds, NEW row \in WideRows, NEW G, Puts(i, row, G),
         NEW table, table = [topics EXCEPT ![i] = row]
  PROVE  table \in [TopicIds -> WideRows] /\ Prepared(table, G) /\ Fitting(table, {row.status})
<1>1. topics \in [TopicIds -> WideRows]
  BY TopicsPrepared
<1>2. /\ table \in [TopicIds -> WideRows]
      /\ \A j \in TopicIds : table[j] = IF j = i THEN row ELSE topics[j]
  BY <1>1
<1>3. \A j \in TopicIds : \/ table[j] = topics[j]
                          \/ /\ Puts(j, table[j], G)
                             /\ table[j].rank = topics[j].rank \/ table[j].status \in {row.status}
  BY <1>2
<1>4. QED
  BY <1>2, <1>3, RowsPrepare

LEMMA TidyTwice ==
  ASSUME NEW G, NEW table \in [TopicIds -> WideRows], Prepared(table, G), Fitting(table, {"active"})
  PROVE  MadeOf(Tidied(Tidied(table, "active"), "archived"), {"active", "archived"}, G)
<1>1. "active" \in Buckets /\ "archived" \in Buckets \ {"active"} /\ "active" \in Buckets \ {"archived"}
  BY DEF Buckets
<1>2. PICK one : one = Tidied(table, "active")
  OBVIOUS
<1>3. PICK two : two = Tidied(one, "archived")
  OBVIOUS
<1>4. /\ one \in [TopicIds -> WideRows] /\ Prepared(one, G) /\ Fitting(one, {"active"} \ {"active"})
      /\ Numbered(one, "active")
  BY <1>1, <1>2, TidyingPrepares
<1>5. PICK none : none = {} /\ Fitting(one, none)
  BY <1>4
<1>6. ASSUME NEW b \in Buckets, b = "archived"
      PROVE  /\ two \in [TopicIds -> WideRows] /\ Prepared(two, G) /\ Fitting(two, none \ {b})
             /\ Numbered(two, b)
             /\ \A c \in Buckets \ {b} : Numbered(one, c) => Numbered(two, c)
  <2>1. two = Tidied(one, b)
    BY <1>3, <1>6
  <2>2. QED
    BY <1>4, <1>5, <2>1, TidyingPrepares
<1>7. /\ Fitting(two, {}) /\ {"active", "archived"} \in SUBSET Buckets
      /\ \A b \in {"active", "archived"} : Numbered(two, b)
  BY <1>1, <1>4, <1>5, <1>6
<1>8. MadeOf(two, {"active", "archived"}, G)
  BY <1>6, <1>7, FittingMade
<1>9. QED
  BY <1>2, <1>3, <1>8

-----------------------------------------------------------------------------
(* Commits                                                                 *)

\* The topics a transaction adds.
Made(tx) == {i \in TopicIds : tx.seen[i].status = "none" /\ tx.new[i].status # "none"}

\* What may have become of a topic since it was read.
Meets(now, seen) ==
  /\ seen.status = "gone" => now = seen
  /\ seen.status \in Buckets =>
       \/ now.status = "gone"
       \/ now.status \in Buckets /\ now.generation = seen.generation

\* A transaction knows the buckets in which others have changed topics since,
\* and what it writes is numbered.
TxFits(now, tx) ==
  /\ ~tx.open => tx = NoTx
  /\ \A b \in tx.buckets : Numbered(tx.new, b)
  /\ \A i \in TopicIds :
       /\ Shaped(tx.seen[i]) /\ Shaped(tx.new[i]) /\ Follows(tx.new[i], tx.seen[i])
       /\ tx.open => Meets(now[i], tx.seen[i])
       /\ tx.open /\ now[i] # tx.seen[i] =>
            {now[i].status, tx.seen[i].status} \cap Buckets \subseteq tx.stale
       /\ i \in Made(tx) => now[i].status = "none"

TxSound(tx) == TxFits(topics, tx)

\* One row of a commit.
LEMMA RowWritten ==
  ASSUME HotTypeOK, TopicsShaped, NEW tx \in TxRows, TxSound(tx), CanCommit(tx),
         NEW i \in TopicIds
  PROVE  /\ Written(tx, i) \in TopicRows /\ Shaped(Written(tx, i))
         /\ Follows(Written(tx, i), topics[i])
         /\ topics[i].status = "none" /\ Written(tx, i).status # "none" =>
              i \in Made(tx) /\ Written(tx, i) = tx.new[i]
         /\ topics[i] = tx.seen[i] => Written(tx, i) = tx.new[i]
         /\ tx.new[i] = tx.seen[i] => Written(tx, i) = topics[i]
         /\ topics[i].status = "gone" => tx.new[i].status \notin tx.buckets
<1>1. PICK now \in TopicRows : now = topics[i]
  BY DEF HotTypeOK
<1>2. PICK seen \in TopicRows : seen = tx.seen[i]
  BY DEF TxRows
<1>3. PICK new \in TopicRows : new = tx.new[i]
  BY DEF TxRows
<1>4. PICK status, generation, rank :
        /\ status = IF new.status # seen.status THEN new.status ELSE now.status
        /\ generation = IF new.generation # seen.generation THEN new.generation ELSE now.generation
        /\ rank = IF new.rank # seen.rank THEN new.rank ELSE now.rank
  OBVIOUS
<1>5. PICK row : row = [status |-> status, generation |-> generation, rank |-> rank]
  OBVIOUS
<1>6. Written(tx, i) = row
  BY <1>1, <1>2, <1>3, <1>4, <1>5 DEF Written, Merged
<1>7. row \in TopicRows /\ row.status = status /\ row.generation = generation /\ row.rank = rank
  BY <1>4, <1>5 DEF TopicRows
<1>8. /\ Shaped(now) /\ Shaped(seen) /\ Shaped(new) /\ Follows(new, seen) /\ Meets(now, seen)
      /\ i \in Made(tx) => now.status = "none"
  BY <1>1, <1>2, <1>3 DEF TopicsShaped, TxSound, TxFits, CanCommit
<1>9. \A r \in TopicRows : r = [status |-> r.status, generation |-> r.generation, rank |-> r.rank]
  BY DEF TopicRows
<1>10. new = seen => row = now
  BY <1>4, <1>5, <1>9
<1>11. now = seen => row = new
  BY <1>4, <1>5, <1>9
<1>12. now.status = "gone" /\ (seen.status # "none" /\ new.status \in Buckets) =>
         new = seen /\ new.status \notin tx.buckets
  BY <1>1, <1>2, <1>3 DEF CanCommit, Updated
<1>13. ASSUME row = now
       PROVE  Shaped(row) /\ Follows(row, now)
  BY <1>8, <1>13 DEF Follows
<1>14. \A r \in TopicRows : r.status \in {"none", "gone"} \cup Buckets
  BY DEF TopicRows
<1>15. \A r \in TopicRows : r.status = "none" /\ Shaped(r) => r = NoTopic
  BY DEF Shaped
<1>16. i \in Made(tx) <=> seen.status = "none" /\ new.status # "none"
  BY <1>2, <1>3 DEF Made
<1>17. CASE seen.status = "none"
  <2>1. CASE new.status = "none"
    <3>1. new = seen
      BY <1>8, <1>15, <1>17, <2>1
    <3>2. row = now
      BY <1>10, <3>1
    <3>3. tx.new[i].status \notin tx.buckets
      BY <1>3, <2>1 DEF TxRows, Buckets
    <3>4. QED
      BY <1>1, <1>2, <1>3, <1>6, <1>7, <1>11, <1>13, <3>1, <3>2, <3>3
  <2>2. CASE new.status # "none"
    <3>1. i \in Made(tx) /\ now.status = "none"
      BY <1>8, <1>16, <1>17, <2>2
    <3>2. now = seen
      BY <1>8, <1>15, <1>17, <3>1
    <3>3. row = new
      BY <1>11, <3>2
    <3>4. Follows(row, now)
      BY <1>8, <3>2, <3>3
    <3>5. QED
      BY <1>1, <1>2, <1>3, <1>6, <1>7, <1>8, <1>10, <3>1, <3>2, <3>3, <3>4
  <2>3. QED
    BY <2>1, <2>2
<1>18. CASE seen.status = "gone"
  <2>1. now = seen /\ new = seen
    BY <1>8, <1>18 DEF Meets, Follows
  <2>2. row = now
    BY <1>10, <2>1
  <2>3. tx.new[i].status \notin tx.buckets
    BY <1>3, <1>18, <2>1 DEF TxRows, Buckets
  <2>4. QED
    BY <1>1, <1>2, <1>3, <1>6, <1>7, <1>13, <1>18, <2>1, <2>2, <2>3
<1>19. CASE seen.status \in Buckets
  <2>0. seen.status # "none" /\ seen.status # "gone"
    BY <1>19 DEF Buckets
  <2>1. now.status = "gone" \/ (now.status \in Buckets /\ now.generation = seen.generation)
    BY <1>8, <1>19 DEF Meets
  <2>2. new.status = "gone" \/ (new.status \in Buckets /\ new.generation = seen.generation)
    BY <1>8, <1>19 DEF Follows
  <2>3. now.status # "none"
    BY <2>1 DEF Buckets
  <2>4. CASE new.status = "gone"
    <3>1. new = GoneTopic /\ new.generation = 0 /\ new.rank = 0
      BY <1>8, <2>4 DEF Shaped, GoneTopic, NoTopic
    <3>2. now.status = "gone" => now = GoneTopic
      BY <1>8 DEF Shaped
    <3>3. status = "gone"
      BY <1>4, <2>0, <2>4
    <3>4. generation = 0
      BY <1>4, <2>1, <3>1, <3>2 DEF GoneTopic, NoTopic
    <3>5. rank = 0
      <4>1. seen.rank >= 1 /\ seen.rank \in Nat
        BY <1>8, <1>19, HotAssumption DEF Shaped, TopicRows
      <4>2. QED
        BY <1>4, <3>1, <4>1
    <3>6. row = new
      BY <1>5, <1>9, <2>4, <3>1, <3>3, <3>4, <3>5
    <3>7. Follows(row, now)
      <4>1. now.status = "gone" => row = now
        BY <3>1, <3>2, <3>6
      <4>2. QED
        BY <2>3, <2>4, <3>6, <4>1 DEF Follows
    <3>8. tx.new[i].status \notin tx.buckets
      BY <1>3, <2>4 DEF TxRows, Buckets
    <3>9. QED
      BY <1>1, <1>2, <1>3, <1>6, <1>7, <1>8, <1>10, <2>3, <3>6, <3>7, <3>8
  <2>5. CASE new.status \in Buckets /\ now.status = "gone"
    <3>1. new = seen /\ new.status \notin tx.buckets
      BY <1>12, <2>0, <2>5
    <3>2. row = now
      BY <1>10, <3>1
    <3>3. QED
      BY <1>1, <1>2, <1>3, <1>6, <1>7, <1>11, <1>13, <2>3, <3>1, <3>2
  <2>6. CASE new.status \in Buckets /\ now.status \in Buckets
    <3>0. new.status # "gone" /\ new.status # "none" /\ now.status # "gone"
      BY <2>6 DEF Buckets
    <3>1. status \in Buckets
      BY <1>4, <2>6
    <3>2. generation = now.generation
      BY <1>4, <2>1, <2>2, <3>0
    <3>3. rank >= 1
      BY <1>4, <1>8, <2>6 DEF Shaped
    <3>4. status # "none" /\ status # "gone"
      BY <3>1 DEF Buckets
    <3>5. Shaped(row)
      BY <1>7, <3>3, <3>4 DEF Shaped
    <3>6. Follows(row, now)
      BY <1>7, <2>3, <3>0, <3>1, <3>2 DEF Follows
    <3>7. QED
      BY <1>1, <1>2, <1>3, <1>6, <1>7, <1>10, <1>11, <2>3, <3>0, <3>5, <3>6
  <2>7. QED
    BY <2>1, <2>2, <2>4, <2>5, <2>6
<1>20. QED
  BY <1>2, <1>14, <1>17, <1>18, <1>19

\* A commit that met no changes in a bucket it numbers leaves it numbered.
LEMMA CommitNumbers ==
  ASSUME HotTypeOK, TopicsShaped, NEW tx \in TxRows, TxSound(tx), Commits(tx),
         tx.stale \cap (tx.buckets \cup {tx.seen[i].status : i \in Updated(tx)}) = {},
         NEW b \in tx.buckets
  PROVE  Numbered(topics', b)
<1>1. CanCommit(tx) /\ tx.open
  BY DEF Commits, CanCommit
<1>2. b \in Buckets /\ b # "none" /\ b # "gone" /\ b \notin tx.stale
  BY DEF TxRows, Buckets
<1>3. \A i \in TopicIds : topics'[i] = Written(tx, i)
  BY DEF Commits
<1>4. ASSUME NEW i \in TopicIds
      PROVE  /\ tx.new[i].status = b <=> topics'[i].status = b
             /\ tx.new[i].status = b => topics'[i].rank = tx.new[i].rank
  <2>1. /\ Written(tx, i) \in TopicRows /\ Shaped(Written(tx, i))
        /\ Follows(Written(tx, i), topics[i])
        /\ topics[i].status = "none" /\ Written(tx, i).status # "none" =>
             i \in Made(tx) /\ Written(tx, i) = tx.new[i]
        /\ topics[i] = tx.seen[i] => Written(tx, i) = tx.new[i]
        /\ tx.new[i] = tx.seen[i] => Written(tx, i) = topics[i]
        /\ topics[i].status = "gone" => tx.new[i].status \notin tx.buckets
    BY <1>1, RowWritten
  <2>2. CASE topics[i] = tx.seen[i]
    BY <1>3, <2>1, <2>2
  <2>3. CASE topics[i] # tx.seen[i]
    <3>1. {topics[i].status, tx.seen[i].status} \cap Buckets \subseteq tx.stale
      BY <1>1, <2>3 DEF TxSound, TxFits
    <3>2. topics[i].status # b /\ tx.seen[i].status # b
      BY <1>2, <3>1
    <3>3. CASE i \notin Updated(tx)
      <4>1. CASE tx.new[i] = tx.seen[i]
        BY <1>3, <2>1, <3>2, <4>1
      <4>2. CASE tx.new[i] # tx.seen[i]
        <5>1. tx.seen[i].status = "none" \/ tx.new[i].status \notin Buckets
          BY <3>3, <4>2 DEF Updated
        <5>2. /\ Shaped(tx.seen[i]) /\ Shaped(tx.new[i]) /\ Follows(tx.new[i], tx.seen[i])
              /\ Meets(topics[i], tx.seen[i]) /\ (i \in Made(tx) => topics[i].status = "none")
          BY <1>1 DEF TxSound, TxFits
        <5>3. CASE tx.seen[i].status = "none"
          <6>1. tx.new[i].status # "none"
            BY <4>2, <5>2, <5>3 DEF Shaped
          <6>2. topics[i].status = "none"
            BY <5>2, <5>3, <6>1 DEF Made
          <6>3. topics[i] = tx.seen[i]
            BY <5>2, <5>3, <6>2 DEF Shaped, TopicsShaped
          <6>4. QED
            BY <2>3, <6>3
        <5>4. CASE tx.new[i].status \notin Buckets /\ tx.seen[i].status # "none"
          <6>1. tx.seen[i].status \in Buckets
            <7>1. tx.seen[i].status \in {"none", "gone"} \cup Buckets
              BY DEF TxRows, TopicRows
            <7>2. tx.seen[i].status # "gone"
              BY <4>2, <5>2 DEF Follows
            <7>3. QED
              BY <5>4, <7>1, <7>2
          <6>2. tx.new[i].status # b
            BY <1>2, <5>4
          <6>3. topics[i].status \in Buckets \/ topics[i].status = "gone"
            BY <5>2, <6>1 DEF Meets
          <6>4. tx.new[i].status = "gone"
            BY <5>2, <5>4, <6>1 DEF Follows
          <6>5. tx.new[i].status # tx.seen[i].status
            BY <6>1, <6>4 DEF Buckets
          <6>6. Written(tx, i).status = "gone"
            BY <6>4, <6>5 DEF Written, Merged
          <6>7. QED
            BY <1>2, <1>3, <6>2, <6>6
        <5>5. QED
          BY <5>1, <5>3, <5>4
      <4>3. QED
        BY <4>1, <4>2
    <3>4. CASE i \in Updated(tx)
      <4>1. tx.seen[i].status # "none" /\ tx.new[i].status \in Buckets
            /\ tx.seen[i].status \notin tx.stale
        BY <3>4 DEF Updated
      <4>2. tx.seen[i].status \notin Buckets
        BY <3>1, <4>1
      <4>3. tx.seen[i].status = "gone"
        BY <4>1, <4>2 DEF TxRows, TopicRows
      <4>4. topics[i] = tx.seen[i]
        BY <1>1, <4>3 DEF TxSound, TxFits, Meets
      <4>5. QED
        BY <2>3, <4>4
    <3>5. QED
      BY <3>3, <3>4
  <2>4. QED
    BY <2>2, <2>3
<1>5. Numbered(tx.new, b)
  BY DEF TxSound, TxFits
<1> HIDE DEF Numbered
<1>6. PICK rows : rows = topics'
  OBVIOUS
<1>7. Numbered(rows, b)
  BY <1>4, <1>5, <1>6, SameBucket
<1>8. QED
  BY <1>6, <1>7

\* What a commit does to the topics.
Evolved(tx) ==
  /\ topics' \in [TopicIds -> TopicRows] /\ loose' \subseteq Buckets
  /\ \A i \in TopicIds :
       /\ Shaped(topics'[i]) /\ Follows(topics'[i], topics[i])
       /\ topics[i].status = "none" /\ topics'[i].status # "none" =>
            i \in Made(tx) /\ topics'[i] = tx.new[i]

LEMMA CommitEvolves ==
  ASSUME HotTypeOK, TopicsShaped, RanksRepaired, NEW tx \in TxRows, TxSound(tx), Commits(tx)
  PROVE  Evolved(tx) /\ RanksRepaired'
<1>1. CanCommit(tx)
  BY DEF Commits
<1>2. \A i \in TopicIds : topics'[i] = Written(tx, i)
  BY DEF Commits
<1>3. Evolved(tx)
  <2>1. \A i \in TopicIds : /\ topics'[i] \in TopicRows /\ Shaped(topics'[i])
                            /\ Follows(topics'[i], topics[i])
                            /\ topics[i].status = "none" /\ topics'[i].status # "none" =>
                                 i \in Made(tx) /\ topics'[i] = tx.new[i]
    BY <1>1, <1>2, RowWritten
  <2>2. topics' \in [TopicIds -> TopicRows]
    BY <2>1 DEF Commits
  <2>3. loose' \subseteq Buckets
    BY DEF Commits, Changed, HotTypeOK
  <2>4. QED
    BY <2>1, <2>2, <2>3 DEF Evolved
<1>4. ASSUME NEW b \in Buckets, b \notin loose, b \notin Changed PROVE Numbered(topics', b)
  <2>1. \A i \in TopicIds : topics[i] = topics'[i] \/ (b # topics[i].status /\ b # topics'[i].status)
    BY <1>4 DEF Changed
  <2>2. Numbered(topics, b)
    BY <1>4 DEF RanksRepaired, Numbered
  <2>3. PICK rows : rows = topics'
    OBVIOUS
  <2>4. \A i \in TopicIds : (topics[i].status = b <=> rows[i].status = b)
                            /\ (topics[i].status = b => rows[i].rank = topics[i].rank)
    BY <2>1, <2>3
  <2>5. Numbered(rows, b)
    BY <2>2, <2>4, SameBucket
  <2>6. QED
    BY <2>3, <2>5
<1>5. ASSUME NEW b \in Buckets, b \notin loose' PROVE Numbered(topics', b)
  <2>1. CASE /\ tx.stale \cap (tx.buckets \cup {tx.seen[i].status : i \in Updated(tx)}) = {}
             /\ b \in tx.buckets
    BY <2>1, CommitNumbers
  <2>2. CASE ~(/\ tx.stale \cap (tx.buckets \cup {tx.seen[i].status : i \in Updated(tx)}) = {}
               /\ b \in tx.buckets)
    <3>1. b \notin loose /\ b \notin Changed
      BY <1>5, <2>2 DEF Commits
    <3>2. QED
      BY <1>4, <3>1
  <2>3. QED
    BY <2>1, <2>2
<1>6. RanksRepaired'
  BY <1>5 DEF RanksRepaired, Numbered, Bucket
<1>7. QED
  BY <1>3, <1>6

LEMMA EmptyTxSound ==
  TxSound(NoTx) /\ NoTx \in TxRows /\ Made(NoTx) = {} /\ \A i \in TopicIds : NoTx.new[i] = NoTopic
<1>1. /\ NoTx.buckets = {} /\ NoTx.open = FALSE
      /\ \A i \in TopicIds : NoTx.seen[i] = NoTopic /\ NoTx.new[i] = NoTopic
  BY DEF NoTx
<1>2. NoTopic.status = "none" /\ NoTopic \in TopicRows
  BY HotAssumption DEF NoTopic, TopicRows
<1>3. Made(NoTx) = {}
  BY <1>1, <1>2 DEF Made
<1>4. Shaped(NoTopic) /\ Follows(NoTopic, NoTopic)
  BY <1>2 DEF Shaped, Follows, Buckets
<1>5. TxSound(NoTx)
  BY <1>1, <1>3, <1>4 DEF TxSound, TxFits
<1>6. NoTx \in TxRows
  BY <1>2, HotAssumption DEF NoTx, TxRows
<1>7. QED
  BY <1>1, <1>3, <1>5, <1>6

\* The other transaction stays sound when the buckets are noted.
LEMMA OthersStaySound ==
  ASSUME NEW tx, Evolved(tx), NEW other \in TxRows, TxSound(other), Made(other) \cap Made(tx) = {},
         HotTypeOK, NEW after, after = Outdated(other)
  PROVE  /\ after \in TxRows /\ TxSound(after)'
         /\ Made(after) = Made(other) /\ after.new = other.new /\ after.open = other.open
<1>1. CASE ~other.open
  <2>1. other = NoTx /\ after = NoTx
    BY <1>1 DEF TxSound, TxFits, Outdated
  <2>2. TxSound(NoTx)'
    BY EmptyTxSound, PTL
  <2>3. QED
    BY <2>1, <2>2, EmptyTxSound
<1>2. CASE other.open
  <2>1. PICK stale \in SUBSET Buckets : stale = other.stale \cup Changed
    <3>1. other.stale \cup Changed \in SUBSET Buckets
      BY DEF TxRows, Changed
    <3>2. QED
      BY <3>1
  <2>2. after = [other EXCEPT !.stale = stale]
    BY <1>2, <2>1 DEF Outdated
  <2>3. /\ after \in TxRows /\ after.open = other.open /\ after.seen = other.seen
        /\ after.new = other.new /\ after.buckets = other.buckets /\ after.stale = stale
    BY <2>2 DEF TxRows
  <2>4. Made(after) = Made(other)
    BY <2>3 DEF Made
  <2>5. ASSUME NEW i \in TopicIds
        PROVE  /\ Shaped(after.seen[i]) /\ Shaped(after.new[i]) /\ Follows(after.new[i], after.seen[i])
               /\ Meets(topics'[i], after.seen[i])
               /\ topics'[i] # after.seen[i] =>
                    {topics'[i].status, after.seen[i].status} \cap Buckets \subseteq after.stale
               /\ i \in Made(after) => topics'[i].status = "none"
    <3>1. /\ Shaped(other.seen[i]) /\ Shaped(other.new[i]) /\ Follows(other.new[i], other.seen[i])
          /\ Meets(topics[i], other.seen[i])
          /\ topics[i] # other.seen[i] =>
               {topics[i].status, other.seen[i].status} \cap Buckets \subseteq other.stale
          /\ i \in Made(other) => topics[i].status = "none"
      BY <1>2 DEF TxSound, TxFits
    <3>2. /\ Follows(topics'[i], topics[i])
          /\ topics[i].status = "none" /\ topics'[i].status # "none" => i \in Made(tx)
      BY DEF Evolved
    <3>3. Meets(topics'[i], other.seen[i])
      BY <3>1, <3>2 DEF Meets, Follows
    <3>4. ASSUME topics'[i] # other.seen[i]
          PROVE  {topics'[i].status, other.seen[i].status} \cap Buckets \subseteq stale
      <4>1. CASE topics'[i] = topics[i]
        BY <2>1, <3>1, <3>4, <4>1
      <4>2. CASE topics'[i] # topics[i]
        <5>1. {topics[i].status, topics'[i].status} \cap Buckets \subseteq Changed
          BY <4>2 DEF Changed
        <5>2. CASE topics[i] = other.seen[i]
          BY <2>1, <5>1, <5>2
        <5>3. CASE topics[i] # other.seen[i]
          BY <2>1, <3>1, <5>1, <5>3
        <5>4. QED
          BY <5>2, <5>3
      <4>3. QED
        BY <4>1, <4>2
    <3>5. i \in Made(other) => topics'[i].status = "none"
      BY <3>1, <3>2
    <3>6. QED
      BY <2>3, <2>4, <3>1, <3>3, <3>4, <3>5
  <2>6. \A b \in after.buckets : Numbered(after.new, b)
    BY <2>3 DEF TxSound, TxFits
  <2>7. TxSound(after)'
    BY <1>2, <2>3, <2>5, <2>6 DEF TxSound, TxFits, Made, Numbered, Bucket
  <2>8. QED
    BY <2>3, <2>4, <2>7
<1>3. QED
  BY <1>1, <1>2 DEF TxRows

-----------------------------------------------------------------------------
(* Edits and what the agent applies start from the topics as they are      *)

Fresh(tx, G) ==
  tx \in TxRows /\ tx.open /\ tx.seen = topics /\ tx.stale = {} /\ MadeOf(tx.new, tx.buckets, G)

LEMMA OpenFresh ==
  ASSUME HotTypeOK, NEW new, NEW buckets, NEW G, MadeOf(new, buckets, G)
  PROVE  /\ Fresh(Open(new, buckets), G)
         /\ \A g \in Generations : Fresh([Open(new, buckets) EXCEPT !.publishes = g], G)
<1>1. /\ new \in [TopicIds -> TopicRows] /\ buckets \subseteq Buckets
      /\ topics \in [TopicIds -> TopicRows]
  BY DEF MadeOf, HotTypeOK
<1>2. PICK tx \in TxRows :
        /\ tx = Open(new, buckets) /\ tx.open = TRUE /\ tx.seen = topics /\ tx.new = new
        /\ tx.buckets = buckets /\ tx.stale = {}
  <2>1. PICK none \in TxRows : none = NoTx /\ none.stale = {}
    BY EmptyTxSound DEF NoTx
  <2>2. PICK tx : tx = [none EXCEPT !.open = TRUE, !.seen = topics, !.new = new, !.buckets = buckets]
    OBVIOUS
  <2>3. tx \in TxRows /\ tx.open = TRUE /\ tx.seen = topics /\ tx.new = new
        /\ tx.buckets = buckets /\ tx.stale = {}
    BY <1>1, <2>1, <2>2 DEF TxRows
  <2>4. tx = Open(new, buckets)
    BY <2>1, <2>2 DEF Open
  <2>5. QED
    BY <2>3, <2>4
<1>3. 0 \in 0..MaxGeneration /\ \A g \in Generations : g \in 0..MaxGeneration
  BY HotAssumption DEF Generations
<1>4. Fresh(Open(new, buckets), G)
  BY <1>2 DEF Fresh
<1>5. ASSUME NEW g \in Generations
      PROVE  Fresh([Open(new, buckets) EXCEPT !.publishes = g], G)
  <2>1. PICK published : published = [tx EXCEPT !.publishes = g]
    OBVIOUS
  <2>2. /\ published \in TxRows /\ published.open = TRUE /\ published.seen = topics
        /\ published.new = new /\ published.buckets = buckets /\ published.stale = {}
    BY <1>2, <1>3, <2>1 DEF TxRows
  <2>3. QED
    BY <1>2, <2>1, <2>2 DEF Fresh
<1>6. QED
  BY <1>4, <1>5

LEMMA FreshSound ==
  ASSUME HotTypeOK, TopicsShaped, NEW G, NEW tx, Fresh(tx, G)
  PROVE  /\ tx \in TxRows /\ TxSound(tx)
         /\ Made(tx) \cap Made(edit) = {} /\ Made(tx) \cap Made(run.tx) = {}
         /\ \A i \in TopicIds :
              tx.new[i].generation \in G \cup {0} \cup {topics[i].generation}
<1>1. ASSUME NEW i \in TopicIds
      PROVE  /\ Shaped(tx.new[i]) /\ Follows(tx.new[i], topics[i])
             /\ topics[i].status = "none" /\ tx.new[i].status # "none" =>
                  /\ edit.new[i].status = "none" /\ run.tx.new[i].status = "none"
                  /\ tx.new[i].generation \in G
  BY DEF Fresh, MadeOf, Prepared
<1>2. \A i \in TopicIds : Shaped(topics[i]) /\ Meets(topics[i], topics[i])
  BY DEF TopicsShaped, Meets
<1>3. TxSound(tx)
  <2>1. \A b \in tx.buckets : Numbered(tx.new, b)
    BY DEF Fresh, MadeOf
  <2>2. tx.open /\ tx.seen = topics
    BY DEF Fresh
  <2>3. QED
    BY <1>1, <1>2, <2>1, <2>2 DEF TxSound, TxFits, Made
<1>4. Made(tx) \cap Made(edit) = {} /\ Made(tx) \cap Made(run.tx) = {}
  BY <1>1 DEF Fresh, Made
<1>5. ASSUME NEW i \in TopicIds
      PROVE  tx.new[i].generation \in G \cup {0} \cup {topics[i].generation}
  <2>1. topics[i].status \in {"none", "gone"} \cup Buckets
    BY DEF HotTypeOK, TopicRows
  <2>2. CASE topics[i].status = "none"
    BY <1>1, <2>2 DEF Shaped, NoTopic
  <2>3. CASE topics[i].status = "gone"
    BY <1>1, <2>3 DEF Follows
  <2>4. CASE topics[i].status \in Buckets
    BY <1>1, <2>4 DEF Follows, Shaped, GoneTopic, NoTopic
  <2>5. QED
    BY <2>1, <2>2, <2>3, <2>4
<1>6. QED
  BY <1>3, <1>4, <1>5 DEF Fresh

LEMMA CreateFresh ==
  ASSUME HotTypeOK, TopicsShaped, NEW b \in Buckets, NEW r \in TopicIds, CreateTopic(b, r)
  PROVE  \E tx : Fresh(tx, {0}) /\ Carries(tx)
<1>1. PICK i \in TopicIds :
        /\ NewIds(1) = {i}
        /\ Edits(Renumbered([topics EXCEPT ![i] = [NoTopic EXCEPT !.status = b, !.rank = r]],
                            b, i, r), {b})
  BY DEF CreateTopic
<1>2. topics[i].status = "none" /\ edit.new[i].status = "none" /\ run.tx.new[i].status = "none"
  BY <1>1, NewTopicIds
<1>3. i \in Nat /\ r \in Nat /\ r >= 1
  BY HotAssumption DEF TopicIds
<1>4. PICK row \in WideRows : row = [NoTopic EXCEPT !.status = b, !.rank = r]
  <2>0. NoTopic \in WideRows
    BY HotAssumption DEF NoTopic, WideRows
  <2>1. PICK none \in WideRows : none = NoTopic
    BY <2>0
  <2>2. [none EXCEPT !.status = b, !.rank = r] \in WideRows
    BY <1>3, <2>1 DEF WideRows
  <2>3. QED
    BY <2>1, <2>2
<1>5. row.status = b /\ row.generation = 0 /\ row.rank = r
  BY <1>4 DEF NoTopic
<1>6. PICK table : table = [topics EXCEPT ![i] = row]
  OBVIOUS
<1>7. table \in [TopicIds -> WideRows] /\ Prepared(table, {0}) /\ Fitting(table, {b})
  <2>1. Puts(i, row, {0})
    BY <1>2, <1>3, <1>5 DEF Puts
  <2>2. QED
    BY <1>5, <1>6, <2>1, PutPrepares
<1>8. PICK new : new = Renumbered(table, b, i, r)
  OBVIOUS
<1>9. new \in [TopicIds -> WideRows] /\ Prepared(new, {0}) /\ Fitting(new, {b} \ {b})
      /\ Numbered(new, b)
  BY <1>3, <1>7, <1>8, RenumberingPrepares
<1>10. MadeOf(new, {b}, {0})
  <2>1. Fitting(new, {}) /\ {b} \in SUBSET Buckets /\ \A c \in {b} : Numbered(new, c)
    BY <1>9
  <2>2. QED
    BY <1>9, <2>1, FittingMade
<1>11. Edits(new, {b})
  BY <1>1, <1>4, <1>6, <1>8
<1>12. QED
  BY <1>10, <1>11, OpenFresh DEF Edits

LEMMA UpdateFresh ==
  ASSUME HotTypeOK, TopicsShaped, NEW i \in TopicIds, NEW b \in Buckets,
         NEW r \in {0} \cup TopicIds, UpdateTopic(i, b, r)
  PROVE  \E tx : Fresh(tx, {0}) /\ Carries(tx)
<1>1. PICK old \in Buckets : old = topics[i].status
  BY DEF UpdateTopic
<1>2. i \in Nat /\ r \in Nat /\ (r = 0 \/ r >= 1)
  BY HotAssumption DEF TopicIds
<1>3. topics \in [TopicIds -> WideRows] /\ topics[i] \in WideRows /\ topics[i].rank >= 1
  <2>1. topics \in [TopicIds -> WideRows]
    BY TopicsPrepared
  <2>2. Shaped(topics[i])
    BY DEF TopicsShaped
  <2>3. QED
    BY <1>1, <2>1, <2>2 DEF Shaped
<1>4. PICK desired \in Nat : desired = (IF r = 0 THEN topics[i].rank ELSE r) /\ desired >= 1
  <2>1. topics[i].rank \in Nat
    BY <1>3 DEF WideRows
  <2>2. QED
    BY <1>2, <1>3, <2>1
<1>5. PICK row \in WideRows :
        row = [status |-> b, generation |-> topics[i].generation, rank |-> desired]
  BY <1>3, <1>4 DEF WideRows
<1>6. PICK table : table = [topics EXCEPT ![i] = row]
  OBVIOUS
<1>7. [topics EXCEPT ![i].status = b, ![i].rank = desired] = table
  <2>1. PICK was \in WideRows : was = topics[i]
    BY <1>3
  <2>2. PICK one \in WideRows : one = [was EXCEPT !.status = b]
    BY <2>1 DEF WideRows
  <2>3. one.status = b /\ one.generation = was.generation
    BY <2>1, <2>2 DEF WideRows
  <2>4. [one EXCEPT !.rank = desired] = row
    <3>1. PICK two : two = [one EXCEPT !.rank = desired]
      OBVIOUS
    <3>2. two \in WideRows /\ two.status = b /\ two.generation = was.generation /\ two.rank = desired
      BY <2>2, <2>3, <3>1 DEF WideRows
    <3>3. two = [status |-> two.status, generation |-> two.generation, rank |-> two.rank]
      BY <3>2 DEF WideRows
    <3>4. QED
      BY <1>5, <2>1, <3>1, <3>2, <3>3
  <2>5. PICK first : first = [topics EXCEPT ![i] = one]
    OBVIOUS
  <2>6. [topics EXCEPT ![i].status = b] = first
    BY <1>3, <2>1, <2>2, <2>5
  <2>7. first \in [TopicIds -> WideRows] /\ first[i] = one
    BY <1>3, <2>2, <2>5
  <2>8. [first EXCEPT ![i].rank = desired] = [first EXCEPT ![i] = row]
    BY <2>4, <2>7
  <2>9. [first EXCEPT ![i] = row] = table
    BY <1>3, <1>6, <2>5
  <2>10. QED
    BY <2>6, <2>8, <2>9
<1>8. /\ table \in [TopicIds -> WideRows] /\ Prepared(table, {0}) /\ Fitting(table, {b})
  <2>1. row.status = b /\ row.generation = topics[i].generation /\ row.rank = desired
    BY <1>5
  <2>2. Puts(i, row, {0})
    BY <1>1, <1>4, <2>1 DEF Puts
  <2>3. table \in [TopicIds -> WideRows] /\ Prepared(table, {0}) /\ Fitting(table, {row.status})
    BY <1>6, <2>2, PutPrepares
  <2>4. QED
    BY <2>1, <2>3
<1>9. IF old # b
      THEN Edits(Renumbered(TidiesOldBucket(table, old), b, i, desired), {old, b})
      ELSE Edits(IF r # 0 THEN Renumbered(table, b, i, r) ELSE Tidied(table, b), {b})
  BY <1>1, <1>4, <1>7 DEF UpdateTopic
<1>10. CASE old # b
  <2>1. PICK tidy : tidy = Tidied(table, old)
    OBVIOUS
  <2>2. /\ tidy \in [TopicIds -> WideRows] /\ Prepared(tidy, {0}) /\ Fitting(tidy, {b} \ {old})
        /\ Numbered(tidy, old)
    BY <1>8, <2>1, TidyingPrepares
  <2>3. PICK new : new = Renumbered(tidy, b, i, desired)
    OBVIOUS
  <2>4. /\ new \in [TopicIds -> WideRows] /\ Prepared(new, {0})
        /\ Fitting(new, ({b} \ {old}) \ {b}) /\ Numbered(new, b)
        /\ \A c \in Buckets \ {b} : Numbered(tidy, c) => Numbered(new, c)
    <3>1. desired \in Nat /\ i \in Nat /\ (i \in Bucket(tidy, b) => desired >= 1)
      BY <1>2, <1>4
    <3>2. ASSUME NEW B, B = {b} \ {old}, NEW G, G = {0}
          PROVE  /\ new \in [TopicIds -> WideRows] /\ Prepared(new, G)
                 /\ Fitting(new, B \ {b}) /\ Numbered(new, b)
                 /\ \A c \in Buckets \ {b} : Numbered(tidy, c) => Numbered(new, c)
      <4>1. Fitting(tidy, B) /\ Prepared(tidy, G) /\ tidy \in [TopicIds -> WideRows]
        BY <2>2, <3>2
      <4>2. QED
        BY <2>3, <3>1, <4>1, RenumberingPrepares
    <3>3. QED
      BY <3>2
  <2>5. MadeOf(new, {old, b}, {0})
    <3>1. /\ Fitting(new, {}) /\ {old, b} \in SUBSET Buckets
          /\ \A c \in {old, b} : Numbered(new, c)
      <4>1. ({b} \ {old}) \ {b} = {}
        OBVIOUS
      <4>2. QED
        BY <1>10, <2>2, <2>4, <4>1
    <3>2. QED
      BY <2>4, <3>1, FittingMade
  <2>6. Edits(new, {old, b})
    BY <1>9, <1>10, <2>1, <2>3 DEF TidiesOldBucket
  <2>7. QED
    BY <2>5, <2>6, OpenFresh DEF Edits
<1>11. CASE old = b /\ r # 0
  <2>1. PICK new : new = Renumbered(table, b, i, r)
    OBVIOUS
  <2>2. /\ new \in [TopicIds -> WideRows] /\ Prepared(new, {0}) /\ Fitting(new, {b} \ {b})
        /\ Numbered(new, b)
    <3>1. r \in Nat /\ (i \in Bucket(table, b) => r >= 1)
      BY <1>2, <1>11
    <3>2. QED
      BY <1>2, <1>8, <2>1, <3>1, RenumberingPrepares
  <2>3. MadeOf(new, {b}, {0})
    <3>1. Fitting(new, {}) /\ {b} \in SUBSET Buckets /\ \A c \in {b} : Numbered(new, c)
      BY <2>2
    <3>2. QED
      BY <2>2, <3>1, FittingMade
  <2>4. Edits(new, {b})
    BY <1>9, <1>11, <2>1
  <2>5. QED
    BY <2>3, <2>4, OpenFresh DEF Edits
<1>12. CASE old = b /\ r = 0
  <2>1. PICK new : new = Tidied(table, b)
    OBVIOUS
  <2>2. /\ new \in [TopicIds -> WideRows] /\ Prepared(new, {0}) /\ Fitting(new, {b} \ {b})
        /\ Numbered(new, b)
    BY <1>8, <2>1, TidyingPrepares
  <2>3. MadeOf(new, {b}, {0})
    <3>1. Fitting(new, {}) /\ {b} \in SUBSET Buckets /\ \A c \in {b} : Numbered(new, c)
      BY <2>2
    <3>2. QED
      BY <2>2, <3>1, FittingMade
  <2>4. Edits(new, {b})
    BY <1>9, <1>12, <2>1
  <2>5. QED
    BY <2>3, <2>4, OpenFresh DEF Edits
<1>13. QED
  BY <1>10, <1>11, <1>12

LEMMA DeleteFresh ==
  ASSUME HotTypeOK, TopicsShaped, NEW i \in TopicIds, DeleteTopic(i)
  PROVE  \E tx : Fresh(tx, {0}) /\ Carries(tx)
<1>1. PICK old \in Buckets : old = topics[i].status
  BY DEF DeleteTopic
<1>2. PICK table : table = [topics EXCEPT ![i] = GoneTopic]
  OBVIOUS
<1>3. topics \in [TopicIds -> WideRows] /\ Prepared(topics, {0}) /\ Fitting(topics, {})
  BY TopicsPrepared
<1>4. /\ GoneTopic = [status |-> "gone", generation |-> 0, rank |-> 0] /\ GoneTopic \in WideRows
      /\ Shaped(GoneTopic) /\ Follows(GoneTopic, topics[i])
  BY <1>1, HotAssumption DEF GoneTopic, NoTopic, WideRows, Shaped, Follows, Buckets
<1>5. \A j \in TopicIds : table[j] = IF j = i THEN GoneTopic ELSE topics[j]
  BY <1>2, <1>3
<1>6. table \in [TopicIds -> WideRows]
  BY <1>2, <1>3, <1>4
<1>7. Prepared(table, {0})
  <2>1. topics[i].status # "none"
    BY <1>1 DEF Buckets
  <2>2. ASSUME NEW j \in TopicIds
        PROVE  /\ Shaped(table[j]) /\ Follows(table[j], topics[j])
               /\ topics[j].status = "none" /\ table[j].status # "none" =>
                    /\ edit.new[j].status = "none" /\ run.tx.new[j].status = "none"
                    /\ table[j].generation \in {0}
    <3>1. CASE j = i
      BY <1>4, <1>5, <2>1, <3>1
    <3>2. CASE j # i
      BY <1>3, <1>5, <3>2 DEF Prepared
    <3>3. QED
      BY <3>1, <3>2
  <2>3. QED
    BY <2>2 DEF Prepared
<1>8. Fitting(table, {})
  BY <1>3, <1>4, <1>5, HotAssumption DEF Fitting
<1>9. PICK new : new = Tidied(table, old)
  OBVIOUS
<1>10. /\ new \in [TopicIds -> WideRows] /\ Prepared(new, {0}) /\ Fitting(new, {} \ {old})
       /\ Numbered(new, old)
  BY <1>6, <1>7, <1>8, <1>9, TidyingPrepares
<1>11. MadeOf(new, {old}, {0})
  <2>1. Fitting(new, {}) /\ {old} \in SUBSET Buckets /\ \A c \in {old} : Numbered(new, c)
    BY <1>10
  <2>2. QED
    BY <1>10, <2>1, FittingMade
<1>12. Edits(new, {old})
  BY <1>1, <1>2, <1>9 DEF DeleteTopic, GoneTopic
<1>13. QED
  BY <1>11, <1>12, OpenFresh DEF Edits

LEMMA PublishFresh ==
  ASSUME HotTypeOK, TopicsShaped, NEW g \in Generations, PublishGeneration(g)
  PROVE  \E tx : Fresh(tx, {0}) /\ Carries(tx)
<1>1. PICK rows : rows = [i \in TopicIds |->
                            IF topics[i].generation = g THEN [topics[i] EXCEPT !.status = "active"]
                            ELSE Replaced(topics)[i]]
  OBVIOUS
<1>2. topics \in [TopicIds -> WideRows] /\ g \in Nat /\ g # 0
  BY TopicsPrepared, HotAssumption DEF Generations
<1>3. ASSUME NEW i \in TopicIds
      PROVE  /\ rows[i] \in WideRows
             /\ \/ rows[i] = topics[i]
                \/ Puts(i, rows[i], {0}) /\ rows[i].rank = topics[i].rank
  <2>1. PICK row \in WideRows : row = topics[i]
    BY <1>2
  <2>2. Shaped(row) /\ row.status \in {"none", "gone"} \cup Buckets
    BY <2>1 DEF TopicsShaped, WideRows
  <2>3. row.generation # 0 => row.status \in Buckets
    BY <2>2 DEF Shaped, NoTopic, GoneTopic
  <2>4. ASSUME NEW b \in Buckets, row.generation # 0, rows[i] = [row EXCEPT !.status = b]
        PROVE  rows[i] \in WideRows /\ Puts(i, rows[i], {0}) /\ rows[i].rank = topics[i].rank
    <3>1. /\ rows[i] \in WideRows /\ rows[i].status = b /\ rows[i].rank = row.rank
          /\ rows[i].generation = row.generation
      BY <2>4 DEF WideRows
    <3>2. row.rank >= 1
      BY <2>2, <2>3, <2>4 DEF Shaped
    <3>3. QED
      BY <2>1, <2>3, <2>4, <3>1, <3>2 DEF Puts
  <2>5. CASE row.generation = g
    <3>1. rows[i] = [row EXCEPT !.status = "active"] /\ "active" \in Buckets
      BY <1>1, <2>1, <2>5 DEF Buckets
    <3>2. QED
      BY <1>2, <2>4, <2>5, <3>1
  <2>6. CASE row.generation # g /\ row.generation # 0 /\ row.status = "active"
    <3>1. rows[i] = [row EXCEPT !.status = "archived"] /\ "archived" \in Buckets
      BY <1>1, <2>1, <2>6 DEF Buckets, Replaced
    <3>2. QED
      BY <2>4, <2>6, <3>1
  <2>7. CASE row.generation # g /\ ~(row.generation # 0 /\ row.status = "active")
    BY <1>1, <2>1, <2>7 DEF Replaced
  <2>8. QED
    BY <2>5, <2>6, <2>7
<1>4. rows \in [TopicIds -> WideRows]
  BY <1>1, <1>3
<1>5. Prepared(rows, {0}) /\ Fitting(rows, {"active"})
  BY <1>3, <1>4, RowsPrepare
<1>6. MadeOf(Tidied(Tidied(rows, "active"), "archived"), {"active", "archived"}, {0})
  BY <1>4, <1>5, TidyTwice
<1>7. Carries([Open(Tidied(Tidied(rows, "active"), "archived"), {"active", "archived"})
                 EXCEPT !.publishes = g])
  BY <1>1 DEF PublishGeneration
<1>8. QED
  BY <1>6, <1>7, OpenFresh

\* The transaction in which the agent adds what it has generated.
LEMMA ApplyFresh ==
  ASSUME HotTypeOK, TopicsShaped, NEW n \in 1..2, NEW rank \in 1..2, Apply(n, rank)
  PROVE  \E tx : Fresh(tx, {run.generation}) /\ run' = [run EXCEPT !.stage = "commit", !.tx = tx]
<1>1. PICK g \in 0..MaxGeneration : g = run.generation
  BY DEF HotTypeOK
<1>2. PICK new \in SUBSET TopicIds : new = NewIds(n)
  BY DEF Apply
<1>3. \A i \in new : topics[i].status = "none" /\ edit.new[i].status = "none"
                     /\ run.tx.new[i].status = "none"
  <2>1. n \in Nat
    OBVIOUS
  <2>2. QED
    BY <1>2, <2>1, NewTopicIds
<1>4. topics \in [TopicIds -> WideRows] /\ rank \in Nat /\ rank >= 1
  BY TopicsPrepared
<1>5. ASSUME NEW b \in Buckets, NEW old \in {topics, Replaced(topics)},
             NEW table, table = Generated(old, new, rank, g, b)
      PROVE  table \in [TopicIds -> WideRows] /\ Prepared(table, {g}) /\ Fitting(table, {b})
  <2>1. ASSUME NEW i \in TopicIds
        PROVE  /\ table[i] \in WideRows
               /\ \/ table[i] = topics[i]
                  \/ /\ Puts(i, table[i], {g})
                     /\ table[i].rank = topics[i].rank \/ table[i].status \in {b}
    <3>1. CASE i \in new
      <4>1. table[i] = [status |-> b, generation |-> g, rank |-> rank]
        BY <1>5, <3>1 DEF Generated
      <4>2. table[i] \in WideRows
        BY <1>4, <4>1 DEF WideRows
      <4>3. table[i].status = b /\ table[i].generation = g /\ table[i].rank = rank
        BY <4>1
      <4>4. Puts(i, table[i], {g})
        BY <1>3, <1>4, <3>1, <4>3 DEF Puts
      <4>5. QED
        BY <4>2, <4>3, <4>4
    <3>2. CASE i \notin new
      <4>1. table[i] = old[i]
        BY <1>5, <3>2 DEF Generated
      <4>2. PICK row \in WideRows : row = topics[i]
        BY <1>4
      <4>3. CASE old = Replaced(topics) /\ row.generation # 0 /\ row.status = "active"
        <5>1. table[i] = [row EXCEPT !.status = "archived"] /\ "archived" \in Buckets
          BY <4>1, <4>2, <4>3 DEF Buckets, Replaced
        <5>2. /\ table[i] \in WideRows /\ table[i].status = "archived" /\ table[i].rank = row.rank
              /\ table[i].generation = row.generation
          BY <5>1 DEF WideRows
        <5>3. row.rank >= 1 /\ row.status \in Buckets
          BY <4>2, <4>3 DEF TopicsShaped, Shaped, Buckets
        <5>4. Puts(i, table[i], {g})
          BY <4>2, <5>1, <5>2, <5>3 DEF Puts
        <5>5. QED
          BY <4>2, <5>2, <5>4
      <4>4. CASE ~(old = Replaced(topics) /\ row.generation # 0 /\ row.status = "active")
        <5>1. table[i] = topics[i]
          BY <4>1, <4>2, <4>4 DEF Replaced
        <5>2. QED
          BY <4>2, <5>1
      <4>5. QED
        BY <4>3, <4>4
    <3>3. QED
      BY <3>1, <3>2
  <2>2. table \in [TopicIds -> WideRows]
    BY <1>5, <2>1 DEF Generated
  <2>3. QED
    BY <2>1, <2>2, RowsPrepare
<1>6. CASE generations[g].policy = "auto"
  <2>1. PICK table : table = Generated(Replaced(topics), new, rank, g, "active")
    OBVIOUS
  <2>2. table \in [TopicIds -> WideRows] /\ Prepared(table, {g}) /\ Fitting(table, {"active"})
    <3>1. "active" \in Buckets /\ Replaced(topics) \in {topics, Replaced(topics)}
      BY DEF Buckets
    <3>2. QED
      BY <1>5, <2>1, <3>1
  <2>3. MadeOf(Tidied(Tidied(table, "active"), "archived"), {"active", "archived"}, {g})
    BY <2>2, TidyTwice
  <2>4. run' = [run EXCEPT !.stage = "commit",
                           !.tx = Open(Tidied(Tidied(table, "active"), "archived"),
                                       {"active", "archived"})]
    BY <1>1, <1>2, <1>6, <2>1 DEF Apply
  <2>5. QED
    BY <1>1, <2>3, <2>4, OpenFresh
<1>7. CASE generations[g].policy # "auto"
  <2>1. PICK table : table = Generated(topics, new, rank, g, "draft")
    OBVIOUS
  <2>2. table \in [TopicIds -> WideRows] /\ Prepared(table, {g}) /\ Fitting(table, {"draft"})
        /\ "draft" \in Buckets
    <3>1. "draft" \in Buckets /\ topics \in {topics, Replaced(topics)}
      BY DEF Buckets
    <3>2. QED
      BY <1>5, <2>1, <3>1
  <2>3. PICK tidy : tidy = Tidied(table, "draft")
    OBVIOUS
  <2>4. /\ tidy \in [TopicIds -> WideRows] /\ Prepared(tidy, {g})
        /\ Fitting(tidy, {"draft"} \ {"draft"}) /\ Numbered(tidy, "draft")
    BY <2>2, <2>3, TidyingPrepares
  <2>5. MadeOf(tidy, {"draft"}, {g})
    <3>1. Fitting(tidy, {}) /\ {"draft"} \in SUBSET Buckets /\ \A b \in {"draft"} : Numbered(tidy, b)
      BY <2>2, <2>4
    <3>2. QED
      BY <2>4, <3>1, FittingMade
  <2>6. run' = [run EXCEPT !.stage = "commit", !.tx = Open(tidy, {"draft"})]
    BY <1>1, <1>2, <1>7, <2>1, <2>3 DEF Apply
  <2>7. QED
    BY <1>1, <2>5, <2>6, OpenFresh
<1>8. QED
  BY <1>6, <1>7

-----------------------------------------------------------------------------
(* The invariant of the topics                                             *)

\* A generation that may have topics: those of an administrator, of a run that
\* succeeded, or of one that failed late.
Whole(g) == g = 0 \/ g \in late \/ generations[g].status = "success"

TopicsWhole ==
  \A i \in TopicIds :
    /\ Whole(topics[i].generation) /\ Whole(edit.new[i].generation)
    /\ Whole(run.tx.new[i].generation) \/ run.tx.new[i].generation = run.generation

RunSound ==
  /\ run.stage = "idle" <=> run.generation = 0
  /\ run.tx.open => run.stage = "commit"
  /\ run.stage \in {"rounds", "apply", "commit"} => generations[run.generation].status = "pending"
  /\ run.stage = "refresh" => generations[run.generation].status = "success"
  /\ \A g \in Generations \ late : generations[g].status = "pending" => run.generation = g

TransactionsSound ==
  TxSound(edit) /\ TxSound(run.tx) /\ Made(edit) \cap Made(run.tx) = {}

HotInv ==
  HotTypeOK /\ TopicsShaped /\ RanksRepaired /\ TransactionsSound /\ TopicsWhole /\ RunSound

\* What holds of the rows and the transactions while no row changes.
LEMMA RowsRest ==
  ASSUME HotInv, UNCHANGED <<topics, loose>>
  PROVE  /\ TopicsShaped' /\ RanksRepaired'
         /\ \A tx : TxSound(tx) => TxFits(topics', tx)
  BY DEF HotInv, TopicsShaped, RanksRepaired, Bucket, TxSound

LEMMA PolicyKept ==
  ASSUME HotTypeOK, NEW tx \in TxRows, generations' = PolicyAfter(tx)
  PROVE  /\ generations' \in [Generations -> [status : {"none", "pending", "success", "failed"},
                                              policy : Policies]]
         /\ \A g \in Generations : generations'[g].status = generations[g].status
<1>1. generations \in [Generations -> [status : {"none", "pending", "success", "failed"},
                                       policy : Policies]]
  BY DEF HotTypeOK
<1>2. CASE tx.publishes = 0
  BY <1>1, <1>2 DEF PolicyAfter
<1>3. CASE tx.publishes # 0
  <2>1. PICK p \in Generations : p = tx.publishes
    BY <1>3, HotAssumption DEF TxRows, Generations
  <2>2. generations' = [generations EXCEPT ![p].policy = "auto"] /\ "auto" \in Policies
    BY <1>3, <2>1 DEF PolicyAfter, Policies
  <2>3. QED
    BY <1>1, <2>2
<1>4. QED
  BY <1>2, <1>3

\* The rows of a commit are of generations that topics or its own rows had.
LEMMA EvolvedGenerations ==
  ASSUME HotTypeOK, TopicsShaped, NEW tx, Evolved(tx), NEW i \in TopicIds
  PROVE  topics'[i].generation \in {0, topics[i].generation, tx.new[i].generation}
<1>1. topics[i].status \in {"none", "gone"} \cup Buckets
  BY DEF HotTypeOK, TopicRows
<1>2. /\ Shaped(topics'[i]) /\ Follows(topics'[i], topics[i])
      /\ topics[i].status = "none" /\ topics'[i].status # "none" => topics'[i] = tx.new[i]
  BY DEF Evolved
<1>3. CASE topics[i].status = "none"
  BY <1>2, <1>3 DEF Shaped, NoTopic
<1>4. CASE topics[i].status = "gone"
  BY <1>2, <1>4 DEF Follows
<1>5. CASE topics[i].status \in Buckets
  BY <1>2, <1>5 DEF Follows, Shaped, GoneTopic, NoTopic
<1>6. QED
  BY <1>1, <1>3, <1>4, <1>5

\* What every step that commits a transaction shows of the rows.
LEMMA CommitRows ==
  ASSUME HotInv, NEW tx \in TxRows, TxSound(tx), Commits(tx),
         NEW other \in TxRows, TxSound(other), Made(other) \cap Made(tx) = {},
         NEW after, after = Outdated(other)
  PROVE  /\ topics' \in [TopicIds -> TopicRows] /\ loose' \subseteq Buckets
         /\ TopicsShaped' /\ RanksRepaired'
         /\ after \in TxRows /\ TxFits(topics', after)
         /\ after.new = other.new /\ after.open = other.open
         /\ \A i \in TopicIds :
              topics'[i].generation \in {0, topics[i].generation, tx.new[i].generation}
<1>1. HotTypeOK /\ TopicsShaped /\ RanksRepaired
  BY DEF HotInv
<1>2. Evolved(tx) /\ RanksRepaired'
  BY <1>1, CommitEvolves
<1>3. /\ after \in TxRows /\ TxFits(topics', after)
      /\ after.new = other.new /\ after.open = other.open
  BY <1>1, <1>2, OthersStaySound DEF TxSound
<1>4. \A i \in TopicIds :
        topics'[i].generation \in {0, topics[i].generation, tx.new[i].generation}
  BY <1>1, <1>2, EvolvedGenerations
<1>5. TopicsShaped'
  BY <1>2 DEF Evolved, TopicsShaped
<1>6. QED
  BY <1>2, <1>3, <1>4, <1>5 DEF Evolved

LEMMA HotTypeParts ==
  ASSUME HotTypeOK
  PROVE  /\ edit \in TxRows /\ run.tx \in TxRows /\ run.generation \in 0..MaxGeneration
         /\ run.stage \in {"idle", "rounds", "apply", "commit", "refresh"}
         /\ run.left \in 0..MaxRounds
         /\ run.generation # 0 => run.generation \in Generations
  BY HotAssumption DEF HotTypeOK, Generations

LEMMA EditMade ==
  ASSUME HotInv, NEW tx, Fresh(tx, {0}), Carries(tx)
  PROVE  HotInv'
<1>1. HotTypeOK /\ TopicsShaped /\ RanksRepaired /\ TransactionsSound /\ TopicsWhole /\ RunSound
  BY DEF HotInv
<1>2. /\ tx \in TxRows /\ TxSound(tx) /\ tx.open
      /\ Made(tx) \cap Made(edit) = {} /\ Made(tx) \cap Made(run.tx) = {}
      /\ \A i \in TopicIds : tx.new[i].generation \in {0} \cup {0} \cup {topics[i].generation}
  BY <1>1, FreshSound DEF Fresh
<1>3. \A i \in TopicIds : Whole(tx.new[i].generation)
  BY <1>1, <1>2 DEF TopicsWhole, Whole
<1>4. CASE run.stage \in {"apply", "commit"}
  <2>1. edit' = tx /\ UNCHANGED <<topics, generations, loose, run, late>>
    BY <1>4 DEF Carries
  <2>2. HotTypeOK'
    BY <1>1, <1>2, <2>1 DEF HotTypeOK
  <2>3. TopicsShaped' /\ RanksRepaired' /\ \A t : TxSound(t) => TxFits(topics', t)
    BY <2>1, RowsRest
  <2>4. TransactionsSound'
    BY <1>1, <1>2, <2>1, <2>3 DEF TransactionsSound, TxSound
  <2>5. TopicsWhole'
    BY <1>1, <1>3, <2>1 DEF TopicsWhole, Whole
  <2>6. RunSound'
    BY <1>1, <2>1 DEF RunSound
  <2>7. QED
    BY <2>2, <2>3, <2>4, <2>5, <2>6 DEF HotInv
<1>5. CASE run.stage \notin {"apply", "commit"}
  <2>1. /\ Commits(tx) /\ generations' = PolicyAfter(tx) /\ UNCHANGED <<edit, run, late>>
        /\ ~edit.open /\ ~run.tx.open
    BY <1>1, <1>5 DEF Carries, RunSound
  <2>2. edit = NoTx /\ run.tx = NoTx
    BY <1>1, <2>1 DEF TransactionsSound, TxSound, TxFits
  <2>3. Outdated(NoTx) = NoTx /\ Made(NoTx) = {}
    BY EmptyTxSound DEF Outdated, NoTx
  <2>4. /\ topics' \in [TopicIds -> TopicRows] /\ loose' \subseteq Buckets
        /\ TopicsShaped' /\ RanksRepaired' /\ TxFits(topics', NoTx)
        /\ \A i \in TopicIds :
             topics'[i].generation \in {0, topics[i].generation, tx.new[i].generation}
    BY <1>2, <2>1, <2>3, EmptyTxSound, CommitRows
  <2>5. /\ generations' \in [Generations -> [status : {"none", "pending", "success", "failed"},
                                             policy : Policies]]
        /\ \A g \in Generations : generations'[g].status = generations[g].status
    BY <1>1, <1>2, <2>1, PolicyKept
  <2>6. HotTypeOK'
    BY <1>1, <2>1, <2>4, <2>5 DEF HotTypeOK
  <2>7. TransactionsSound'
    BY <1>1, <2>1, <2>2, <2>4 DEF TransactionsSound, TxSound
  <2> DEFINE After(g) == g = 0 \/ g \in late' \/ generations'[g].status = "success"
  <2>8. \A g \in 0..MaxGeneration : Whole(g) => After(g)
    <3>1. \A g \in 0..MaxGeneration : g = 0 \/ g \in Generations
      BY HotAssumption DEF Generations
    <3>2. QED
      BY <2>1, <2>5, <3>1 DEF Whole
  <2>9. TopicsWhole'
    <3>1. ASSUME NEW i \in TopicIds
          PROVE  After(topics'[i].generation) /\ After(edit.new[i].generation)
                 /\ After(run.tx.new[i].generation)
      <4>1. topics'[i].generation \in 0..MaxGeneration /\ Whole(topics'[i].generation)
        <5>1. topics'[i].generation \in 0..MaxGeneration
          BY <2>4 DEF TopicRows
        <5>2. Whole(0) /\ Whole(topics[i].generation) /\ Whole(tx.new[i].generation)
          BY <1>1, <1>3 DEF TopicsWhole, Whole
        <5>3. QED
          BY <2>4, <5>1, <5>2
      <4>2. edit.new[i].generation = 0 /\ run.tx.new[i].generation = 0
        BY <2>2, EmptyTxSound DEF NoTopic
      <4>3. QED
        BY <2>8, <4>1, <4>2
    <3>2. QED
      BY <2>1, <3>1 DEF TopicsWhole, Whole
  <2>10. RunSound'
    BY <1>1, <2>1, <2>5, HotTypeParts, HotAssumption DEF RunSound, Generations
  <2>11. QED
    BY <2>4, <2>6, <2>7, <2>9, <2>10 DEF HotInv
<1>6. QED
  BY <1>4, <1>5

LEMMA EditCommitted ==
  ASSUME HotInv, CommitEdit
  PROVE  HotInv'
<1>1. HotTypeOK /\ TopicsShaped /\ RanksRepaired /\ TransactionsSound /\ TopicsWhole /\ RunSound
  BY DEF HotInv
<1>2. PICK tx \in TxRows : tx = edit
  BY <1>1 DEF HotTypeOK
<1>3. PICK other \in TxRows : other = run.tx
  BY <1>1, HotTypeParts
<1>4. PICK after : after = Outdated(other)
  OBVIOUS
<1>5. /\ Commits(tx) /\ generations' = PolicyAfter(tx) /\ edit' = NoTx /\ late' = late
      /\ run' = [run EXCEPT !.tx = after]
  BY <1>2, <1>3, <1>4 DEF CommitEdit
<1>6. TxSound(tx) /\ TxSound(other) /\ Made(other) \cap Made(tx) = {}
  BY <1>1, <1>2, <1>3 DEF TransactionsSound
<1>7. /\ topics' \in [TopicIds -> TopicRows] /\ loose' \subseteq Buckets
      /\ TopicsShaped' /\ RanksRepaired'
      /\ after \in TxRows /\ TxFits(topics', after)
      /\ after.new = other.new /\ after.open = other.open
      /\ \A i \in TopicIds :
           topics'[i].generation \in {0, topics[i].generation, tx.new[i].generation}
  BY <1>4, <1>5, <1>6, CommitRows
<1>8. /\ run' \in [stage : {"idle", "rounds", "apply", "commit", "refresh"},
                   generation : 0..MaxGeneration, left : 0..MaxRounds, tx : TxRows]
      /\ run'.tx = after /\ run'.stage = run.stage /\ run'.generation = run.generation
  BY <1>1, <1>5, <1>7 DEF HotTypeOK
<1>9. /\ generations' \in [Generations -> [status : {"none", "pending", "success", "failed"},
                                           policy : Policies]]
      /\ \A g \in Generations : generations'[g].status = generations[g].status
  BY <1>1, <1>5, PolicyKept
<1>10. HotTypeOK'
  BY <1>1, <1>5, <1>7, <1>8, <1>9, EmptyTxSound DEF HotTypeOK
<1>11. TransactionsSound'
  <2>1. TxFits(topics', NoTx) /\ Made(NoTx) = {}
    <3>1. TxSound(NoTx)' /\ Made(NoTx) = {}
      BY EmptyTxSound, PTL
    <3>2. QED
      BY <3>1 DEF TxSound
  <2>2. QED
    BY <1>5, <1>7, <1>8, <2>1 DEF TransactionsSound, TxSound
<1> DEFINE After(g) == g = 0 \/ g \in late' \/ generations'[g].status = "success"
<1>12. \A g \in 0..MaxGeneration : Whole(g) => After(g)
  <2>1. \A g \in 0..MaxGeneration : g = 0 \/ g \in Generations
    BY HotAssumption DEF Generations
  <2>2. QED
    BY <1>5, <1>9, <2>1 DEF Whole
<1>13. TopicsWhole'
  <2>1. ASSUME NEW i \in TopicIds
        PROVE  /\ After(topics'[i].generation) /\ After(NoTx.new[i].generation)
               /\ After(after.new[i].generation) \/ after.new[i].generation = run.generation
    <3>1. After(topics'[i].generation)
      <4>1. topics'[i].generation \in 0..MaxGeneration
        BY <1>7 DEF TopicRows
      <4>2. Whole(0) /\ Whole(topics[i].generation) /\ Whole(tx.new[i].generation)
        BY <1>1, <1>2 DEF TopicsWhole, Whole
      <4>3. QED
        BY <1>7, <1>12, <4>1, <4>2
    <3>2. After(after.new[i].generation) \/ after.new[i].generation = run.generation
      <4>1. other.new[i].generation \in 0..MaxGeneration
        BY DEF TxRows, TopicRows
      <4>2. Whole(other.new[i].generation) \/ other.new[i].generation = run.generation
        BY <1>1, <1>3 DEF TopicsWhole
      <4>3. QED
        BY <1>7, <1>12, <4>1, <4>2
    <3>3. NoTx.new[i].generation = 0
      BY EmptyTxSound DEF NoTopic
    <3>4. QED
      BY <3>1, <3>2, <3>3
  <2>2. QED
    BY <1>5, <1>8, <2>1 DEF TopicsWhole, Whole
<1>14. RunSound'
  BY <1>1, <1>3, <1>5, <1>7, <1>8, <1>9, HotTypeParts, HotAssumption DEF RunSound, Generations
<1>15. QED
  BY <1>7, <1>10, <1>11, <1>13, <1>14 DEF HotInv

LEMMA RunCommitted ==
  ASSUME HotInv, CommitRun
  PROVE  HotInv'
<1>1. HotTypeOK /\ TopicsShaped /\ RanksRepaired /\ TransactionsSound /\ TopicsWhole /\ RunSound
  BY DEF HotInv
<1>2. PICK tx \in TxRows : tx = run.tx
  BY <1>1, HotTypeParts
<1>3. PICK other \in TxRows : other = edit
  BY <1>1 DEF HotTypeOK
<1>4. PICK after : after = Outdated(other)
  OBVIOUS
<1>5. PICK g : g = run.generation
  OBVIOUS
<1>6. /\ Commits(tx) /\ generations' = [generations EXCEPT ![g].status = "success"]
      /\ run.stage = "commit" /\ edit' = after /\ late' = late
      /\ run' = [run EXCEPT !.stage = "refresh", !.tx = NoTx]
  BY <1>2, <1>3, <1>4, <1>5 DEF CommitRun, Succeeded
<1>7. g \in Generations /\ g \in 0..MaxGeneration /\ g # 0
  BY <1>1, <1>5, <1>6, HotTypeParts DEF RunSound
<1>8. TxSound(tx) /\ TxSound(other) /\ Made(other) \cap Made(tx) = {}
  BY <1>1, <1>2, <1>3 DEF TransactionsSound
<1>9. /\ topics' \in [TopicIds -> TopicRows] /\ loose' \subseteq Buckets
      /\ TopicsShaped' /\ RanksRepaired'
      /\ after \in TxRows /\ TxFits(topics', after)
      /\ after.new = other.new /\ after.open = other.open
      /\ \A i \in TopicIds :
           topics'[i].generation \in {0, topics[i].generation, tx.new[i].generation}
  BY <1>4, <1>6, <1>8, CommitRows
<1>10. /\ run' \in [stage : {"idle", "rounds", "apply", "commit", "refresh"},
                    generation : 0..MaxGeneration, left : 0..MaxRounds, tx : TxRows]
       /\ run'.tx = NoTx /\ run'.stage = "refresh" /\ run'.generation = g
  BY <1>1, <1>5, <1>6, EmptyTxSound DEF HotTypeOK
<1>11. /\ generations' \in [Generations -> [status : {"none", "pending", "success", "failed"},
                                            policy : Policies]]
       /\ generations'[g].status = "success"
       /\ \A h \in Generations : h # g => generations'[h].status = generations[h].status
  <2>1. generations \in [Generations -> [status : {"none", "pending", "success", "failed"},
                                         policy : Policies]]
    BY <1>1 DEF HotTypeOK
  <2>2. QED
    BY <1>6, <1>7, <2>1
<1>12. HotTypeOK'
  BY <1>1, <1>6, <1>9, <1>10, <1>11 DEF HotTypeOK
<1>13. TransactionsSound'
  <2>1. TxFits(topics', NoTx) /\ Made(NoTx) = {}
    <3>1. TxSound(NoTx)' /\ Made(NoTx) = {}
      BY EmptyTxSound, PTL
    <3>2. QED
      BY <3>1 DEF TxSound
  <2>2. QED
    BY <1>6, <1>9, <1>10, <2>1 DEF TransactionsSound, TxSound
<1> DEFINE After(h) == h = 0 \/ h \in late' \/ generations'[h].status = "success"
<1>14. \A h \in 0..MaxGeneration : Whole(h) \/ h = g => After(h)
  <2>1. \A h \in 0..MaxGeneration : h = 0 \/ h \in Generations
    BY HotAssumption DEF Generations
  <2>2. QED
    BY <1>6, <1>11, <2>1 DEF Whole
<1>15. TopicsWhole'
  <2>1. ASSUME NEW i \in TopicIds
        PROVE  /\ After(topics'[i].generation) /\ After(after.new[i].generation)
               /\ After(NoTx.new[i].generation)
    <3>1. After(topics'[i].generation)
      <4>1. topics'[i].generation \in 0..MaxGeneration
        BY <1>9 DEF TopicRows
      <4>2. /\ Whole(0) /\ Whole(topics[i].generation)
            /\ Whole(tx.new[i].generation) \/ tx.new[i].generation = g
        BY <1>1, <1>2, <1>5 DEF TopicsWhole, Whole
      <4>3. QED
        BY <1>9, <1>14, <4>1, <4>2
    <3>2. After(after.new[i].generation)
      <4>1. other.new[i].generation \in 0..MaxGeneration
        BY DEF TxRows, TopicRows
      <4>2. Whole(other.new[i].generation)
        BY <1>1, <1>3 DEF TopicsWhole
      <4>3. QED
        BY <1>9, <1>14, <4>1, <4>2
    <3>3. NoTx.new[i].generation = 0
      BY EmptyTxSound DEF NoTopic
    <3>4. QED
      BY <3>1, <3>2, <3>3
  <2>2. QED
    BY <1>6, <1>10, <2>1 DEF TopicsWhole, Whole
<1>16. RunSound'
  <2>1. NoTx.open = FALSE
    BY DEF NoTx
  <2>2. \A h \in Generations \ late' : generations'[h].status # "pending"
    <3>1. ASSUME NEW h \in Generations \ late, h # g PROVE generations[h].status # "pending"
      BY <1>1, <1>5, <3>1 DEF RunSound
    <3>2. QED
      BY <1>6, <1>11, <3>1
  <2>3. QED
    BY <1>7, <1>10, <1>11, <2>1, <2>2 DEF RunSound
<1>17. QED
  BY <1>9, <1>12, <1>13, <1>15, <1>16 DEF HotInv

\* A step that changes no row: it ends transactions, or leaves them as they are.
LEMMA RowsKept ==
  ASSUME HotInv, UNCHANGED <<topics, loose>>, edit' \in {edit, NoTx}, run'.tx \in {run.tx, NoTx},
         run'.tx = NoTx \/ run'.generation = run.generation,
         \A g \in 0..MaxGeneration :
           Whole(g) => g = 0 \/ g \in late' \/ generations'[g].status = "success",
         HotTypeOK', RunSound'
  PROVE  HotInv'
<1>1. HotTypeOK /\ TransactionsSound /\ TopicsWhole
  BY DEF HotInv
<1>2. TopicsShaped' /\ RanksRepaired' /\ \A t : TxSound(t) => TxFits(topics', t)
  BY RowsRest
<1>3. TxSound(NoTx) /\ Made(NoTx) = {}
  BY EmptyTxSound
<1>4. TxFits(topics', edit') /\ TxFits(topics', run'.tx) /\ Made(edit') \cap Made(run'.tx) = {}
  BY <1>1, <1>2, <1>3 DEF TransactionsSound
<1>5. TransactionsSound'
  BY <1>4 DEF TransactionsSound, TxSound
<1> DEFINE After(g) == g = 0 \/ g \in late' \/ generations'[g].status = "success"
<1>6. TopicsWhole'
  <2>1. ASSUME NEW i \in TopicIds
        PROVE  /\ After(topics[i].generation) /\ After(edit'.new[i].generation)
               /\ After(run'.tx.new[i].generation)
                  \/ run'.tx.new[i].generation = run'.generation
    <3>1. /\ topics[i].generation \in 0..MaxGeneration /\ edit.new[i].generation \in 0..MaxGeneration
          /\ run.tx.new[i].generation \in 0..MaxGeneration
      BY <1>1 DEF HotTypeOK, TxRows, TopicRows
    <3>2. /\ Whole(topics[i].generation) /\ Whole(edit.new[i].generation)
          /\ Whole(run.tx.new[i].generation) \/ run.tx.new[i].generation = run.generation
      BY <1>1 DEF TopicsWhole
    <3>3. NoTx.new[i].generation = 0
      BY EmptyTxSound DEF NoTopic
    <3>4. After(edit'.new[i].generation)
      BY <3>1, <3>2, <3>3
    <3>5. After(run'.tx.new[i].generation) \/ run'.tx.new[i].generation = run'.generation
      BY <3>1, <3>2, <3>3
    <3>6. QED
      BY <3>1, <3>2, <3>4, <3>5
  <2>2. QED
    BY <2>1 DEF TopicsWhole, Whole
<1>7. QED
  BY <1>2, <1>5, <1>6 DEF HotInv

RunRows == [stage : {"idle", "rounds", "apply", "commit", "refresh"},
            generation : 0..MaxGeneration, left : 0..MaxRounds, tx : TxRows]
GenerationRows == [status : {"none", "pending", "success", "failed"}, policy : Policies]

LEMMA NoRunType == NoRun \in RunRows /\ NoRun.stage = "idle" /\ NoRun.generation = 0 /\ NoRun.tx = NoTx
  BY EmptyTxSound, HotAssumption DEF NoRun, RunRows

LEMMA TypesOf ==
  ASSUME HotTypeOK
  PROVE  /\ run \in RunRows /\ generations \in [Generations -> GenerationRows]
         /\ edit \in TxRows /\ topics \in [TopicIds -> TopicRows]
         /\ loose \subseteq Buckets /\ late \subseteq Generations
  BY DEF HotTypeOK, RunRows, GenerationRows

LEMMA RunStarted ==
  ASSUME HotInv, NEW g \in Generations, NEW policy \in Policies, StartRun(g, policy)
  PROVE  HotInv'
<1>1. HotTypeOK /\ TransactionsSound /\ RunSound
  BY DEF HotInv
<1>2. /\ run \in RunRows /\ generations \in [Generations -> GenerationRows] /\ edit \in TxRows
  BY <1>1, TypesOf
<1>3. /\ run.stage = "idle" /\ generations[g].status = "none" /\ UNCHANGED <<topics, edit, loose, late>>
      /\ generations' = [generations EXCEPT ![g] = [status |-> "pending", policy |-> policy]]
      /\ run' = [NoRun EXCEPT !.stage = "rounds", !.generation = g, !.left = MaxRounds]
  BY DEF StartRun
<1>4. g \in 0..MaxGeneration /\ g # 0 /\ MaxRounds \in 0..MaxRounds
  BY HotAssumption DEF Generations
<1>5. /\ run' \in RunRows /\ run'.stage = "rounds" /\ run'.generation = g /\ run'.tx = NoTx
  BY <1>3, <1>4, NoRunType DEF RunRows
<1>6. /\ generations' \in [Generations -> GenerationRows] /\ generations'[g].status = "pending"
      /\ \A h \in Generations : h # g => generations'[h] = generations[h]
  BY <1>2, <1>3 DEF GenerationRows
<1>7. HotTypeOK'
  BY <1>1, <1>3, <1>5, <1>6 DEF HotTypeOK, RunRows, GenerationRows
<1>8. \A h \in 0..MaxGeneration :
        Whole(h) => h = 0 \/ h \in late' \/ generations'[h].status = "success"
  <2>1. \A h \in 0..MaxGeneration : h = 0 \/ h \in Generations
    BY HotAssumption DEF Generations
  <2>2. QED
    BY <1>3, <1>6, <2>1 DEF Whole
<1>9. RunSound'
  <2>1. \A h \in Generations \ late : generations[h].status # "pending"
    <3>1. run.generation = 0 /\ \A h \in Generations : h # 0
      BY <1>1, <1>3, HotAssumption DEF RunSound, Generations
    <3>2. QED
      BY <1>1, <3>1 DEF RunSound
  <2>2. NoTx.open = FALSE
    BY DEF NoTx
  <2>3. \A h \in Generations \ late' : generations'[h].status = "pending" => h = g
    BY <1>3, <1>6, <2>1
  <2>4. QED
    BY <1>4, <1>5, <1>6, <2>2, <2>3 DEF RunSound
<1>10. QED
  BY <1>3, <1>5, <1>7, <1>8, <1>9, RowsKept

\* A step of the run that leaves the history and the edit alone.
LEMMA RunMoved ==
  ASSUME HotInv, UNCHANGED <<topics, generations, edit, loose, late>>, run' \in RunRows,
         run'.stage \in {"rounds", "apply"}, run.stage \in {"rounds", "apply"},
         run'.generation = run.generation, run'.tx = run.tx
  PROVE  HotInv'
<1>1. HotTypeOK /\ RunSound
  BY DEF HotInv
<1>2. HotTypeOK'
  BY <1>1 DEF HotTypeOK, RunRows
<1>3. RunSound'
  BY <1>1 DEF RunSound
<1>4. QED
  BY <1>2, <1>3, RowsKept DEF Whole

LEMMA RunTurns ==
  ASSUME HotInv, Round \/ Submit
  PROVE  HotInv'
<1>1. run \in RunRows
  BY TypesOf DEF HotInv
<1>2. PICK left \in 0..MaxRounds : left = run.left - 1
  <2>1. run.left \in 0..MaxRounds /\ run.left > 0
    BY <1>1 DEF Round, Submit, RunRows
  <2>2. run.left - 1 \in 0..MaxRounds
    BY <2>1, HotAssumption
  <2>3. QED
    BY <2>2
<1>3. CASE Round
  <2>1. run' = [run EXCEPT !.left = left] /\ run.stage = "rounds"
        /\ UNCHANGED <<topics, generations, edit, loose, late>>
    BY <1>2, <1>3 DEF Round
  <2>2. /\ run' \in RunRows /\ run'.stage = "rounds" /\ run'.generation = run.generation
        /\ run'.tx = run.tx
    BY <1>1, <2>1 DEF RunRows
  <2>3. QED
    BY <2>1, <2>2, RunMoved
<1>4. CASE Submit
  <2>1. run' = [run EXCEPT !.left = left, !.stage = "apply"] /\ run.stage = "rounds"
        /\ UNCHANGED <<topics, generations, edit, loose, late>>
    BY <1>2, <1>4 DEF Submit
  <2>2. /\ run' \in RunRows /\ run'.stage = "apply" /\ run'.generation = run.generation
        /\ run'.tx = run.tx
    BY <1>1, <2>1 DEF RunRows
  <2>3. QED
    BY <2>1, <2>2, RunMoved
<1>5. QED
  BY <1>3, <1>4

LEMMA RunApplied ==
  ASSUME HotInv, NEW n \in 1..2, NEW rank \in 1..2, Apply(n, rank)
  PROVE  HotInv'
<1>1. HotTypeOK /\ TopicsShaped /\ TransactionsSound /\ TopicsWhole /\ RunSound
  BY DEF HotInv
<1>2. PICK tx : Fresh(tx, {run.generation}) /\ run' = [run EXCEPT !.stage = "commit", !.tx = tx]
  BY <1>1, ApplyFresh
<1>3. run.stage = "apply" /\ UNCHANGED <<topics, generations, edit, loose, late>>
  BY DEF Apply
<1>4. /\ tx \in TxRows /\ TxSound(tx) /\ tx.open
      /\ Made(tx) \cap Made(edit) = {}
      /\ \A i \in TopicIds :
           tx.new[i].generation \in {run.generation} \cup {0} \cup {topics[i].generation}
  BY <1>1, <1>2, FreshSound DEF Fresh
<1>5. run \in RunRows
  BY <1>1, TypesOf
<1>6. /\ run' \in RunRows /\ run'.stage = "commit" /\ run'.generation = run.generation /\ run'.tx = tx
  BY <1>2, <1>4, <1>5 DEF RunRows
<1>7. HotTypeOK'
  BY <1>1, <1>3, <1>6 DEF HotTypeOK, RunRows
<1>8. TopicsShaped' /\ RanksRepaired' /\ \A t : TxSound(t) => TxFits(topics', t)
  BY <1>3, RowsRest
<1>9. TransactionsSound'
  BY <1>1, <1>3, <1>4, <1>6, <1>8 DEF TransactionsSound, TxSound
<1>10. TopicsWhole'
  <2>1. \A i \in TopicIds : Whole(tx.new[i].generation) \/ tx.new[i].generation = run.generation
    BY <1>1, <1>4 DEF TopicsWhole, Whole
  <2>2. QED
    BY <1>1, <1>3, <1>6, <2>1 DEF TopicsWhole, Whole
<1>11. RunSound'
  BY <1>1, <1>3, <1>6 DEF RunSound
<1>12. QED
  BY <1>7, <1>8, <1>9, <1>10, <1>11 DEF HotInv

LEMMA RunEnds ==
  ASSUME HotInv, FinishRun \/ FailRun \/ StopRun
  PROVE  HotInv'
<1>1. HotTypeOK /\ RunSound
  BY DEF HotInv
<1>2. /\ run \in RunRows /\ generations \in [Generations -> GenerationRows] /\ edit \in TxRows
      /\ late \subseteq Generations
  BY <1>1, TypesOf
<1>3. PICK g : g = run.generation
  OBVIOUS
<1>4. run' = NoRun /\ edit' \in {edit, NoTx} /\ UNCHANGED <<topics, loose>>
  BY DEF FinishRun, FailRun, StopRun
<1>5. run' \in RunRows /\ run'.stage = "idle" /\ run'.generation = 0 /\ run'.tx = NoTx
  BY <1>4, NoRunType
<1>6. NoTx.open = FALSE /\ NoTx \in TxRows
  BY EmptyTxSound DEF NoTx
<1>7. run.stage # "idle" => g # 0 /\ g \in Generations
  BY <1>1, <1>3, HotTypeParts DEF RunSound
<1>8. \A h \in 0..MaxGeneration : h = 0 \/ h \in Generations
  BY HotAssumption DEF Generations
<1>9. ASSUME generations' \in [Generations -> GenerationRows], late' \subseteq Generations,
             \A h \in Generations \ late' : generations'[h].status # "pending",
             \A h \in 0..MaxGeneration :
               Whole(h) => h = 0 \/ h \in late' \/ generations'[h].status = "success"
      PROVE  HotInv'
  <2>1. HotTypeOK'
    BY <1>1, <1>2, <1>4, <1>5, <1>6, <1>9 DEF HotTypeOK, RunRows, GenerationRows
  <2>2. RunSound'
    BY <1>5, <1>6, <1>9 DEF RunSound
  <2>3. QED
    BY <1>4, <1>5, <1>9, <2>1, <2>2, RowsKept
<1>10. CASE FinishRun
  <2>1. run.stage = "refresh" /\ generations' = generations /\ late' = late
    BY <1>10 DEF FinishRun
  <2>2. \A h \in Generations \ late : generations[h].status # "pending"
    BY <1>1, <1>3, <2>1 DEF RunSound
  <2>3. QED
    BY <1>2, <1>9, <2>1, <2>2 DEF Whole
<1>11. CASE FailRun
  <2>1. /\ run.stage # "idle" /\ generations' = [generations EXCEPT ![g].status = "failed"]
        /\ late' = late \cup {h \in {g} : run.stage = "refresh"}
    BY <1>3, <1>11 DEF FailRun
  <2>2. /\ generations' \in [Generations -> GenerationRows] /\ generations'[g].status = "failed"
        /\ \A h \in Generations : h # g => generations'[h] = generations[h]
    BY <1>2, <1>7, <2>1 DEF GenerationRows
  <2>3. late' \subseteq Generations
    BY <1>2, <1>7, <2>1
  <2>4. \A h \in Generations \ late' : generations'[h].status # "pending"
    BY <1>1, <1>3, <2>1, <2>2 DEF RunSound
  <2>5. generations[g].status = "success" => g \in late'
    <3>1. run.stage \in {"rounds", "apply", "commit"} => generations[g].status = "pending"
      BY <1>1, <1>3 DEF RunSound
    <3>2. run.stage \in {"idle", "rounds", "apply", "commit", "refresh"}
      BY <1>2 DEF RunRows
    <3>3. QED
      BY <2>1, <3>1, <3>2
  <2>6. \A h \in 0..MaxGeneration :
          Whole(h) => h = 0 \/ h \in late' \/ generations'[h].status = "success"
    BY <1>8, <2>1, <2>2, <2>5 DEF Whole
  <2>7. QED
    BY <1>9, <2>2, <2>3, <2>4, <2>6
<1>12. CASE StopRun
  <2>1. generations' = generations /\ late' = late \cup ({g} \cap Generations)
    BY <1>3, <1>12 DEF StopRun
  <2>2. \A h \in Generations \ late' : generations[h].status # "pending"
    BY <1>1, <1>3, <2>1 DEF RunSound
  <2>3. QED
    BY <1>2, <1>9, <2>1, <2>2 DEF Whole
<1>13. QED
  BY <1>10, <1>11, <1>12

LEMMA EditRolledBack ==
  ASSUME HotInv, RollBackEdit
  PROVE  HotInv'
<1>1. HotTypeOK /\ RunSound
  BY DEF HotInv
<1>2. edit' = NoTx /\ UNCHANGED <<topics, generations, run, loose, late>>
  BY DEF RollBackEdit
<1>3. HotTypeOK'
  BY <1>1, <1>2, EmptyTxSound DEF HotTypeOK
<1>4. RunSound'
  BY <1>1, <1>2 DEF RunSound
<1>5. QED
  BY <1>2, <1>3, <1>4, RowsKept DEF Whole

LEMMA HotStart == HotInit => HotInv
<1> SUFFICES ASSUME HotInit PROVE HotInv
  OBVIOUS
<1>1. /\ topics = [i \in TopicIds |-> NoTopic]
      /\ generations = [g \in Generations |-> [status |-> "none", policy |-> "draft"]]
      /\ run = NoRun /\ edit = NoTx /\ loose = {} /\ late = {}
  BY DEF HotInit
<1>2. NoTopic \in TopicRows /\ NoTopic.status = "none" /\ NoTopic.generation = 0
  BY HotAssumption DEF NoTopic, TopicRows
<1>3. HotTypeOK
  BY <1>1, <1>2, NoRunType, EmptyTxSound DEF HotTypeOK, RunRows, Policies
<1>4. TopicsShaped
  BY <1>1, <1>2 DEF TopicsShaped, Shaped, Buckets
<1>5. RanksRepaired
  <2>1. ASSUME NEW b \in Buckets PROVE Bucket(topics, b) = {}
    BY <1>1, <1>2 DEF Bucket, Buckets
  <2>2. Cardinality({}) = 0 /\ 1..0 = {}
    BY FS_EmptySet
  <2>3. ASSUME NEW b \in Buckets
        PROVE  {topics[i].rank : i \in Bucket(topics, b)} = 1..Cardinality(Bucket(topics, b))
    BY <2>1, <2>2
  <2>4. QED
    BY <2>3 DEF RanksRepaired
<1>6. TransactionsSound
  BY <1>1, NoRunType, EmptyTxSound DEF TransactionsSound
<1>7. TopicsWhole
  BY <1>1, <1>2, NoRunType, EmptyTxSound DEF TopicsWhole, Whole
<1>8. RunSound
  BY <1>1, NoRunType, EmptyTxSound DEF RunSound, NoTx
<1>9. QED
  BY <1>3, <1>4, <1>5, <1>6, <1>7, <1>8 DEF HotInv

LEMMA HotStep == HotInv /\ [HotNext]_hotVars => HotInv'
<1> SUFFICES ASSUME HotInv, [HotNext]_hotVars PROVE HotInv'
  OBVIOUS
<1>0. HotTypeOK /\ TopicsShaped
  BY DEF HotInv
<1>1. ASSUME NEW b \in Buckets, NEW r \in TopicIds, CreateTopic(b, r) PROVE HotInv'
  BY <1>0, <1>1, CreateFresh, EditMade
<1>2. ASSUME NEW i \in TopicIds, NEW b \in Buckets, NEW r \in {0} \cup TopicIds, UpdateTopic(i, b, r)
      PROVE  HotInv'
  BY <1>0, <1>2, UpdateFresh, EditMade
<1>3. ASSUME NEW i \in TopicIds, PublishTopic(i) \/ ArchiveTopic(i) PROVE HotInv'
  <2>1. "active" \in Buckets /\ "archived" \in Buckets /\ 0 \in {0} \cup TopicIds
    BY DEF Buckets
  <2>2. QED
    BY <1>2, <1>3, <2>1 DEF PublishTopic, ArchiveTopic
<1>4. ASSUME NEW i \in TopicIds, DeleteTopic(i) PROVE HotInv'
  BY <1>0, <1>4, DeleteFresh, EditMade
<1>5. ASSUME NEW g \in Generations, PublishGeneration(g) PROVE HotInv'
  BY <1>0, <1>5, PublishFresh, EditMade
<1>6. ASSUME NEW g \in Generations, Generate(g) PROVE HotInv'
  BY <1>6, RunStarted DEF Generate
<1>7. CASE CommitEdit
  BY <1>7, EditCommitted
<1>8. CASE RollBackEdit
  BY <1>8, EditRolledBack
<1>9. CASE Round \/ Submit
  BY <1>9, RunTurns
<1>10. ASSUME NEW n \in 1..2, NEW rank \in 1..2, Apply(n, rank) PROVE HotInv'
  BY <1>10, RunApplied
<1>11. CASE CommitRun
  BY <1>11, RunCommitted
<1>12. CASE FinishRun \/ FailRun \/ StopRun
  BY <1>12, RunEnds
<1>13. CASE UNCHANGED hotVars
  <2>1. UNCHANGED <<topics, generations, run, edit, loose, late>>
    BY <1>13 DEF hotVars
  <2>2. HotTypeOK' /\ RunSound'
    BY <2>1 DEF HotInv, HotTypeOK, RunSound
  <2>3. QED
    BY <2>1, <2>2, RowsKept DEF Whole
<1>14. QED
  BY <1>1, <1>2, <1>3, <1>4, <1>5, <1>6, <1>7, <1>8, <1>9, <1>10, <1>11, <1>12, <1>13 DEF HotNext

LEMMA HotInvariant == HotSpec => []HotInv
  BY HotStart, HotStep, PTL DEF HotSpec

\* Topics, generations and the two transactions are well typed; the ranks of a
\* list stay within its length, whatever rank an edit asks for
\* (application.py:150-165).
THEOREM HotTypesHold == HotSpec => []HotTypeOK
<1>1. HotInv => HotTypeOK
  BY DEF HotInv
<1>2. QED
  BY <1>1, HotInvariant, PTL

\* However many topics, runs and rounds there are, the buckets nobody has
\* disturbed are numbered without gaps or doubles, and no topic is of a run
\* that failed before its commit or is pending (application.py:150-165,
\* 620-667, 997-1022).
THEOREM TopicsStayInOrder == HotSpec => []TopicsInOrder
<1>1. ASSUME HotInv PROVE TopicsInOrder
  <2>1. HotTypeOK /\ RanksRepaired /\ TopicsShaped /\ TopicsWhole /\ RunSound
    BY <1>1 DEF HotInv
  <2>2. ASSUME NEW g \in Generations \ late,
               generations[g].status \in {"pending", "failed"}, NEW i \in TopicIds
        PROVE  topics[i].generation # g
    <3>1. g # 0 /\ ~Whole(g)
      BY <2>2, HotAssumption DEF Whole, Generations
    <3>2. Whole(topics[i].generation)
      BY <2>1 DEF TopicsWhole
    <3>3. QED
      BY <3>1, <3>2
  <2>3. ASSUME NEW g \in Generations \ late, generations[g].status = "pending"
        PROVE  run.stage # "idle" /\ run.generation = g
    <3>1. g # 0
      BY HotAssumption DEF Generations
    <3>2. QED
      BY <2>1, <2>3, <3>1 DEF RunSound
  <2>4. QED
    BY <2>1, <2>2, <2>3 DEF TopicsInOrder, RunsAllOrNothing
<1>2. QED
  BY <1>1, HotInvariant, PTL

-----------------------------------------------------------------------------
(***************************************************************************)
(* Browsing.  Every page is a window of one order of the items, in which   *)
(* each has one place; the offset is the end of what was shown of it, and  *)
(* the pages of a scroll join there.                                       *)
(***************************************************************************)

LEMMA FeedConstants ==
  /\ PageSize \in Nat /\ PageSize > 0 /\ FirstCount \in Nat /\ FirstCount > 0
  /\ MaxItem \in Nat /\ MaxCount \in Nat /\ Pool \in Nat /\ Weight \in Nat
  /\ MaxActs \in Nat /\ MaxMoves \in Nat
BY FeedAssumption

\* Division rounds down.
LEMMA Quotient ==
  ASSUME NEW a \in Nat, NEW b \in Nat, b > 0
  PROVE  /\ a \div b \in Nat
         /\ b * (a \div b) <= a
         /\ a < b * (a \div b) + b
BY Z3T(30)

LEMMA Multiples ==
  ASSUME NEW a \in Nat, NEW c \in Nat, NEW b \in Nat, b > 0
  PROVE  /\ a < c <=> a * b < c * b
         /\ a * b \in Nat
         /\ a > 0 => (a - 1) * b = a * b - b /\ (a - 1) * b \in Nat
         /\ (a + 1) * b = a * b + b
         /\ a * b = b * a
BY Z3T(30)

\* calculate_pagination: there is a next page if this one does not reach the end.
LEMMA NextPages ==
  ASSUME NEW n \in Nat, NEW page \in Nat, NEW size \in Nat, size > 0
  PROVE  page < (n + size - 1) \div size <=> page * size < n
<1>1. PICK k \in Nat : /\ k = (n + size - 1) \div size
                       /\ size * k <= n + size - 1 /\ n + size - 1 < size * k + size
  BY Quotient
<1>2. size * k = k * size /\ k * size \in Nat /\ page * size \in Nat
  BY Multiples
<1>3. CASE page < k
  <2>1. (page + 1) * size <= k * size
    <3>1. CASE page + 1 = k
      BY <1>2, <3>1
    <3>2. CASE page + 1 < k
      BY <1>2, <3>2, Multiples
    <3>3. QED
      BY <1>3, <3>1, <3>2
  <2>2. (page + 1) * size = page * size + size
    BY Multiples
  <2>3. QED
    BY <1>1, <1>2, <1>3, <2>1, <2>2
<1>4. CASE ~(page < k)
  <2>1. k * size <= page * size
    <3>1. CASE k = page
      BY <1>2, <3>1
    <3>2. CASE k < page
      BY <1>2, <3>2, Multiples
    <3>3. QED
      BY <1>4, <3>1, <3>2
  <2>2. QED
    BY <1>1, <1>2, <1>4, <2>1
<1>5. QED
  BY <1>3, <1>4

\* The order in which a view shows its items.
ViewOrder(kind, l) ==
  IF kind \in Pooled THEN Candidates(l) \o SubSeq(l, PoolSize(l) + 1, Len(l)) ELSE l

\* The first n items of the list, in an order of their own.
Arranges(f, n, c, l) ==
  /\ \A k \in 1..n : c[k] = l[f[k]]
  /\ \A i \in 1..n : \E k \in 1..n : f[k] = i
  /\ \A i, j \in 1..n : f[i] = f[j] => i = j

\* The pool is shown in an order of its own: each of its places is taken by one
\* item.
LEMMA CandidatesPermute ==
  ASSUME NEW l \in Seq(Items), jitter \in [Items -> 0..1], NEW n, n = PoolSize(l)
  PROVE  /\ n \in 0..Len(l) /\ Candidates(l) \in Seq(Items) /\ Len(Candidates(l)) = n
         /\ \E f \in [1..n -> 1..n] : Arranges(f, n, Candidates(l), l)
<1>0. n \in Nat /\ n = PoolSize(l) /\ n <= Len(l)
  BY FeedConstants, LenProperties DEF PoolSize, Least
<1> DEFINE P == 1..n
           Ahead(i, j) == Rank(l, i) > Rank(l, j) \/ (Rank(l, i) = Rank(l, j) /\ i < j)
           Count(i) == Cardinality({j \in P : Ahead(j, i)})
<1>1. \A i \in P : Rank(l, i) \in Int
  <2>1. ASSUME NEW i \in P PROVE Rank(l, i) \in Int
    <3>1. l[i] \in Items
      BY <1>0, LenProperties
    <3>2. PICK z \in 0..1 : z = jitter[l[i]]
      BY <3>1
    <3>3. Weight * z \in Int
      BY <3>2, FeedConstants
    <3>4. QED
      BY <1>0, <3>2, <3>3 DEF Rank
  <2>2. QED
    BY <2>1
<1>2. IsFiniteSet(P) /\ Cardinality(P) = n
  BY <1>0, FS_Interval
<1>3. ASSUME NEW i \in P
      PROVE  Count(i) \in 0..(n - 1)
  <2>1. {j \in P : Ahead(j, i)} \in SUBSET (P \ {i})
    BY <1>1
  <2>2. IsFiniteSet(P \ {i}) /\ Cardinality(P \ {i}) = n - 1
    BY <1>2, FS_RemoveElement
  <2>3. Count(i) <= n - 1 /\ IsFiniteSet({j \in P : Ahead(j, i)})
    BY <2>1, <2>2, FS_Subset
  <2>4. Count(i) \in Nat
    BY <2>3, FS_CardinalityType
  <2>5. QED
    BY <2>3, <2>4
<1>4. ASSUME NEW i \in P, NEW j \in P, Ahead(i, j)
      PROVE  Count(i) < Count(j)
  <2> DEFINE A == {k \in P : Ahead(k, i)}
             B == {k \in P : Ahead(k, j)}
  <2>1. i \notin A /\ i \in B
    BY <1>1, <1>4
  <2>2. A \subseteq B
    <3>1. SUFFICES ASSUME NEW k \in P, Ahead(k, i) PROVE Ahead(k, j)
      OBVIOUS
    <3>2. Rank(l, i) \in Int /\ Rank(l, j) \in Int /\ Rank(l, k) \in Int
      BY <1>1
    <3>3. QED
      BY <1>4, <3>1, <3>2
  <2>3. A \in SUBSET P /\ B \in SUBSET P
    OBVIOUS
  <2>4. IsFiniteSet(A) /\ IsFiniteSet(B)
    BY <1>2, <2>3, FS_Subset
  <2>5. Cardinality(A) \in Nat /\ Cardinality(B) \in Nat
    BY <2>4, FS_CardinalityType
  <2>6. Cardinality(A \cup {i}) = Cardinality(A) + 1
    BY <2>1, <2>4, FS_AddElement
  <2>7. A \cup {i} \in SUBSET B
    BY <2>1, <2>2
  <2>8. Cardinality(A \cup {i}) <= Cardinality(B)
    BY <2>4, <2>7, FS_Subset
  <2>9. QED
    BY <2>5, <2>6, <2>8
<1> HIDE DEF Count
<1>5. ASSUME NEW i \in P, NEW j \in P, Count(i) = Count(j)
      PROVE  i = j
  <2>1. Count(i) \in Int /\ Count(j) \in Int /\ Rank(l, i) \in Int /\ Rank(l, j) \in Int
    BY <1>1, <1>3
  <2>2. ~Ahead(i, j) /\ ~Ahead(j, i)
    <3>1. ASSUME Ahead(i, j) PROVE FALSE
      BY <1>4, <1>5, <2>1, <3>1
    <3>2. ASSUME Ahead(j, i) PROVE FALSE
      BY <1>4, <1>5, <2>1, <3>2
    <3>3. QED
      BY <3>1, <3>2
  <2>3. QED
    BY <2>1, <2>2
<1> DEFINE g == [i \in P |-> Count(i) + 1]
<1>6. ASSUME NEW k \in P
      PROVE  \E i \in P : Count(i) = k - 1
  <2>1. g \in [P -> P]
    BY <1>0, <1>3
  <2>2. \A i, j \in P : g[i] = g[j] => i = j
    <3>1. ASSUME NEW i \in P, NEW j \in P, g[i] = g[j] PROVE i = j
      <4>1. Count(i) \in Int /\ Count(j) \in Int
        BY <1>3
      <4>2. Count(i) = Count(j)
        BY <3>1, <4>1
      <4>3. QED
        BY <1>5, <4>2
    <3>2. QED
      BY <3>1
  <2>3. g \in Injection(P, P)
    BY <2>1, <2>2 DEF Injection, IsInjective
  <2>4. g \in Surjection(P, P)
    BY <1>2, <2>3, FS_Injection
  <2>5. PICK i \in P : g[i] = k
    BY <2>4 DEF Surjection
  <2>6. Count(i) \in Int
    BY <1>3
  <2>7. QED
    BY <2>5, <2>6
<1> DEFINE f == [k \in P |-> CHOOSE i \in P : Count(i) = k - 1]
<1>7. \A k \in P : f[k] \in P /\ Count(f[k]) = k - 1
  BY <1>6
<1>8. Candidates(l) = [k \in P |-> l[f[k]]]
  BY <1>0 DEF Candidates, Count
<1>12. f \in [P -> P]
  BY <1>7
<1> HIDE DEF f
<1>9. \A i \in P : \E k \in P : f[k] = i
  <2>1. ASSUME NEW i \in P PROVE \E k \in P : f[k] = i
    <3>1. PICK k \in P : Count(i) = k - 1
      <4>1. Count(i) + 1 \in P /\ Count(i) = (Count(i) + 1) - 1
        BY <1>0, <1>3
      <4>2. QED
        BY <4>1
    <3>2. f[k] \in P /\ Count(f[k]) = Count(i)
      BY <1>7, <3>1
    <3>3. QED
      BY <1>5, <3>2
  <2>2. QED
    BY <2>1
<1>10. \A j, k \in P : f[j] = f[k] => j = k
  <2>1. ASSUME NEW j \in P, NEW k \in P, f[j] = f[k] PROVE j = k
    <3>1. Count(f[j]) = j - 1 /\ Count(f[k]) = k - 1
      BY <1>7
    <3>2. QED
      BY <2>1, <3>1
  <2>2. QED
    BY <2>1
<1>11. \A k \in P : l[f[k]] \in Items
  <2>1. ASSUME NEW k \in P PROVE l[f[k]] \in Items
    <3>1. f[k] \in P /\ Len(l) \in Nat
      BY <1>12, LenProperties
    <3>2. f[k] \in 1..Len(l)
      BY <1>0, <3>1
    <3>3. QED
      BY <3>2, ElementOfSeq
  <2>2. QED
    BY <2>1
<1>13. Candidates(l) \in Seq(Items) /\ Len(Candidates(l)) = n
  <2>1. Candidates(l) \in [1..n -> Items]
    BY <1>8, <1>11
  <2>2. QED
    BY <1>0, <2>1
<1>14. QED
  <2>1. Len(l) \in Nat
    BY LenProperties
  <2>2. n \in 0..Len(l)
    BY <1>0, <2>1
  <2>3. \A k \in P : Candidates(l)[k] = l[f[k]]
    BY <1>8
  <2>4. Arranges(f, n, Candidates(l), l)
    BY <1>9, <1>10, <2>3 DEF Arranges
  <2>5. QED
    BY <1>12, <1>13, <2>2, <2>4

\* The order of a view has one place for each item of the list.
LEMMA OrderOfItems ==
  ASSUME NEW l \in Seq(Items), NEW kind, jitter \in [Items -> 0..1],
         \A i, j \in 1..Len(l) : l[i] = l[j] => i = j
  PROVE  /\ ViewOrder(kind, l) \in Seq(Items) /\ Len(ViewOrder(kind, l)) = Len(l)
         /\ \A i, j \in 1..Len(l) : ViewOrder(kind, l)[i] = ViewOrder(kind, l)[j] => i = j
         /\ \A i \in 1..Len(l) : \E k \in 1..Len(l) : ViewOrder(kind, l)[k] = l[i]
<1>1. CASE kind \notin Pooled
  BY <1>1 DEF ViewOrder
<1>2. CASE kind \in Pooled
  <2>1. PICK n \in Nat : n = PoolSize(l) /\ n <= Len(l)
    BY CandidatesPermute, LenProperties
  <2> DEFINE c == Candidates(l)
             t == SubSeq(l, n + 1, Len(l))
             v == c \o t
  <2>a. PICK f \in [1..n -> 1..n] : Arranges(f, n, Candidates(l), l)
    BY <2>1, CandidatesPermute
  <2>2. /\ \A k \in 1..n : c[k] = l[f[k]]
        /\ \A i \in 1..n : \E k \in 1..n : f[k] = i
        /\ \A i, j \in 1..n : f[i] = f[j] => i = j
    BY <2>a DEF Arranges
  <2>3. c \in Seq(Items) /\ Len(c) = n
    BY <2>1, CandidatesPermute
  <2>4. /\ t \in Seq(Items) /\ Len(t) = Len(l) - n
        /\ \A i \in 1..(Len(l) - n) : t[i] = l[n + i]
    <3>1. Len(l) \in Nat /\ \A i \in (n + 1)..Len(l) : l[i] \in Items
      BY LenProperties
    <3>2. /\ t \in Seq(Items) /\ Len(t) = (IF n + 1 <= Len(l) THEN Len(l) - (n + 1) + 1 ELSE 0)
          /\ \A i \in 1..(Len(l) - (n + 1) + 1) : t[i] = l[n + 1 + i - 1]
      BY <3>1, SubSeqProperties
    <3>3. QED
      BY <2>1, <3>1, <3>2
  <2> HIDE DEF c, t
  <2>5. /\ v \in Seq(Items) /\ Len(v) = Len(l)
        /\ \A i \in 1..Len(l) : v[i] = IF i <= n THEN c[i] ELSE t[i - n]
    BY <2>1, <2>3, <2>4, ConcatProperties, LenProperties
  <2> HIDE DEF v
  <2>6. \A i \in 1..Len(l) : v[i] = IF i <= n THEN l[f[i]] ELSE l[i]
    <3>1. ASSUME NEW i \in 1..Len(l)
          PROVE  v[i] = IF i <= n THEN l[f[i]] ELSE l[i]
      <4>1. i \in Nat /\ i > 0 /\ Len(l) \in Nat /\ i <= Len(l)
        BY LenProperties
      <4>2. CASE i <= n
        BY <2>2, <2>5, <4>1, <4>2
      <4>3. CASE ~(i <= n)
        <5>1. i - n \in 1..(Len(l) - n) /\ n + (i - n) = i
          BY <2>1, <4>1, <4>3
        <5>2. t[i - n] = l[i]
          BY <2>4, <5>1
        <5>3. QED
          BY <2>5, <4>3, <5>2
      <4>4. QED
        BY <4>2, <4>3
    <3>2. QED
      BY <3>1
  <2>7. \A i, j \in 1..Len(l) : v[i] = v[j] => i = j
    <3>1. \A i \in 1..n : f[i] \in 1..n
      BY <2>2
    <3>2. Len(l) \in Nat
      BY LenProperties
    <3>3. ASSUME NEW i \in 1..Len(l), NEW j \in 1..Len(l), v[i] = v[j] PROVE i = j
      <4> DEFINE at(m) == IF m <= n THEN f[m] ELSE m
      <4>1. \A m \in 1..Len(l) : at(m) \in 1..Len(l) /\ v[m] = l[at(m)]
        BY <2>1, <2>6, <3>1, <3>2
      <4>2. at(i) = at(j)
        BY <3>3, <4>1
      <4>3. QED
        BY <2>1, <2>2, <3>1, <3>2, <4>2
    <3>4. QED
      BY <3>3
  <2>8. \A i \in 1..Len(l) : \E k \in 1..Len(l) : v[k] = l[i]
    <3>1. ASSUME NEW i \in 1..Len(l) PROVE \E k \in 1..Len(l) : v[k] = l[i]
      <4>0. Len(l) \in Nat
        BY LenProperties
      <4>1. CASE i <= n
        <5>1. PICK k \in 1..n : f[k] = i
          BY <2>2, <4>1
        <5>2. k \in 1..Len(l) /\ v[k] = l[i]
          BY <2>1, <2>6, <4>0, <5>1
        <5>3. QED
          BY <5>2
      <4>2. CASE ~(i <= n)
        BY <2>6, <4>0, <4>2
      <4>3. QED
        BY <4>1, <4>2
    <3>2. QED
      BY <3>1
  <2>9. ViewOrder(kind, l) = v
    BY <1>2, <2>1 DEF ViewOrder, v, c, t
  <2>10. QED
    BY <2>5, <2>7, <2>8, <2>9
<1>3. QED
  BY <1>1, <1>2

\* SubSeq of a sequence that may begin behind its end.
LEMMA Windows ==
  ASSUME NEW s \in Seq(Items), NEW a \in Nat, NEW b \in Int, b <= Len(s)
  PROVE  /\ SubSeq(s, a + 1, b) \in Seq(Items)
         /\ Len(SubSeq(s, a + 1, b)) = Greatest(b - a, 0)
         /\ \A i \in 1..(b - a) : SubSeq(s, a + 1, b)[i] = s[a + i]
<1>1. Len(s) \in Nat
  BY LenProperties
<1>2. \A i \in (a + 1)..b : s[i] \in Items
  BY <1>1, LenProperties
<1>3. /\ SubSeq(s, a + 1, b) \in Seq(Items)
      /\ Len(SubSeq(s, a + 1, b)) = IF a + 1 <= b THEN b - (a + 1) + 1 ELSE 0
      /\ \A i \in 1..(b - (a + 1) + 1) : SubSeq(s, a + 1, b)[i] = s[a + 1 + i - 1]
  BY <1>2, SubSeqProperties
<1>4. b - (a + 1) + 1 = b - a
  OBVIOUS
<1>5. \A i \in 1..(b - a) : a + 1 + i - 1 = a + i
  OBVIOUS
<1>6. QED
  BY <1>3, <1>4, <1>5 DEF Greatest

\* The pool in an order c of its own, and the list behind it.
PoolFirst(c, n, l) == c \o SubSeq(l, n + 1, Len(l))

\* What is at a place of the pool and of the list behind it.
LEMMA BehindPool ==
  ASSUME NEW l \in Seq(Items), NEW c \in Seq(Items), NEW n \in Nat, n <= Len(l), Len(c) = n
  PROVE  \A i \in 1..Len(l) : PoolFirst(c, n, l)[i] = IF i <= n THEN c[i] ELSE l[i]
<1>1. PICK z \in Nat : z = Len(l)
  BY LenProperties
<1> DEFINE t == SubSeq(l, n + 1, z)
           v == c \o t
<1>2. z <= Len(l) /\ z \in Int
  BY <1>1
<1>3. /\ t \in Seq(Items) /\ Len(t) = Greatest(z - n, 0)
      /\ \A i \in 1..(z - n) : t[i] = l[n + i]
  BY <1>2, Windows
<1>4. Len(t) = z - n
  BY <1>1, <1>3 DEF Greatest
<1>5. PoolFirst(c, n, l) = v
  BY <1>1 DEF PoolFirst
<1> HIDE DEF t
<1>6. \A i \in 1..(Len(c) + Len(t)) : v[i] = IF i <= Len(c) THEN c[i] ELSE t[i - Len(c)]
  BY <1>3, ConcatProperties
<1> HIDE DEF v
<1>7. n + (z - n) = z
  BY <1>1
<1>8. \A i \in 1..z : v[i] = IF i <= n THEN c[i] ELSE t[i - n]
  BY <1>4, <1>6, <1>7
<1>9. ASSUME NEW i \in 1..z, ~(i <= n) PROVE t[i - n] = l[i]
  <2>1. i - n \in 1..(z - n) /\ n + (i - n) = i
    BY <1>1, <1>9
  <2>2. QED
    BY <1>3, <2>1
<1>10. QED
  BY <1>1, <1>5, <1>8, <1>9

\* A window of the pool, and of the list behind it, as get_posts_for_feed puts
\* them together.
JoinedWindow(c, n, l, first, size) ==
  LET h == SubSeq(c, first + 1, Least(first + size, n))
      from == TailOffset(first, n)
  IN IF Len(h) < size /\ first + size > n
     THEN h \o SubSeq(l, from + 1, Least(from + size - Len(h), Len(l)))
     ELSE h

LEMMA PoolThenList ==
  ASSUME NEW l \in Seq(Items), NEW c \in Seq(Items), NEW n \in Nat, n <= Len(l), Len(c) = n,
         NEW first \in Nat, NEW size \in Nat, size > 0
  PROVE  /\ JoinedWindow(c, n, l, first, size) \in Seq(Items)
         /\ Len(JoinedWindow(c, n, l, first, size))
              = Greatest(Least(first + size, Len(l)) - first, 0)
         /\ \A i \in 1..Len(JoinedWindow(c, n, l, first, size)) :
              JoinedWindow(c, n, l, first, size)[i] = PoolFirst(c, n, l)[first + i]
<1>1. PICK z \in Nat : z = Len(l)
  BY LenProperties
<1> DEFINE v == PoolFirst(c, n, l)
           r == JoinedWindow(c, n, l, first, size)
<1>2. \A i \in 1..z : v[i] = IF i <= n THEN c[i] ELSE l[i]
  BY <1>1, BehindPool
<1> HIDE DEF v
<1>3. n <= z
  BY <1>1
<1> DEFINE b == Least(first + size, n)
           from == TailOffset(first, n)
           e == Least(first + size, z)
           m == Greatest(b - first, 0)
           k == Greatest(e - from, 0)
<1>4. /\ b \in Int /\ b <= n /\ m \in Nat
      /\ \A i \in 1..m : i \in 1..(b - first) /\ first + i \in 1..z /\ first + i <= n
      /\ ~(m < size /\ first + size > n) => m = Greatest(e - first, 0)
  BY <1>3 DEF Least, Greatest
<1>5. m < size /\ first + size > n => from = first + m /\ from >= n
  BY <1>3 DEF TailOffset, Least, Greatest
<1>6. /\ from \in Nat /\ e \in Int /\ e <= z /\ k \in Nat
      /\ m < size /\ from = first + m =>
           /\ from + size - m = first + size /\ m + k = Greatest(e - first, 0)
           /\ \A i \in 1..(m + k) : ~(i <= m) =>
                 i - m \in 1..(e - from) /\ from + (i - m) = first + i
  BY <1>3 DEF TailOffset, Least, Greatest
<1> DEFINE h == SubSeq(c, first + 1, b)
           tail == SubSeq(l, from + 1, e)
<1> HIDE DEF b, from, e, k
<1>7. Len(c) >= b
  BY <1>4
<1>8. /\ h \in Seq(Items) /\ Len(h) = m
      /\ \A i \in 1..(b - first) : h[i] = c[first + i]
  BY <1>4, <1>7, Windows
<1> HIDE DEF h, m
<1>9. \A i \in 1..m : h[i] = v[first + i]
  BY <1>2, <1>4, <1>8
<1>10. r = IF m < size /\ first + size > n
           THEN h \o SubSeq(l, from + 1, Least(from + size - m, z)) ELSE h
  BY <1>1, <1>8 DEF JoinedWindow, h, b, from, r
<1> HIDE DEF r
<1>11. CASE ~(m < size /\ first + size > n)
  <2>1. r = h /\ m = Greatest(e - first, 0)
    BY <1>4, <1>10, <1>11
  <2>2. QED
    BY <1>1, <1>8, <1>9, <2>1 DEF r, v, e
<1>12. CASE m < size /\ first + size > n
  <2>1. from = first + m /\ from >= n
    BY <1>5, <1>12
  <2>3. /\ from \in Nat /\ e \in Int /\ e <= z /\ from + size - m = first + size
        /\ k \in Nat /\ m \in Nat /\ m + k = Greatest(e - first, 0)
        /\ \A i \in 1..(m + k) : ~(i <= m) =>
              i - m \in 1..(e - from) /\ from + (i - m) = first + i
    BY <1>4, <1>6, <1>12, <2>1
  <2>4. r = h \o tail
    BY <1>10, <1>12, <2>3 DEF e
  <2>5. e <= Len(l)
    BY <1>1, <2>3
  <2>6. /\ tail \in Seq(Items) /\ Len(tail) = k
        /\ \A i \in 1..(e - from) : tail[i] = l[from + i]
    BY <2>3, <2>5, Windows DEF k
  <2> HIDE DEF tail
  <2>7. /\ r \in Seq(Items) /\ Len(r) = m + k
        /\ \A i \in 1..(m + k) : r[i] = IF i <= m THEN h[i] ELSE tail[i - m]
    <3>1. /\ h \o tail \in Seq(Items) /\ Len(h \o tail) = Len(h) + Len(tail)
          /\ \A i \in 1..(Len(h) + Len(tail)) :
               (h \o tail)[i] = IF i <= Len(h) THEN h[i] ELSE tail[i - Len(h)]
      BY <1>8, <2>6, ConcatProperties
    <3>2. QED
      BY <1>8, <2>4, <2>6, <3>1
  <2>8. ASSUME NEW i \in 1..(m + k) PROVE r[i] = v[first + i]
    <3>1. CASE i <= m
      <4>1. i \in 1..m
        BY <2>3, <2>8, <3>1
      <4>2. QED
        BY <1>9, <2>7, <3>1, <4>1
    <3>2. CASE ~(i <= m)
      <4>1. /\ i - m \in 1..(e - from) /\ from + (i - m) = first + i
            /\ first + i \in 1..z /\ ~(first + i <= n)
        <5>1. i - m \in 1..(e - from) /\ from + (i - m) = first + i
          BY <2>3, <2>8, <3>2
        <5>2. PICK j \in Int : j = i - m
          BY <2>3, <2>8
        <5>3. j >= 1 /\ j <= e - from
          BY <5>1, <5>2
        <5>4. from + j >= 1 /\ from + j <= z /\ from + j > n
          BY <1>1, <2>1, <2>3, <5>2, <5>3
        <5>5. from + j = first + i /\ first + i \in Int
          BY <2>3, <2>8, <5>1, <5>2
        <5>6. QED
          BY <1>1, <5>1, <5>4, <5>5
      <4>2. r[i] = tail[i - m] /\ tail[i - m] = l[first + i]
        BY <2>6, <2>7, <2>8, <3>2, <4>1
      <4>3. v[first + i] = l[first + i]
        BY <1>2, <4>1
      <4>4. QED
        BY <4>2, <4>3
    <3>3. QED
      BY <3>1, <3>2
  <2>9. QED
    BY <1>1, <2>3, <2>7, <2>8 DEF r, v, e
<1>13. QED
  BY <1>11, <1>12

\* The first place of a page.
FirstPlace(first, page, size) ==
  /\ page \in Nat /\ page > 0 /\ size \in Nat /\ size > 0
  /\ first \in Nat /\ first = (page - 1) * size

\* A window of an order o: as many places as there are.
WindowOf(s, o, n, size, length) ==
  /\ s \in Seq(Items) /\ Len(s) = Greatest(Least(n + size, length) - n, 0)
  /\ \A i \in 1..Len(s) : s[i] = o[n + i]

\* What is read from an offset is a window of the order of the view.
LEMMA ViewWindow ==
  ASSUME list \in Seq(Items), jitter \in [Items -> 0..1],
         NEW kind, NEW first \in Nat, NEW size \in Nat, size > 0
  PROVE  WindowOf(Window(kind, first, size), ViewOrder(kind, list), first, size, Len(list))
<1>1. Len(list) \in Nat
  BY LenProperties
<1>2. CASE kind \notin Pooled
  <2> DEFINE b == Least(first + size, Len(list))
             s == SubSeq(list, first + 1, b)
  <2>1. b \in Int /\ b <= Len(list)
    BY <1>1 DEF Least
  <2>2. Window(kind, first, size) = s /\ ViewOrder(kind, list) = list
    BY <1>2 DEF Window, PlainWindow, ViewOrder
  <2> HIDE DEF b
  <2>3. /\ s \in Seq(Items) /\ Len(s) = Greatest(b - first, 0)
        /\ \A i \in 1..(b - first) : s[i] = list[first + i]
    BY <2>1, Windows
  <2> HIDE DEF s
  <2>4. \A i \in 1..Len(s) : s[i] = list[first + i]
    BY <2>1, <2>3 DEF Greatest
  <2>5. QED
    BY <2>2, <2>3, <2>4 DEF b, WindowOf
<1>3. CASE kind \in Pooled
  <2>1. PICK n \in Nat : n = PoolSize(list) /\ n <= Len(list)
    BY CandidatesPermute, <1>1
  <2>2. PICK c \in Seq(Items) : c = Candidates(list) /\ Len(c) = n
    BY <2>1, CandidatesPermute
  <2>3. /\ Window(kind, first, size) = JoinedWindow(c, n, list, first, size)
        /\ ViewOrder(kind, list) = PoolFirst(c, n, list)
    BY <1>3, <2>1, <2>2 DEF Window, PooledWindow, JoinedWindow, PoolFirst, ViewOrder
  <2>4. /\ JoinedWindow(c, n, list, first, size) \in Seq(Items)
        /\ Len(JoinedWindow(c, n, list, first, size))
             = Greatest(Least(first + size, Len(list)) - first, 0)
        /\ \A i \in 1..Len(JoinedWindow(c, n, list, first, size)) :
             JoinedWindow(c, n, list, first, size)[i] = PoolFirst(c, n, list)[first + i]
    BY <2>1, <2>2, PoolThenList
  <2>5. QED
    BY <2>3, <2>4 DEF WindowOf
<1>4. QED
  BY <1>2, <1>3

\* A page is one, too.
LEMMA PageWindow ==
  ASSUME list \in Seq(Items), jitter \in [Items -> 0..1],
         NEW kind, NEW page, NEW size, NEW first, FirstPlace(first, page, size)
  PROVE  WindowOf(PageOf(kind, page, size), ViewOrder(kind, list), first, size, Len(list))
<1>1. first \in Nat /\ size \in Nat /\ size > 0 /\ first = (page - 1) * size
  BY DEF FirstPlace
<1>2. PageOf(kind, page, size) = Window(kind, first, size)
  BY <1>1 DEF PageOf
<1>3. QED
  BY <1>1, <1>2, ViewWindow

LEMMA CutWindow ==
  ASSUME NEW n \in Nat, NEW first \in Nat, NEW from \in Nat, NEW to \in Nat, to > first
  PROVE  /\ Greatest(from - first, 0) = Greatest(from, first) - first
         /\ Greatest(Least(to - first, n) - Greatest(from - first, 0), 0)
              = Greatest(Least(to, first + n) - Greatest(from, first), 0)
BY DEF Greatest, Least

SliceOf(t, s, first, from, to) ==
  /\ t \in Seq(Items)
  /\ Len(t) = Greatest(Least(to, first + Len(s)) - Greatest(from, first), 0)
  /\ \A i \in 1..Len(t) : t[i] = s[Greatest(from, first) - first + i]

\* The part of a page in the window of the scroll, which it reaches.
LEMMA SliceWindow ==
  ASSUME NEW s \in Seq(Items), NEW page, NEW first \in Nat, FirstPlace(first, page, PageSize),
         NEW from \in Nat, NEW to \in Nat, to > first
  PROVE  SliceOf(Slice(s, page, from, to), s, first, from, to)
<1> DEFINE a == Greatest(from - first, 0)
           b == Least(to - first, Len(s))
           w == SubSeq(s, a + 1, b)
<1>1. Len(s) \in Nat
  BY LenProperties
<1>2. a \in Nat /\ b \in Int /\ b <= Len(s)
  BY <1>1 DEF Greatest, Least
<1>3. Slice(s, page, from, to) = w
  BY DEF Slice, FirstPlace
<1>4. /\ a = Greatest(from, first) - first
      /\ Greatest(b - a, 0) = Greatest(Least(to, first + Len(s)) - Greatest(from, first), 0)
  BY <1>1, CutWindow
<1> HIDE DEF a, b
<1>5. /\ w \in Seq(Items) /\ Len(w) = Greatest(b - a, 0)
      /\ \A i \in 1..(b - a) : w[i] = s[a + i]
  BY <1>2, Windows
<1> HIDE DEF w
<1>6. \A i \in 1..Len(w) : w[i] = s[a + i]
  BY <1>2, <1>5 DEF Greatest
<1>7. QED
  BY <1>3, <1>4, <1>5, <1>6 DEF SliceOf

\* How often each item is in a sequence is added to what was counted.
LEMMA Counted ==
  ASSUME NEW count \in [Items -> Nat], NEW s \in Seq(Items)
  PROVE  /\ Counting(count, s) \in [Items -> Nat]
         /\ \A x \in Items : /\ Counting(count, s)[x] >= count[x]
                             /\ (\A i \in 1..Len(s) : s[i] # x) => Counting(count, s)[x] = count[x]
                             /\ (\E i \in 1..Len(s) : s[i] = x) => Counting(count, s)[x] > count[x]
         /\ (\A i, j \in 1..Len(s) : s[i] = s[j] => i = j) =>
              \A x \in Items : Counting(count, s)[x] <= count[x] + 1
<1> DEFINE at(x) == {i \in 1..Len(s) : s[i] = x}
<1>1. Len(s) \in Nat
  BY LenProperties
<1> DEFINE n(x) == Cardinality(at(x))
<1>2. ASSUME NEW x \in Items
      PROVE  /\ n(x) \in Nat /\ (n(x) = 0 <=> at(x) = {})
             /\ (\E i : at(x) = {i}) => n(x) = 1
  <2>1. IsFiniteSet(1..Len(s))
    BY <1>1, FS_Interval
  <2>2. at(x) \in SUBSET (1..Len(s))
    OBVIOUS
  <2>3. IsFiniteSet(at(x))
    BY <2>1, <2>2, FS_Subset
  <2> HIDE DEF at
  <2>4. n(x) \in Nat /\ (n(x) = 0 <=> at(x) = {})
    BY <2>3, FS_CardinalityType, FS_EmptySet
  <2>5. ASSUME NEW i, at(x) = {i} PROVE n(x) = 1
    BY <2>5, FS_Singleton
  <2> HIDE DEF n
  <2>6. QED
    BY <2>4, <2>5
<1>3. Counting(count, s) = [x \in Items |-> count[x] + n(x)]
  BY DEF Counting
<1>4. \A x \in Items : \A i \in 1..Len(s) : s[i] = x => at(x) # {}
  OBVIOUS
<1>5. \A x \in Items : (\A i \in 1..Len(s) : s[i] # x) => at(x) = {}
  OBVIOUS
<1>6. (\A i, j \in 1..Len(s) : s[i] = s[j] => i = j) =>
        \A x \in Items : at(x) = {} \/ \E i : at(x) = {i}
  <2>1. ASSUME \A i, j \in 1..Len(s) : s[i] = s[j] => i = j, NEW x \in Items, at(x) # {}
        PROVE  \E i : at(x) = {i}
    <3>1. PICK i \in 1..Len(s) : s[i] = x
      BY <2>1
    <3>2. at(x) = {i}
      BY <2>1, <3>1
    <3>3. QED
      BY <3>2
  <2>2. QED
    BY <2>1
<1> HIDE DEF at, n
<1>7. \A x \in Items : Counting(count, s)[x] = count[x] + n(x) /\ count[x] \in Nat
  BY <1>3
<1>8. Counting(count, s) \in [Items -> Nat]
  BY <1>2, <1>3
<1>9. ASSUME NEW x \in Items
      PROVE  /\ Counting(count, s)[x] >= count[x]
             /\ (\A i \in 1..Len(s) : s[i] # x) => Counting(count, s)[x] = count[x]
             /\ (\E i \in 1..Len(s) : s[i] = x) => Counting(count, s)[x] > count[x]
  <2>1. n(x) \in Nat /\ count[x] \in Nat /\ Counting(count, s)[x] = count[x] + n(x)
    BY <1>2, <1>7
  <2>2. (\A i \in 1..Len(s) : s[i] # x) => n(x) = 0
    BY <1>2, <1>5
  <2>3. (\E i \in 1..Len(s) : s[i] = x) => n(x) # 0
    BY <1>2, <1>4
  <2> HIDE DEF n
  <2>4. QED
    BY <2>1, <2>2, <2>3
<1>10. ASSUME \A i, j \in 1..Len(s) : s[i] = s[j] => i = j, NEW x \in Items
       PROVE  Counting(count, s)[x] <= count[x] + 1
  <2>1. n(x) = 0 \/ n(x) = 1
    BY <1>2, <1>6, <1>10
  <2>2. QED
    BY <1>7, <2>1
<1>11. QED
  BY <1>8, <1>9, <1>10

-----------------------------------------------------------------------------
\* The list holds each item once.
ListSound ==
  /\ list \in Seq(Items) /\ Len(list) <= MaxItem
  /\ \A i, j \in 1..Len(list) : list[i] = list[j] => i = j
  /\ jitter \in [Items -> 0..1]

Views == [kind : Kinds \cup {"none"}, offset : 0..MaxItem, more : BOOLEAN, ended : BOOLEAN]
Fetches == [page : Nat, count : 0..MaxCount, items : Seq(Items)]

\* A view that has ended has no more to show.
ViewSound ==
  /\ view \in Views
  /\ view.kind = "none" => view = NoView /\ start = {}
  /\ ~(view.more /\ view.ended)

\* The place of the order up to which a scroll has read.
Reached(v, f) ==
  IF f.page = 0 THEN v.offset ELSE Greatest(v.offset, (f.page - 1) * PageSize)

\* A scroll in progress has read as many items as there are to the end of its
\* last page, all of them behind the offset.
FetchSound ==
  /\ fetch \in Fetches
  /\ fetch.page = 0 <=> fetch = NoFetch
  /\ fetch # NoFetch =>
       /\ fetch.count > 0 /\ view.kind \in Paged /\ view.more
       /\ Reached(view, fetch) <= MaxItem
       /\ (fetch.page - 1) * PageSize < view.offset + fetch.count
       /\ view.offset + Len(fetch.items) = Reached(view, fetch)

\* What was counted of the interactions fits.
ActsSound ==
  LET inProgress == IF acting \in {"reading", "lost"} THEN 1 ELSE 0
  IN /\ acting \in {"no", "asked", "reading", "lost"}
     /\ acts \in 0..MaxActs /\ answers \in [done : 0..MaxActs, failed : 0..MaxActs]
     /\ answers.done + inProgress <= acts
     /\ acts <= answers.done + answers.failed + inProgress
     /\ acting = "asked" => acts + answers.failed < MaxActs
     /\ acting \in {"reading", "lost"} => acts + answers.failed <= MaxActs

\* What is before the offset has been seen, and of a scroll in progress what it
\* has read; the list l is shown in the order o.
SeenUpTo(o, l, v, f, there, seen) ==
  /\ \A x \in there : \E i \in 1..Len(l) : l[i] = x
  /\ \A i \in 1..Len(l) : o[i] \in there =>
       /\ i <= v.offset \/ v.ended => seen[o[i]] > 0
       /\ i <= Reached(v, f) =>
            seen[o[i]] > 0 \/ \E k \in 1..Len(f.items) : f.items[k] = o[i]

\* What is behind the offset has not been seen, and behind what a scroll has read
\* it has not been read.
UnseenBehind(o, l, v, f, seen) ==
  /\ \A x \in Items : seen[x] <= 1
  /\ \A i, j \in 1..Len(f.items) : f.items[i] = f.items[j] => i = j
  /\ \A i \in 1..Len(f.items) : seen[f.items[i]] = 0
  /\ \A i \in 1..Len(l) :
       /\ i > v.offset => seen[o[i]] = 0
       /\ i > Reached(v, f) => \A k \in 1..Len(f.items) : f.items[k] # o[i]

Passed ==
  /\ disturbed \cap {"shrunk", "moved"} = {}
  /\ view.kind \in Pooled => "grown" \notin disturbed

Undisturbed ==
  /\ disturbed \cap {"grown", "moved", "rewound"} = {}
  /\ view.kind \in Pooled => "shrunk" \notin disturbed

Order == ViewOrder(view.kind, list)

FeedInv ==
  /\ ListSound /\ ViewSound /\ FetchSound /\ ActsSound
  /\ start \subseteq Items /\ shown \in [Items -> Nat]
  /\ disturbed \subseteq {"grown", "shrunk", "moved", "rewound"} /\ changed \in 0..MaxMoves
  /\ Passed => SeenUpTo(Order, list, view, fetch, start, shown)
  /\ Undisturbed => UnseenBehind(Order, list, view, fetch, shown)

LEMMA NothingFetched ==
  /\ NoFetch \in Fetches /\ NoFetch.page = 0 /\ NoFetch.items = << >>
  /\ Len(NoFetch.items) = 0
  /\ \A v : Reached(v, NoFetch) = v.offset
  /\ NoView \in Views
BY FeedConstants, EmptySeq DEF NoFetch, Fetches, Reached, NoView, Views

\* Two pieces that follow each other.
LEMMA Joined ==
  ASSUME NEW s \in Seq(Items), NEW t \in Seq(Items)
  PROVE  /\ s \o t \in Seq(Items) /\ Len(s \o t) = Len(s) + Len(t)
         /\ Len(s) \in Nat /\ Len(t) \in Nat
         /\ \A i \in 1..Len(s) : i \in 1..Len(s \o t) /\ (s \o t)[i] = s[i]
         /\ \A i \in 1..Len(t) : Len(s) + i \in 1..Len(s \o t) /\ (s \o t)[Len(s) + i] = t[i]
         /\ \A i \in 1..Len(s \o t) : \/ i \in 1..Len(s) /\ (s \o t)[i] = s[i]
                                      \/ i - Len(s) \in 1..Len(t) /\ (s \o t)[i] = t[i - Len(s)]
<1>1. Len(s) \in Nat /\ Len(t) \in Nat
  BY LenProperties
<1>2. /\ s \o t \in Seq(Items) /\ Len(s \o t) = Len(s) + Len(t)
      /\ \A i \in 1..(Len(s) + Len(t)) :
           (s \o t)[i] = IF i <= Len(s) THEN s[i] ELSE t[i - Len(s)]
  BY ConcatProperties
<1>3. \A i \in 1..Len(t) : Len(s) + i \in 1..Len(s \o t) /\ (s \o t)[Len(s) + i] = t[i]
  <2>1. ASSUME NEW i \in 1..Len(t)
        PROVE  Len(s) + i \in 1..(Len(s) + Len(t)) /\ (Len(s) + i) - Len(s) = i
               /\ ~(Len(s) + i <= Len(s))
    BY <1>1
  <2>2. QED
    BY <1>2, <2>1
<1>4. \A i \in 1..Len(s) : i \in 1..Len(s \o t) /\ (s \o t)[i] = s[i]
  BY <1>1, <1>2
<1>5. ASSUME NEW i \in 1..Len(s \o t)
      PROVE  \/ i \in 1..Len(s) /\ (s \o t)[i] = s[i]
             \/ i - Len(s) \in 1..Len(t) /\ (s \o t)[i] = t[i - Len(s)]
  BY <1>1, <1>2
<1>6. QED
  BY <1>1, <1>2, <1>3, <1>4, <1>5

\* A piece that follows what a scroll has read.
NextPiece(o, l, v, f, piece) ==
  /\ Reached(v, f) \in Nat /\ v.offset \in Nat
  /\ Reached(v, f) = v.offset + Len(f.items)
  /\ Len(piece) = 0 \/ Reached(v, f) + Len(piece) <= Len(l)
  /\ \A i \in 1..Len(piece) : piece[i] = o[Reached(v, f) + i]

LEMMA PlacesOfPiece ==
  ASSUME NEW o, NEW l \in Seq(Items), NEW v, NEW f \in Fetches, NEW piece \in Seq(Items),
         NextPiece(o, l, v, f, piece)
  PROVE  /\ Reached(v, f) \in Nat /\ Reached(v, f) >= v.offset
         /\ Len(l) \in Nat /\ Len(piece) \in Nat
         /\ \A i \in 1..Len(piece) :
              /\ Reached(v, f) + i \in 1..Len(l) /\ Reached(v, f) + i > Reached(v, f)
              /\ piece[i] = o[Reached(v, f) + i]
         /\ \A i \in 1..Len(l) : i > Reached(v, f) /\ i <= Reached(v, f) + Len(piece) =>
              i - Reached(v, f) \in 1..Len(piece) /\ piece[i - Reached(v, f)] = o[i]
<1> DEFINE r == Reached(v, f)
<1>1. f.items \in Seq(Items)
  BY DEF Fetches
<1>2. Len(f.items) \in Nat /\ Len(l) \in Nat /\ Len(piece) \in Nat
  BY <1>1, LenProperties
<1>3. /\ r \in Nat /\ v.offset \in Nat /\ r = v.offset + Len(f.items)
      /\ Len(piece) = 0 \/ r + Len(piece) <= Len(l)
      /\ \A i \in 1..Len(piece) : piece[i] = o[r + i]
  BY DEF NextPiece
<1> HIDE DEF r
<1>4. ASSUME NEW i \in 1..Len(piece)
      PROVE  r + i \in 1..Len(l) /\ r + i > r
  BY <1>2, <1>3
<1>5. ASSUME NEW i \in 1..Len(l), i > r, i <= r + Len(piece)
      PROVE  i - r \in 1..Len(piece) /\ piece[i - r] = o[i]
  <2>1. i - r \in 1..Len(piece) /\ r + (i - r) = i
    BY <1>2, <1>3, <1>5
  <2>2. QED
    BY <1>3, <2>1
<1>6. QED
  BY <1>2, <1>3, <1>4, <1>5 DEF r

\* What all the pieces of a scroll hold: those before, and those of the last one.
Gathered(o, l, before, r, piece, all) ==
  /\ all \in Seq(Items) /\ Len(all) = Len(before) + Len(piece)
  /\ \A k \in 1..Len(before) : \E j \in 1..Len(all) : all[j] = before[k]
  /\ \A i \in 1..Len(l) : i > r /\ i <= r + Len(piece) => \E j \in 1..Len(all) : all[j] = o[i]
  /\ \A j \in 1..Len(all) :
       \/ \E k \in 1..Len(before) : j = k /\ all[j] = before[k]
       \/ \E i \in 1..Len(l) : /\ i > r /\ i <= r + Len(piece)
                               /\ j - Len(before) = i - r /\ all[j] = o[i]

LEMMA AllPieces ==
  ASSUME NEW o, NEW l \in Seq(Items), NEW v, NEW f \in Fetches, NEW piece \in Seq(Items),
         NextPiece(o, l, v, f, piece)
  PROVE  Gathered(o, l, f.items, Reached(v, f), piece, f.items \o piece)
<1> DEFINE all == f.items \o piece
           r == Reached(v, f)
<1>1. f.items \in Seq(Items)
  BY DEF Fetches
<1>2. /\ all \in Seq(Items) /\ Len(all) = Len(f.items) + Len(piece)
      /\ Len(f.items) \in Nat /\ Len(piece) \in Nat
      /\ \A i \in 1..Len(f.items) : i \in 1..Len(all) /\ all[i] = f.items[i]
      /\ \A i \in 1..Len(piece) : Len(f.items) + i \in 1..Len(all)
                                  /\ all[Len(f.items) + i] = piece[i]
      /\ \A i \in 1..Len(all) :
           \/ i \in 1..Len(f.items) /\ all[i] = f.items[i]
           \/ i - Len(f.items) \in 1..Len(piece) /\ all[i] = piece[i - Len(f.items)]
  BY <1>1, Joined
<1>3. /\ r \in Nat /\ Len(l) \in Nat
      /\ \A i \in 1..Len(piece) : r + i \in 1..Len(l) /\ piece[i] = o[r + i] /\ r + i > r
      /\ \A i \in 1..Len(l) : i > r /\ i <= r + Len(piece) =>
           i - r \in 1..Len(piece) /\ piece[i - r] = o[i]
  BY PlacesOfPiece
<1> HIDE DEF all
<1>4. ASSUME NEW i \in 1..Len(l), i > r, i <= r + Len(piece)
      PROVE  \E j \in 1..Len(all) : all[j] = o[i]
  <2>1. i - r \in 1..Len(piece) /\ piece[i - r] = o[i]
    BY <1>3, <1>4
  <2>2. QED
    BY <1>2, <2>1
<1>5. ASSUME NEW j \in 1..Len(all), j - Len(f.items) \in 1..Len(piece),
             all[j] = piece[j - Len(f.items)]
      PROVE  \E i \in 1..Len(l) : /\ i > r /\ i <= r + Len(piece)
                                  /\ j - Len(f.items) = i - r /\ all[j] = o[i]
  <2>1. PICK h \in 1..Len(piece) : h = j - Len(f.items)
    BY <1>5
  <2>2. r + h \in 1..Len(l) /\ piece[h] = o[r + h] /\ r + h > r
    BY <1>3
  <2>3. r + h <= r + Len(piece) /\ h = (r + h) - r
    BY <1>2, <1>3
  <2>4. QED
    BY <1>5, <2>1, <2>2, <2>3
<1>6. QED
  BY <1>2, <1>4, <1>5 DEF Gathered, r, all

\* None of it has been seen, and none of it is behind what has been read now.
Untouched(o, l, all, end, seen) ==
  /\ \A i, j \in 1..Len(all) : all[i] = all[j] => i = j
  /\ \A i \in 1..Len(all) : seen[all[i]] = 0
  /\ \A i \in 1..Len(l) : i > end => \A k \in 1..Len(all) : all[k] # o[i]

OnePlace(o, l) == \A i, j \in 1..Len(l) : o[i] = o[j] => i = j

LEMMA GatheredUnseen ==
  ASSUME NEW o, NEW l \in Seq(Items), NEW v, NEW f \in Fetches, NEW piece \in Seq(Items),
         NextPiece(o, l, v, f, piece), OnePlace(o, l), NEW seen, UnseenBehind(o, l, v, f, seen),
         NEW all, Gathered(o, l, f.items, Reached(v, f), piece, all)
  PROVE  Untouched(o, l, all, Reached(v, f) + Len(piece), seen)
<1> DEFINE r == Reached(v, f)
<1>2. r \in Nat /\ r >= v.offset /\ Len(l) \in Nat /\ Len(piece) \in Nat /\ v.offset \in Nat
  BY PlacesOfPiece DEF NextPiece
<1>1. /\ all \in Seq(Items) /\ Len(all) = Len(f.items) + Len(piece)
      /\ \A k \in 1..Len(f.items) : \E j \in 1..Len(all) : all[j] = f.items[k]
      /\ \A i \in 1..Len(l) : i > r /\ i <= r + Len(piece) =>
           \E j \in 1..Len(all) : all[j] = o[i]
      /\ \A j \in 1..Len(all) : \/ \E k \in 1..Len(f.items) : j = k /\ all[j] = f.items[k]
                                \/ \E i \in 1..Len(l) : /\ i > r /\ i <= r + Len(piece)
                                                        /\ j - Len(f.items) = i - r
                                                        /\ all[j] = o[i]
  BY DEF Gathered
<1>4. /\ \A i, j \in 1..Len(l) : o[i] = o[j] => i = j
      /\ UnseenBehind(o, l, v, f, seen)
  BY DEF OnePlace
<1>5. ASSUME NEW i \in 1..Len(all), NEW j \in 1..Len(all), all[i] = all[j]
      PROVE  i = j
  <2>1. CASE \E h \in 1..Len(f.items) : i = h /\ all[i] = f.items[h]
    <3>1. PICK h \in 1..Len(f.items) : i = h /\ all[i] = f.items[h]
      BY <2>1
    <3>2. CASE \E k \in 1..Len(f.items) : j = k /\ all[j] = f.items[k]
      BY <1>4, <1>5, <3>1, <3>2 DEF UnseenBehind
    <3>3. CASE \E k \in 1..Len(l) : k > r /\ all[j] = o[k]
      BY <1>4, <1>5, <3>1, <3>3 DEF UnseenBehind
    <3>4. QED
      BY <1>1, <3>2, <3>3
  <2>2. CASE \E h \in 1..Len(l) : h > r /\ j # i /\ i - Len(f.items) = h - r /\ all[i] = o[h]
    <3>1. PICK h \in 1..Len(l) : h > r /\ i - Len(f.items) = h - r /\ all[i] = o[h]
      BY <2>2
    <3>2. CASE \E k \in 1..Len(f.items) : j = k /\ all[j] = f.items[k]
      BY <1>4, <1>5, <3>1, <3>2 DEF UnseenBehind
    <3>3. CASE \E k \in 1..Len(l) : /\ k > r /\ j - Len(f.items) = k - r /\ all[j] = o[k]
      <4>1. PICK k \in 1..Len(l) : k > r /\ j - Len(f.items) = k - r /\ all[j] = o[k]
        BY <3>3
      <4>2. h = k
        BY <1>4, <1>5, <3>1, <4>1
      <4>3. Len(f.items) \in Nat
        BY LenProperties DEF Fetches
      <4>4. QED
        BY <1>2, <3>1, <4>1, <4>2, <4>3
    <3>4. QED
      BY <1>1, <3>2, <3>3
  <2>3. QED
    BY <1>1, <2>1, <2>2
<1>6. \A i \in 1..Len(all) : seen[all[i]] = 0
  <2>1. ASSUME NEW i \in 1..Len(all) PROVE seen[all[i]] = 0
    <3>1. CASE \E h \in 1..Len(f.items) : all[i] = f.items[h]
      BY <1>4, <3>1 DEF UnseenBehind
    <3>2. CASE \E h \in 1..Len(l) : h > r /\ all[i] = o[h]
      BY <1>2, <1>4, <3>2 DEF UnseenBehind
    <3>3. QED
      BY <1>1, <3>1, <3>2
  <2>2. QED
    BY <2>1
<1>7. ASSUME NEW i \in 1..Len(l), i > r + Len(piece), NEW k \in 1..Len(all)
      PROVE  all[k] # o[i]
  <2>1. i > r
    BY <1>2, <1>7
  <2>2. CASE \E h \in 1..Len(f.items) : all[k] = f.items[h]
    BY <1>4, <2>1, <2>2 DEF UnseenBehind
  <2>3. CASE \E h \in 1..Len(l) : h <= r + Len(piece) /\ all[k] = o[h]
    BY <1>2, <1>4, <1>7, <2>3
  <2>4. QED
    BY <1>1, <2>2, <2>3
<1>8. QED
  BY <1>5, <1>6, <1>7 DEF Untouched

\* A page of a scroll that goes on.
LEMMA PieceKept ==
  ASSUME NEW o, NEW l \in Seq(Items), NEW v, NEW f \in Fetches, NEW piece \in Seq(Items),
         NextPiece(o, l, v, f, piece), NEW g \in Fetches, g.items = f.items \o piece,
         Reached(v, g) = Reached(v, f) + Len(piece)
  PROVE  /\ \A there, seen :
              SeenUpTo(o, l, v, f, there, seen) => SeenUpTo(o, l, v, g, there, seen)
         /\ OnePlace(o, l) => \A seen :
                UnseenBehind(o, l, v, f, seen) => UnseenBehind(o, l, v, g, seen)
<1> DEFINE all == g.items
           r == Reached(v, f)
<1>a. Gathered(o, l, f.items, r, piece, all)
  BY AllPieces
<1>2. r \in Nat /\ r >= v.offset /\ Len(l) \in Nat /\ Len(piece) \in Nat /\ v.offset \in Nat
  BY PlacesOfPiece DEF NextPiece
<1>1. /\ all \in Seq(Items) /\ Len(all) = Len(f.items) + Len(piece)
      /\ \A k \in 1..Len(f.items) : \E j \in 1..Len(all) : all[j] = f.items[k]
      /\ \A i \in 1..Len(l) : i > r /\ i <= r + Len(piece) =>
           \E j \in 1..Len(all) : all[j] = o[i]
      /\ \A j \in 1..Len(all) : \/ \E k \in 1..Len(f.items) : j = k /\ all[j] = f.items[k]
                                \/ \E i \in 1..Len(l) : /\ i > r /\ i <= r + Len(piece)
                                                        /\ j - Len(f.items) = i - r
                                                        /\ all[j] = o[i]
  BY <1>a DEF Gathered
<1>r. Reached(v, g) = r + Len(piece)
  OBVIOUS
<1> HIDE DEF all
<1>3. ASSUME NEW there, NEW seen, SeenUpTo(o, l, v, f, there, seen)
      PROVE  SeenUpTo(o, l, v, g, there, seen)
  <2>1. ASSUME NEW i \in 1..Len(l), o[i] \in there, i <= r + Len(piece)
        PROVE  seen[o[i]] > 0 \/ \E k \in 1..Len(all) : all[k] = o[i]
    <3>1. CASE i <= r
      BY <1>1, <1>3, <2>1, <3>1 DEF SeenUpTo
    <3>2. CASE i > r
      BY <1>1, <2>1, <3>2
    <3>3. QED
      BY <1>2, <3>1, <3>2
  <2>2. QED
    BY <1>r, <1>3, <2>1 DEF SeenUpTo, r, all
<1>4. ASSUME OnePlace(o, l), NEW seen, UnseenBehind(o, l, v, f, seen)
      PROVE  UnseenBehind(o, l, v, g, seen)
  <2>1. /\ \A i, j \in 1..Len(all) : all[i] = all[j] => i = j
        /\ \A i \in 1..Len(all) : seen[all[i]] = 0
        /\ \A i \in 1..Len(l) : i > r + Len(piece) => \A k \in 1..Len(all) : all[k] # o[i]
    <3>1. Untouched(o, l, all, r + Len(piece), seen)
      BY <1>a, <1>4, GatheredUnseen
    <3>2. QED
      BY <3>1 DEF Untouched
  <2>2. QED
    BY <1>r, <1>4, <2>1 DEF UnseenBehind, all
<1>5. QED
  BY <1>3, <1>4

\* The last page of a scroll, or all that another tool shows.
LEMMA PieceShown ==
  ASSUME NEW o, NEW l \in Seq(Items), NEW v, NEW f \in Fetches, NEW piece \in Seq(Items),
         NextPiece(o, l, v, f, piece), \A i \in 1..Len(l) : o[i] \in Items,
         NEW w, w.offset = Reached(v, f) + Len(piece), w.ended => w.offset >= Len(l),
         NEW seen \in [Items -> Nat]
  PROVE  /\ \A there : SeenUpTo(o, l, v, f, there, seen) =>
              SeenUpTo(o, l, w, NoFetch, there, Counting(seen, f.items \o piece))
         /\ OnePlace(o, l) /\ UnseenBehind(o, l, v, f, seen)
              => UnseenBehind(o, l, w, NoFetch, Counting(seen, f.items \o piece))
<1> DEFINE all == f.items \o piece
           n == Counting(seen, all)
           r == Reached(v, f)
<1>a. Gathered(o, l, f.items, r, piece, all)
  BY AllPieces
<1>2. r \in Nat /\ r >= v.offset /\ Len(l) \in Nat /\ Len(piece) \in Nat /\ v.offset \in Nat
  BY PlacesOfPiece DEF NextPiece
<1>1. /\ all \in Seq(Items) /\ Len(all) = Len(f.items) + Len(piece)
      /\ \A k \in 1..Len(f.items) : \E j \in 1..Len(all) : all[j] = f.items[k]
      /\ \A i \in 1..Len(l) : i > r /\ i <= r + Len(piece) =>
           \E j \in 1..Len(all) : all[j] = o[i]
      /\ \A j \in 1..Len(all) : \/ \E k \in 1..Len(f.items) : j = k /\ all[j] = f.items[k]
                                \/ \E i \in 1..Len(l) : /\ i > r /\ i <= r + Len(piece)
                                                        /\ j - Len(f.items) = i - r
                                                        /\ all[j] = o[i]
  BY <1>a DEF Gathered
<1>w. w.offset = r + Len(piece)
  OBVIOUS
<1> HIDE DEF all
<1>3. /\ n \in [Items -> Nat]
      /\ \A x \in Items : /\ n[x] >= seen[x]
                          /\ (\A i \in 1..Len(all) : all[i] # x) => n[x] = seen[x]
                          /\ (\E i \in 1..Len(all) : all[i] = x) => n[x] > seen[x]
      /\ (\A i, j \in 1..Len(all) : all[i] = all[j] => i = j) =>
           \A x \in Items : n[x] <= seen[x] + 1
  BY <1>1, Counted
<1> HIDE DEF n
<1>4. ASSUME NEW there, SeenUpTo(o, l, v, f, there, seen)
      PROVE  SeenUpTo(o, l, w, NoFetch, there, n)
  <2>1. ASSUME NEW i \in 1..Len(l), o[i] \in there, i <= w.offset \/ w.ended
        PROVE  n[o[i]] > 0
    <3>1. i <= r + Len(piece)
      BY <1>2, <2>1
    <3>2. n[o[i]] \in Nat /\ seen[o[i]] \in Nat /\ o[i] \in Items
      BY <1>3
    <3>7. (\E j \in 1..Len(all) : all[j] = o[i]) => n[o[i]] > seen[o[i]]
      BY <1>3, <3>2
    <3>6. (\E j \in 1..Len(all) : all[j] = o[i]) => n[o[i]] > 0
      <4>1. n[o[i]] > seen[o[i]] => n[o[i]] > 0
        BY <3>2
      <4>2. QED
        BY <3>7, <4>1
    <3>3. CASE i > r
      BY <1>1, <3>1, <3>3, <3>6
    <3>4. CASE i <= r
      <4>1. seen[o[i]] > 0 \/ \E k \in 1..Len(f.items) : f.items[k] = o[i]
        BY <1>4, <2>1, <3>4 DEF SeenUpTo
      <4>2. QED
        <5>1. seen[o[i]] > 0 => n[o[i]] > 0
          BY <1>3, <3>2
        <5>2. QED
          BY <1>1, <3>6, <4>1, <5>1
    <3>5. QED
      BY <1>2, <3>3, <3>4
  <2>2. \A i \in 1..Len(l) : Reached(w, NoFetch) = w.offset
    BY NothingFetched
  <2>3. QED
    BY <1>4, <2>1, <2>2 DEF SeenUpTo
<1>5. ASSUME OnePlace(o, l), UnseenBehind(o, l, v, f, seen)
      PROVE  UnseenBehind(o, l, w, NoFetch, n)
  <2>1. /\ \A i, j \in 1..Len(all) : all[i] = all[j] => i = j
        /\ \A i \in 1..Len(all) : seen[all[i]] = 0
        /\ \A i \in 1..Len(l) : i > r + Len(piece) => \A k \in 1..Len(all) : all[k] # o[i]
    <3>1. Untouched(o, l, all, r + Len(piece), seen)
      BY <1>a, <1>5, GatheredUnseen
    <3>2. QED
      BY <3>1 DEF Untouched
  <2>2. \A x \in Items : n[x] <= 1
    <3>1. ASSUME NEW x \in Items PROVE n[x] <= 1
      <4>1. n[x] \in Nat /\ seen[x] \in Nat /\ n[x] <= seen[x] + 1 /\ seen[x] <= 1
        BY <1>3, <1>5, <2>1 DEF UnseenBehind
      <4>2. CASE \E i \in 1..Len(all) : all[i] = x
        <5>1. PICK i \in 1..Len(all) : all[i] = x
          BY <4>2
        <5>2. seen[x] = 0
          BY <2>1, <5>1
        <5>3. QED
          BY <4>1, <5>2
      <4>3. CASE \A i \in 1..Len(all) : all[i] # x
        BY <1>3, <4>1, <4>3
      <4>4. QED
        BY <4>2, <4>3
    <3>2. QED
      BY <3>1
  <2>3. ASSUME NEW i \in 1..Len(l), i > w.offset PROVE n[o[i]] = 0
    <3>1. i > r + Len(piece) /\ i > v.offset
      BY <1>2, <1>w, <2>3
    <3>2. seen[o[i]] = 0 /\ o[i] \in Items
      BY <1>5, <3>1 DEF UnseenBehind
    <3>3. QED
      BY <1>3, <2>1, <3>1, <3>2
  <2>4. QED
    BY <2>2, <2>3, NothingFetched DEF UnseenBehind
<1>6. QED
  BY <1>4, <1>5 DEF n, all

-----------------------------------------------------------------------------
\* While the list and the jitter stay, so does every order of it.
LEMMA OrderKept ==
  ASSUME list' = list, jitter' = jitter, NEW kind
  PROVE  ViewOrder(kind, list)' = ViewOrder(kind, list)
<1>1. \A l, i : Rank(l, i)' = Rank(l, i)
  BY DEF Rank
<1>2. QED
  BY <1>1 DEF ViewOrder, Candidates, Rank, PoolSize

LEMMA OrderStays ==
  ASSUME list' = list, jitter' = jitter, view' = view
  PROVE  Order' = Order
BY OrderKept DEF Order

LEMMA ViewOrderStays ==
  ASSUME list' = list, jitter' = jitter, NEW kind, view'.kind = kind
  PROVE  Order' = ViewOrder(kind, list)
BY OrderKept DEF Order

LEMMA FeedInitInv ==
  ASSUME FeedInit
  PROVE  FeedInv
<1>0. MaxItem \in Nat /\ MaxActs \in Nat /\ MaxMoves \in Nat
  BY FeedConstants
<1>1. ListSound
  <2> DEFINE l == [i \in 1..(MaxItem - 1) |-> i]
  <2>1. CASE MaxItem = 0
    <3>1. list = << >>
      BY <2>1 DEF FeedInit
    <3>2. list \in Seq(Items) /\ Len(list) = 0
      BY <3>1
    <3>3. QED
      BY <2>1, <3>2 DEF ListSound, FeedInit
  <2>2. CASE MaxItem > 0
    <3>1. MaxItem - 1 \in Nat /\ list \in [1..(MaxItem - 1) -> Items]
      BY <1>0, <2>2 DEF FeedInit, Items
    <3>2. list \in Seq(Items) /\ Len(list) = MaxItem - 1
      BY <3>1
    <3>3. \A i \in 1..Len(list) : list[i] = i
      BY <3>2 DEF FeedInit
    <3>4. \A i, j \in 1..Len(list) : list[i] = list[j] => i = j
      BY <3>3
    <3>5. Len(list) <= MaxItem
      BY <1>0, <3>2
    <3>6. jitter \in [Items -> 0..1]
      BY DEF FeedInit
    <3>7. QED
      BY <3>2, <3>4, <3>5, <3>6 DEF ListSound
  <2>3. QED
    BY <1>0, <2>1, <2>2
<1>2. ViewSound
  BY NothingFetched DEF ViewSound, FeedInit, NoView
<1>3. FetchSound
  BY NothingFetched DEF FetchSound, FeedInit
<1>4. ActsSound
  BY <1>0 DEF ActsSound, FeedInit, NoAnswers
<1>5. SeenUpTo(Order, list, view, fetch, start, shown)
  BY DEF SeenUpTo, FeedInit
<1>6. UnseenBehind(Order, list, view, fetch, shown)
  <2>1. \A i \in 1..Len(list) : Order[i] \in Items
    <3>1. Order = list
      BY DEF Order, ViewOrder, FeedInit, NoView, Pooled
    <3>2. \A i \in 1..Len(list) : list[i] \in Items
      BY <1>1, ElementOfSeq DEF ListSound
    <3>3. QED
      BY <3>1, <3>2
  <2>2. \A x \in Items : shown[x] = 0
    BY DEF FeedInit
  <2>3. fetch = NoFetch /\ Len(fetch.items) = 0
    BY NothingFetched DEF FeedInit
  <2>4. QED
    BY <2>1, <2>2, <2>3 DEF UnseenBehind
<1>7. QED
  BY <1>0, <1>1, <1>2, <1>3, <1>4, <1>5, <1>6 DEF FeedInv, FeedInit

-----------------------------------------------------------------------------
\* Interactions keep the list, the view and what was shown.
LEMMA BrowsingKept ==
  ASSUME FeedInv, UNCHANGED <<list, jitter, view, start, shown, fetch, disturbed, changed>>,
         ActsSound'
  PROVE  FeedInv'
<1>1. Order' = Order
  BY OrderStays
<1>2. ListSound' /\ ViewSound' /\ FetchSound'
  BY DEF FeedInv, ListSound, ViewSound, FetchSound, Reached
<1>3. (Passed => SeenUpTo(Order, list, view, fetch, start, shown))'
  BY <1>1 DEF FeedInv, Passed
<1>4. (Undisturbed => UnseenBehind(Order, list, view, fetch, shown))'
  BY <1>1 DEF FeedInv, Undisturbed
<1>5. QED
  BY <1>2, <1>3, <1>4 DEF FeedInv

LEMMA InteractInv == FeedInv /\ Interact => FeedInv'
<1> SUFFICES ASSUME FeedInv, Interact PROVE FeedInv'
  OBVIOUS
<1>1. ActsSound'
  BY FeedConstants DEF FeedInv, ActsSound, Interact
<1>2. QED
  BY <1>1, BrowsingKept DEF Interact

LEMMA CarryOutInv == FeedInv /\ CarryOut => FeedInv'
<1> SUFFICES ASSUME FeedInv, CarryOut PROVE FeedInv'
  OBVIOUS
<1>1. ActsSound'
  BY FeedConstants DEF FeedInv, ActsSound, CarryOut
<1>2. QED
  BY <1>1, BrowsingKept DEF CarryOut

LEMMA AnswerInv == FeedInv /\ Answer => FeedInv'
<1> SUFFICES ASSUME FeedInv, Answer PROVE FeedInv'
  OBVIOUS
<1>0. MaxActs \in Nat /\ ActsSound
  BY FeedConstants DEF FeedInv
<1>1. ActsSound'
  <2>1. PICK a \in [done : 0..MaxActs, failed : 0..MaxActs] : a = answers
    BY <1>0 DEF ActsSound
  <2>2. CASE acting = "reading" /\ answers' = [a EXCEPT !.done = @ + 1]
    <3>1. a.done + 1 <= acts /\ acts <= a.done + a.failed + 1 /\ acts \in 0..MaxActs
      BY <1>0, <2>1, <2>2 DEF ActsSound
    <3>2. answers' \in [done : 0..MaxActs, failed : 0..MaxActs]
      BY <1>0, <2>2, <3>1
    <3>3. answers'.done = a.done + 1 /\ answers'.failed = a.failed
      BY <2>2
    <3>4. acts' = acts /\ acting' = "no"
      BY DEF Answer
    <3>5. QED
      BY <1>0, <3>1, <3>2, <3>3, <3>4 DEF ActsSound
  <2>3. CASE answers' = [a EXCEPT !.failed = @ + 1]
    <3>1. /\ a.failed + 1 <= MaxActs /\ a.done <= acts /\ acts <= a.done + a.failed + 1
          /\ acts \in 0..MaxActs
      BY <1>0, <2>1 DEF ActsSound, Answer
    <3>2. answers' \in [done : 0..MaxActs, failed : 0..MaxActs]
      BY <1>0, <2>3, <3>1
    <3>3. answers'.done = a.done /\ answers'.failed = a.failed + 1
      BY <2>3
    <3>4. acts' = acts /\ acting' = "no"
      BY DEF Answer
    <3>5. QED
      BY <1>0, <3>1, <3>2, <3>3, <3>4 DEF ActsSound
  <2>4. QED
    BY <2>1, <2>2, <2>3 DEF Answer, Told
<1>2. QED
  BY <1>1, BrowsingKept DEF Answer

LEMMA ReachedPlace ==
  ASSUME ViewSound, FetchSound
  PROVE  /\ view.offset \in Nat /\ Reached(view, fetch) \in Nat
         /\ view.offset <= Reached(view, fetch)
<1>4. view.offset \in Nat /\ fetch.page \in Nat
  BY FeedConstants DEF ViewSound, Views, FetchSound, Fetches
<1>1. CASE fetch.page = 0
  BY <1>4, <1>1 DEF Reached
<1>2. CASE fetch.page > 0
  <2>1. (fetch.page - 1) * PageSize \in Nat
    BY <1>4, <1>2, FeedConstants, Multiples
  <2>2. QED
    BY <1>4, <1>2, <2>1 DEF Reached, Greatest
<1>3. QED
  BY <1>4, <1>1, <1>2

\* A scroll that fails leaves the view as it was.
LEMMA FailScrollInv == FeedInv /\ FailScroll => FeedInv'
<1> SUFFICES ASSUME FeedInv, FailScroll PROVE FeedInv'
  OBVIOUS
<1>1. Order' = Order
  BY OrderStays DEF FailScroll
<1>2. ListSound' /\ ViewSound' /\ ActsSound'
  BY DEF FeedInv, ListSound, ViewSound, ActsSound, FailScroll
<1>3. FetchSound'
  BY NothingFetched DEF FetchSound, FailScroll
<1>4. Len(list) \in Nat
  BY LenProperties DEF FeedInv, ListSound
<1>5. view.offset \in Nat /\ Reached(view, fetch) \in Nat /\ view.offset <= Reached(view, fetch)
  BY ReachedPlace DEF FeedInv
<1>6. (Passed => SeenUpTo(Order, list, view, fetch, start, shown))'
  <2>1. SeenUpTo(Order, list, view, fetch, start, shown)
          => SeenUpTo(Order, list, view, NoFetch, start, shown)
    BY NothingFetched DEF SeenUpTo
  <2>2. QED
    BY <1>1, <2>1 DEF FeedInv, Passed, FailScroll
<1>7. (Undisturbed => UnseenBehind(Order, list, view, fetch, shown))'
  <2>1. UnseenBehind(Order, list, view, fetch, shown)
          => UnseenBehind(Order, list, view, NoFetch, shown)
    BY NothingFetched DEF UnseenBehind
  <2>2. QED
    BY <1>1, <2>1 DEF FeedInv, Undisturbed, FailScroll
<1>8. QED
  BY <1>2, <1>3, <1>6, <1>7 DEF FeedInv, FailScroll

-----------------------------------------------------------------------------
\* As many items as there are at most.
LEMMA ListFits ==
  ASSUME NEW l \in Seq(Items), \A i, j \in 1..Len(l) : l[i] = l[j] => i = j
  PROVE  Len(l) <= MaxItem
<1>1. Len(l) \in Nat /\ MaxItem \in Nat
  BY LenProperties, FeedConstants
<1>2. \A n \in Nat : IsFiniteSet(1..n) /\ Cardinality(1..n) = n
  <2>1. ASSUME NEW n \in Nat PROVE IsFiniteSet(1..n) /\ Cardinality(1..n) = n
    <3>1. 1 \in Int /\ n \in Int
      OBVIOUS
    <3>2. IsFiniteSet(1..n) /\ Cardinality(1..n) = IF 1 > n THEN 0 ELSE n - 1 + 1
      BY <3>1, FS_Interval
    <3>3. QED
      BY <3>2
  <2>2. QED
    BY <2>1
<1>3. l \in [1..Len(l) -> Items]
  BY LenProperties
<1>4. l \in Injection(1..Len(l), Items)
  BY <1>3 DEF Injection, IsInjective
<1>5. QED
  BY <1>1, <1>2, <1>4, FS_Injection DEF Items

\* A sequence with an item more, and with an item less.
With(l, x, i) == SubSeq(l, 1, i) \o <<x>> \o SubSeq(l, i + 1, Len(l))

Without(l, i) == SubSeq(l, 1, i - 1) \o SubSeq(l, i + 1, Len(l))

\* The places of the items in it.
WithPlaces(m, l, x, i) ==
  /\ m \in Seq(Items) /\ Len(m) = Len(l) + 1
  /\ \A j \in 1..Len(m) :
       \/ j = i + 1 /\ m[j] = x
       \/ \E k \in 1..Len(l) : /\ k <= j /\ m[j] = l[k] /\ j # i + 1
                               /\ k = IF j <= i THEN j ELSE j - 1
  /\ \A k \in 1..Len(l) : \E j \in 1..Len(m) : m[j] = l[k]

WithoutPlaces(m, l, i) ==
  /\ m \in Seq(Items) /\ Len(m) = Len(l) - 1
  /\ \A j \in 1..Len(m) :
       \E k \in 1..Len(l) : k >= j /\ m[j] = l[k] /\ k = IF j < i THEN j ELSE j + 1

LEMMA WithItem ==
  ASSUME NEW l \in Seq(Items), NEW x \in Items, NEW i \in 0..Len(l)
  PROVE  WithPlaces(With(l, x, i), l, x, i)
<1> DEFINE m == With(l, x, i)
<1>1. PICK z \in Nat : z = Len(l)
  BY LenProperties
<1>0. PICK a \in Nat : a = 0
  OBVIOUS
<1> DEFINE h == SubSeq(l, a + 1, i)
           t == SubSeq(l, i + 1, z)
           e == <<x>>
<1>2. i \in Nat /\ i <= z /\ z <= Len(l) /\ i <= Len(l) /\ z \in Int /\ i \in Int
  BY <1>1
<1>3. /\ h \in Seq(Items) /\ Len(h) = Greatest(i - a, 0)
      /\ \A j \in 1..(i - a) : h[j] = l[a + j]
  BY <1>2, Windows
<1>4. /\ t \in Seq(Items) /\ Len(t) = Greatest(z - i, 0)
      /\ \A j \in 1..(z - i) : t[j] = l[i + j]
  BY <1>2, Windows
<1>5. e \in Seq(Items) /\ Len(e) = 1 /\ e[1] = x
  OBVIOUS
<1>6. Len(h) = i /\ Len(t) = z - i /\ \A j \in 1..i : h[j] = l[j]
  BY <1>0, <1>1, <1>2, <1>3, <1>4 DEF Greatest
<1>7. m = (h \o e) \o t
  BY <1>0, <1>1 DEF With
<1> HIDE DEF h, t, e, m
<1>8. /\ h \o e \in Seq(Items) /\ Len(h \o e) = i + 1
      /\ \A j \in 1..(i + 1) : (h \o e)[j] = IF j <= i THEN h[j] ELSE e[j - i]
  <2>1. /\ h \o e \in Seq(Items) /\ Len(h \o e) = Len(h) + Len(e)
        /\ \A j \in 1..(Len(h) + Len(e)) :
             (h \o e)[j] = IF j <= Len(h) THEN h[j] ELSE e[j - Len(h)]
    BY <1>3, <1>5, ConcatProperties
  <2>2. QED
    BY <1>5, <1>6, <2>1
<1> DEFINE g == h \o e
<1>9. g \in Seq(Items) /\ Len(g) = i + 1 /\ \A j \in 1..(i + 1) : g[j] = IF j <= i THEN l[j] ELSE x
  <2>1. \A j \in 1..(i + 1) : j <= i \/ j - i = 1
    BY <1>2
  <2>2. \A j \in 1..(i + 1) : j <= i => j \in 1..i
    BY <1>2
  <2>3. QED
    BY <1>5, <1>6, <1>8, <2>1, <2>2
<1> HIDE DEF g
<1>10. /\ m \in Seq(Items) /\ Len(m) = (i + 1) + (z - i)
       /\ \A j \in 1..((i + 1) + (z - i)) : m[j] = IF j <= i + 1 THEN g[j] ELSE t[j - (i + 1)]
  <2>1. /\ g \o t \in Seq(Items) /\ Len(g \o t) = Len(g) + Len(t)
        /\ \A j \in 1..(Len(g) + Len(t)) :
             (g \o t)[j] = IF j <= Len(g) THEN g[j] ELSE t[j - Len(g)]
    BY <1>4, <1>9, ConcatProperties
  <2>2. m = g \o t
    BY <1>7 DEF g
  <2>3. QED
    BY <1>6, <1>9, <2>1, <2>2
<1>11. (i + 1) + (z - i) = z + 1
  BY <1>2
<1>12. ASSUME NEW j \in 1..(z + 1)
       PROVE  m[j] = IF j <= i THEN l[j] ELSE IF j = i + 1 THEN x ELSE l[j - 1]
  <2>1. CASE j <= i + 1
    <3>1. j \in 1..(i + 1) /\ (j <= i \/ j = i + 1)
      BY <1>2, <2>1
    <3>2. QED
      BY <1>2, <1>9, <1>10, <1>11, <2>1, <3>1
  <2>2. CASE ~(j <= i + 1)
    <3>1. j - (i + 1) \in 1..(z - i) /\ i + (j - (i + 1)) = j - 1 /\ ~(j <= i) /\ j # i + 1
      BY <1>2, <2>2
    <3>2. QED
      BY <1>4, <1>10, <1>11, <2>2, <3>1
  <2>3. QED
    BY <2>1, <2>2
<1>13. ASSUME NEW j \in 1..(z + 1)
       PROVE  \/ j = i + 1 /\ m[j] = x
              \/ \E k \in 1..z : /\ k <= j /\ m[j] = l[k] /\ j # i + 1
                                 /\ k = IF j <= i THEN j ELSE j - 1
  <2>1. CASE j <= i
    <3>1. j \in 1..z /\ j <= j /\ j # i + 1
      BY <1>2, <2>1
    <3>2. QED
      BY <1>12, <2>1, <3>1
  <2>2. CASE j > i + 1
    <3>1. j - 1 \in 1..z /\ j - 1 <= j /\ ~(j <= i) /\ j # i + 1
      BY <1>2, <2>2
    <3>2. QED
      BY <1>12, <3>1
  <2>3. CASE j = i + 1
    <3>1. ~(j <= i)
      BY <1>2, <2>3
    <3>2. QED
      BY <1>12, <2>3, <3>1
  <2>4. j <= i \/ j > i + 1 \/ j = i + 1
    BY <1>2
  <2>5. QED
    BY <2>1, <2>2, <2>3, <2>4
<1>14. ASSUME NEW k \in 1..z
       PROVE  \E j \in 1..(z + 1) : m[j] = l[k]
  <2>1. CASE k <= i
    <3>1. k \in 1..(z + 1)
      BY <1>2
    <3>2. QED
      BY <1>12, <2>1, <3>1
  <2>2. CASE ~(k <= i)
    <3>1. k + 1 \in 1..(z + 1) /\ ~(k + 1 <= i) /\ k + 1 # i + 1 /\ (k + 1) - 1 = k
      BY <1>2, <2>2
    <3>2. QED
      BY <1>12, <3>1
  <2>3. QED
    BY <2>1, <2>2
<1>15. QED
  <2>1. m \in Seq(Items) /\ Len(m) = z + 1
    BY <1>10, <1>11
  <2>2. QED
    BY <1>1, <1>13, <1>14, <2>1 DEF WithPlaces, m

LEMMA WithoutItem ==
  ASSUME NEW l \in Seq(Items), NEW i \in 1..Len(l)
  PROVE  WithoutPlaces(Without(l, i), l, i)
<1> DEFINE m == Without(l, i)
<1>1. PICK z \in Nat : z = Len(l)
  BY LenProperties
<1> DEFINE h == SubSeq(l, 0 + 1, i - 1)
           t == SubSeq(l, i + 1, z)
<1>2. i \in Nat /\ i <= z /\ i > 0 /\ z <= Len(l) /\ i - 1 <= Len(l) /\ z \in Int /\ i - 1 \in Int
  BY <1>1
<1>3. /\ h \in Seq(Items) /\ Len(h) = Greatest((i - 1) - 0, 0)
      /\ \A j \in 1..((i - 1) - 0) : h[j] = l[0 + j]
  BY <1>2, Windows
<1>4. /\ t \in Seq(Items) /\ Len(t) = Greatest(z - i, 0)
      /\ \A j \in 1..(z - i) : t[j] = l[i + j]
  BY <1>2, Windows
<1>5. Len(h) = i - 1 /\ Len(t) = z - i /\ \A j \in 1..(i - 1) : h[j] = l[j]
  BY <1>1, <1>2, <1>3, <1>4 DEF Greatest
<1>6. m = h \o t
  BY <1>1 DEF Without
<1> HIDE DEF h, t, m
<1>7. /\ m \in Seq(Items) /\ Len(m) = (i - 1) + (z - i)
      /\ \A j \in 1..((i - 1) + (z - i)) : m[j] = IF j <= i - 1 THEN h[j] ELSE t[j - (i - 1)]
  <2>1. /\ h \o t \in Seq(Items) /\ Len(h \o t) = Len(h) + Len(t)
        /\ \A j \in 1..(Len(h) + Len(t)) :
             (h \o t)[j] = IF j <= Len(h) THEN h[j] ELSE t[j - Len(h)]
    BY <1>3, <1>4, ConcatProperties
  <2>2. QED
    BY <1>5, <1>6, <2>1
<1>8. (i - 1) + (z - i) = z - 1
  BY <1>2
<1>9. ASSUME NEW j \in 1..(z - 1)
      PROVE  \E k \in 1..z : k >= j /\ m[j] = l[k] /\ k = IF j < i THEN j ELSE j + 1
  <2>1. CASE j < i
    <3>1. j \in 1..z /\ j >= j /\ j <= i - 1 /\ j \in 1..(i - 1)
      BY <1>2, <2>1
    <3>2. QED
      BY <1>5, <1>7, <1>8, <2>1, <3>1
  <2>2. CASE ~(j < i)
    <3>1. /\ j + 1 \in 1..z /\ j + 1 >= j /\ ~(j <= i - 1)
          /\ j - (i - 1) \in 1..(z - i) /\ i + (j - (i - 1)) = j + 1
      BY <1>2, <2>2
    <3>2. QED
      BY <1>4, <1>7, <1>8, <2>2, <3>1
  <2>3. QED
    BY <2>1, <2>2
<1>10. QED
  BY <1>1, <1>7, <1>8, <1>9 DEF WithoutPlaces, m

-----------------------------------------------------------------------------
\* What the list and its order hold.
LEMMA OrderSound ==
  ASSUME ListSound, NEW kind
  PROVE  /\ Len(list) \in Nat /\ Len(list) <= MaxItem /\ MaxItem \in Nat
         /\ \A i \in 1..Len(list) : list[i] \in Items
         /\ OnePlace(ViewOrder(kind, list), list)
         /\ \A i \in 1..Len(list) : ViewOrder(kind, list)[i] \in Items
         /\ \A i \in 1..Len(list) : \E k \in 1..Len(list) : ViewOrder(kind, list)[k] = list[i]
<1>1. /\ list \in Seq(Items) /\ jitter \in [Items -> 0..1] /\ Len(list) <= MaxItem
      /\ \A i, j \in 1..Len(list) : list[i] = list[j] => i = j
  BY DEF ListSound
<1>2. /\ ViewOrder(kind, list) \in Seq(Items) /\ Len(ViewOrder(kind, list)) = Len(list)
      /\ \A i, j \in 1..Len(list) :
           ViewOrder(kind, list)[i] = ViewOrder(kind, list)[j] => i = j
      /\ \A i \in 1..Len(list) : \E k \in 1..Len(list) : ViewOrder(kind, list)[k] = list[i]
  BY <1>1, OrderOfItems
<1>3. \A i \in 1..Len(list) : list[i] \in Items /\ ViewOrder(kind, list)[i] \in Items
  BY <1>1, <1>2, ElementOfSeq
<1>4. Len(list) \in Nat /\ MaxItem \in Nat
  BY <1>1, LenProperties, FeedConstants
<1>5. QED
  BY <1>1, <1>2, <1>3, <1>4 DEF OnePlace

\* Before anything is shown.
LEMMA NothingShown ==
  ASSUME NEW o, NEW l, \A i \in 1..Len(l) : o[i] \in Items, NEW v
  PROVE  UnseenBehind(o, l, v, NoFetch, [x \in Items |-> 0])
BY NothingFetched DEF UnseenBehind

LEMMA LeaveInv == FeedInv /\ Leave => FeedInv'
<1> SUFFICES ASSUME FeedInv, Leave PROVE FeedInv'
  OBVIOUS
<1>1. ListSound' /\ ActsSound'
  BY DEF FeedInv, ListSound, ActsSound, Leave
<1>2. ViewSound'
  BY NothingFetched DEF ViewSound, Leave, NoView
<1>3. FetchSound'
  BY NothingFetched DEF FetchSound, Leave
<1>4. Order' = ViewOrder("none", list)
  <2>1. view'.kind = "none" /\ list' = list /\ jitter' = jitter
    BY DEF Leave, NoView
  <2>2. QED
    BY <2>1, ViewOrderStays
<1>5. (Passed => SeenUpTo(Order, list, view, fetch, start, shown))'
  BY DEF SeenUpTo, Leave
<1>6. (Undisturbed => UnseenBehind(Order, list, view, fetch, shown))'
  <2>1. \A i \in 1..Len(list) : ViewOrder("none", list)[i] \in Items
    BY OrderSound DEF FeedInv
  <2>2. UnseenBehind(ViewOrder("none", list), list, NoView, NoFetch, [x \in Items |-> 0])
    BY <2>1, NothingShown
  <2>3. QED
    BY <1>4, <2>2 DEF Leave
<1>7. QED
  BY <1>1, <1>2, <1>3, <1>5, <1>6 DEF FeedInv, Leave

LEMMA RewindInv ==
  ASSUME NEW offset \in 1..MaxItem
  PROVE  FeedInv /\ Rewind(offset) => FeedInv'
<1> SUFFICES ASSUME FeedInv, Rewind(offset) PROVE FeedInv'
  OBVIOUS
<1>1. ListSound' /\ ActsSound'
  BY DEF FeedInv, ListSound, ActsSound, Rewind
<1>2. /\ view' \in Views /\ view'.kind = view.kind /\ view'.offset = offset
      /\ view'.more = TRUE /\ view'.ended = FALSE
      /\ offset < view.offset /\ view.offset \in Nat /\ view.kind # "none"
  <2>1. PICK v \in Views : v = view
    BY DEF FeedInv, ViewSound
  <2>2. view' = [v EXCEPT !.offset = offset, !.more = TRUE, !.ended = FALSE]
    BY <2>1 DEF Rewind
  <2>a. view' \in Views
    <3>1. offset \in 0..MaxItem
      BY FeedConstants
    <3>2. QED
      BY <2>2, <3>1 DEF Views
  <2>3. /\ view' \in Views /\ view'.kind = v.kind /\ view'.offset = offset
        /\ view'.more = TRUE /\ view'.ended = FALSE
    BY <2>2, <2>a DEF Views
  <2>4. offset \in FirstCount..(view.offset - 1) /\ v.offset \in Nat
    BY FeedConstants DEF Rewind, Views
  <2>5. offset < v.offset
    BY <2>1, <2>4, FeedConstants
  <2>6. QED
    BY <2>1, <2>3, <2>4, <2>5 DEF FeedInv, ViewSound, Rewind
<1>3. ViewSound'
  BY <1>2 DEF ViewSound
<1>4. FetchSound'
  BY NothingFetched DEF FetchSound, Rewind
<1>5. Order' = Order
  <2>1. view'.kind = view.kind /\ list' = list /\ jitter' = jitter
    BY <1>2 DEF Rewind
  <2>2. Order' = ViewOrder(view.kind, list)
    BY <2>1, ViewOrderStays
  <2>3. QED
    BY <2>2 DEF Order
<1>6. (Passed => SeenUpTo(Order, list, view, fetch, start, shown))'
  <2>1. SUFFICES ASSUME Passed' PROVE SeenUpTo(Order, list, view', NoFetch, start, shown)
    BY <1>5 DEF Rewind
  <2>2. Passed /\ fetch = NoFetch
    BY <1>2, <2>1 DEF Passed, Rewind
  <2>3. SeenUpTo(Order, list, view, NoFetch, start, shown)
    BY <2>2 DEF FeedInv
  <2>4. Reached(view, NoFetch) = view.offset /\ Reached(view', NoFetch) = offset
    BY <1>2, NothingFetched
  <2>5. Len(list) \in Nat
    BY OrderSound DEF FeedInv
  <2>6. QED
    BY <1>2, <2>3, <2>4, <2>5, NothingFetched DEF SeenUpTo
<1>7. ~Undisturbed'
  BY DEF Undisturbed, Rewind
<1>8. QED
  BY <1>1, <1>3, <1>4, <1>6, <1>7 DEF FeedInv, Rewind

\* A post is written; what has been shown is still there, further down.
LEMMA InsertInv ==
  ASSUME NEW x \in Items, NEW i \in 0..Len(list)
  PROVE  FeedInv /\ Insert(x, i) => FeedInv'
<1> SUFFICES ASSUME FeedInv, Insert(x, i) PROVE FeedInv'
  OBVIOUS
<1>1. /\ list \in Seq(Items) /\ Len(list) \in Nat
      /\ \A j, k \in 1..Len(list) : list[j] = list[k] => j = k
  BY LenProperties DEF FeedInv, ListSound
<1>2. \A j \in 1..Len(list) : list[j] # x
  BY DEF Insert
<1>a. WithPlaces(list', list, x, i)
  <2>1. WithPlaces(With(list, x, i), list, x, i)
    BY <1>1, WithItem
  <2>2. list' = With(list, x, i)
    BY DEF Insert, With
  <2>3. QED
    BY <2>1, <2>2
<1>3. /\ list' \in Seq(Items) /\ Len(list') = Len(list) + 1
      /\ \A j \in 1..Len(list') :
           \/ j = i + 1 /\ list'[j] = x
           \/ \E k \in 1..Len(list) : /\ k <= j /\ list'[j] = list[k] /\ j # i + 1
                                      /\ k = IF j <= i THEN j ELSE j - 1
      /\ \A k \in 1..Len(list) : \E j \in 1..Len(list') : list'[j] = list[k]
  BY <1>a DEF WithPlaces
<1>4. \A j, k \in 1..Len(list') : list'[j] = list'[k] => j = k
  <2>1. ASSUME NEW j \in 1..Len(list'), NEW k \in 1..Len(list'), list'[j] = list'[k]
        PROVE  j = k
    <3>1. CASE j = i + 1 /\ list'[j] = x
      BY <1>2, <1>3, <2>1, <3>1
    <3>2. CASE k = i + 1 /\ list'[k] = x
      BY <1>2, <1>3, <2>1, <3>2
    <3>3. CASE /\ j # i + 1 /\ k # i + 1
               /\ \E h \in 1..Len(list) : /\ list'[j] = list[h]
                                          /\ h = IF j <= i THEN j ELSE j - 1
               /\ \E h \in 1..Len(list) : /\ list'[k] = list[h]
                                          /\ h = IF k <= i THEN k ELSE k - 1
      <4>1. PICK f \in 1..Len(list) : list'[j] = list[f] /\ f = IF j <= i THEN j ELSE j - 1
        BY <3>3
      <4>2. PICK g \in 1..Len(list) : list'[k] = list[g] /\ g = IF k <= i THEN k ELSE k - 1
        BY <3>3
      <4>3. f = g
        BY <1>1, <2>1, <4>1, <4>2
      <4>4. j \in Int /\ k \in Int /\ i \in Int
        BY <1>1, <1>3
      <4>5. QED
        BY <3>3, <4>1, <4>2, <4>3, <4>4
    <3>4. QED
      BY <1>3, <3>1, <3>2, <3>3
  <2>2. QED
    BY <2>1
<1>5. ListSound'
  <2>1. Len(list') <= MaxItem
    BY <1>3, <1>4, ListFits
  <2>2. QED
    BY <1>3, <1>4, <2>1 DEF ListSound, FeedInv, Insert
<1>6. ViewSound' /\ FetchSound' /\ ActsSound'
  BY DEF FeedInv, ViewSound, FetchSound, ActsSound, Reached, Insert
<1>7. (Passed => SeenUpTo(Order, list, view, fetch, start, shown))'
  <2>1. SUFFICES ASSUME Passed' PROVE SeenUpTo(Order', list', view, fetch, start, shown)
    BY DEF Insert
  <2>2. Passed /\ view.kind \notin Pooled
    BY <2>1 DEF Passed, Insert
  <2>3. Order = list /\ Order' = list'
    BY <2>2 DEF Order, ViewOrder, Insert
  <2>4. SeenUpTo(list, list, view, fetch, start, shown)
    BY <2>2, <2>3 DEF FeedInv
  <2>5. \A y \in start : \E j \in 1..Len(list') : list'[j] = y
    BY <1>3, <2>4 DEF SeenUpTo
  <2>6. ASSUME NEW j \in 1..Len(list'), list'[j] \in start
        PROVE  \E k \in 1..Len(list) : k <= j /\ list'[j] = list[k]
    <3>1. x \notin start
      BY <1>2, <2>4 DEF SeenUpTo
    <3>2. QED
      BY <1>3, <2>6, <3>1
  <2>7. view.offset \in Int /\ Reached(view, fetch) \in Int
    BY ReachedPlace DEF FeedInv
  <2>8. ASSUME NEW j \in 1..Len(list'), list'[j] \in start
        PROVE  /\ j <= view.offset \/ view.ended => shown[list'[j]] > 0
               /\ j <= Reached(view, fetch) =>
                    \/ shown[list'[j]] > 0
                    \/ \E h \in 1..Len(fetch.items) : fetch.items[h] = list'[j]
    <3>1. PICK k \in 1..Len(list) : k <= j /\ list'[j] = list[k]
      BY <2>6, <2>8
    <3>2. /\ k <= view.offset \/ view.ended => shown[list[k]] > 0
          /\ k <= Reached(view, fetch) =>
               \/ shown[list[k]] > 0
               \/ \E h \in 1..Len(fetch.items) : fetch.items[h] = list[k]
      BY <2>4, <2>8, <3>1 DEF SeenUpTo
    <3>3. /\ j <= view.offset => k <= view.offset
          /\ j <= Reached(view, fetch) => k <= Reached(view, fetch)
      BY <1>3, <2>7, <3>1
    <3>4. QED
      BY <3>1, <3>2, <3>3
  <2>9. QED
    BY <2>3, <2>5, <2>8 DEF SeenUpTo
<1>8. ~Undisturbed'
  BY DEF Undisturbed, Insert
<1>9. QED
  <2>1. changed' \in 0..MaxMoves /\ disturbed' \subseteq {"grown", "shrunk", "moved", "rewound"}
    BY FeedConstants DEF FeedInv, Insert
  <2>2. QED
    BY <1>5, <1>6, <1>7, <1>8, <2>1 DEF FeedInv, Insert

\* A post is deleted: nothing shows again, as all that is left moves up.
LEMMA RemoveInv ==
  ASSUME NEW i \in 1..Len(list)
  PROVE  FeedInv /\ Remove(i) => FeedInv'
<1> SUFFICES ASSUME FeedInv, Remove(i) PROVE FeedInv'
  OBVIOUS
<1>1. /\ list \in Seq(Items) /\ Len(list) \in Nat /\ Len(list) <= MaxItem /\ MaxItem \in Nat
      /\ \A j, k \in 1..Len(list) : list[j] = list[k] => j = k
  BY LenProperties, FeedConstants DEF FeedInv, ListSound
<1>2. WithoutPlaces(list', list, i)
  <2>1. WithoutPlaces(Without(list, i), list, i)
    BY <1>1, WithoutItem
  <2>2. list' = Without(list, i)
    BY DEF Remove, Without
  <2>3. QED
    BY <2>1, <2>2
<1>3. /\ list' \in Seq(Items) /\ Len(list') = Len(list) - 1
      /\ \A j \in 1..Len(list') :
           \E k \in 1..Len(list) : k >= j /\ list'[j] = list[k] /\ k = IF j < i THEN j ELSE j + 1
  BY <1>2 DEF WithoutPlaces
<1>4. \A j, k \in 1..Len(list') : list'[j] = list'[k] => j = k
  <2>1. ASSUME NEW j \in 1..Len(list'), NEW k \in 1..Len(list'), list'[j] = list'[k]
        PROVE  j = k
    <3>1. PICK f \in 1..Len(list) : list'[j] = list[f] /\ f = IF j < i THEN j ELSE j + 1
      BY <1>3
    <3>2. PICK g \in 1..Len(list) : list'[k] = list[g] /\ g = IF k < i THEN k ELSE k + 1
      BY <1>3
    <3>3. f = g
      BY <1>1, <2>1, <3>1, <3>2
    <3>4. j \in Int /\ k \in Int /\ i \in Int
      BY <1>1, <1>3
    <3>5. QED
      BY <3>1, <3>2, <3>3, <3>4
  <2>2. QED
    BY <2>1
<1>5. ListSound'
  <2>1. Len(list') <= MaxItem
    BY <1>1, <1>3
  <2>2. QED
    BY <1>3, <1>4, <2>1 DEF ListSound, FeedInv, Remove
<1>6. ViewSound' /\ FetchSound' /\ ActsSound'
  BY DEF FeedInv, ViewSound, FetchSound, ActsSound, Reached, Remove
<1>7. ~Passed'
  BY DEF Passed, Remove
<1>8. (Undisturbed => UnseenBehind(Order, list, view, fetch, shown))'
  <2>1. SUFFICES ASSUME Undisturbed' PROVE UnseenBehind(Order', list', view, fetch, shown)
    BY DEF Remove
  <2>2. Undisturbed /\ view.kind \notin Pooled
    BY <2>1 DEF Undisturbed, Remove
  <2>3. Order = list /\ Order' = list'
    BY <2>2 DEF Order, ViewOrder, Remove
  <2>4. UnseenBehind(list, list, view, fetch, shown)
    BY <2>2, <2>3 DEF FeedInv
  <2>5. view.offset \in Int /\ Reached(view, fetch) \in Int
    BY ReachedPlace DEF FeedInv
  <2>6. ASSUME NEW j \in 1..Len(list')
        PROVE  /\ j > view.offset => shown[list'[j]] = 0
               /\ j > Reached(view, fetch) =>
                    \A h \in 1..Len(fetch.items) : fetch.items[h] # list'[j]
    <3>1. PICK k \in 1..Len(list) : k >= j /\ list'[j] = list[k]
      BY <1>3
    <3>2. /\ k > view.offset => shown[list[k]] = 0
          /\ k > Reached(view, fetch) =>
               \A h \in 1..Len(fetch.items) : fetch.items[h] # list[k]
      BY <2>4 DEF UnseenBehind
    <3>3. /\ j > view.offset => k > view.offset
          /\ j > Reached(view, fetch) => k > Reached(view, fetch)
      BY <1>3, <2>5, <3>1
    <3>4. QED
      BY <3>1, <3>2, <3>3
  <2>7. QED
    BY <2>3, <2>4, <2>6 DEF UnseenBehind
<1>9. QED
  <2>1. changed' \in 0..MaxMoves /\ disturbed' \subseteq {"grown", "shrunk", "moved", "rewound"}
    BY FeedConstants DEF FeedInv, Remove
  <2>2. QED
    BY <1>5, <1>6, <1>7, <1>8, <2>1 DEF FeedInv, Remove

\* An item moves where heat decides.
LEMMA ReheatInv ==
  ASSUME NEW i \in 1..Len(list)
  PROVE  FeedInv /\ Reheat(i) => FeedInv'
<1> SUFFICES ASSUME FeedInv, Reheat(i) PROVE FeedInv'
  OBVIOUS
<1>1. /\ list \in Seq(Items) /\ Len(list) \in Nat /\ Len(list) <= MaxItem
      /\ \A j, k \in 1..Len(list) : list[j] = list[k] => j = k
      /\ \A j \in 1..Len(list) : list[j] \in Items
  BY LenProperties, ElementOfSeq DEF FeedInv, ListSound
<1>2. list' = [list EXCEPT ![i] = list[i + 1], ![i + 1] = list[i]] /\ i + 1 \in 1..Len(list)
  BY <1>1 DEF Reheat
<1>3. i \in 1..Len(list) /\ i # i + 1
  BY <1>1
<1>4. list \in [1..Len(list) -> Items]
  BY <1>1, LenProperties
<1>5. /\ list' \in [1..Len(list) -> Items]
      /\ \A j \in 1..Len(list) : list'[j] = list[IF j = i THEN i + 1 ELSE IF j = i + 1 THEN i ELSE j]
  BY <1>1, <1>2, <1>3, <1>4
<1>6. list' \in Seq(Items) /\ Len(list') = Len(list)
  BY <1>1, <1>5
<1>7. \A j, k \in 1..Len(list') : list'[j] = list'[k] => j = k
  <2> DEFINE at(j) == IF j = i THEN i + 1 ELSE IF j = i + 1 THEN i ELSE j
  <2>1. ASSUME NEW j \in 1..Len(list), NEW k \in 1..Len(list), list'[j] = list'[k]
        PROVE  j = k
    <3>1. at(j) \in 1..Len(list) /\ at(k) \in 1..Len(list)
      BY <1>2
    <3>2. at(j) = at(k)
      BY <1>1, <1>5, <2>1, <3>1
    <3>3. QED
      BY <1>3, <3>2
  <2>2. QED
    BY <1>6, <2>1
<1>8. ListSound'
  BY <1>1, <1>6, <1>7 DEF ListSound, FeedInv, Reheat
<1>9. ViewSound' /\ FetchSound' /\ ActsSound'
  BY DEF FeedInv, ViewSound, FetchSound, ActsSound, Reached, Reheat
<1>10. ~Passed' /\ ~Undisturbed'
  BY DEF Passed, Undisturbed, Reheat
<1>11. QED
  <2>1. changed' \in 0..MaxMoves /\ disturbed' \subseteq {"grown", "shrunk", "moved", "rewound"}
    BY FeedConstants DEF FeedInv, Reheat
  <2>2. QED
    BY <1>8, <1>9, <1>10, <2>1 DEF FeedInv, Reheat

-----------------------------------------------------------------------------
\* A tool that has read the next places of the order, and shows them.
LEMMA NextShown ==
  ASSUME FeedInv, UNCHANGED <<list, jitter, start, disturbed, changed, acting, acts, answers>>,
         NEW piece \in Seq(Items), NextPiece(Order, list, view, fetch, piece),
         view' \in Views, view'.kind = view.kind, view.kind # "none",
         view'.offset = Reached(view, fetch) + Len(piece), ~(view'.more /\ view'.ended),
         view'.ended => view'.offset >= Len(list),
         fetch' = NoFetch, shown' = Counting(shown, fetch.items \o piece)
  PROVE  FeedInv'
<1>1. fetch \in Fetches /\ ListSound /\ shown \in [Items -> Nat] /\ list \in Seq(Items)
  BY DEF FeedInv, FetchSound, ListSound
<1>2. /\ OnePlace(Order, list)
      /\ \A i \in 1..Len(list) : Order[i] \in Items
  BY <1>1, OrderSound DEF Order
<1>3. Order' = Order
  <2>1. Order' = ViewOrder(view.kind, list)
    BY ViewOrderStays
  <2>2. QED
    BY <2>1 DEF Order
<1>4. /\ SeenUpTo(Order, list, view, fetch, start, shown) =>
           SeenUpTo(Order, list, view', NoFetch, start, shown')
      /\ UnseenBehind(Order, list, view, fetch, shown)
           => UnseenBehind(Order, list, view', NoFetch, shown')
  BY <1>1, <1>2, PieceShown
<1>5. Passed' = Passed /\ Undisturbed' = Undisturbed
  BY DEF Passed, Undisturbed
<1>6. ListSound' /\ ActsSound'
  BY <1>1 DEF FeedInv, ListSound, ActsSound
<1>7. ViewSound'
  BY DEF ViewSound
<1>8. FetchSound'
  BY NothingFetched DEF FetchSound
<1>9. shown' \in [Items -> Nat]
  <2>1. fetch.items \in Seq(Items)
    BY <1>1 DEF Fetches
  <2>2. fetch.items \o piece \in Seq(Items)
    BY <2>1, Joined
  <2>3. QED
    BY <1>1, <2>2, Counted
<1>10. (Passed => SeenUpTo(Order, list, view, fetch, start, shown))'
  BY <1>3, <1>4, <1>5 DEF FeedInv
<1>11. (Undisturbed => UnseenBehind(Order, list, view, fetch, shown))'
  BY <1>3, <1>4, <1>5 DEF FeedInv
<1>12. QED
  BY <1>6, <1>7, <1>8, <1>9, <1>10, <1>11 DEF FeedInv

LEMMA ScrollCountedInv ==
  ASSUME NEW count \in 1..MaxCount
  PROVE  FeedInv /\ ScrollCounted(count) => FeedInv'
<1> SUFFICES ASSUME FeedInv, ScrollCounted(count) PROVE FeedInv'
  OBVIOUS
<1>1. /\ ListSound /\ Len(list) \in Nat /\ Len(list) <= MaxItem /\ MaxItem \in Nat
      /\ fetch = NoFetch /\ count \in Nat /\ count > 0
      /\ list \in Seq(Items) /\ jitter \in [Items -> 0..1]
  BY OrderSound, FeedConstants DEF FeedInv, FetchSound, ScrollCounted, ListSound
<1>2. PICK n \in 0..MaxItem, k \in Kinds \ Paged : n = view.offset /\ k = view.kind
  BY DEF FeedInv, ViewSound, Views, ScrollCounted
<1> DEFINE piece == Window(k, n, count)
<1>7. Order = ViewOrder(k, list)
  BY <1>2 DEF Order
<1>3. /\ piece \in Seq(Items) /\ Len(piece) = Greatest(Least(n + count, Len(list)) - n, 0)
      /\ \A i \in 1..Len(piece) : piece[i] = Order[n + i]
  <2>1. n \in Nat
    BY <1>1
  <2>2. WindowOf(piece, Order, n, count, Len(list))
    BY <1>1, <1>7, <2>1, ViewWindow
  <2>3. QED
    BY <2>2 DEF WindowOf
<1>4. /\ view' = [kind |-> k, offset |-> n + Len(piece),
                  more |-> n + Len(piece) < Len(list), ended |-> ~(n + Len(piece) < Len(list))]
      /\ shown' = Counting(shown, piece)
  BY <1>2 DEF ScrollCounted, Keep
<1> HIDE DEF piece
<1>5. /\ Len(piece) \in Nat /\ (Len(piece) = 0 \/ n + Len(piece) <= Len(list))
      /\ n + Len(piece) \in 0..MaxItem
  <2>1. PICK z \in Nat : z = Len(piece)
    BY <1>3, LenProperties
  <2>2. (z = 0 \/ n + z <= Len(list)) /\ n + z \in 0..MaxItem
    BY <1>1, <1>3, <2>1 DEF Least, Greatest
  <2>3. QED
    BY <2>1, <2>2
<1>6. Reached(view, fetch) = n /\ Len(fetch.items) = 0 /\ fetch.items = << >>
  BY <1>1, <1>2, NothingFetched
<1>8. NextPiece(Order, list, view, fetch, piece)
  BY <1>1, <1>2, <1>3, <1>5, <1>6, <1>7 DEF NextPiece
<1>9. /\ view' \in Views /\ view'.kind = view.kind /\ view.kind # "none"
      /\ view'.offset = Reached(view, fetch) + Len(piece) /\ ~(view'.more /\ view'.ended)
      /\ view'.ended => view'.offset >= Len(list)
  <2>1. PICK e \in 0..MaxItem : e = n + Len(piece)
    BY <1>5
  <2>2. view' = [kind |-> k, offset |-> e, more |-> e < Len(list),
                 ended |-> ~(e < Len(list))]
    BY <1>4, <2>1
  <2>3. view' \in Views
    BY <2>2 DEF Views, Kinds
  <2>4. view'.kind = k /\ view'.offset = e /\ ~(view'.more /\ view'.ended)
    BY <2>2
  <2>5. view'.ended => e >= Len(list)
    <3>1. view'.ended => ~(e < Len(list))
      BY <2>2
    <3>2. e \in Int
      BY <1>1
    <3>3. QED
      BY <1>1, <3>1, <3>2
  <2>6. k # "none"
    BY DEF Kinds
  <2>7. QED
    BY <1>2, <1>4, <1>6, <2>6, <2>1, <2>3, <2>4, <2>5
<1>10. fetch.items \o piece = piece
  BY <1>3, <1>6
<1>11. fetch' = NoFetch /\ shown' = Counting(shown, fetch.items \o piece)
  BY <1>1, <1>4, <1>10 DEF ScrollCounted
<1>12. QED
  BY <1>3, <1>8, <1>9, <1>11, NextShown DEF ScrollCounted

-----------------------------------------------------------------------------
\* What a tool shows that opens a view.
LEMMA FirstShown ==
  ASSUME FeedInv, UNCHANGED <<list, jitter, fetch, changed, acting, acts, answers>>,
         fetch = NoFetch, NEW kind \in Kinds, NEW piece \in Seq(Items),
         Len(piece) = 0 \/ Len(piece) <= Len(list),
         \A i \in 1..Len(piece) : piece[i] = ViewOrder(kind, list)[i],
         view' \in Views, view'.kind = kind, view'.offset = Len(piece),
         ~(view'.more /\ view'.ended), view'.ended => view'.offset >= Len(list),
         start' = {list[i] : i \in 1..Len(list)}, disturbed' = {},
         shown' = Counting([x \in Items |-> 0], piece)
  PROVE  FeedInv'
<1> DEFINE o == ViewOrder(kind, list)
           none == [x \in Items |-> 0]
<1>1. /\ ListSound /\ list \in Seq(Items) /\ Len(list) \in Nat /\ NoFetch \in Fetches
      /\ none \in [Items -> Nat] /\ \A i \in 1..Len(list) : list[i] \in Items
  BY OrderSound, NothingFetched DEF FeedInv, ListSound
<1>2. OnePlace(o, list) /\ \A i \in 1..Len(list) : o[i] \in Items
  BY <1>1, OrderSound
<1>3. Order' = o
  BY ViewOrderStays
<1>4. Len(piece) \in Nat /\ Reached(NoView, NoFetch) = 0 /\ NoView.offset = 0 /\ NoView.ended = FALSE
  BY LenProperties, NothingFetched DEF NoView
<1>5. NextPiece(o, list, NoView, NoFetch, piece)
  BY <1>4, NothingFetched DEF NextPiece
<1>6. NoFetch.items \o piece = piece
  BY NothingFetched
<1>7. SeenUpTo(o, list, NoView, NoFetch, start', none)
  BY <1>4, NothingFetched DEF SeenUpTo
<1>8. UnseenBehind(o, list, NoView, NoFetch, none)
  BY <1>2, NothingShown
<1> HIDE DEF o, none
<1>9. view'.offset = Reached(NoView, NoFetch) + Len(piece)
  BY <1>4
<1>10. /\ \A there : SeenUpTo(o, list, NoView, NoFetch, there, none) =>
            SeenUpTo(o, list, view', NoFetch, there, Counting(none, NoFetch.items \o piece))
       /\ OnePlace(o, list) /\ UnseenBehind(o, list, NoView, NoFetch, none)
            => UnseenBehind(o, list, view', NoFetch, Counting(none, NoFetch.items \o piece))
  BY <1>1, <1>2, <1>5, <1>9, PieceShown
<1>11. shown' = Counting(none, piece)
  BY DEF none
<1>12. /\ SeenUpTo(o, list, view', NoFetch, start', shown')
       /\ UnseenBehind(o, list, view', NoFetch, shown')
  BY <1>2, <1>6, <1>7, <1>8, <1>10, <1>11
<1>13. shown' \in [Items -> Nat] /\ start' \subseteq Items
  BY <1>1, <1>11, Counted
<1>14. ListSound' /\ ActsSound' /\ FetchSound'
  BY <1>1, NothingFetched DEF FeedInv, ListSound, ActsSound, FetchSound
<1>15. ViewSound'
  BY DEF ViewSound, Kinds
<1>16. QED
  BY <1>3, <1>12, <1>13, <1>14, <1>15 DEF FeedInv

LEMMA OpenViewInv ==
  ASSUME NEW kind \in Kinds
  PROVE  FeedInv /\ OpenView(kind) => FeedInv'
<1> SUFFICES ASSUME FeedInv, OpenView(kind) PROVE FeedInv'
  OBVIOUS
<1>1. /\ ListSound /\ list \in Seq(Items) /\ Len(list) \in Nat /\ Len(list) <= MaxItem
      /\ MaxItem \in Nat /\ FirstCount \in Nat /\ FirstCount > 0 /\ jitter \in [Items -> 0..1]
  BY OrderSound, FeedConstants DEF FeedInv, ListSound
<1>a. PICK z \in Nat : z = 0
  OBVIOUS
<1> DEFINE piece == Window(kind, z, FirstCount)
           more == IF kind \in Paged THEN HasNext(1, FirstCount) ELSE Len(piece) < Len(list)
<1>2. /\ piece \in Seq(Items) /\ Len(piece) = Greatest(Least(z + FirstCount, Len(list)) - z, 0)
      /\ \A i \in 1..Len(piece) : piece[i] = ViewOrder(kind, list)[z + i]
  <2>1. WindowOf(piece, ViewOrder(kind, list), z, FirstCount, Len(list))
    BY <1>1, ViewWindow
  <2>2. QED
    BY <2>1 DEF WindowOf
<1>3. /\ view' = [kind |-> kind, offset |-> Len(piece), more |-> more, ended |-> ~more]
      /\ shown' = Counting([x \in Items |-> 0], piece)
  <2>1. CASE OpenPaged(kind)
    <3>1. (1 - 1) * FirstCount = z
      BY <1>1, <1>a
    <3>2. PageOf(kind, 1, FirstCount) = piece
      BY <3>1 DEF PageOf
    <3>3. QED
      BY <2>1, <3>2 DEF OpenPaged, Keep
  <2>2. CASE OpenCounted(kind)
    BY <1>a, <2>2 DEF OpenCounted, Keep
  <2>3. QED
    BY <2>1, <2>2 DEF OpenView
<1>4. kind \in Paged => (more <=> FirstCount < Len(list))
  <2>1. 1 < (Len(list) + FirstCount - 1) \div FirstCount <=> 1 * FirstCount < Len(list)
    BY <1>1, NextPages
  <2>2. 1 * FirstCount = FirstCount
    BY <1>1
  <2>3. QED
    BY <2>1, <2>2 DEF HasNext
<1>5. kind \notin Paged => (more <=> Len(piece) < Len(list))
  OBVIOUS
<1>6. more \in BOOLEAN
  <2>1. HasNext(1, FirstCount) \in BOOLEAN
    BY DEF HasNext
  <2>2. (Len(piece) < Len(list)) \in BOOLEAN
    OBVIOUS
  <2>3. QED
    BY <2>1, <2>2
<1> HIDE DEF piece, more
<1>7. PICK n \in Nat : n = Len(piece)
  BY <1>2, LenProperties
<1>8. /\ n <= Len(list) /\ n \in 0..MaxItem /\ (~more => n >= Len(list))
      /\ \A i \in 1..n : z + i = i
  <2>1. n = Greatest(Least(z + FirstCount, Len(list)) - z, 0)
    BY <1>2, <1>7
  <2>2. n <= Len(list) /\ n \in 0..MaxItem
    BY <1>1, <1>a, <2>1 DEF Least, Greatest
  <2>3. ~(FirstCount < Len(list)) => n >= Len(list)
    BY <1>1, <1>a, <2>1 DEF Least, Greatest
  <2>4. ~(n < Len(list)) => n >= Len(list)
    BY <1>1
  <2>5. \A i \in 1..n : z + i = i
    BY <1>a
  <2>6. QED
    BY <1>4, <1>5, <1>7, <2>2, <2>3, <2>4, <2>5
<1>9. view' = [kind |-> kind, offset |-> n, more |-> more, ended |-> ~more]
  BY <1>3, <1>7
<1>10. view' \in Views
  BY <1>6, <1>8, <1>9 DEF Views
<1>11. /\ view'.kind = kind /\ view'.offset = Len(piece) /\ ~(view'.more /\ view'.ended)
       /\ view'.ended => view'.offset >= Len(list)
  BY <1>6, <1>7, <1>8, <1>9
<1>12. \A i \in 1..Len(piece) : piece[i] = ViewOrder(kind, list)[i]
  BY <1>2, <1>7, <1>8
<1>13. Len(piece) <= Len(list)
  BY <1>7, <1>8
<1>14. QED
  BY <1>2, <1>3, <1>10, <1>11, <1>12, <1>13, FirstShown DEF OpenView

-----------------------------------------------------------------------------
\* A page that is not the last of its window ends before the window does.
LEMMA NotLastPage ==
  ASSUME NEW page \in Nat, page > 0, NEW size \in Nat, size > 0, NEW end \in Nat,
         (page - 1) * size < end, page # (end - 1) \div size + 1
  PROVE  page * size < end
<1>1. end - 1 \in Nat /\ page - 1 \in Nat
  <2>1. (page - 1) * size \in Nat
    BY Multiples
  <2>2. QED
    BY <2>1
<1>2. PICK q \in Nat : q = (end - 1) \div size /\ size * q <= end - 1 /\ end - 1 < size * q + size
  BY <1>1, Quotient
<1>3. /\ size * q = q * size /\ q * size \in Nat /\ (q + 1) * size = q * size + size
      /\ page * size \in Nat
  BY Multiples
<1>4. page # q + 1
  BY <1>2
<1>5. CASE page > q + 1
  <2>1. PICK m \in Nat : m = page - 1
    BY <1>1
  <2>2. (q + 1) * size <= m * size
    <3>1. q + 1 = m \/ q + 1 < m
      BY <1>5, <2>1
    <3>2. q + 1 < m => (q + 1) * size < m * size
      BY Multiples
    <3>3. (q + 1) * size \in Nat /\ m * size \in Nat
      BY Multiples
    <3>4. QED
      BY <3>1, <3>2, <3>3
  <2>3. m * size < end /\ m * size \in Nat
    BY <2>1, Multiples
  <2>4. QED
    BY <1>1, <1>2, <1>3, <2>2, <2>3
<1>6. CASE page < q + 1
  <2>1. page * size <= q * size
    <3>1. page = q \/ page < q
      BY <1>6
    <3>2. page < q => page * size < q * size
      BY Multiples
    <3>3. QED
      BY <1>3, <3>1, <3>2
  <2>2. QED
    BY <1>1, <1>2, <1>3, <2>1
<1>7. QED
  BY <1>4, <1>5, <1>6

LEMMA StartScrollInv ==
  ASSUME NEW count \in 1..MaxCount
  PROVE  FeedInv /\ StartScroll(count) => FeedInv'
<1> SUFFICES ASSUME FeedInv, StartScroll(count) PROVE FeedInv'
  OBVIOUS
<1>1. /\ ListSound /\ MaxItem \in Nat /\ MaxCount \in Nat /\ count \in 0..MaxCount /\ count > 0
      /\ PageSize \in Nat /\ PageSize > 0 /\ fetch = NoFetch
  BY FeedConstants DEF FeedInv, StartScroll
<1>2. PICK a \in 0..MaxItem : a = view.offset
  BY DEF FeedInv, ViewSound, Views
<1>3. PICK q \in Nat : q = a \div PageSize /\ q * PageSize <= a /\ q * PageSize \in Nat
  <2>1. a \in Nat
    BY <1>1
  <2>2. a \div PageSize \in Nat /\ PageSize * (a \div PageSize) <= a
    BY <1>1, <2>1, Quotient
  <2>3. (a \div PageSize) * PageSize \in Nat
        /\ (a \div PageSize) * PageSize = PageSize * (a \div PageSize)
    BY <1>1, <2>2, Multiples
  <2>4. QED
    BY <2>2, <2>3
<1>4. fetch' = [page |-> q + 1, count |-> count, items |-> << >>]
  BY <1>2, <1>3 DEF StartScroll
<1>5. /\ fetch' \in Fetches /\ fetch'.page = q + 1 /\ fetch'.count = count
      /\ fetch'.items = << >> /\ Len(fetch'.items) = 0 /\ fetch' # NoFetch
  <2>1. q + 1 \in Nat /\ << >> \in Seq(Items) /\ Len(<< >>) = 0
    OBVIOUS
  <2>2. fetch' \in Fetches
    BY <1>1, <1>4, <2>1 DEF Fetches
  <2>3. fetch'.page = q + 1 /\ fetch'.count = count /\ fetch'.items = << >>
    BY <1>4
  <2>4. NoFetch.page = 0 /\ q + 1 # 0
    BY NothingFetched
  <2>5. QED
    BY <2>1, <2>2, <2>3, <2>4
<1>6. Reached(view, fetch') = a
  <2>1. fetch'.page # 0 /\ (fetch'.page - 1) * PageSize = q * PageSize
    BY <1>5
  <2>2. Reached(view, fetch') = Greatest(a, q * PageSize)
    BY <1>2, <2>1 DEF Reached
  <2>3. QED
    BY <1>1, <1>3, <2>2 DEF Greatest
<1>7. FetchSound'
  <2>1. (fetch'.page - 1) * PageSize < a + count
    <3>1. (fetch'.page - 1) * PageSize = q * PageSize
      BY <1>5
    <3>2. QED
      BY <1>1, <1>3, <3>1
  <2>2. /\ view.kind \in Paged /\ view.more /\ view' = view
        /\ fetch'.page # 0 /\ a <= MaxItem /\ a + 0 = a
    BY <1>1, <1>5 DEF StartScroll
  <2>3. QED
    BY <1>1, <1>2, <1>5, <1>6, <2>1, <2>2 DEF FetchSound
<1>8. ListSound' /\ ViewSound' /\ ActsSound'
  BY DEF FeedInv, ListSound, ViewSound, ActsSound, StartScroll
<1>9. Order' = Order
  BY OrderStays DEF StartScroll
<1>10. Reached(view, NoFetch) = a /\ Len(NoFetch.items) = 0
  BY <1>2, NothingFetched
<1>11. (Passed => SeenUpTo(Order, list, view, fetch, start, shown))'
  <2>1. SeenUpTo(Order, list, view, NoFetch, start, shown)
          => SeenUpTo(Order, list, view, fetch', start, shown)
    BY <1>5, <1>6, <1>10 DEF SeenUpTo
  <2>2. QED
    BY <1>1, <1>9, <2>1 DEF FeedInv, Passed, StartScroll
<1>12. (Undisturbed => UnseenBehind(Order, list, view, fetch, shown))'
  <2>1. UnseenBehind(Order, list, view, NoFetch, shown)
          => UnseenBehind(Order, list, view, fetch', shown)
    BY <1>5, <1>6, <1>10 DEF UnseenBehind
  <2>2. QED
    BY <1>1, <1>9, <2>1 DEF FeedInv, Undisturbed, StartScroll
<1>13. QED
  BY <1>7, <1>8, <1>11, <1>12 DEF FeedInv, StartScroll

\* What a page adds to a scroll that has read up to r: n items in the list, a
\* page that begins at first, a window that ends at end.
PieceSizes(n, first, size, end, a, r, len, got) ==
  /\ size > 0 /\ first < end /\ r = Greatest(a, first) /\ r <= MaxItem /\ n <= MaxItem
  /\ len = Greatest(Least(first + size, n) - first, 0)
  /\ got = Greatest(Least(end, first + len) - r, 0)

PieceFits(n, first, size, end, a, r, len, got) ==
  /\ r >= first /\ (got = 0 \/ r + got <= n) /\ r + got <= MaxItem
  /\ \A i \in 1..got : r - first + i \in 1..len /\ first + (r - first + i) = r + i
  /\ first + size < n /\ first + size < end => r + got = Greatest(a, first + size)

LEMMA PiecePlaces ==
  ASSUME NEW n \in Nat, NEW first \in Nat, NEW size \in Nat, NEW end \in Nat, NEW a \in Nat,
         NEW r \in Nat, NEW len \in Nat, NEW got \in Nat,
         PieceSizes(n, first, size, end, a, r, len, got)
  PROVE  PieceFits(n, first, size, end, a, r, len, got)
<1>0. /\ size > 0 /\ first < end /\ r = Greatest(a, first) /\ r <= MaxItem /\ n <= MaxItem
      /\ len = Greatest(Least(first + size, n) - first, 0)
      /\ got = Greatest(Least(end, first + len) - r, 0)
  BY DEF PieceSizes
<1>1. r >= first /\ (r = a \/ r = first) /\ r >= a
  BY <1>0 DEF Greatest
<1>2. len <= size /\ (len = 0 \/ first + len <= n) /\ (first + size < n => len = size)
  BY <1>0 DEF Greatest, Least
<1>3. \/ got = 0 /\ (end <= r \/ first + len <= r)
      \/ got > 0 /\ r + got <= end /\ r + got <= first + len /\ (r + got = end \/ r + got = first + len)
  BY <1>0, <1>1, <1>2 DEF Greatest, Least
<1>4. MaxItem \in Nat
  BY FeedConstants
<1>5. got = 0 \/ r + got <= n
  BY <1>1, <1>2, <1>3
<1>6. r + got <= MaxItem
  BY <1>0, <1>4, <1>5
<1>7. \A i \in 1..got : r - first + i \in 1..len /\ first + (r - first + i) = r + i
  BY <1>1, <1>2, <1>3
<1>8. first + size < n /\ first + size < end => r + got = Greatest(a, first + size)
  <2>1. ASSUME first + size < n, first + size < end PROVE r + got = Greatest(a, first + size)
    <3>1. len = size
      BY <1>2, <2>1
    <3>2. CASE a <= first + size
      <4>1. r <= first + size
        BY <1>1, <3>2
      <4>2. r + got = first + size
        BY <1>3, <2>1, <3>1, <4>1
      <4>3. QED
        BY <3>2, <4>2 DEF Greatest
    <3>3. CASE a > first + size
      <4>1. r = a /\ got = 0
        BY <1>1, <1>3, <3>1, <3>3
      <4>2. QED
        BY <3>3, <4>1 DEF Greatest
    <3>4. QED
      BY <3>2, <3>3
  <2>2. QED
    BY <2>1
<1>9. QED
  BY <1>1, <1>5, <1>6, <1>7, <1>8 DEF PieceFits

LEMMA PageStart ==
  ASSUME NEW page \in Nat, page > 0, NEW size \in Nat, size > 0
  PROVE  /\ (page - 1) * size \in Nat /\ page * size \in Nat
         /\ page * size = (page - 1) * size + size
BY Z3T(30)

LEMMA FetchPageInv == FeedInv /\ FetchPage => FeedInv'
<1> SUFFICES ASSUME FeedInv, FetchPage PROVE FeedInv'
  OBVIOUS
<1>1. /\ ListSound /\ list \in Seq(Items) /\ jitter \in [Items -> 0..1] /\ Len(list) \in Nat
      /\ Len(list) <= MaxItem /\ MaxItem \in Nat /\ PageSize \in Nat /\ PageSize > 0
      /\ MaxCount \in Nat
  BY OrderSound, FeedConstants DEF FeedInv, ListSound
<1>2. /\ fetch # NoFetch /\ fetch \in Fetches /\ fetch.page \in Nat /\ fetch.page > 0
      /\ fetch.count > 0 /\ fetch.count \in 0..MaxCount
      /\ view.kind \in Paged /\ view.more /\ view \in Views
      /\ Reached(view, fetch) <= MaxItem
      /\ (fetch.page - 1) * PageSize < view.offset + fetch.count
      /\ view.offset + Len(fetch.items) = Reached(view, fetch)
      /\ fetch.items \in Seq(Items)
  BY DEF FeedInv, ViewSound, FetchSound, Fetches, FetchPage
<1>3. PICK a \in Nat, p \in Nat, c \in Nat, k \in Paged :
         /\ a = view.offset /\ p = fetch.page /\ c = fetch.count /\ k = view.kind
         /\ p > 0 /\ c > 0 /\ c \in 0..MaxCount
  BY <1>1, <1>2 DEF Views
<1>4. PICK first \in Nat : first = (p - 1) * PageSize /\ first < a + c
  <2>1. (p - 1) * PageSize \in Nat
    BY <1>1, <1>3, PageStart
  <2>2. (p - 1) * PageSize < a + c
    BY <1>2, <1>3
  <2>3. QED
    BY <2>1, <2>2
<1>5. PICK r \in Nat : r = Reached(view, fetch) /\ r = Greatest(a, first) /\ r <= MaxItem
  <2>1. Reached(view, fetch) = Greatest(a, first)
    BY <1>3, <1>4 DEF Reached
  <2>2. Reached(view, fetch) \in Nat
    BY ReachedPlace DEF FeedInv
  <2>3. QED
    BY <1>2, <2>1, <2>2
<1>8. PICK end \in Nat : end = a + c /\ end > first
  BY <1>3, <1>4
<1> DEFINE page == PageOf(k, p, PageSize)
           piece == Slice(page, p, a, end)
           items == fetch.items \o piece
<1>6. FirstPlace(first, p, PageSize)
  BY <1>1, <1>3, <1>4 DEF FirstPlace
<1>7. /\ page \in Seq(Items) /\ Len(page) = Greatest(Least(first + PageSize, Len(list)) - first, 0)
      /\ \A i \in 1..Len(page) : page[i] = ViewOrder(k, list)[first + i]
  <2>1. WindowOf(page, ViewOrder(k, list), first, PageSize, Len(list))
    BY <1>1, <1>6, PageWindow
  <2>2. QED
    BY <2>1 DEF WindowOf
<1> HIDE DEF page
<1>9. /\ piece \in Seq(Items)
      /\ Len(piece) = Greatest(Least(end, first + Len(page)) - Greatest(a, first), 0)
      /\ \A i \in 1..Len(piece) : piece[i] = page[Greatest(a, first) - first + i]
  <2>1. SliceOf(piece, page, first, a, end)
    BY <1>3, <1>4, <1>6, <1>7, <1>8, SliceWindow
  <2>2. QED
    BY <2>1 DEF SliceOf
<1>10. Len(page) \in Nat /\ Len(piece) \in Nat
  BY <1>7, <1>9, LenProperties
<1> DEFINE n == Len(list)
           len == Len(page)
           got == Len(piece)
<1>11. /\ r >= first /\ (got = 0 \/ r + got <= n) /\ r + got <= MaxItem
       /\ \A i \in 1..got : r - first + i \in 1..len /\ first + (r - first + i) = r + i
       /\ first + PageSize < n /\ first + PageSize < end => r + got = Greatest(a, first + PageSize)
  <2>1. PICK z \in Nat, l \in Nat, g \in Nat, e \in Nat : z = n /\ l = len /\ g = got /\ e = end
    BY <1>1, <1>8, <1>10
  <2>2. PieceSizes(z, first, PageSize, e, a, r, l, g)
    BY <1>1, <1>5, <1>7, <1>8, <1>9, <2>1 DEF PieceSizes
  <2>3. PieceFits(z, first, PageSize, e, a, r, l, g)
    BY <1>1, <1>3, <1>4, <1>5, <2>1, <2>2, PiecePlaces
  <2>4. QED
    BY <2>1, <2>3 DEF PieceFits
<1>12. Order = ViewOrder(k, list)
  BY <1>3 DEF Order
<1>13. NextPiece(Order, list, view, fetch, piece)
  <2>1. ASSUME NEW i \in 1..got PROVE piece[i] = Order[r + i]
    <3>1. piece[i] = page[r - first + i]
      BY <1>5, <1>9
    <3>2. r - first + i \in 1..len /\ first + (r - first + i) = r + i
      BY <1>11
    <3>3. page[r - first + i] = ViewOrder(k, list)[first + (r - first + i)]
      BY <1>7, <3>2
    <3>4. QED
      BY <1>12, <3>1, <3>2, <3>3
  <2>2. QED
    BY <1>2, <1>3, <1>5, <1>11, <2>1 DEF NextPiece
<1> HIDE DEF piece
<1>14. items \in Seq(Items) /\ Len(items) = Len(fetch.items) + Len(piece)
  BY <1>2, <1>9, Joined
<1>15. a + Len(items) = r + got
  <2>1. Len(fetch.items) \in Nat
    BY <1>2, LenProperties
  <2>2. a + Len(fetch.items) = r
    BY <1>2, <1>3, <1>5
  <2>3. QED
    BY <1>3, <1>5, <1>10, <1>14, <2>1, <2>2
<1> HIDE DEF items
<1> DEFINE last == p = (end - 1) \div PageSize + 1 \/ ~HasNext(p, PageSize)
<1>16. /\ last => /\ fetch' = NoFetch /\ Keep(k, a + Len(items), a + Len(items) < n)
                  /\ shown' = Counting(shown, items)
       /\ ~last => /\ fetch' = [fetch EXCEPT !.page = @ + 1, !.items = items]
                   /\ view' = view /\ shown' = shown
  BY <1>3, <1>8 DEF FetchPage, MoreAfter, items, piece, page
<1>17. UNCHANGED <<list, jitter, start, disturbed, changed, acting, acts, answers>>
  BY DEF FetchPage
<1> HIDE DEF last
<1>18. CASE last
  <2>1. PICK o \in 0..MaxItem : o = r + got
    BY <1>1, <1>10, <1>11
  <2>2. view' = [kind |-> k, offset |-> o, more |-> o < n, ended |-> ~(o < n)]
    BY <1>15, <1>16, <1>18, <2>1 DEF Keep
  <2>3. view' \in Views
    BY <2>2 DEF Views, Kinds, Paged
  <2>4. view'.kind = k /\ view'.offset = o /\ ~(view'.more /\ view'.ended)
    BY <2>2
  <2>5. view'.ended => o >= n
    <3>1. view'.ended => ~(o < n)
      BY <2>2
    <3>2. o \in Int
      BY <1>1
    <3>3. QED
      BY <1>1, <3>1, <3>2
  <2>6. view'.kind = view.kind /\ view.kind # "none"
    BY <1>3, <2>4 DEF Paged
  <2>7. /\ view'.offset = Reached(view, fetch) + Len(piece)
        /\ view'.ended => view'.offset >= Len(list)
    BY <1>5, <2>1, <2>4, <2>5
  <2>8. fetch' = NoFetch /\ shown' = Counting(shown, fetch.items \o piece)
    BY <1>16, <1>18 DEF items
  <2>9. QED
    BY <1>9, <1>13, <1>17, <2>3, <2>4, <2>6, <2>7, <2>8, NextShown
<1>19. CASE ~last
  <2>1. p * PageSize = first + PageSize /\ p * PageSize \in Nat
    BY <1>1, <1>3, <1>4, PageStart
  <2>2. p * PageSize < n
    <3>1. p < (n + PageSize - 1) \div PageSize
      BY <1>19 DEF last, HasNext
    <3>2. QED
      BY <1>1, <1>3, <3>1, NextPages
  <2>3. p * PageSize < end
    <3>1. p # (end - 1) \div PageSize + 1 /\ (p - 1) * PageSize < end
      BY <1>4, <1>8, <1>19 DEF last
    <3>2. QED
      BY <1>1, <1>3, <1>8, <3>1, NotLastPage
  <2>4. r + got = Greatest(a, first + PageSize)
    BY <1>11, <2>1, <2>2, <2>3
  <2>5. /\ fetch' \in Fetches /\ fetch'.page = p + 1 /\ fetch'.count = c
        /\ fetch'.items = fetch.items \o piece
    <3>1. PICK f \in Fetches : f = fetch
      BY <1>2
    <3>2. fetch' = [f EXCEPT !.page = @ + 1, !.items = items]
      BY <1>16, <1>19, <3>1
    <3>6. f.page + 1 \in Nat
      BY DEF Fetches
    <3>3. fetch' \in Fetches
      BY <1>14, <3>2, <3>6 DEF Fetches
    <3>4. fetch'.page = f.page + 1 /\ fetch'.count = f.count /\ fetch'.items = items
      BY <3>2 DEF Fetches
    <3>5. QED
      BY <1>3, <3>1, <3>3, <3>4 DEF items
  <2>6. Reached(view, fetch') = r + got
    <3>1. fetch'.page # 0 /\ (fetch'.page - 1) * PageSize = p * PageSize
      BY <1>3, <2>5
    <3>2. Reached(view, fetch') = Greatest(a, p * PageSize)
      BY <1>3, <3>1 DEF Reached
    <3>3. QED
      BY <2>1, <2>4, <3>2
  <2>7. view' = view /\ shown' = shown
    BY <1>16, <1>19
  <2>8. FetchSound'
    <3>1. fetch' # NoFetch /\ fetch'.page # 0
      BY <1>3, <2>5, NothingFetched
    <3>2. (fetch'.page - 1) * PageSize < a + c
      <4>1. (fetch'.page - 1) * PageSize = p * PageSize
        BY <1>3, <2>5
      <4>2. QED
        BY <1>8, <2>3, <4>1
    <3>3. a + Len(fetch'.items) = Reached(view, fetch')
      BY <1>15, <2>5, <2>6 DEF items
    <3>4. QED
      BY <1>2, <1>3, <1>11, <2>5, <2>6, <2>7, <3>1, <3>2, <3>3 DEF FetchSound
  <2>9. ListSound' /\ ViewSound' /\ ActsSound'
    BY <1>17, <2>7 DEF FeedInv, ListSound, ViewSound, ActsSound
  <2>10. Order' = Order
    BY <1>17, <2>7, OrderStays
  <2>11. /\ SeenUpTo(Order, list, view, fetch, start, shown)
              => SeenUpTo(Order, list, view, fetch', start, shown)
         /\ UnseenBehind(Order, list, view, fetch, shown)
              => UnseenBehind(Order, list, view, fetch', shown)
    <3>1. OnePlace(Order, list)
      BY <1>1, <1>12, OrderSound
    <3>2. Reached(view, fetch') = Reached(view, fetch) + Len(piece)
      BY <1>5, <2>6
    <3>3. /\ \A there, seen : SeenUpTo(Order, list, view, fetch, there, seen)
                                => SeenUpTo(Order, list, view, fetch', there, seen)
          /\ OnePlace(Order, list) => \A seen :
               UnseenBehind(Order, list, view, fetch, seen)
                 => UnseenBehind(Order, list, view, fetch', seen)
      BY <1>1, <1>2, <1>9, <1>13, <2>5, <3>2, PieceKept
    <3>4. QED
      BY <3>1, <3>3
  <2>12. Passed' = Passed /\ Undisturbed' = Undisturbed
    BY <1>17, <2>7 DEF Passed, Undisturbed
  <2>13. (Passed => SeenUpTo(Order, list, view, fetch, start, shown))'
    BY <1>17, <2>7, <2>10, <2>11, <2>12 DEF FeedInv
  <2>14. (Undisturbed => UnseenBehind(Order, list, view, fetch, shown))'
    BY <1>17, <2>7, <2>10, <2>11, <2>12 DEF FeedInv
  <2>15. QED
    BY <1>17, <2>7, <2>8, <2>9, <2>13, <2>14 DEF FeedInv
<1>20. QED
  BY <1>18, <1>19

-----------------------------------------------------------------------------
LEMMA FeedNextInv == FeedInv /\ [FeedNext]_feedVars => FeedInv'
<1> SUFFICES ASSUME FeedInv, [FeedNext]_feedVars PROVE FeedInv'
  OBVIOUS
<1>1. ASSUME NEW kind \in Kinds, OpenView(kind) PROVE FeedInv'
  BY <1>1, OpenViewInv
<1>2. CASE Leave
  BY <1>2, LeaveInv
<1>3. ASSUME NEW offset \in 1..MaxItem, Rewind(offset) PROVE FeedInv'
  BY <1>3, RewindInv
<1>4. ASSUME NEW count \in 1..MaxCount, ScrollCounted(count) PROVE FeedInv'
  BY <1>4, ScrollCountedInv
<1>5. ASSUME NEW count \in 1..MaxCount, StartScroll(count) PROVE FeedInv'
  BY <1>5, StartScrollInv
<1>6. CASE FetchPage
  BY <1>6, FetchPageInv
<1>7. CASE FailScroll
  BY <1>7, FailScrollInv
<1>8. ASSUME NEW x \in Items, NEW i \in 0..Len(list), Insert(x, i) PROVE FeedInv'
  BY <1>8, InsertInv
<1>9. ASSUME NEW i \in 1..Len(list), Remove(i) PROVE FeedInv'
  BY <1>9, RemoveInv
<1>10. ASSUME NEW i \in 1..Len(list), Reheat(i) PROVE FeedInv'
  BY <1>10, ReheatInv
<1>11. CASE Interact
  BY <1>11, InteractInv
<1>12. CASE CarryOut
  BY <1>12, CarryOutInv
<1>13. CASE Answer
  BY <1>13, AnswerInv
<1>14. CASE UNCHANGED feedVars
  <2>1. UNCHANGED <<list, jitter, view, start, shown, fetch, disturbed, changed>>
    BY <1>14 DEF feedVars
  <2>2. ActsSound'
    BY <1>14 DEF FeedInv, ActsSound, feedVars
  <2>3. QED
    BY <2>1, <2>2, BrowsingKept
<1>15. CASE FeedNext
  <2>1. CASE Browse
    BY <2>1, <1>1, <1>2, <1>3, <1>4, <1>5, <1>6, <1>7 DEF Browse
  <2>2. CASE ~Browse
    BY <2>2, <1>15, <1>8, <1>9, <1>10, <1>11, <1>12, <1>13 DEF FeedNext
  <2>3. QED
    BY <2>1, <2>2
<1>16. QED
  BY <1>14, <1>15

LEMMA FeedInvariant == FeedSpec => []FeedInv
<1>1. FeedInit => FeedInv
  BY FeedInitInv
<1>2. QED
  BY <1>1, FeedNextInv, PTL DEF FeedSpec

\* What an agent sees of a view and is told of its interactions keeps its type,
\* for every size of a page and of the pool.
THEOREM FeedTypes == FeedSpec => []FeedTypeOK
<1>1. FeedInv => FeedTypeOK
  <2> SUFFICES ASSUME FeedInv PROVE FeedTypeOK
    OBVIOUS
  <2>1. Len(list) <= MaxItem /\ {list[i] : i \in 1..Len(list)} \subseteq Items
    BY OrderSound DEF FeedInv
  <2>2. fetch.page \in Nat /\ fetch.count \in 0..MaxCount
    BY DEF FeedInv, FetchSound, Fetches
  <2>3. QED
    BY <2>1, <2>2 DEF FeedInv, FeedTypeOK, ListSound, ViewSound, Views, ActsSound
<1>2. QED
  BY <1>1, FeedInvariant, PTL

\* An agent that scrolls to the end has seen all there was to see, sees nothing
\* twice, and is told of what was done that it was done (registry.py:57-104,
\* 234-384, 584-785, feed/queries.py:405-460, comment/application.py:133-164):
\* for every size of a page, of the pool and of the jitter, and every count that is asked for.
THEOREM AgentsAreToldRight == FeedSpec => []ToldRight
<1>1. FeedInv => ToldRight
  <2> SUFFICES ASSUME FeedInv PROVE ToldRight
    OBVIOUS
  <2>1. ScrollSeesAll
    <3>1. SUFFICES ASSUME view.ended, Passed, NEW i \in 1..Len(list), list[i] \in start
                   PROVE  shown[list[i]] > 0
      BY DEF ScrollSeesAll, Passed
    <3>2. SeenUpTo(Order, list, view, fetch, start, shown)
      BY <3>1 DEF FeedInv
    <3>3. PICK k \in 1..Len(list) : Order[k] = list[i]
      BY <3>1, OrderSound DEF FeedInv, Order
    <3>4. QED
      BY <3>1, <3>2, <3>3 DEF SeenUpTo
  <2>2. ScrollShowsOnce
    <3>1. Undisturbed => \A x \in Items : shown[x] <= 1
      BY DEF FeedInv, UnseenBehind
    <3>2. QED
      BY <3>1 DEF ScrollShowsOnce, Undisturbed
  <2>3. DoneIsDone
    <3>1. /\ acts \in Nat /\ answers \in [done : 0..MaxActs, failed : 0..MaxActs] /\ MaxActs \in Nat
      BY FeedConstants DEF FeedInv, ActsSound
    <3>2. answers.done \in Nat /\ answers.failed \in Nat
      BY <3>1
    <3>3. QED
      BY <3>1, <3>2 DEF FeedInv, ActsSound, DoneIsDone
  <2>4. QED
    BY <2>1, <2>2, <2>3 DEF ToldRight
<1>2. QED
  BY <1>1, FeedInvariant, PTL
=============================================================================
