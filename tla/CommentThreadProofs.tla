------------------------- MODULE CommentThreadProofs -------------------------
(***************************************************************************)
(* Proofs about the comment threads of CommentThread, for every set of     *)
(* comments and requests: the types, and that the two-level shape of the   *)
(* threads survives every interleaving of deletions, archives and replies; *)
(* and, while one request runs at a time, that replies outlive the comment *)
(* they answer and that both counters are what a reader sees.              *)
(*                                                                         *)
(* What a request has read stays useful because some facts of a comment    *)
(* never change once it is written: whether it is a root, and which thread *)
(* it belongs to.  A parent does change, but only to a comment of the same *)
(* thread, and while the change is uncommitted the database keeps the      *)
(* replies it moves, and their new parent, from being deleted.             *)
(***************************************************************************)
EXTENDS CommentThread, FiniteSetTheorems, TLAPS

-----------------------------------------------------------------------------
(* Types                                                                   *)

ReqType ==
  [op : {"idle", "create", "delete", "archive", "restore"},
   stage : {"none", "prepare", "write"},
   c : Comments \cup {None}, parent : Comments \cup {None},
   root : Comments \cup {None}, counted : Comments \cup {None},
   moved : SUBSET Comments, change : Nat, postCount : Nat, replies : Nat]

\* The number of replies of a thread is a number: there are finitely many.
LEMMA RepliesCounted ==
  ASSUME NEW r PROVE Cardinality(RepliesOf(r)) \in Nat
<1>1. RepliesOf(r) \subseteq Comments  BY DEF RepliesOf, Live
<1> QED  BY <1>1, CommentsFinite, FS_Subset, FS_CardinalityType

\* Counters stay natural numbers when something is subtracted.
LEMMA AtLeastZeroType ==
  ASSUME NEW n \in Nat, NEW d \in Nat PROVE AtLeastZero(n, d) \in Nat
BY DEF AtLeastZero

\* TypeOK with the type of a request folded.
TypeOKFolded ==
  /\ status \in [Comments -> {"free", "active", "archived", "gone"}]
  /\ parent \in [Comments -> Comments \cup {None}]
  /\ root \in [Comments -> Comments \cup {None}]
  /\ replies \in [Comments -> Nat]
  /\ postCount \in Nat
  /\ postActive \in BOOLEAN
  /\ req \in [Requests -> ReqType]
  /\ adminOps \in 0..MaxAdmin
  /\ history \subseteq {"overlap", "mixed"}

LEMMA Folded == TypeOK <=> TypeOKFolded
BY DEF TypeOK, TypeOKFolded, ReqType

LEMMA IdleType == Idle \in ReqType
BY DEF Idle, ReqType

LEMMA HistoryType ==
  ASSUME history \subseteq {"overlap", "mixed"}, NEW p, NEW mixed, Begin(p, mixed)
  PROVE  history' \subseteq {"overlap", "mixed"}
BY DEF Begin

\* The numbers a removal writes are natural numbers.
LEMMA RemovalTypes ==
  ASSUME TypeOKFolded, NEW p \in Requests, RemovalCounters(p)
  PROVE  postCount' \in Nat /\ replies' \in [Comments -> Nat]
<1>1. req[p] \in ReqType  BY DEF TypeOKFolded
<1>2. req[p].postCount \in Nat /\ req[p].replies \in Nat /\ req[p].change \in Nat
  BY <1>1 DEF ReqType
<1>3. AtLeastZero(req[p].postCount, req[p].change) \in Nat
      /\ AtLeastZero(req[p].replies, req[p].change) \in Nat
  BY <1>2, AtLeastZeroType
<1> QED  BY <1>3 DEF RemovalCounters, Written, TypeOKFolded

LEMMA MovedType ==
  ASSUME TypeOKFolded, NEW p \in Requests
  PROVE  MovedParent(p) \in [Comments -> Comments \cup {None}]
<1>1. req[p] \in ReqType  BY DEF TypeOKFolded
<1>2. req[p].parent \in Comments \cup {None}  BY <1>1 DEF ReqType
<1> QED  BY <1>2 DEF MovedParent, TypeOKFolded

\* Every variable keeps its type, whatever the sets of comments and requests.
THEOREM TypeCorrect == Spec => []TypeOK
<1>1. Init => TypeOKFolded
  <2> SUFFICES ASSUME Init PROVE TypeOKFolded  OBVIOUS
  <2>1. req \in [Requests -> ReqType]  BY IdleType DEF Init
  <2> QED  BY <2>1, MaxAdminIsNat DEF Init, TypeOKFolded
<1>2. TypeOKFolded /\ [Next]_vars => TypeOKFolded'
  <2> SUFFICES ASSUME TypeOKFolded, [Next]_vars PROVE TypeOKFolded'  OBVIOUS
  <2>0. ASSUME NEW p \in Requests, NEW r \in ReqType, req' = [req EXCEPT ![p] = r]
        PROVE  req' \in [Requests -> ReqType]
    BY <2>0 DEF TypeOKFolded
  <2>a. ASSUME NEW p \in Requests, req' = [req EXCEPT ![p] = Idle]
        PROVE  req' \in [Requests -> ReqType]
    BY <2>0, <2>a, IdleType
  <2>1. ASSUME NEW p \in Requests, NEW c \in Comments, NEW up \in Comments \cup {None},
               ReadCreate(p, c, up)
        PROVE  TypeOKFolded'
    <3> DEFINE r == IF up = None THEN None ELSE ThreadRoot(up)
               counted == IF r # None /\ status[r] = "active" THEN r ELSE None
               new == [Idle EXCEPT !.op = "create", !.stage = "write", !.c = c,
                         !.parent = up, !.root = r, !.counted = counted,
                         !.change = 1, !.postCount = postCount,
                         !.replies = IF counted = None THEN 0 ELSE replies[counted]]
    <3>1. r \in Comments \cup {None}  BY DEF ThreadRoot, TypeOKFolded
    <3>2. counted \in Comments \cup {None}  BY <3>1
    <3>3. (IF counted = None THEN 0 ELSE replies[counted]) \in Nat
      BY <3>2 DEF TypeOKFolded
    <3>4. postCount \in Nat  BY DEF TypeOKFolded
    <3> HIDE DEF r, counted
    <3>5. new \in ReqType  BY <3>1, <3>2, <3>3, <3>4 DEF Idle, ReqType
    <3>6. req' = [req EXCEPT ![p] = new] /\ Begin(p, r # None /\ counted = None)
      BY <2>1 DEF ReadCreate, r, counted
    <3> HIDE DEF new
    <3>7. req' \in [Requests -> ReqType]  BY <3>5, <3>6, <2>0
    <3>8. history' \subseteq {"overlap", "mixed"}  BY <3>6, HistoryType DEF TypeOKFolded
    <3> QED  BY <2>1, <3>7, <3>8 DEF ReadCreate, rows, TypeOKFolded
  <2>2. ASSUME NEW p \in Requests, WriteCreate(p) PROVE TypeOKFolded'
    <3>1. req[p] \in ReqType  BY DEF TypeOKFolded
    <3>2. req[p].parent \in Comments \cup {None} /\ req[p].root \in Comments \cup {None}
          /\ req[p].postCount \in Nat /\ req[p].replies \in Nat
      BY <3>1 DEF ReqType
    <3>3. req' \in [Requests -> ReqType]  BY <2>2, <2>a DEF WriteCreate
    <3> QED  BY <2>2, <3>2, <3>3 DEF WriteCreate, TypeOKFolded
  <2>3. ASSUME NEW p \in Requests, NEW c \in Comments, NEW op \in {"delete", "archive"},
               ReadRemoval(p, c, op)
        PROVE  TypeOKFolded'
    <3>1. [Idle EXCEPT !.op = op, !.stage = "prepare", !.c = c,
             !.parent = parent[c], !.root = root[c]] \in ReqType
      BY DEF Idle, ReqType, TypeOKFolded
    <3>2. req' \in [Requests -> ReqType]  BY <2>0, <2>3, <3>1 DEF ReadRemoval
    <3>3. history' \subseteq {"overlap", "mixed"}
      BY <2>3, HistoryType DEF ReadRemoval, TypeOKFolded
    <3>4. adminOps' \in 0..MaxAdmin
      BY <2>3, MaxAdminIsNat DEF ReadRemoval, TypeOKFolded
    <3> QED  BY <2>3, <3>2, <3>3, <3>4 DEF ReadRemoval, rows, TypeOKFolded
  <2>4. ASSUME NEW p \in Requests, NEW c \in Comments, ReadRestore(p, c)
        PROVE  TypeOKFolded'
    <3> DEFINE counted == IF parent[c] # None /\ status[root[c]] = "active"
                          THEN root[c] ELSE None
               change == IF parent[c] = None THEN 1 + Cardinality(RepliesOf(c)) ELSE 1
               seen == IF counted = None THEN 0 ELSE replies[counted]
               new == [Idle EXCEPT !.op = "restore", !.stage = "write", !.c = c,
                         !.counted = counted, !.postCount = postCount,
                         !.change = change, !.replies = seen]
    <3>1. counted \in Comments \cup {None}  BY DEF TypeOKFolded
    <3>2. change \in Nat  BY RepliesCounted
    <3>3. seen \in Nat  BY <3>1 DEF TypeOKFolded
    <3>4. postCount \in Nat  BY DEF TypeOKFolded
    <3>5. req' = [req EXCEPT ![p] = new]  BY <2>4 DEF ReadRestore
    <3> HIDE DEF counted, change, seen
    <3>6. new \in ReqType  BY <3>1, <3>2, <3>3, <3>4 DEF Idle, ReqType
    <3> HIDE DEF new
    <3>7. req' \in [Requests -> ReqType]  BY <2>0, <3>5, <3>6
    <3>8. history' \subseteq {"overlap", "mixed"}
      BY <2>4, HistoryType DEF ReadRestore, TypeOKFolded
    <3>9. adminOps' \in 0..MaxAdmin
      BY <2>4, MaxAdminIsNat DEF ReadRestore, TypeOKFolded
    <3> QED  BY <2>4, <3>7, <3>8, <3>9 DEF ReadRestore, rows, TypeOKFolded
  <2>5. ASSUME NEW p \in Requests, PrepareRemoval(p) PROVE TypeOKFolded'
    <3> DEFINE r == req[p]
               counted == IF r.root \in Live THEN r.root ELSE None
               seen == IF counted = None THEN 0 ELSE replies[counted]
               new == [r EXCEPT !.stage = "write", !.moved = Moves(p),
                         !.counted = counted, !.change = Subtracted(p),
                         !.postCount = postCount, !.replies = seen]
    <3>1. r \in ReqType  BY DEF TypeOKFolded
    <3>2. counted \in Comments \cup {None}  BY DEF Live
    <3>3. seen \in Nat  BY <3>2 DEF TypeOKFolded
    <3>4. Moves(p) \subseteq Comments  BY DEF Moves, Live
    <3>5. Subtracted(p) \in Nat  BY RepliesCounted DEF Subtracted
    <3>6. postCount \in Nat  BY DEF TypeOKFolded
    <3>7. req' = [req EXCEPT ![p] = Idle] \/ req' = [req EXCEPT ![p] = new]
      BY <2>5 DEF PrepareRemoval
    <3> HIDE DEF r, counted, seen
    <3>8. new \in ReqType  BY <3>1, <3>2, <3>3, <3>4, <3>5, <3>6 DEF ReqType
    <3> HIDE DEF new
    <3>9. req' \in [Requests -> ReqType]  BY <2>0, <2>a, <3>7, <3>8
    <3> QED  BY <2>5, <3>9 DEF PrepareRemoval, rows, TypeOKFolded
  <2>6. ASSUME NEW p \in Requests, WriteDelete(p) PROVE TypeOKFolded'
    <3>1. req' \in [Requests -> ReqType]  BY <2>6, <2>a DEF WriteDelete
    <3>2. CASE UpdatesMissingRow(p)
      BY <2>6, <3>1, <3>2 DEF WriteDelete, TypeOKFolded
    <3>3. CASE ~UpdatesMissingRow(p)
      <4>1. parent' = MovedParent(p) /\ RemovalCounters(p)
        BY <2>6, <3>3 DEF WriteDelete
      <4>2. status' \in [Comments -> {"free", "active", "archived", "gone"}]
        BY <2>6, <3>3 DEF WriteDelete, TypeOKFolded
      <4> QED  BY <2>6, <3>1, <4>1, <4>2, RemovalTypes, MovedType
               DEF WriteDelete, TypeOKFolded
    <3> QED  BY <3>2, <3>3
  <2>7. ASSUME NEW p \in Requests, WriteArchive(p) PROVE TypeOKFolded'
    <3>1. req' \in [Requests -> ReqType]  BY <2>7, <2>a DEF WriteArchive
    <3>2. CASE UpdatesMissingRow(p)
      BY <2>7, <3>1, <3>2 DEF WriteArchive, TypeOKFolded
    <3>3. CASE ~UpdatesMissingRow(p)
      <4>1. parent' = MovedParent(p) /\ RemovalCounters(p)
        BY <2>7, <3>3 DEF WriteArchive
      <4>2. status' \in [Comments -> {"free", "active", "archived", "gone"}]
        BY <2>7, <3>3 DEF WriteArchive, TypeOKFolded
      <4> QED  BY <2>7, <3>1, <4>1, <4>2, RemovalTypes, MovedType
               DEF WriteArchive, TypeOKFolded
    <3> QED  BY <3>2, <3>3
  <2>8. ASSUME NEW p \in Requests, WriteRestore(p) PROVE TypeOKFolded'
    <3>1. req' \in [Requests -> ReqType]  BY <2>8, <2>a DEF WriteRestore
    <3>2. req[p] \in ReqType  BY DEF TypeOKFolded
    <3>3. req[p].postCount \in Nat /\ req[p].replies \in Nat /\ req[p].change \in Nat
      BY <3>2 DEF ReqType
    <3> QED  BY <2>8, <3>1, <3>3 DEF WriteRestore, TypeOKFolded
  <2>9. ASSUME NEW p \in Requests, RollBack(p) PROVE TypeOKFolded'
    <3>1. req' \in [Requests -> ReqType]  BY <2>9, <2>a DEF RollBack
    <3> QED  BY <2>9, <3>1 DEF RollBack, rows, TypeOKFolded
  <2>10. CASE ArchivePost
    <3>1. adminOps \in 0..MaxAdmin /\ adminOps < MaxAdmin /\ adminOps' = adminOps + 1
      BY <2>10 DEF ArchivePost, TypeOKFolded
    <3>2. adminOps' \in 0..MaxAdmin  BY <3>1, MaxAdminIsNat
    <3>3. postActive' \in BOOLEAN  BY <2>10 DEF ArchivePost
    <3> QED  BY <2>10, <3>2, <3>3 DEF ArchivePost, TypeOKFolded
  <2>11. CASE RestorePost
    <3>1. adminOps \in 0..MaxAdmin /\ adminOps < MaxAdmin /\ adminOps' = adminOps + 1
      BY <2>11 DEF RestorePost, TypeOKFolded
    <3>2. adminOps' \in 0..MaxAdmin  BY <3>1, MaxAdminIsNat
    <3>3. postActive' \in BOOLEAN  BY <2>11 DEF RestorePost
    <3> QED  BY <2>11, <3>2, <3>3 DEF RestorePost, TypeOKFolded
  <2>12. CASE UNCHANGED vars  BY <2>12 DEF vars, TypeOKFolded
  <2> QED  BY <2>1, <2>2, <2>3, <2>4, <2>5, <2>6, <2>7, <2>8, <2>9, <2>10, <2>11, <2>12
           DEF Next
<1>3. Spec => []TypeOKFolded  BY <1>1, <1>2, PTL DEF Spec
<1> QED  BY <1>3, Folded, PTL

-----------------------------------------------------------------------------
(* The shape of the threads                                                *)

Used == {c \in Comments : status[c] # "free"}

\* The comment u belongs to the thread t.
InThread(u, t) == u = t \/ root[u] = t

\* Of every comment ever written, also of one that is gone.
Lineage ==
  \A k \in Used :
    IF parent[k] = None
    THEN root[k] = None
    ELSE /\ root[k] \in Used /\ parent[root[k]] = None
         /\ parent[k] \in Used /\ InThread(parent[k], root[k])

\* What a comment refers to exists as long as the comment does.
Referenced ==
  \A k \in Live : parent[k] # None => root[k] \in Live /\ parent[k] \in Live

\* A reply about to be written answers a comment of the thread it will join.
CreateShape(p) ==
  req[p].op = "create" =>
    /\ req[p].c \in Comments /\ status[req[p].c] = "free"
    /\ IF req[p].parent = None
       THEN req[p].root = None
       ELSE /\ req[p].root \in Used /\ parent[req[p].root] = None
            /\ req[p].parent \in Used /\ InThread(req[p].parent, req[p].root)

\* A removal knows the thread of its comment, and a parent that was in it.
RemovalShape(p) ==
  req[p].op \in {"delete", "archive"} =>
    /\ req[p].c \in Used
    /\ root[req[p].c] = req[p].root
    /\ parent[req[p].c] = None <=> req[p].parent = None
    /\ req[p].parent # None =>
         req[p].parent \in Used /\ InThread(req[p].parent, req[p].root)

\* Only removals move replies; the rows moved are locked and their new parent
\* cannot be deleted.
MovedShape(p) ==
  /\ req[p].moved \subseteq Live
  /\ req[p].moved # {} =>
       /\ req[p].op \in {"delete", "archive"} /\ req[p].stage = "write"
       /\ req[p].parent \in Live
       /\ \A k \in req[p].moved : parent[k] = req[p].c

StageShape(p) ==
  req[p].stage = "prepare" => req[p].op \in {"delete", "archive"} /\ req[p].moved = {}

\* No two requests write the same new comment or move the same reply.
Apart ==
  \A p, q \in Requests : p # q =>
    /\ req[p].op = "create" /\ req[q].op = "create" => req[p].c # req[q].c
    /\ req[p].moved \cap req[q].moved = {}

RequestShape(p) == CreateShape(p) /\ RemovalShape(p) /\ MovedShape(p) /\ StageShape(p)

ThreadInv ==
  /\ Lineage
  /\ Referenced
  /\ \A p \in Requests : RequestShape(p)
  /\ Apart

LEMMA ShapeGivesThreads ==
  ASSUME TypeOKFolded, ThreadInv PROVE Threaded
<1>1. Live \subseteq Used  BY DEF Live, Used
<1>2. ASSUME NEW k \in Live, parent[k] # None
      PROVE  /\ root[k] \in Live /\ parent[root[k]] = None
             /\ parent[k] \in Live /\ InThread(parent[k], root[k])
  BY <1>1, <1>2 DEF ThreadInv, Lineage, Referenced
<1>3. ASSUME NEW k \in Live, parent[k] = None PROVE root[k] = None
  BY <1>1, <1>3 DEF ThreadInv, Lineage
<1> QED  BY <1>2, <1>3 DEF Threaded, InThread

LEMMA IdleShape ==
  ASSUME NEW p, req[p] = Idle PROVE RequestShape(p)
BY DEF Idle, RequestShape, CreateShape, RemovalShape, MovedShape, StageShape

\* A step that leaves the rows alone and ends one request.
LEMMA EndKeeps ==
  ASSUME TypeOKFolded, ThreadInv, NEW p \in Requests,
         req' = [req EXCEPT ![p] = Idle],
         UNCHANGED <<status, parent, root>>
  PROVE  ThreadInv'
<1>1. Used' = Used /\ Live' = Live  BY DEF Used, Live
<1>2. Lineage' /\ Referenced'
  BY <1>1 DEF ThreadInv, Lineage, Referenced, InThread
<1>3. ASSUME NEW q \in Requests PROVE RequestShape(q)'
  <2>1. CASE q = p
    <3>1. req'[q] = Idle  BY <2>1 DEF TypeOKFolded
    <3> QED  BY <3>1 DEF Idle, RequestShape, CreateShape, RemovalShape, MovedShape, StageShape
  <2>2. CASE q # p
    <3>1. req'[q] = req[q]  BY <2>2 DEF TypeOKFolded
    <3> QED  BY <1>1, <3>1
             DEF ThreadInv, RequestShape, CreateShape, RemovalShape, MovedShape, StageShape, InThread
  <2> QED  BY <2>1, <2>2
<1>4. Apart'
  <2>1. req'[p] = Idle /\ \A q \in Requests \ {p} : req'[q] = req[q]  BY DEF TypeOKFolded
  <2>2. Idle.op = "idle" /\ Idle.moved = {}  BY DEF Idle
  <2> QED  BY <2>1, <2>2 DEF ThreadInv, Apart
<1> QED  BY <1>2, <1>3, <1>4 DEF ThreadInv

\* A step that leaves the rows alone and changes one request.
LEMMA ReadKeeps ==
  ASSUME TypeOKFolded, ThreadInv, NEW p \in Requests, NEW new,
         req' = [req EXCEPT ![p] = new],
         UNCHANGED <<status, parent, root>>,
         RequestShape(p)',
         \A q \in Requests \ {p} :
           /\ new.op = "create" /\ req[q].op = "create" => new.c # req[q].c
           /\ new.moved \cap req[q].moved = {}
  PROVE  ThreadInv'
<1>1. Used' = Used /\ Live' = Live  BY DEF Used, Live
<1>2. Lineage' /\ Referenced'
  BY <1>1 DEF ThreadInv, Lineage, Referenced, InThread
<1>3. req'[p] = new /\ \A q \in Requests \ {p} : req'[q] = req[q]  BY DEF TypeOKFolded
<1>4. ASSUME NEW q \in Requests, q # p PROVE RequestShape(q)'
  <2>1. req'[q] = req[q]  BY <1>3, <1>4
  <2> QED  BY <1>1, <2>1
           DEF ThreadInv, RequestShape, CreateShape, RemovalShape, MovedShape, StageShape, InThread
<1>5. Apart'
  <2>1. ASSUME NEW q \in Requests, NEW r \in Requests, q # r
        PROVE  /\ req'[q].op = "create" /\ req'[r].op = "create" => req'[q].c # req'[r].c
               /\ req'[q].moved \cap req'[r].moved = {}
    <3>1. CASE q = p  BY <1>3, <2>1, <3>1
    <3>2. CASE r = p  BY <1>3, <2>1, <3>2
    <3>3. CASE q # p /\ r # p  BY <1>3, <2>1, <3>3 DEF ThreadInv, Apart
    <3> QED  BY <3>1, <3>2, <3>3
  <2> QED  BY <2>1 DEF Apart
<1> QED  BY <1>2, <1>4, <1>5 DEF ThreadInv

LEMMA ReadCreateKeeps ==
  ASSUME TypeOKFolded, ThreadInv, NEW p \in Requests, NEW c \in Comments,
         NEW up \in Comments \cup {None}, ReadCreate(p, c, up)
  PROVE  ThreadInv'
<1> DEFINE r == IF up = None THEN None ELSE ThreadRoot(up)
           counted == IF r # None /\ status[r] = "active" THEN r ELSE None
           new == [Idle EXCEPT !.op = "create", !.stage = "write", !.c = c,
                     !.parent = up, !.root = r, !.counted = counted,
                     !.change = 1, !.postCount = postCount,
                     !.replies = IF counted = None THEN 0 ELSE replies[counted]]
<1>1. req' = [req EXCEPT ![p] = new] /\ UNCHANGED <<status, parent, root>>
  BY DEF ReadCreate, rows
<1>2. new.op = "create" /\ new.stage = "write" /\ new.c = c /\ new.parent = up
      /\ new.root = r /\ new.moved = {}
  BY DEF Idle
<1>3. up # None => /\ r \in Used /\ parent[r] = None /\ up \in Used /\ InThread(up, r)
  <2> SUFFICES ASSUME up # None
               PROVE  r \in Used /\ parent[r] = None /\ up \in Used /\ InThread(up, r)
    OBVIOUS
  <2>1. up \in Used  BY DEF ReadCreate, Used
  <2> QED  BY <2>1 DEF ThreadInv, Lineage, ThreadRoot, InThread
<1>4. status[c] = "free" /\ \A q \in Requests : req[q].op = "create" => req[q].c # c
  BY DEF ReadCreate
<1>5. up = None => r = None  OBVIOUS
<1> HIDE DEF new, r
<1>6. req'[p] = new  BY <1>1 DEF TypeOKFolded
<1>7. RequestShape(p)'
  <2>1. CreateShape(p)'
    BY <1>1, <1>2, <1>3, <1>4, <1>5, <1>6 DEF CreateShape, Used, InThread
  <2> QED  BY <1>2, <1>6, <2>1 DEF RequestShape, RemovalShape, MovedShape, StageShape
<1> QED  BY <1>1, <1>2, <1>4, <1>7, ReadKeeps

LEMMA ReadRemovalKeeps ==
  ASSUME TypeOKFolded, ThreadInv, NEW p \in Requests, NEW c \in Comments,
         NEW op \in {"delete", "archive"}, ReadRemoval(p, c, op)
  PROVE  ThreadInv'
<1> DEFINE new == [Idle EXCEPT !.op = op, !.stage = "prepare", !.c = c,
                     !.parent = parent[c], !.root = root[c]]
<1>1. req' = [req EXCEPT ![p] = new] /\ UNCHANGED <<status, parent, root>>
  BY DEF ReadRemoval, rows
<1>2. new.op = op /\ new.stage = "prepare" /\ new.c = c /\ new.parent = parent[c]
      /\ new.root = root[c] /\ new.moved = {}
  BY DEF Idle
<1>3. c \in Used  BY DEF ReadRemoval, Used
<1> HIDE DEF new
<1>6. req'[p] = new  BY <1>1 DEF TypeOKFolded
<1>7. RequestShape(p)'
  <2>1. RemovalShape(p)'
    BY <1>1, <1>2, <1>3, <1>6 DEF RemovalShape, Used, InThread, ThreadInv, Lineage
  <2> QED  BY <1>2, <1>6, <2>1 DEF RequestShape, CreateShape, MovedShape, StageShape
<1> QED  BY <1>1, <1>2, <1>7, ReadKeeps

LEMMA ReadRestoreKeeps ==
  ASSUME TypeOKFolded, ThreadInv, NEW p \in Requests, NEW c \in Comments, ReadRestore(p, c)
  PROVE  ThreadInv'
<1>1. PICK new : /\ req' = [req EXCEPT ![p] = new] /\ new.op = "restore"
                 /\ new.stage = "write" /\ new.moved = {}
  <2> DEFINE counted == IF parent[c] # None /\ status[root[c]] = "active"
                        THEN root[c] ELSE None
             new == [Idle EXCEPT !.op = "restore", !.stage = "write", !.c = c,
                      !.counted = counted, !.postCount = postCount,
                      !.change = IF parent[c] = None
                                 THEN 1 + Cardinality(RepliesOf(c)) ELSE 1,
                      !.replies = IF counted = None THEN 0 ELSE replies[counted]]
  <2>1. req' = [req EXCEPT ![p] = new]  BY DEF ReadRestore
  <2>2. new.op = "restore" /\ new.stage = "write" /\ new.moved = {}  BY DEF Idle
  <2> QED  BY <2>1, <2>2
<1>2. UNCHANGED <<status, parent, root>>  BY DEF ReadRestore, rows
<1>3. req'[p] = new  BY <1>1 DEF TypeOKFolded
<1>4. RequestShape(p)'
  BY <1>1, <1>3 DEF RequestShape, CreateShape, RemovalShape, MovedShape, StageShape
<1> QED  BY <1>1, <1>2, <1>4, ReadKeeps

LEMMA PrepareKeeps ==
  ASSUME TypeOKFolded, ThreadInv, NEW p \in Requests, PrepareRemoval(p)
  PROVE  ThreadInv'
<1> DEFINE r == req[p]
<1>1. r.stage = "prepare" /\ Moves(p) \cap Locked(p) = {} /\ UNCHANGED <<status, parent, root>>
  BY DEF PrepareRemoval, rows
<1>2. CASE req' = [req EXCEPT ![p] = Idle]  BY <1>1, <1>2, EndKeeps
<1>3. CASE req' # [req EXCEPT ![p] = Idle]
  <2>1. PICK new : /\ req' = [req EXCEPT ![p] = new]
                   /\ new.op = r.op /\ new.stage = "write" /\ new.c = r.c
                   /\ new.parent = r.parent /\ new.root = r.root /\ new.moved = Moves(p)
    <3> DEFINE counted == IF r.root \in Live THEN r.root ELSE None
               new == [r EXCEPT !.stage = "write", !.moved = Moves(p),
                       !.counted = counted, !.change = Subtracted(p),
                       !.postCount = postCount,
                       !.replies = IF counted = None THEN 0 ELSE replies[counted]]
    <3>1. req' = [req EXCEPT ![p] = new]  BY <1>3 DEF PrepareRemoval
    <3>2. r \in ReqType  BY DEF TypeOKFolded
    <3>3. /\ new.op = r.op /\ new.stage = "write" /\ new.c = r.c
          /\ new.parent = r.parent /\ new.root = r.root /\ new.moved = Moves(p)
      BY <3>2 DEF ReqType
    <3> QED  BY <3>1, <3>3
  <2>2. ~(Moves(p) # {} /\ r.parent \notin Live)  BY <1>3 DEF PrepareRemoval
  <2>3. req'[p] = new  BY <2>1 DEF TypeOKFolded
  <2>4. r.op \in {"delete", "archive"} /\ RequestShape(p)
    BY <1>1 DEF ThreadInv, RequestShape, StageShape
  <2>5. Live' = Live /\ Used' = Used  BY <1>1 DEF Live, Used
  <2>6. RequestShape(p)'
    <3>1. RemovalShape(p)'
      BY <1>1, <2>1, <2>3, <2>4, <2>5 DEF RequestShape, RemovalShape, InThread
    <3>2. Moves(p) \subseteq Live /\ \A k \in Moves(p) : parent[k] = r.c
      BY DEF Moves
    <3>3. MovedShape(p)'
      BY <1>1, <2>1, <2>2, <2>3, <2>4, <2>5, <3>2 DEF MovedShape
    <3> QED  BY <2>1, <2>3, <2>4, <3>1, <3>3 DEF RequestShape, CreateShape, StageShape
  <2>7. \A q \in Requests \ {p} : Moves(p) \cap req[q].moved = {}
    BY <1>1 DEF Locked
  <2> QED  BY <1>1, <2>1, <2>4, <2>6, <2>7, ReadKeeps
<1> QED  BY <1>2, <1>3

\* A step that ends one request and writes rows: what the other requests have
\* read stays true if no written comment changes its thread, and the rows they
\* hold, and the rows they refer to, stay.
LEMMA WriteKeeps ==
  ASSUME TypeOKFolded, ThreadInv, NEW p \in Requests,
         req' = [req EXCEPT ![p] = Idle],
         Lineage', Referenced',
         Used \subseteq Used',
         \A k \in Used : root'[k] = root[k] /\ (parent'[k] = None <=> parent[k] = None),
         \A q \in Requests \ {p} :
           /\ req[q].op = "create" => status'[req[q].c] = "free"
           /\ req[q].moved # {} =>
                /\ req[q].moved \subseteq Live'
                /\ req[q].parent \in Live'
                /\ \A k \in req[q].moved : parent'[k] = parent[k]
  PROVE  ThreadInv'
<1>1. req'[p] = Idle /\ \A q \in Requests \ {p} : req'[q] = req[q]  BY DEF TypeOKFolded
<1>2. Idle.op = "idle" /\ Idle.moved = {} /\ Idle.stage = "none"  BY DEF Idle
<1>3. ASSUME NEW q \in Requests, q # p PROVE RequestShape(q)'
  <2>1. req'[q] = req[q] /\ RequestShape(q)  BY <1>1, <1>3 DEF ThreadInv
  <2>2. CreateShape(q)'  BY <2>1, <1>3 DEF RequestShape, CreateShape, InThread
  <2>3. RemovalShape(q)'  BY <2>1 DEF RequestShape, RemovalShape, InThread
  <2>4. MovedShape(q)'  BY <2>1, <1>3 DEF RequestShape, MovedShape
  <2>5. StageShape(q)'  BY <2>1 DEF RequestShape, StageShape
  <2> QED  BY <2>2, <2>3, <2>4, <2>5 DEF RequestShape
<1>4. RequestShape(p)'
  BY <1>1, <1>2 DEF RequestShape, CreateShape, RemovalShape, MovedShape, StageShape
<1>5. Apart'  BY <1>1, <1>2 DEF ThreadInv, Apart
<1> QED  BY <1>3, <1>4, <1>5 DEF ThreadInv

LEMMA WriteCreateKeeps ==
  ASSUME TypeOKFolded, ThreadInv, NEW p \in Requests, WriteCreate(p)
  PROVE  ThreadInv'
<1> DEFINE r == req[p]
<1>1. r.op = "create" /\ req' = [req EXCEPT ![p] = Idle]  BY DEF WriteCreate
<1>2. CASE {r.parent, r.root} \subseteq Live \cup {None}
  <2>1. /\ status' = [status EXCEPT ![r.c] = "active"]
        /\ parent' = [parent EXCEPT ![r.c] = r.parent]
        /\ root' = [root EXCEPT ![r.c] = r.root]
    BY <1>2 DEF WriteCreate
  <2>2. CreateShape(p)  BY DEF ThreadInv, RequestShape
  <2>3. r.c \in Comments /\ r.c \notin Used  BY <1>1, <2>2 DEF CreateShape, Used
  <2>4. Used' = Used \cup {r.c} /\ Live' = Live \cup {r.c}
    BY <2>1, <2>3 DEF Used, Live, TypeOKFolded
  <2>5. \A k \in Used : root'[k] = root[k] /\ parent'[k] = parent[k] /\ k # r.c
    BY <2>1, <2>3 DEF Used, TypeOKFolded
  <2>6. parent'[r.c] = r.parent /\ root'[r.c] = r.root
    BY <2>1, <2>3 DEF TypeOKFolded
  <2>7. Live \subseteq Used  BY DEF Live, Used
  <2>8. Lineage'
    <3>1. ASSUME NEW k \in Used
          PROVE IF parent'[k] = None THEN root'[k] = None
                ELSE /\ root'[k] \in Used' /\ parent'[root'[k]] = None
                     /\ parent'[k] \in Used' /\ InThread(parent[k], root[k])'
      BY <2>4, <2>5 DEF ThreadInv, Lineage, InThread
    <3>2. IF parent'[r.c] = None THEN root'[r.c] = None
          ELSE /\ root'[r.c] \in Used' /\ parent'[root'[r.c]] = None
               /\ parent'[r.c] \in Used' /\ (parent'[r.c] = root'[r.c] \/ root'[parent'[r.c]] = root'[r.c])
      BY <1>1, <2>2, <2>4, <2>5, <2>6 DEF CreateShape, InThread
    <3> QED  BY <2>4, <3>1, <3>2 DEF Lineage, InThread
  <2>9. Referenced'
    <3>1. ASSUME NEW k \in Live, parent'[k] # None
          PROVE  root'[k] \in Live' /\ parent'[k] \in Live'
      BY <2>4, <2>5, <2>7, <3>1 DEF ThreadInv, Referenced
    <3>2. parent'[r.c] # None => root'[r.c] \in Live' /\ parent'[r.c] \in Live'
      <4>1. r.parent # None => r.root # None
        BY <1>1, <2>2, NoneIsNoComment DEF CreateShape, Used
      <4> QED  BY <1>2, <2>4, <2>6, <4>1
    <3> QED  BY <2>4, <3>1, <3>2 DEF Referenced
  <2>10. ASSUME NEW q \in Requests \ {p}
         PROVE  /\ req[q].op = "create" => status'[req[q].c] = "free"
                /\ req[q].moved # {} =>
                     /\ req[q].moved \subseteq Live'
                     /\ req[q].parent \in Live'
                     /\ \A k \in req[q].moved : parent'[k] = parent[k]
    <3>1. req[q].op = "create" => req[q].c # r.c  BY <1>1 DEF ThreadInv, Apart
    <3>2. req[q].op = "create" => req[q].c \in Comments /\ status[req[q].c] = "free"
      BY DEF ThreadInv, RequestShape, CreateShape
    <3>3. req[q].op = "create" => status'[req[q].c] = "free"
      BY <2>1, <3>1, <3>2 DEF TypeOKFolded
    <3>4. MovedShape(q)  BY DEF ThreadInv, RequestShape
    <3> QED  BY <2>4, <2>5, <2>7, <3>3, <3>4 DEF MovedShape
  <2>11. Used \subseteq Used'  BY <2>4
  <2> QED  BY <1>1, <2>5, <2>8, <2>9, <2>10, <2>11, WriteKeeps
<1>3. CASE ~({r.parent, r.root} \subseteq Live \cup {None})
  <2>1. UNCHANGED <<status, parent, root>>  BY <1>3 DEF WriteCreate
  <2> QED  BY <1>1, <2>1, EndKeeps
<1> QED  BY <1>2, <1>3

\* A member of the cascade brings whatever refers to it.
LEMMA CascadeClosed ==
  ASSUME NEW c, NEW up, NEW k \in Live,
         up[k] \in Cascade(c, up) \/ root[k] \in Cascade(c, up)
  PROVE  k \in Cascade(c, up)
BY DEF Cascade

\* The parents after p's replies are moved: still in the same thread, and
\* still there.
LEMMA MovedParents ==
  ASSUME TypeOKFolded, ThreadInv, NEW p \in Requests
  PROVE  /\ \A k \in Used : MovedParent(p)[k] = None <=> parent[k] = None
         /\ \A k \in Used : MovedParent(p)[k] # None =>
              MovedParent(p)[k] \in Used /\ InThread(MovedParent(p)[k], root[k])
         /\ \A k \in Live : MovedParent(p)[k] # None =>
              MovedParent(p)[k] \in Live /\ root[k] \in Live
         /\ \A q \in Requests \ {p} : \A k \in req[q].moved : MovedParent(p)[k] = parent[k]
<1> DEFINE r == req[p]
           m == MovedParent(p)
<1>0. Live \subseteq Used /\ Used \subseteq Comments  BY DEF Live, Used
<1>1. MovedShape(p) /\ RemovalShape(p)  BY DEF ThreadInv, RequestShape
<1>2. \A k \in Comments : m[k] = IF k \in r.moved THEN r.parent ELSE parent[k]
  BY DEF MovedParent
<1>3. ASSUME NEW k \in r.moved
      PROVE  /\ r.parent \in Live /\ r.parent # None /\ parent[k] # None
             /\ InThread(r.parent, root[k]) /\ root[k] \in Live
  <2>1. /\ r.op \in {"delete", "archive"} /\ r.parent \in Live
        /\ parent[k] = r.c /\ k \in Live
    BY <1>1, <1>3 DEF MovedShape
  <2>2. r.parent # None  BY <2>1, NoneIsNoComment DEF Live
  <2>3. r.c \in Used /\ root[r.c] = r.root /\ parent[r.c] # None /\ InThread(r.parent, r.root)
    BY <1>1, <2>1, <2>2 DEF RemovalShape
  <2>4. parent[k] # None  BY <2>1, <2>3, NoneIsNoComment DEF Used
  <2>5. parent[root[k]] = None /\ InThread(r.c, root[k]) /\ root[k] \in Live
    BY <1>0, <2>1, <2>4 DEF ThreadInv, Lineage, Referenced
  <2>6. root[k] = r.root  BY <2>3, <2>5 DEF InThread
  <2> QED  BY <2>1, <2>2, <2>3, <2>4, <2>5, <2>6
<1>4. \A k \in Used : m[k] = None <=> parent[k] = None  BY <1>0, <1>2, <1>3
<1>5. \A k \in Used : m[k] # None => m[k] \in Used /\ InThread(m[k], root[k])
  BY <1>0, <1>2, <1>3 DEF ThreadInv, Lineage
<1>6. \A k \in Live : m[k] # None => m[k] \in Live /\ root[k] \in Live
  BY <1>0, <1>2, <1>3 DEF ThreadInv, Referenced
<1>7. ASSUME NEW q \in Requests \ {p}, NEW k \in req[q].moved PROVE m[k] = parent[k]
  <2>1. k \notin r.moved  BY DEF ThreadInv, Apart
  <2>2. k \in Comments  BY <1>0 DEF ThreadInv, RequestShape, MovedShape
  <2> QED  BY <1>2, <2>1, <2>2
<1> QED  BY <1>4, <1>5, <1>6, <1>7

LEMMA WriteDeleteKeeps ==
  ASSUME TypeOKFolded, ThreadInv, NEW p \in Requests, WriteDelete(p)
  PROVE  ThreadInv'
<1> DEFINE up == MovedParent(p)
           gone == Cascade(req[p].c, up)
<1>0. req' = [req EXCEPT ![p] = Idle] /\ root' = root  BY DEF WriteDelete
<1>1. CASE UpdatesMissingRow(p)
  <2>1. UNCHANGED <<status, parent, root>>  BY <1>1 DEF WriteDelete
  <2> QED  BY <1>0, <2>1, EndKeeps
<1>2. CASE ~UpdatesMissingRow(p)
  <2>1. /\ gone \cap (Locked(p) \cup Referred(p)) = {}
        /\ parent' = up
        /\ status' = [k \in Comments |-> IF k \in gone THEN "gone" ELSE status[k]]
    BY <1>2 DEF WriteDelete
  <2>2. gone \subseteq Live  BY DEF Cascade
  <2>3. Live \subseteq Used /\ Used \subseteq Comments  BY DEF Live, Used
  <2>4. Used' = Used /\ Live' = Live \ gone
    BY <2>1, <2>2, <2>3 DEF Used, Live, TypeOKFolded
  <2>5. /\ \A k \in Used : up[k] = None <=> parent[k] = None
        /\ \A k \in Used : up[k] # None => up[k] \in Used /\ InThread(up[k], root[k])
        /\ \A k \in Live : up[k] # None => up[k] \in Live /\ root[k] \in Live
        /\ \A q \in Requests \ {p} : \A k \in req[q].moved : up[k] = parent[k]
    BY MovedParents
  <2>6. \A k \in Live : up[k] \in gone \/ root[k] \in gone => k \in gone
    BY CascadeClosed
  <2> HIDE DEF up, gone
  <2>7. Lineage'
    BY <1>0, <2>1, <2>4, <2>5 DEF ThreadInv, Lineage, InThread
  <2>8. Referenced'
    BY <1>0, <2>1, <2>4, <2>5, <2>6 DEF Referenced
  <2>9. ASSUME NEW q \in Requests \ {p}
        PROVE  /\ req[q].op = "create" => status'[req[q].c] = "free"
               /\ req[q].moved # {} =>
                    /\ req[q].moved \subseteq Live'
                    /\ req[q].parent \in Live'
                    /\ \A k \in req[q].moved : parent'[k] = parent[k]
    <3>1. CreateShape(q) /\ MovedShape(q)  BY DEF ThreadInv, RequestShape
    <3>2. req[q].op = "create" => status'[req[q].c] = "free"
      BY <2>1, <2>2, <2>3, <3>1 DEF CreateShape, Live
    <3>3. req[q].moved \subseteq Locked(p)  BY DEF Locked
    <3>4. req[q].moved # {} => req[q].parent \in Referred(p)  BY DEF Referred
    <3> QED  BY <2>1, <2>4, <2>5, <3>1, <3>2, <3>3, <3>4 DEF MovedShape
  <2> QED  BY <1>0, <2>1, <2>4, <2>5, <2>7, <2>8, <2>9, WriteKeeps
<1> QED  BY <1>1, <1>2

LEMMA WriteArchiveKeeps ==
  ASSUME TypeOKFolded, ThreadInv, NEW p \in Requests, WriteArchive(p)
  PROVE  ThreadInv'
<1> DEFINE up == MovedParent(p)
<1>0. req' = [req EXCEPT ![p] = Idle] /\ root' = root /\ req[p].op = "archive"
  BY DEF WriteArchive
<1>1. CASE UpdatesMissingRow(p)
  <2>1. UNCHANGED <<status, parent, root>>  BY <1>1 DEF WriteArchive
  <2> QED  BY <1>0, <2>1, EndKeeps
<1>2. CASE ~UpdatesMissingRow(p)
  <2>1. parent' = up /\ status' = [status EXCEPT ![req[p].c] = "archived"]
    BY <1>2 DEF WriteArchive
  <2>2. req[p].c \in Live  BY <1>0, <1>2 DEF UpdatesMissingRow
  <2>3. Live \subseteq Used /\ Used \subseteq Comments  BY DEF Live, Used
  <2>4. Used' = Used /\ Live' = Live
    BY <2>1, <2>2 DEF Used, Live, TypeOKFolded
  <2>5. /\ \A k \in Used : up[k] = None <=> parent[k] = None
        /\ \A k \in Used : up[k] # None => up[k] \in Used /\ InThread(up[k], root[k])
        /\ \A k \in Live : up[k] # None => up[k] \in Live /\ root[k] \in Live
        /\ \A q \in Requests \ {p} : \A k \in req[q].moved : up[k] = parent[k]
    BY MovedParents
  <2> HIDE DEF up
  <2>7. Lineage'
    BY <1>0, <2>1, <2>4, <2>5 DEF ThreadInv, Lineage, InThread
  <2>8. Referenced'
    BY <1>0, <2>1, <2>4, <2>5 DEF Referenced
  <2>9. ASSUME NEW q \in Requests \ {p}
        PROVE  /\ req[q].op = "create" => status'[req[q].c] = "free"
               /\ req[q].moved # {} =>
                    /\ req[q].moved \subseteq Live'
                    /\ req[q].parent \in Live'
                    /\ \A k \in req[q].moved : parent'[k] = parent[k]
    <3>1. CreateShape(q) /\ MovedShape(q)  BY DEF ThreadInv, RequestShape
    <3>2. req[q].op = "create" => status'[req[q].c] = "free"
      BY <2>1, <2>2, <3>1 DEF CreateShape, Live, TypeOKFolded
    <3> QED  BY <2>1, <2>4, <2>5, <3>1, <3>2 DEF MovedShape
  <2> QED  BY <1>0, <2>1, <2>4, <2>5, <2>7, <2>8, <2>9, WriteKeeps
<1> QED  BY <1>1, <1>2

LEMMA WriteRestoreKeeps ==
  ASSUME TypeOKFolded, ThreadInv, NEW p \in Requests, WriteRestore(p)
  PROVE  ThreadInv'
<1>0. req' = [req EXCEPT ![p] = Idle] /\ root' = root /\ parent' = parent
      /\ req[p].op = "restore"
  BY DEF WriteRestore
<1>1. CASE UpdatesMissingRow(p)
  <2>1. UNCHANGED <<status, parent, root>>  BY <1>1 DEF WriteRestore
  <2> QED  BY <1>0, <2>1, EndKeeps
<1>2. CASE ~UpdatesMissingRow(p)
  <2>1. status' = [status EXCEPT ![req[p].c] = "active"]  BY <1>2 DEF WriteRestore
  <2>2. req[p].c \in Live  BY <1>0, <1>2 DEF UpdatesMissingRow
  <2>4. Used' = Used /\ Live' = Live
    BY <2>1, <2>2 DEF Used, Live, TypeOKFolded
  <2>7. Lineage' /\ Referenced'
    BY <1>0, <2>4 DEF ThreadInv, Lineage, Referenced, InThread
  <2>9. ASSUME NEW q \in Requests \ {p}
        PROVE  /\ req[q].op = "create" => status'[req[q].c] = "free"
               /\ req[q].moved # {} =>
                    /\ req[q].moved \subseteq Live'
                    /\ req[q].parent \in Live'
                    /\ \A k \in req[q].moved : parent'[k] = parent[k]
    <3>1. CreateShape(q) /\ MovedShape(q)  BY DEF ThreadInv, RequestShape
    <3>2. req[q].op = "create" => status'[req[q].c] = "free"
      BY <2>1, <2>2, <3>1 DEF CreateShape, Live, TypeOKFolded
    <3> QED  BY <1>0, <2>4, <3>1, <3>2 DEF MovedShape
  <2> QED  BY <1>0, <2>4, <2>7, <2>9, WriteKeeps
<1> QED  BY <1>1, <1>2

LEMMA ThreadsInvariant == Spec => [](TypeOKFolded /\ ThreadInv)
<1>1. Init => ThreadInv
  <2> SUFFICES ASSUME Init PROVE ThreadInv  OBVIOUS
  <2>1. Used = {} /\ Live = {}  BY DEF Init, Used, Live
  <2>2. \A p \in Requests : req[p] = Idle  BY DEF Init
  <2>3. \A p \in Requests : RequestShape(p)  BY <2>2, IdleShape
  <2>4. Idle.op = "idle" /\ Idle.moved = {}  BY DEF Idle
  <2> QED  BY <2>1, <2>2, <2>3, <2>4 DEF ThreadInv, Lineage, Referenced, Apart
<1>2. TypeOKFolded /\ ThreadInv /\ [Next]_vars => ThreadInv'
  <2> SUFFICES ASSUME TypeOKFolded, ThreadInv, [Next]_vars PROVE ThreadInv'  OBVIOUS
  <2>1. ASSUME NEW p \in Requests, RollBack(p) PROVE ThreadInv'
    BY <2>1, EndKeeps DEF RollBack, rows
  <2>2. ASSUME UNCHANGED <<status, parent, root, req>> PROVE ThreadInv'
    <3>1. Used' = Used /\ Live' = Live  BY <2>2 DEF Used, Live
    <3> QED  BY <2>2, <3>1
             DEF ThreadInv, Lineage, Referenced, Apart, InThread, RequestShape,
                 CreateShape, RemovalShape, MovedShape, StageShape
  <2>3. CASE ArchivePost \/ RestorePost \/ UNCHANGED vars
    BY <2>2, <2>3 DEF ArchivePost, RestorePost, vars
  <2> QED
    BY <2>1, <2>3, ReadCreateKeeps, ReadRemovalKeeps, ReadRestoreKeeps, PrepareKeeps,
       WriteCreateKeeps, WriteDeleteKeeps, WriteArchiveKeeps, WriteRestoreKeeps
    DEF Next
<1>3. Spec => []TypeOKFolded
  <2>1. TypeOK <=> TypeOKFolded  BY Folded
  <2> QED  BY <2>1, TypeCorrect, PTL
<1> QED  BY <1>1, <1>2, <1>3, PTL DEF Spec

\* The shape of the threads survives every interleaving of requests, with any
\* number of comments and requests.
THEOREM ThreadsHold == Spec => []Threaded
BY ThreadsInvariant, ShapeGivesThreads, PTL

-----------------------------------------------------------------------------
(***************************************************************************)
(* One request at a time.  What a request has read stays true as long as   *)
(* no other begins, and then a deletion takes exactly the comment, or the  *)
(* thread of a root, with it: the answers have a greater rank than what    *)
(* they answer, so that moving them up leaves none below the comment.      *)
(***************************************************************************)

\* What goes with a comment: its replies, if it is a root.
Group(c) == IF parent[c] = None THEN {c} \cup RepliesOf(c) ELSE {c}

OneAtATime == \A p, q \in Requests : InFlight(p) /\ InFlight(q) => p = q

Ranked ==
  \E f \in [Comments -> Nat] : \A k \in Live : parent[k] # None => f[parent[k]] < f[k]

RemovalFresh(p) ==
  req[p].op \in {"delete", "archive"} =>
    /\ req[p].c \in Live
    /\ req[p].parent = parent[req[p].c] /\ req[p].root = root[req[p].c]
    /\ req[p].stage = "write" => req[p].moved = Moves(p)

SoloInv ==
  "overlap" \notin history => OneAtATime /\ Ranked /\ \A p \in Requests : RemovalFresh(p)

LEMMA ThreadFacts ==
  ASSUME TypeOKFolded, ThreadInv
  PROVE  /\ Live \subseteq Comments /\ Live \subseteq Used /\ None \notin Live
         /\ \A k \in Live : parent[k] = None <=> root[k] = None
         /\ \A k \in Live : parent[k] # None =>
              /\ root[k] \in Live /\ parent[root[k]] = None /\ root[root[k]] = None
              /\ parent[k] \in Live /\ InThread(parent[k], root[k])
<1>1. Live \subseteq Comments /\ Live \subseteq Used /\ None \notin Live
  BY NoneIsNoComment DEF Live, Used
<1>2. ASSUME NEW k \in Live, parent[k] # None
      PROVE  /\ root[k] \in Live /\ parent[root[k]] = None /\ root[root[k]] = None
             /\ parent[k] \in Live /\ InThread(parent[k], root[k])
  BY <1>1, <1>2 DEF ThreadInv, Lineage, Referenced
<1>3. ASSUME NEW k \in Live, parent[k] = None PROVE root[k] = None
  BY <1>1, <1>3 DEF ThreadInv, Lineage
<1> QED  BY <1>1, <1>2, <1>3

\* Only the thread of a root, or a reply alone, is deleted.
LEMMA CascadeIsGroup ==
  ASSUME TypeOKFolded, ThreadInv, Ranked, NEW p \in Requests, NEW c \in Live,
         req[p].c = c, req[p].parent = parent[c], req[p].moved = Moves(p)
  PROVE  Cascade(c, MovedParent(p)) = Group(c)
<1> DEFINE up == MovedParent(p)
<1>1. PICK f \in [Comments -> Nat] : \A k \in Live : parent[k] # None => f[parent[k]] < f[k]
  BY DEF Ranked
<1>2. \A k \in Comments : up[k] = IF k \in req[p].moved THEN parent[c] ELSE parent[k]
  BY DEF MovedParent
<1>3. Group(c) \subseteq Live /\ c \in Group(c)
  BY DEF Group, RepliesOf
<1>4. \A k \in Live : up[k] \in Group(c) \/ root[k] \in Group(c) => k \in Group(c)
  <2>1. CASE parent[c] = None
    <3>1. req[p].moved = {}
      BY <2>1 DEF Moves
    <3>2. \A k \in Live : up[k] = parent[k]
      BY <3>1, <1>2 DEF Live
    <3>3. root[c] = None
      BY <2>1, ThreadFacts
    <3>4. \A k \in Live : root[k] = c => k \in Group(c)
      BY <2>1 DEF Group, RepliesOf
    <3>5. \A k \in Live : root[k] \in Group(c) => root[k] = c
      BY <2>1, <3>3, ThreadFacts DEF Group, RepliesOf
    <3>6. \A k \in Live : parent[k] \in Group(c) => root[k] = c
      BY <2>1, <3>3, ThreadFacts DEF Group, RepliesOf, InThread
    <3> QED  BY <3>2, <3>4, <3>5, <3>6
  <2>2. CASE parent[c] # None
    <3>1. Group(c) = {c}
      BY <2>2 DEF Group
    <3>2. \A k \in Live : root[k] # c
      BY <2>2, ThreadFacts
    <3>3. parent[c] # c
      BY <1>1, <2>2 DEF Live
    <3>4. req[p].moved = {k \in Live : parent[k] = c}
      BY <2>2 DEF Moves
    <3>5. \A k \in Live : up[k] # c
      BY <1>2, <3>3, <3>4 DEF Live
    <3> QED  BY <3>1, <3>2, <3>5
  <2> QED  BY <2>1, <2>2
<1>5. Cascade(c, up) \subseteq Group(c)
  <2> SUFFICES ASSUME NEW k \in Cascade(c, up) PROVE k \in Group(c)
    OBVIOUS
  <2>1. Group(c) \in {S \in SUBSET Live :
                        /\ c \in Live => c \in S
                        /\ \A j \in Live : up[j] \in S \/ root[j] \in S => j \in S}
    BY <1>3, <1>4
  <2> QED  BY <2>1 DEF Cascade
<1>6. Group(c) \subseteq Cascade(c, up)
  <2>1. c \in Cascade(c, up)
    BY DEF Cascade
  <2>2. \A k \in RepliesOf(c) : k \in Cascade(c, up)
    <3> SUFFICES ASSUME NEW k \in RepliesOf(c) PROVE k \in Cascade(c, up)
      OBVIOUS
    <3>1. k \in Live /\ root[k] = c
      BY DEF RepliesOf
    <3> QED  BY <2>1, <3>1, CascadeClosed
  <2> QED  BY <2>1, <2>2 DEF Group
<1> QED  BY <1>5, <1>6

\* A step that leaves the rows alone and ends one request.
LEMMA SoloEnds ==
  ASSUME TypeOKFolded, SoloInv, NEW p \in Requests, req' = [req EXCEPT ![p] = Idle],
         UNCHANGED <<status, parent, root>>, history \subseteq history'
  PROVE  SoloInv'
<1>1. Idle.op = "idle"
  BY DEF Idle
<1>2. req'[p] = Idle /\ \A q \in Requests : q # p => req'[q] = req[q]
  BY DEF TypeOKFolded
<1>3. Live' = Live
  BY DEF Live
<1> SUFFICES ASSUME "overlap" \notin history'
             PROVE  OneAtATime' /\ Ranked' /\ \A q \in Requests : RemovalFresh(q)'
  BY DEF SoloInv
<1>4. OneAtATime /\ Ranked /\ \A q \in Requests : RemovalFresh(q)
  BY DEF SoloInv
<1>5. OneAtATime'
  BY <1>1, <1>2, <1>4 DEF OneAtATime, InFlight
<1>6. Ranked'
  BY <1>3, <1>4 DEF Ranked
<1>7. ASSUME NEW q \in Requests PROVE RemovalFresh(q)'
  <2>1. CASE q = p
    BY <1>1, <1>2, <2>1 DEF RemovalFresh
  <2>2. CASE q # p
    BY <1>2, <1>3, <1>4, <2>2 DEF RemovalFresh, Moves
  <2> QED  BY <2>1, <2>2
<1> QED  BY <1>5, <1>6, <1>7

\* A request begins or goes on, knowing the comment it removes.
LEMMA SoloReads ==
  ASSUME TypeOKFolded, SoloInv, NEW p \in Requests, NEW new,
         req' = [req EXCEPT ![p] = new], UNCHANGED <<status, parent, root>>,
         history \subseteq history',
         "overlap" \notin history' =>
           RemovalFresh(p)' /\ \A q \in Requests \ {p} : ~InFlight(q)
  PROVE  SoloInv'
<1>2. req'[p] = new /\ \A q \in Requests : q # p => req'[q] = req[q]
  BY DEF TypeOKFolded
<1>3. Live' = Live
  BY DEF Live
<1> SUFFICES ASSUME "overlap" \notin history'
             PROVE  OneAtATime' /\ Ranked' /\ \A q \in Requests : RemovalFresh(q)'
  BY DEF SoloInv
<1>4. OneAtATime /\ Ranked /\ \A q \in Requests : RemovalFresh(q)
  BY DEF SoloInv
<1>5. OneAtATime'
  BY <1>2 DEF OneAtATime, InFlight
<1>6. Ranked'
  BY <1>3, <1>4 DEF Ranked
<1>7. ASSUME NEW q \in Requests, q # p PROVE RemovalFresh(q)'
  BY <1>2, <1>3, <1>4, <1>7 DEF RemovalFresh, Moves
<1> QED  BY <1>5, <1>6, <1>7

\* The only request in flight writes.
LEMMA SoloWrites ==
  ASSUME TypeOKFolded, SoloInv, NEW p \in Requests, InFlight(p),
         req' = [req EXCEPT ![p] = Idle], history' = history,
         "overlap" \notin history => Ranked'
  PROVE  SoloInv'
<1>1. Idle.op = "idle"
  BY DEF Idle
<1>2. req'[p] = Idle /\ \A q \in Requests : q # p => req'[q] = req[q]
  BY DEF TypeOKFolded
<1> SUFFICES ASSUME "overlap" \notin history'
             PROVE  OneAtATime' /\ Ranked' /\ \A q \in Requests : RemovalFresh(q)'
  BY DEF SoloInv
<1>3. \A q \in Requests : q # p => req[q].op = "idle"
  BY DEF SoloInv, OneAtATime, InFlight
<1>4. \A q \in Requests : req'[q].op = "idle"
  BY <1>1, <1>2, <1>3
<1> QED  BY <1>4 DEF OneAtATime, InFlight, RemovalFresh

\* Removing a comment moves its answers to what it has answered, which has a
\* smaller rank still.
LEMMA RemovalRanked ==
  ASSUME TypeOKFolded, ThreadInv, Ranked, NEW p \in Requests, NEW c \in Live,
         req[p].c = c, req[p].parent = parent[c], req[p].moved = Moves(p),
         parent' = MovedParent(p), Live' \subseteq Live
  PROVE  Ranked'
<1>1. PICK f \in [Comments -> Nat] : \A k \in Live : parent[k] # None => f[parent[k]] < f[k]
  BY DEF Ranked
<1>2. ASSUME NEW k \in Live, parent'[k] # None PROVE f[parent'[k]] < f[k]
  <2>1. k \in Comments
    BY DEF Live
  <2>2. CASE k \notin req[p].moved
    BY <1>1, <1>2, <2>1, <2>2 DEF MovedParent
  <2>3. CASE k \in req[p].moved
    <3>1. parent'[k] = parent[c]
      BY <2>1, <2>3 DEF MovedParent
    <3>2. parent[c] # None /\ parent[k] = c /\ parent[k] # None
      BY <1>2, <2>3, <3>1, ThreadFacts DEF Moves
    <3>3. f[parent[c]] < f[c] /\ f[c] < f[k]
      BY <1>1, <3>2
    <3>4. parent[c] \in Comments /\ c \in Comments
      BY <3>2, ThreadFacts
    <3>5. f[parent[c]] \in Nat /\ f[c] \in Nat /\ f[k] \in Nat
      BY <2>1, <3>4
    <3> QED  BY <3>1, <3>3, <3>5
  <2> QED  BY <2>2, <2>3
<1> QED  BY <1>2 DEF Ranked

LEMMA BeginsAlone ==
  ASSUME NEW p \in Requests, NEW mixed, Begin(p, mixed)
  PROVE  /\ history \subseteq history'
         /\ "overlap" \notin history' => \A q \in Requests \ {p} : ~InFlight(q)
         /\ history' = {} => ~mixed
BY DEF Begin

\* What a request that begins to create has read.
LEMMA CreateRead ==
  ASSUME NEW p \in Requests, NEW c \in Comments, NEW up \in Comments \cup {None},
         ReadCreate(p, c, up)
  PROVE  \E new :
           /\ req' = [req EXCEPT ![p] = new]
           /\ new.op = "create" /\ new.stage = "write" /\ new.c = c /\ new.parent = up
           /\ new.root = (IF up = None THEN None ELSE ThreadRoot(up))
           /\ new.postCount = postCount
           /\ new.counted # None => new.replies = replies[new.counted]
           /\ new.counted = new.root \/ "mixed" \in history'
           /\ new.counted # None => status[new.counted] = "active"
<1> DEFINE r == IF up = None THEN None ELSE ThreadRoot(up)
           counted == IF r # None /\ status[r] = "active" THEN r ELSE None
           new == [Idle EXCEPT !.op = "create", !.stage = "write", !.c = c,
                     !.parent = up, !.root = r, !.counted = counted,
                     !.change = 1, !.postCount = postCount,
                     !.replies = IF counted = None THEN 0 ELSE replies[counted]]
<1>1. req' = [req EXCEPT ![p] = new]
  BY DEF ReadCreate
<1>2. /\ new.op = "create" /\ new.stage = "write" /\ new.c = c /\ new.parent = up
      /\ new.root = r /\ new.postCount = postCount /\ new.counted = counted
      /\ new.replies = IF counted = None THEN 0 ELSE replies[counted]
  BY DEF Idle
<1>3. counted = r \/ "mixed" \in history'
  BY DEF ReadCreate, Begin
<1> HIDE DEF new
<1> QED  BY <1>1, <1>2, <1>3

LEMMA SoloStep ==
  ASSUME TypeOKFolded, ThreadInv, SoloInv, [Next]_vars
  PROVE  SoloInv'
<1>1. ASSUME NEW p \in Requests, NEW c \in Comments, NEW up \in Comments \cup {None},
             ReadCreate(p, c, up)
      PROVE  SoloInv'
  <2>1. PICK new : new.op = "create" /\ req' = [req EXCEPT ![p] = new]
    BY <1>1, CreateRead
  <2>2. req'[p] = new
    BY <2>1 DEF TypeOKFolded
  <2>3. RemovalFresh(p)'
    BY <2>1, <2>2 DEF RemovalFresh
  <2>4. /\ history \subseteq history'
        /\ "overlap" \notin history' => \A q \in Requests \ {p} : ~InFlight(q)
        /\ UNCHANGED <<status, parent, root>>
    BY <1>1 DEF ReadCreate, Begin, rows
  <2> QED  BY <2>1, <2>3, <2>4, SoloReads
<1>2. ASSUME NEW p \in Requests, NEW c \in Comments, NEW op \in {"delete", "archive"},
             ReadRemoval(p, c, op)
      PROVE  SoloInv'
  <2>1. PICK new : /\ new.stage = "prepare" /\ new.c = c
                   /\ new.parent = parent[c] /\ new.root = root[c]
                   /\ req' = [req EXCEPT ![p] = new]
    <3> DEFINE new == [Idle EXCEPT !.op = op, !.stage = "prepare", !.c = c,
                         !.parent = parent[c], !.root = root[c]]
    <3>1. /\ new.stage = "prepare" /\ new.c = c
          /\ new.parent = parent[c] /\ new.root = root[c]
      BY DEF Idle
    <3>2. req' = [req EXCEPT ![p] = new]
      BY <1>2 DEF ReadRemoval
    <3> QED  BY <3>1, <3>2
  <2>2. req'[p] = new
    BY <2>1 DEF TypeOKFolded
  <2>3. UNCHANGED <<status, parent, root>> /\ c \in Live
    BY <1>2 DEF ReadRemoval, rows, Live
  <2>4. RemovalFresh(p)'
    BY <2>1, <2>2, <2>3 DEF RemovalFresh, Live
  <2>5. Begin(p, Mixed(c))
    BY <1>2 DEF ReadRemoval
  <2> QED  BY <2>1, <2>3, <2>4, <2>5, BeginsAlone, SoloReads
<1>3. ASSUME NEW p \in Requests, NEW c \in Comments, ReadRestore(p, c)
      PROVE  SoloInv'
  <2>1. PICK new : new.op = "restore" /\ req' = [req EXCEPT ![p] = new]
    <3> DEFINE counted == IF parent[c] # None /\ status[root[c]] = "active"
                          THEN root[c] ELSE None
               new == [Idle EXCEPT !.op = "restore", !.stage = "write", !.c = c,
                         !.counted = counted, !.postCount = postCount,
                         !.change = IF parent[c] = None
                                    THEN 1 + Cardinality(RepliesOf(c)) ELSE 1,
                         !.replies = IF counted = None THEN 0 ELSE replies[counted]]
    <3>1. new.op = "restore"
      BY DEF Idle
    <3>2. req' = [req EXCEPT ![p] = new]
      BY <1>3 DEF ReadRestore
    <3> QED  BY <3>1, <3>2
  <2>2. req'[p] = new
    BY <2>1 DEF TypeOKFolded
  <2>3. RemovalFresh(p)'
    BY <2>1, <2>2 DEF RemovalFresh
  <2>4. Begin(p, Mixed(c)) /\ UNCHANGED <<status, parent, root>>
    BY <1>3 DEF ReadRestore, rows
  <2> QED  BY <2>1, <2>3, <2>4, BeginsAlone, SoloReads
<1>4. ASSUME NEW p \in Requests, WriteCreate(p)
      PROVE  SoloInv'
  <2>1. /\ req[p].op = "create" /\ req' = [req EXCEPT ![p] = Idle] /\ history' = history
    BY <1>4 DEF WriteCreate
  <2>2. ASSUME Ranked PROVE Ranked'
    <3>1. CASE ~({req[p].parent, req[p].root} \subseteq Live \cup {None})
      <4>1. UNCHANGED <<status, parent>>
        BY <1>4, <3>1 DEF WriteCreate
      <4> QED  BY <2>2, <4>1 DEF Ranked, Live
    <3>2. CASE {req[p].parent, req[p].root} \subseteq Live \cup {None}
      <4>1. PICK c \in Comments : c = req[p].c /\ status[c] = "free"
        BY <2>1 DEF ThreadInv, RequestShape, CreateShape
      <4>2. PICK up \in Live \cup {None} : up = req[p].parent
        BY <3>2
      <4>3. status' = [status EXCEPT ![c] = "active"] /\ parent' = [parent EXCEPT ![c] = up]
        BY <1>4, <3>2, <4>1, <4>2 DEF WriteCreate
      <4>4. PICK f \in [Comments -> Nat] :
              \A k \in Live : parent[k] # None => f[parent[k]] < f[k]
        BY <2>2 DEF Ranked
      <4>5. PICK n \in Nat : n = IF up = None THEN 0 ELSE f[up] + 1
        <5>1. up # None => f[up] \in Nat
          BY DEF Live
        <5> QED  BY <5>1
      <4> DEFINE g == [f EXCEPT ![c] = n]
      <4>6. g \in [Comments -> Nat] /\ g[c] = n /\ \A k \in Comments : k # c => g[k] = f[k]
        OBVIOUS
      <4>7. c \notin Live /\ \A k \in Live' : k \in Live \/ k = c
        BY <4>1, <4>3 DEF Live, TypeOKFolded
      <4>8. ASSUME NEW k \in Live', parent'[k] # None PROVE g[parent'[k]] < g[k]
        <5>1. CASE k = c
          <6>1. parent'[k] = up
            BY <4>1, <4>3, <5>1 DEF TypeOKFolded
          <6>2. up # c /\ up \in Comments /\ f[up] \in Nat /\ n = f[up] + 1
            BY <4>5, <4>7, <4>8, <6>1 DEF Live
          <6> QED  BY <4>6, <5>1, <6>1, <6>2
        <5>2. CASE k # c
          <6>1. k \in Live /\ parent'[k] = parent[k] /\ k \in Comments
            BY <4>3, <4>7, <5>2 DEF TypeOKFolded, Live
          <6>2. parent[k] \in Live /\ parent[k] \in Comments
            BY <4>8, <6>1, ThreadFacts
          <6> QED  BY <4>4, <4>6, <4>7, <4>8, <5>2, <6>1, <6>2
        <5> QED  BY <5>1, <5>2
      <4> HIDE DEF g
      <4> QED  BY <4>6, <4>8 DEF Ranked
    <3> QED  BY <3>1, <3>2
  <2> QED  BY <2>1, <2>2, SoloWrites DEF SoloInv, InFlight
<1>5. ASSUME NEW p \in Requests, PrepareRemoval(p)
      PROVE  SoloInv'
  <2>1. /\ req[p].op \in {"delete", "archive"} /\ req[p].stage = "prepare"
        /\ UNCHANGED <<status, parent, root, history>>
    BY <1>5 DEF PrepareRemoval, rows, ThreadInv, RequestShape, StageShape
  <2>2. CASE Moves(p) # {} /\ req[p].parent \notin Live
    <3>1. req' = [req EXCEPT ![p] = Idle]
      BY <1>5, <2>2 DEF PrepareRemoval
    <3> QED  BY <2>1, <3>1, SoloEnds
  <2>3. CASE ~(Moves(p) # {} /\ req[p].parent \notin Live)
    <3>1. PICK new : /\ new.c = req[p].c /\ new.parent = req[p].parent
                     /\ new.root = req[p].root /\ new.moved = Moves(p)
                     /\ req' = [req EXCEPT ![p] = new]
      <4> DEFINE counted == IF req[p].root \in Live THEN req[p].root ELSE None
                 new == [req[p] EXCEPT !.stage = "write", !.moved = Moves(p),
                           !.counted = counted, !.change = Subtracted(p),
                           !.postCount = postCount,
                           !.replies = IF counted = None THEN 0 ELSE replies[counted]]
      <4>1. req[p] \in ReqType
        BY DEF TypeOKFolded
      <4>2. /\ new.c = req[p].c /\ new.parent = req[p].parent
            /\ new.root = req[p].root /\ new.moved = Moves(p)
        BY <4>1 DEF ReqType
      <4>3. req' = [req EXCEPT ![p] = new]
        BY <1>5, <2>3 DEF PrepareRemoval
      <4> QED  BY <4>2, <4>3
    <3>2. req'[p] = new
      BY <3>1 DEF TypeOKFolded
    <3>3. Live' = Live
      BY <2>1 DEF Live
    <3>4. Moves(p)' = Moves(p)
      BY <2>1, <3>1, <3>2, <3>3 DEF Moves
    <3>5. "overlap" \notin history =>
            RemovalFresh(p)' /\ \A q \in Requests \ {p} : ~InFlight(q)
      BY <2>1, <3>1, <3>2, <3>3, <3>4 DEF SoloInv, RemovalFresh, OneAtATime, InFlight
    <3> QED  BY <2>1, <3>1, <3>5, SoloReads
  <2> QED  BY <2>2, <2>3
<1>6. ASSUME NEW p \in Requests, WriteDelete(p) \/ WriteArchive(p)
      PROVE  SoloInv'
  <2>1. /\ req[p].op \in {"delete", "archive"} /\ req[p].stage = "write"
        /\ req' = [req EXCEPT ![p] = Idle] /\ history' = history
    BY <1>6 DEF WriteDelete, WriteArchive
  <2>2. ASSUME Ranked, RemovalFresh(p) PROVE Ranked'
    <3>1. CASE UpdatesMissingRow(p)
      <4>1. UNCHANGED <<status, parent>>
        BY <1>6, <3>1 DEF WriteDelete, WriteArchive
      <4> QED  BY <2>2, <4>1 DEF Ranked, Live
    <3>2. CASE ~UpdatesMissingRow(p)
      <4>1. parent' = MovedParent(p)
        BY <1>6, <3>2 DEF WriteDelete, WriteArchive
      <4>2. PICK c \in Live : /\ c = req[p].c /\ req[p].parent = parent[c]
                              /\ req[p].moved = Moves(p)
        BY <2>1, <2>2 DEF RemovalFresh
      <4>3. Live' \subseteq Live
        BY <1>6, <3>2, <4>2 DEF WriteDelete, WriteArchive, Live, TypeOKFolded
      <4> QED  BY <2>2, <4>1, <4>2, <4>3, RemovalRanked
    <3> QED  BY <3>1, <3>2
  <2> QED  BY <2>1, <2>2, SoloWrites DEF SoloInv, InFlight
<1>7. ASSUME NEW p \in Requests, WriteRestore(p)
      PROVE  SoloInv'
  <2>1. /\ req[p].op = "restore" /\ req' = [req EXCEPT ![p] = Idle] /\ history' = history
        /\ parent' = parent
    BY <1>7 DEF WriteRestore
  <2>2. Live' \subseteq Live
    BY <1>7 DEF WriteRestore, UpdatesMissingRow, Live, TypeOKFolded
  <2>3. Ranked => Ranked'
    BY <2>1, <2>2 DEF Ranked
  <2> QED  BY <2>1, <2>3, SoloWrites DEF SoloInv, InFlight
<1>8. ASSUME NEW p \in Requests, RollBack(p)
      PROVE  SoloInv'
  BY <1>8, SoloEnds DEF RollBack, rows
<1>9. CASE ArchivePost \/ RestorePost \/ UNCHANGED vars
  <2>1. UNCHANGED <<status, parent, root, req, history>>
    BY <1>9 DEF ArchivePost, RestorePost, vars
  <2>2. Live' = Live
    BY <2>1 DEF Live
  <2> QED  BY <2>1, <2>2 DEF SoloInv, OneAtATime, InFlight, Ranked, RemovalFresh, Moves
<1> QED  BY <1>1, <1>2, <1>3, <1>4, <1>5, <1>6, <1>7, <1>8, <1>9 DEF Next

LEMMA SoloInvariant == Spec => []SoloInv
<1>1. Init => SoloInv
  <2> SUFFICES ASSUME Init PROVE SoloInv  OBVIOUS
  <2>1. Idle.op = "idle" /\ Live = {}
    BY DEF Idle, Init, Live
  <2>2. \A p \in Requests : req[p].op = "idle"
    BY <2>1 DEF Init
  <2>3. Ranked
    <3>1. [c \in Comments |-> 0] \in [Comments -> Nat]
      OBVIOUS
    <3> QED  BY <2>1, <3>1 DEF Ranked
  <2> QED  BY <2>2, <2>3 DEF SoloInv, OneAtATime, InFlight, RemovalFresh
<1> QED  BY <1>1, SoloStep, ThreadsInvariant, PTL DEF Spec

LEMMA RepliesStay ==
  ASSUME TypeOKFolded, ThreadInv, SoloInv, [Next]_vars, "overlap" \notin history',
         NEW k \in Live, status'[k] = "gone"
  PROVE  \E p \in Requests : req[p].op = "delete" /\ req[p].c \in {k, root[k]}
<1>1. k \in Comments /\ status[k] \in {"active", "archived"}
  BY DEF Live
<1>2. ASSUME NEW p \in Requests, WriteDelete(p)
      PROVE  req[p].op = "delete" /\ req[p].c \in {k, root[k]}
  <2>1. "overlap" \notin history /\ req[p].op = "delete" /\ req[p].stage = "write"
    BY <1>2 DEF WriteDelete
  <2>2. ~UpdatesMissingRow(p)
    BY <1>1, <1>2 DEF WriteDelete
  <2>3. k \in Cascade(req[p].c, MovedParent(p))
    BY <1>1, <1>2, <2>2 DEF WriteDelete
  <2>4. PICK c \in Live : /\ c = req[p].c /\ req[p].parent = parent[c]
                          /\ req[p].moved = Moves(p)
    BY <2>1 DEF SoloInv, RemovalFresh
  <2>5. k \in Group(c)
    BY <2>1, <2>3, <2>4, CascadeIsGroup DEF SoloInv
  <2> QED  BY <2>1, <2>4, <2>5 DEF Group, RepliesOf
<1>3. ASSUME NEW p \in Requests, WriteCreate(p) \/ WriteArchive(p) \/ WriteRestore(p)
      PROVE  FALSE
  BY <1>1, <1>3 DEF WriteCreate, WriteArchive, WriteRestore, TypeOKFolded
<1>4. ASSUME status' = status PROVE FALSE
  BY <1>1, <1>4
<1>5. \E p \in Requests : WriteDelete(p)
  BY <1>3, <1>4 DEF Next, vars, rows, ReadCreate, ReadRemoval, ReadRestore, PrepareRemoval,
                    RollBack, ArchivePost, RestorePost
<1> QED  BY <1>2, <1>5

\* As long as requests do not overlap, a comment vanishes only with its own
\* deletion or that of its root, however long the chains of answers are
\* (application.py:866-873).
THEOREM RepliesOutliveParents == Spec => RepliesSurvive
<1>1. TypeOKFolded /\ ThreadInv /\ SoloInv /\ [Next]_vars =>
        [\A k \in Live : status'[k] = "gone" /\ "overlap" \notin history' =>
           \E p \in Requests : req[p].op = "delete" /\ req[p].c \in {k, root[k]}]_vars
  BY RepliesStay
<1> QED  BY <1>1, ThreadsInvariant, SoloInvariant, PTL DEF Spec, RepliesSurvive

-----------------------------------------------------------------------------
(***************************************************************************)
(* The counters.  A request that has read them writes the number of        *)
(* comments that are shown, if nothing else happens in between and the     *)
(* thread is shown or archived as a whole.                                 *)
(***************************************************************************)

CallCounts(p) ==
  LET r == req[p] IN
  /\ r.op # "idle" /\ r.stage = "write" =>
       /\ r.postCount = postCount
       /\ r.counted # None => r.replies = replies[r.counted]
  /\ r.op = "create" =>
       /\ r.stage = "write" /\ r.counted = r.root
       /\ r.root # None => status[r.root] = "active"
  /\ r.op \in {"delete", "archive"} =>
       /\ r.c \in Live /\ status[r.c] = "active" /\ ~Mixed(r.c)
       /\ r.stage = "write" => r.counted = root[r.c] /\ r.change = Cardinality(Group(r.c))
  /\ r.op = "restore" =>
       /\ r.c \in Live /\ status[r.c] = "archived" /\ ~Mixed(r.c) /\ r.stage = "write"
       /\ r.counted = root[r.c] /\ r.change = Cardinality(Group(r.c))

FreshUncounted == \A c \in Comments : status[c] = "free" => replies[c] = 0

CountInv ==
  history = {} => Exact /\ FreshUncounted /\ \A p \in Requests : CallCounts(p)

Answers(r) == {k \in RepliesOf(r) : status[k] = "active"}

LEMMA Countable ==
  ASSUME NEW S \in SUBSET Comments
  PROVE  IsFiniteSet(S) /\ Cardinality(S) \in Nat
BY CommentsFinite, FS_Subset, FS_CardinalityType

LEMMA GroupSize ==
  ASSUME TypeOKFolded, ThreadInv, NEW c \in Live
  PROVE  /\ Group(c) \in SUBSET Comments /\ Group(c) \subseteq Live /\ c \in Group(c)
         /\ Cardinality(Group(c)) =
              IF parent[c] = None THEN 1 + Cardinality(RepliesOf(c)) ELSE 1
<1>1. RepliesOf(c) \in SUBSET Comments /\ RepliesOf(c) \subseteq Live
  BY DEF RepliesOf, Live
<1>2. CASE parent[c] = None
  <2>1. c \notin RepliesOf(c)
    BY <1>2, ThreadFacts DEF RepliesOf
  <2>2. Group(c) = RepliesOf(c) \cup {c}
    BY <1>2 DEF Group
  <2>3. Cardinality(Group(c)) = Cardinality(RepliesOf(c)) + 1
    BY <1>1, <2>1, <2>2, Countable, FS_AddElement
  <2>4. Cardinality(RepliesOf(c)) \in Nat
    BY <1>1, Countable
  <2> QED  BY <1>1, <1>2, <2>2, <2>3, <2>4, ThreadFacts
<1>3. CASE parent[c] # None
  <2>1. Group(c) = {c}
    BY <1>3 DEF Group
  <2> QED  BY <1>3, <2>1, FS_Singleton, ThreadFacts
<1> QED  BY <1>2, <1>3

\* A group that is not mixed is shown or not as a whole.
LEMMA GroupShown ==
  ASSUME TypeOKFolded, ThreadInv, NEW c \in Live, ~Mixed(c)
  PROVE  /\ status[c] = "active" => Group(c) \subseteq Shown
         /\ status[c] = "archived" => Group(c) \cap Shown = {}
         /\ \A k \in Group(c) \ {c} : status[k] = "active" /\ root[k] = c
         /\ root[c] # None => status[root[c]] = "active"
<1>1. \A k \in Group(c) \ {c} : k \in Live /\ root[k] = c /\ status[k] = "active"
  BY DEF Group, RepliesOf, Mixed, Live
<1>2. root[c] # None => status[root[c]] = "active"
  BY ThreadFacts DEF Mixed
<1>3. c \in Comments
  BY DEF Live
<1>4. c # None
  BY ThreadFacts
<1> QED  BY <1>1, <1>2, <1>3, <1>4 DEF Shown, Live

LEMMA Less ==
  ASSUME NEW S \in SUBSET Comments, NEW G \in SUBSET Comments, G \subseteq S
  PROVE  Cardinality(S \ G) = AtLeastZero(Cardinality(S), Cardinality(G))
<1>1. /\ S \ G \in SUBSET Comments /\ (S \ G) \cup G = S /\ (S \ G) \cap G = {}
  OBVIOUS
<1>2. Cardinality(S) = Cardinality(S \ G) + Cardinality(G) - Cardinality({})
  BY <1>1, Countable, FS_Union
<1>3. Cardinality({}) = 0
  BY FS_EmptySet
<1>4. Cardinality(S \ G) \in Nat /\ Cardinality(G) \in Nat
  BY <1>1, Countable
<1> QED  BY <1>2, <1>3, <1>4 DEF AtLeastZero

LEMMA More ==
  ASSUME NEW S \in SUBSET Comments, NEW G \in SUBSET Comments, G \cap S = {}
  PROVE  Cardinality(S \cup G) = Cardinality(S) + Cardinality(G)
<1>1. Cardinality(S \cup G) = Cardinality(S) + Cardinality(G) - Cardinality(S \cap G)
  BY Countable, FS_Union
<1>2. Cardinality(S \cap G) = 0
  BY FS_EmptySet
<1> QED  BY <1>1, <1>2, Countable

\* Deleting or archiving a comment that is shown.
LEMMA ExactRemoved ==
  ASSUME TypeOKFolded, ThreadInv, Exact, NEW c \in Live, status[c] = "active", ~Mixed(c),
         root' = root, NEW st \in {"gone", "archived"},
         NEW D, D = IF st = "gone" THEN Group(c) ELSE {c},
         status' = [k \in Comments |-> IF k \in D THEN st ELSE status[k]],
         \A k \in Live : parent'[k] = None <=> parent[k] = None,
         postCount' = AtLeastZero(postCount, Cardinality(Group(c))),
         replies' = [k \in Comments |-> IF k = root[c] THEN AtLeastZero(replies[k], 1)
                                                      ELSE replies[k]]
  PROVE  Exact'
<1>1. /\ Group(c) \in SUBSET Comments /\ Group(c) \subseteq Live /\ c \in Group(c)
      /\ Group(c) \subseteq Shown
      /\ \A k \in Group(c) \ {c} : root[k] = c
  BY GroupSize, GroupShown
<1>2. c \in D /\ D \subseteq Group(c) /\ Shown \in SUBSET Comments
  BY <1>1 DEF Shown
<1>3. \A k \in Comments : status[k] = "active" => k \in Live
  BY DEF Live
<1>4. Shown' = Shown \ Group(c)
  <2>1. ASSUME NEW k \in Shown' PROVE k \in Shown \ Group(c)
    <3>1. k \in Comments /\ k \notin D /\ status[k] = "active"
      BY <2>1 DEF Shown
    <3>2. root[k] # None => root[k] \notin D /\ status[root[k]] = "active"
      BY <2>1, <3>1, <1>3, ThreadFacts DEF Shown
    <3>3. k \notin Group(c)
      BY <3>1, <3>2, <1>1, <1>2, ThreadFacts
    <3> QED  BY <3>1, <3>2, <3>3 DEF Shown
  <2>2. ASSUME NEW k \in Shown \ Group(c) PROVE k \in Shown'
    <3>1. k \in Live /\ k \in Comments /\ status[k] = "active" /\ k \notin D
      BY <2>2, <1>2, <1>3 DEF Shown
    <3>2. root[k] # None => root[k] \in Live /\ status[root[k]] = "active" /\ root[root[k]] = None
                            /\ parent[root[k]] = None
      BY <2>2, <3>1, ThreadFacts DEF Shown
    <3>3. root[k] # None => root[k] \notin Group(c)
      <4>1. root[k] = c /\ root[k] # None => k \in Group(c)
        BY <3>1, <3>2 DEF Group, RepliesOf
      <4>2. root[k] # None => root[root[k]] # c
        BY <3>2, ThreadFacts
      <4> QED  BY <2>2, <4>1, <4>2, <1>1
    <3>4. root[k] # None => status'[root[k]] = "active"
      BY <3>2, <3>3, <1>2, ThreadFacts
    <3> QED  BY <3>1, <3>4 DEF Shown
  <2> QED  BY <2>1, <2>2
<1>5. postCount' = Cardinality(Shown')
  BY <1>1, <1>2, <1>4, Less DEF Exact
<1>6. ASSUME NEW r \in Live', parent'[r] = None
      PROVE  replies'[r] = Cardinality(Answers(r)')
  <2>1. r \in Live /\ r \in Comments /\ (r \in D => st = "archived")
    BY <1>1, <1>2, <1>6 DEF Live
  <2>2. parent[r] = None /\ replies[r] = Cardinality(Answers(r))
    BY <1>6, <2>1 DEF Exact, Answers
  <2>3. Answers(r)' = {k \in Answers(r) : k \notin D}
    BY DEF Answers, RepliesOf, Live
  <2>4. CASE root[c] = r
    <3>1. parent[c] # None
      BY <2>4, <2>1, ThreadFacts
    <3>2. Group(c) = {c} /\ D = {c}
      BY <3>1 DEF Group
    <3>3. Answers(r)' = Answers(r) \ {c}
      BY <2>3, <3>2
    <3>4. Answers(r) \in SUBSET Comments /\ {c} \subseteq Answers(r) /\ {c} \in SUBSET Comments
      BY <2>4, ThreadFacts DEF Answers, RepliesOf
    <3>5. Cardinality({c}) = 1
      BY FS_Singleton
    <3> QED  BY <2>1, <2>2, <2>4, <3>3, <3>4, <3>5, Less
  <2>5. CASE root[c] # r
    <3>1. \A k \in Answers(r) : k \notin D
      <4>1. c \notin Answers(r)
        BY <2>5 DEF Answers, RepliesOf
      <4>2. ASSUME NEW k \in Answers(r), k \in D, k # c PROVE FALSE
        <5>1. st = "gone" /\ D = Group(c)
          BY <4>2
        <5>2. r = c
          BY <4>2, <1>1, <1>2 DEF Answers, RepliesOf
        <5> QED  BY <2>1, <5>1, <5>2, <1>2
      <4> QED  BY <4>1, <4>2
    <3>2. Answers(r)' = Answers(r)
      BY <2>3, <3>1
    <3>3. replies'[r] = replies[r]
      BY <2>1, <2>5
    <3> QED  BY <2>2, <3>2, <3>3
  <2> QED  BY <2>4, <2>5
<1> QED  BY <1>5, <1>6 DEF Exact, Answers

\* A comment is written where its root is shown.
LEMMA ExactCreated ==
  ASSUME TypeOKFolded, ThreadInv, Exact, NEW c \in Comments, status[c] = "free",
         replies[c] = 0, NEW up, NEW r \in Live \cup {None}, up = None <=> r = None,
         r # None => status[r] = "active",
         status' = [status EXCEPT ![c] = "active"],
         parent' = [parent EXCEPT ![c] = up], root' = [root EXCEPT ![c] = r],
         postCount' = postCount + 1,
         replies' = [k \in Comments |-> IF k = r THEN replies[k] + 1 ELSE replies[k]]
  PROVE  Exact'
<1>1. /\ c \notin Live /\ c # None /\ \A k \in Comments : status[k] = "active" => k \in Live
      /\ r # c
  BY NoneIsNoComment DEF Live
<1>2. /\ \A k \in Comments : status'[k] = IF k = c THEN "active" ELSE status[k]
      /\ \A k \in Comments : root'[k] = IF k = c THEN r ELSE root[k]
      /\ \A k \in Comments : parent'[k] = IF k = c THEN up ELSE parent[k]
  BY DEF TypeOKFolded
<1>3. \A k \in Live : root[k] = None \/ (root[k] \in Live /\ root[k] # c /\ root[k] \in Comments)
  BY <1>1, ThreadFacts
<1>4. Live' = Live \cup {c}
  BY <1>2 DEF Live
<1>5. Shown' = Shown \cup {c}
  <2>1. ASSUME NEW k \in Live PROVE k \in Shown' <=> k \in Shown
    BY <2>1, <1>1, <1>2, <1>3, ThreadFacts DEF Shown
  <2>2. c \in Shown'
    BY <1>1, <1>2, ThreadFacts DEF Shown
  <2>3. \A k \in Shown : k \in Live
    BY <1>1 DEF Shown
  <2>4. \A k \in Shown' : k \in Live \/ k = c
    BY <1>1, <1>2 DEF Shown
  <2> QED  BY <2>1, <2>2, <2>3, <2>4
<1>6. postCount' = Cardinality(Shown')
  <2>1. c \notin Shown /\ Shown \in SUBSET Comments
    BY <1>1 DEF Shown
  <2> QED  BY <2>1, <1>5, Countable, FS_AddElement DEF Exact
<1>7. ASSUME NEW k \in Live', parent'[k] = None
      PROVE  replies'[k] = Cardinality(Answers(k)')
  <2>1. k \in Comments
    BY <1>7 DEF Live
  <2>2. CASE k = c
    <3>1. Answers(c)' = {}
      BY <1>1, <1>2, <1>3, <1>4, NoneIsNoComment DEF Answers, RepliesOf
    <3>2. replies'[c] = 0
      BY <1>1
    <3> QED  BY <2>2, <3>1, <3>2, FS_EmptySet
  <2>3. CASE k # c
    <3>1. k \in Live /\ parent[k] = None /\ replies[k] = Cardinality(Answers(k))
      BY <1>2, <1>4, <1>7, <2>1, <2>3 DEF Exact, Answers
    <3>2. Answers(k) \in SUBSET Comments /\ c \notin Answers(k)
      BY <1>1 DEF Answers, RepliesOf, Live
    <3>3. CASE k = r
      <4>1. Answers(k)' = Answers(k) \cup {c}
        BY <1>2, <1>4, <3>3, ThreadFacts DEF Answers, RepliesOf
      <4> QED  BY <2>1, <3>1, <3>2, <3>3, <4>1, Countable, FS_AddElement
    <3>4. CASE k # r
      <4>1. Answers(k)' = Answers(k)
        BY <1>1, <1>2, <1>4, <3>4, ThreadFacts DEF Answers, RepliesOf
      <4> QED  BY <2>1, <3>1, <3>4, <4>1
    <3> QED  BY <3>3, <3>4
  <2> QED  BY <2>2, <2>3
<1> QED  BY <1>6, <1>7 DEF Exact, Answers

\* Restoring what was archived as a whole.
LEMMA ExactRestored ==
  ASSUME TypeOKFolded, ThreadInv, Exact, NEW c \in Live, status[c] = "archived", ~Mixed(c),
         UNCHANGED <<parent, root>>, status' = [status EXCEPT ![c] = "active"],
         postCount' = postCount + Cardinality(Group(c)),
         replies' = [k \in Comments |-> IF k = root[c] THEN replies[k] + 1 ELSE replies[k]]
  PROVE  Exact'
<1>1. /\ Group(c) \in SUBSET Comments /\ Group(c) \subseteq Live /\ c \in Group(c)
      /\ Group(c) \cap Shown = {}
      /\ \A k \in Group(c) \ {c} : status[k] = "active" /\ root[k] = c
      /\ root[c] # None => status[root[c]] = "active"
  BY GroupSize, GroupShown
<1>2. \A k \in Comments : status'[k] = IF k = c THEN "active" ELSE status[k]
  BY DEF TypeOKFolded
<1>3. /\ Live' = Live /\ c \in Comments /\ Shown \in SUBSET Comments
      /\ \A k \in Comments : status[k] = "active" => k \in Live
  BY <1>2 DEF Live, Shown
<1>4. Shown' = Shown \cup Group(c)
  <2>1. ASSUME NEW k \in Shown PROVE k \in Shown'
    <3>1. k \in Comments /\ status[k] = "active" /\ k \in Live
      BY <2>1, <1>3 DEF Shown
    <3>2. root[k] # None => root[k] \in Comments /\ status[root[k]] = "active"
      BY <2>1, <3>1, ThreadFacts DEF Shown
    <3> QED  BY <3>1, <3>2, <1>2 DEF Shown
  <2>2. ASSUME NEW k \in Group(c) PROVE k \in Shown'
    <3>1. CASE k = c
      <4>1. root[c] # None => root[c] \in Comments
        BY ThreadFacts
      <4> QED  BY <3>1, <4>1, <1>1, <1>2, <1>3 DEF Shown
    <3>2. CASE k # c
      BY <2>2, <3>2, <1>1, <1>2, <1>3 DEF Shown
    <3> QED  BY <3>1, <3>2
  <2>3. ASSUME NEW k \in Shown', k \notin Group(c) PROVE k \in Shown
    <3>1. k \in Comments /\ k # c /\ status[k] = "active" /\ k \in Live
      BY <2>3, <1>1, <1>2, <1>3 DEF Shown
    <3>2. root[k] = c => k \in Group(c)
      BY <3>1, ThreadFacts DEF Group, RepliesOf
    <3>3. root[k] # None => root[k] \in Comments /\ status'[root[k]] = "active"
      BY <2>3, <3>1, ThreadFacts DEF Shown
    <3>4. root[k] # None => status[root[k]] = "active"
      BY <2>3, <3>2, <3>3, <1>2
    <3> QED  BY <3>1, <3>4 DEF Shown
  <2> QED  BY <2>1, <2>2, <2>3
<1>5. postCount' = Cardinality(Shown')
  BY <1>1, <1>3, <1>4, More DEF Exact
<1>6. ASSUME NEW r \in Live, parent[r] = None
      PROVE  replies'[r] = Cardinality(Answers(r)')
  <2>1. r \in Comments /\ replies[r] = Cardinality(Answers(r)) /\ Answers(r) \in SUBSET Comments
    BY <1>6 DEF Exact, Answers, RepliesOf, Live
  <2>2. c \notin Answers(r)
    BY DEF Answers
  <2>3. CASE root[c] = r
    <3>1. Answers(r)' = Answers(r) \cup {c}
      BY <1>2, <1>3, <2>3 DEF Answers, RepliesOf
    <3> QED  BY <2>1, <2>2, <2>3, <3>1, Countable, FS_AddElement
  <2>4. CASE root[c] # r
    <3>1. Answers(r)' = Answers(r)
      BY <1>2, <1>3, <2>4 DEF Answers, RepliesOf, Live
    <3> QED  BY <2>1, <2>4, <3>1
  <2> QED  BY <2>3, <2>4
<1> QED  BY <1>3, <1>5, <1>6 DEF Exact, Answers

\* A request is the only one, and knows the counters.
LEMMA CountReads ==
  ASSUME TypeOKFolded, CountInv, NEW p \in Requests, NEW new,
         req' = [req EXCEPT ![p] = new],
         UNCHANGED <<status, parent, root, replies, postCount>>, history \subseteq history',
         history' = {} => CallCounts(p)' /\ \A q \in Requests \ {p} : ~InFlight(q)
  PROVE  CountInv'
<1> SUFFICES ASSUME history' = {}
             PROVE  Exact' /\ FreshUncounted' /\ \A q \in Requests : CallCounts(q)'
  BY DEF CountInv
<1>1. history = {}
  OBVIOUS
<1>2. Live' = Live /\ Shown' = Shown
  BY DEF Live, Shown
<1>3. Exact'
  BY <1>1, <1>2 DEF CountInv, Exact, RepliesOf
<1>4. FreshUncounted'
  BY <1>1 DEF CountInv, FreshUncounted
<1>5. ASSUME NEW q \in Requests, q # p PROVE CallCounts(q)'
  <2>1. req'[q].op = "idle"
    BY <1>5 DEF InFlight, TypeOKFolded
  <2> QED  BY <2>1 DEF CallCounts
<1> QED  BY <1>3, <1>4, <1>5

LEMMA CountEnds ==
  ASSUME TypeOKFolded, CountInv, SoloInv, NEW p \in Requests, InFlight(p),
         req' = [req EXCEPT ![p] = Idle],
         UNCHANGED <<status, parent, root, replies, postCount, history>>
  PROVE  CountInv'
<1>1. Idle.op = "idle" /\ req'[p] = Idle
  BY DEF Idle, TypeOKFolded
<1>2. CallCounts(p)'
  BY <1>1 DEF CallCounts
<1>3. history' = {} => \A q \in Requests \ {p} : ~InFlight(q)
  BY DEF SoloInv, OneAtATime
<1> QED  BY <1>2, <1>3, CountReads

LEMMA CountWrites ==
  ASSUME TypeOKFolded, CountInv, SoloInv, NEW p \in Requests, InFlight(p),
         req' = [req EXCEPT ![p] = Idle], history' = history,
         history = {} => Exact' /\ FreshUncounted'
  PROVE  CountInv'
<1> SUFFICES ASSUME history = {} PROVE \A q \in Requests : CallCounts(q)'
  BY DEF CountInv
<1>1. Idle.op = "idle"
  BY DEF Idle
<1>2. \A q \in Requests : q # p => req[q].op = "idle"
  BY DEF SoloInv, OneAtATime, InFlight
<1>3. \A q \in Requests : req'[q].op = "idle"
  BY <1>1, <1>2 DEF TypeOKFolded
<1> QED  BY <1>3 DEF CallCounts

LEMMA SameGroups ==
  ASSUME UNCHANGED <<status, parent, root>>, NEW c
  PROVE  Live' = Live /\ Group(c)' = Group(c) /\ (Mixed(c)' <=> Mixed(c))
BY DEF Live, Group, Mixed, RepliesOf

LEMMA CountReadCreate ==
  ASSUME TypeOKFolded, CountInv, NEW p \in Requests, NEW c \in Comments,
         NEW up \in Comments \cup {None}, ReadCreate(p, c, up)
  PROVE  CountInv'
<1>1. PICK new :
        /\ req' = [req EXCEPT ![p] = new]
        /\ new.op = "create" /\ new.stage = "write"
        /\ new.postCount = postCount
        /\ new.counted # None => new.replies = replies[new.counted]
        /\ new.counted = new.root \/ "mixed" \in history'
        /\ new.counted # None => status[new.counted] = "active"
  BY CreateRead
<1>2. req'[p] = new
  BY <1>1 DEF TypeOKFolded
<1>3. /\ history \subseteq history'
      /\ history' = {} => \A q \in Requests \ {p} : ~InFlight(q)
      /\ UNCHANGED <<status, parent, root, replies, postCount>>
  BY DEF ReadCreate, Begin, rows
<1>4. history' = {} => CallCounts(p)'
  BY <1>1, <1>2, <1>3 DEF CallCounts
<1> QED  BY <1>1, <1>3, <1>4, CountReads

LEMMA CountReadRemoval ==
  ASSUME TypeOKFolded, CountInv, NEW p \in Requests, NEW c \in Comments,
         NEW op \in {"delete", "archive"}, ReadRemoval(p, c, op)
  PROVE  CountInv'
<1>1. PICK new : /\ new.op \in {"delete", "archive"} /\ new.stage = "prepare" /\ new.c = c
                 /\ req' = [req EXCEPT ![p] = new]
  <2> DEFINE new == [Idle EXCEPT !.op = op, !.stage = "prepare", !.c = c,
                       !.parent = parent[c], !.root = root[c]]
  <2>1. new.op \in {"delete", "archive"} /\ new.stage = "prepare" /\ new.c = c
    BY DEF Idle
  <2>2. req' = [req EXCEPT ![p] = new]
    BY DEF ReadRemoval
  <2> QED  BY <2>1, <2>2
<1>2. req'[p] = new
  BY <1>1 DEF TypeOKFolded
<1>3. /\ Begin(p, Mixed(c)) /\ status[c] = "active" /\ c \in Live
      /\ UNCHANGED <<status, parent, root, replies, postCount>>
  BY DEF ReadRemoval, rows, Live
<1>4. /\ history \subseteq history'
      /\ history' = {} => ~Mixed(c) /\ \A q \in Requests \ {p} : ~InFlight(q)
  BY <1>3, BeginsAlone
<1>5. history' = {} => CallCounts(p)'
  BY <1>1, <1>2, <1>3, <1>4, SameGroups DEF CallCounts
<1> QED  BY <1>1, <1>3, <1>4, <1>5, CountReads

LEMMA CountReadRestore ==
  ASSUME TypeOKFolded, ThreadInv, CountInv, NEW p \in Requests, NEW c \in Comments,
         ReadRestore(p, c)
  PROVE  CountInv'
<1>1. PICK new :
        /\ new.op = "restore" /\ new.stage = "write" /\ new.c = c
        /\ new.postCount = postCount
        /\ new.counted = IF parent[c] # None /\ status[root[c]] = "active" THEN root[c] ELSE None
        /\ new.counted # None => new.replies = replies[new.counted]
        /\ new.change = IF parent[c] = None THEN 1 + Cardinality(RepliesOf(c)) ELSE 1
        /\ req' = [req EXCEPT ![p] = new]
  <2> DEFINE counted == IF parent[c] # None /\ status[root[c]] = "active" THEN root[c] ELSE None
             new == [Idle EXCEPT !.op = "restore", !.stage = "write", !.c = c,
                       !.counted = counted, !.postCount = postCount,
                       !.change = IF parent[c] = None
                                  THEN 1 + Cardinality(RepliesOf(c)) ELSE 1,
                       !.replies = IF counted = None THEN 0 ELSE replies[counted]]
  <2>1. /\ new.op = "restore" /\ new.stage = "write" /\ new.c = c
        /\ new.postCount = postCount /\ new.counted = counted
        /\ new.counted # None => new.replies = replies[new.counted]
        /\ new.change = IF parent[c] = None THEN 1 + Cardinality(RepliesOf(c)) ELSE 1
    BY DEF Idle
  <2>2. req' = [req EXCEPT ![p] = new]
    BY DEF ReadRestore
  <2> QED  BY <2>1, <2>2
<1>2. req'[p] = new
  BY <1>1 DEF TypeOKFolded
<1>3. /\ Begin(p, Mixed(c)) /\ status[c] = "archived" /\ c \in Live
      /\ UNCHANGED <<status, parent, root, replies, postCount>>
  BY DEF ReadRestore, rows, Live
<1>4. /\ history \subseteq history'
      /\ history' = {} => ~Mixed(c) /\ \A q \in Requests \ {p} : ~InFlight(q)
  BY <1>3, BeginsAlone
<1>5. ASSUME ~Mixed(c) PROVE new.counted = root[c] /\ new.change = Cardinality(Group(c))
  <2>1. root[c] # None => status[root[c]] = "active"
    BY <1>3, <1>5, GroupShown
  <2> QED  BY <1>1, <1>3, <2>1, GroupSize, ThreadFacts
<1>6. history' = {} => CallCounts(p)'
  BY <1>1, <1>2, <1>3, <1>4, <1>5, SameGroups DEF CallCounts
<1> QED  BY <1>1, <1>3, <1>4, <1>6, CountReads

LEMMA CountPrepare ==
  ASSUME TypeOKFolded, ThreadInv, SoloInv, CountInv, NEW p \in Requests, PrepareRemoval(p)
  PROVE  CountInv'
<1>1. /\ req[p].op \in {"delete", "archive"} /\ req[p].stage = "prepare"
      /\ UNCHANGED <<status, parent, root, replies, postCount, history>>
  BY DEF PrepareRemoval, rows, ThreadInv, RequestShape, StageShape
<1>2. CASE Moves(p) # {} /\ req[p].parent \notin Live
  <2>1. req' = [req EXCEPT ![p] = Idle]
    BY <1>2 DEF PrepareRemoval
  <2> QED  BY <1>1, <2>1, CountEnds DEF InFlight
<1>3. CASE ~(Moves(p) # {} /\ req[p].parent \notin Live)
  <2>1. PICK new :
          /\ new.op = req[p].op /\ new.stage = "write" /\ new.c = req[p].c
          /\ new.counted = (IF req[p].root \in Live THEN req[p].root ELSE None)
          /\ new.change = Subtracted(p) /\ new.postCount = postCount
          /\ new.counted # None => new.replies = replies[new.counted]
          /\ req' = [req EXCEPT ![p] = new]
    <3> DEFINE counted == IF req[p].root \in Live THEN req[p].root ELSE None
               new == [req[p] EXCEPT !.stage = "write", !.moved = Moves(p),
                         !.counted = counted, !.change = Subtracted(p),
                         !.postCount = postCount,
                         !.replies = IF counted = None THEN 0 ELSE replies[counted]]
    <3>1. req[p] \in ReqType
      BY DEF TypeOKFolded
    <3>2. /\ new.op = req[p].op /\ new.stage = "write" /\ new.c = req[p].c
          /\ new.counted = counted
          /\ new.change = Subtracted(p) /\ new.postCount = postCount
          /\ new.counted # None => new.replies = replies[new.counted]
      BY <3>1 DEF ReqType
    <3>3. req' = [req EXCEPT ![p] = new]
      BY <1>3 DEF PrepareRemoval
    <3> QED  BY <3>2, <3>3
  <2>2. req'[p] = new
    BY <2>1 DEF TypeOKFolded
  <2>3. ASSUME history = {}
        PROVE  CallCounts(p)' /\ \A q \in Requests \ {p} : ~InFlight(q)
    <3>1. \A q \in Requests \ {p} : ~InFlight(q)
      BY <1>1, <2>3 DEF SoloInv, OneAtATime, InFlight
    <3>2. PICK c \in Live : /\ c = req[p].c /\ req[p].parent = parent[c] /\ req[p].root = root[c]
                            /\ status[c] = "active" /\ ~Mixed(c)
      BY <1>1, <2>3 DEF SoloInv, RemovalFresh, CountInv, CallCounts
    <3>3. new.counted = root[c]
      BY <2>1, <3>2, ThreadFacts
    <3>4. new.change = Cardinality(Group(c))
      BY <2>1, <3>2, GroupSize DEF Subtracted
    <3>5. CallCounts(p)'
      BY <1>1, <2>1, <2>2, <3>2, <3>3, <3>4, SameGroups DEF CallCounts
    <3> QED  BY <3>1, <3>5
  <2> QED  BY <1>1, <2>1, <2>3, CountReads
<1> QED  BY <1>2, <1>3

LEMMA CountWriteCreate ==
  ASSUME TypeOKFolded, ThreadInv, SoloInv, CountInv, NEW p \in Requests, WriteCreate(p)
  PROVE  CountInv'
<1>1. /\ req[p].op = "create" /\ req' = [req EXCEPT ![p] = Idle] /\ history' = history
      /\ InFlight(p)
  BY DEF WriteCreate, InFlight
<1>2. CASE ~({req[p].parent, req[p].root} \subseteq Live \cup {None})
  <2>1. UNCHANGED <<status, parent, root, replies, postCount>>
    BY <1>2 DEF WriteCreate
  <2> QED  BY <1>1, <2>1, CountEnds
<1>3. CASE {req[p].parent, req[p].root} \subseteq Live \cup {None}
  <2>1. ASSUME history = {} PROVE Exact' /\ FreshUncounted'
    <3>1. CallCounts(p) /\ Exact /\ FreshUncounted
      BY <2>1 DEF CountInv
    <3>2. PICK c \in Comments : c = req[p].c /\ status[c] = "free"
      BY <1>1 DEF ThreadInv, RequestShape, CreateShape
    <3>3. PICK r \in Live \cup {None}, up \in Live \cup {None} :
            r = req[p].root /\ up = req[p].parent
      BY <1>3
    <3>4. (up = None <=> r = None) /\ (r # None => status[r] = "active")
      BY <1>1, <3>1, <3>3, NoneIsNoComment
      DEF ThreadInv, RequestShape, CreateShape, Used, CallCounts
    <3>5. /\ status' = [status EXCEPT ![c] = "active"]
          /\ parent' = [parent EXCEPT ![c] = up] /\ root' = [root EXCEPT ![c] = r]
          /\ postCount' = req[p].postCount + 1
          /\ replies' = [k \in Comments |->
                           IF k = req[p].counted THEN req[p].replies + 1 ELSE replies[k]]
      BY <1>3, <3>2, <3>3 DEF WriteCreate
    <3>6. /\ req[p].postCount = postCount /\ req[p].counted = r
          /\ r # None => req[p].replies = replies[r]
      BY <1>1, <3>1, <3>3 DEF CallCounts
    <3>7. replies' = [k \in Comments |-> IF k = r THEN replies[k] + 1 ELSE replies[k]]
      BY <3>5, <3>6, NoneIsNoComment
    <3>8. replies[c] = 0
      BY <3>1, <3>2 DEF FreshUncounted
    <3>9. Exact'
      BY <3>1, <3>2, <3>4, <3>5, <3>6, <3>7, <3>8, ExactCreated
    <3>10. FreshUncounted'
      <4> SUFFICES ASSUME NEW k \in Comments, status'[k] = "free" PROVE replies'[k] = 0
        BY DEF FreshUncounted
      <4>1. status[k] = "free"
        BY <3>2, <3>5 DEF TypeOKFolded
      <4>2. k # r
        BY <3>3, <3>4, <4>1, NoneIsNoComment
      <4> QED  BY <3>1, <3>7, <4>1, <4>2 DEF FreshUncounted
    <3> QED  BY <3>9, <3>10
  <2> QED  BY <1>1, <2>1, CountWrites
<1> QED  BY <1>2, <1>3

LEMMA CountWriteRemoval ==
  ASSUME TypeOKFolded, ThreadInv, SoloInv, CountInv, NEW p \in Requests,
         WriteDelete(p) \/ WriteArchive(p)
  PROVE  CountInv'
<1>1. /\ req[p].op \in {"delete", "archive"} /\ req[p].stage = "write"
      /\ req' = [req EXCEPT ![p] = Idle] /\ history' = history /\ root' = root
      /\ InFlight(p)
  BY DEF WriteDelete, WriteArchive, InFlight
<1>2. CASE UpdatesMissingRow(p)
  <2>1. UNCHANGED <<status, parent, root, replies, postCount>>
    BY <1>2 DEF WriteDelete, WriteArchive
  <2> QED  BY <1>1, <2>1, CountEnds
<1>3. CASE ~UpdatesMissingRow(p)
  <2>1. ASSUME history = {} PROVE Exact' /\ FreshUncounted'
    <3>1. CallCounts(p) /\ Exact /\ FreshUncounted /\ RemovalFresh(p) /\ Ranked
      BY <2>1 DEF CountInv, SoloInv
    <3>2. PICK c \in Live :
            /\ c = req[p].c /\ req[p].parent = parent[c] /\ req[p].moved = Moves(p)
            /\ status[c] = "active" /\ ~Mixed(c)
            /\ req[p].counted = root[c] /\ req[p].change = Cardinality(Group(c))
            /\ req[p].postCount = postCount
            /\ root[c] # None => req[p].replies = replies[root[c]]
      BY <1>1, <3>1 DEF CallCounts, RemovalFresh
    <3>3. parent' = MovedParent(p) /\ RemovalCounters(p)
      BY <1>3 DEF WriteDelete, WriteArchive
    <3>4. postCount' = AtLeastZero(postCount, Cardinality(Group(c)))
      BY <3>2, <3>3 DEF RemovalCounters, Written
    <3>5. root[c] # None => root[c] \in Live /\ Cardinality(Group(c)) = 1
      BY ThreadFacts, GroupSize
    <3>6. replies' = [k \in Comments |-> IF k = root[c] THEN AtLeastZero(replies[k], 1)
                                                       ELSE replies[k]]
      <4>1. replies' = [k \in Comments |->
                          IF k = root[c]
                          THEN Written(replies[k], req[p].replies,
                                       AtLeastZero(req[p].replies, req[p].change))
                          ELSE replies[k]]
        BY <3>2, <3>3 DEF RemovalCounters
      <4>2. ASSUME NEW k \in Comments, k = root[c]
            PROVE  Written(replies[k], req[p].replies,
                           AtLeastZero(req[p].replies, req[p].change))
                     = AtLeastZero(replies[k], 1)
        BY <3>2, <3>5, <4>2, NoneIsNoComment DEF Written
      <4> QED  BY <4>1, <4>2
    <3>7. \A k \in Live : parent'[k] = None <=> parent[k] = None
      <4>1. \A k \in Live : k \in Comments
        BY ThreadFacts
      <4>2. \A k \in Moves(p) : parent[k] = c /\ req[p].parent # None
        BY <3>2 DEF Moves
      <4>3. c # None
        BY ThreadFacts
      <4> QED  BY <3>2, <3>3, <4>1, <4>2, <4>3 DEF MovedParent
    <3>8. PICK st \in {"gone", "archived"}, D \in SUBSET Live :
            /\ D = IF st = "gone" THEN Group(c) ELSE {c}
            /\ status' = [k \in Comments |-> IF k \in D THEN st ELSE status[k]]
      <4>1. CASE WriteDelete(p)
        <5>1. Cascade(c, MovedParent(p)) = Group(c)
          BY <3>1, <3>2, CascadeIsGroup
        <5>2. status' = [k \in Comments |-> IF k \in Group(c) THEN "gone" ELSE status[k]]
          BY <1>3, <3>2, <4>1, <5>1 DEF WriteDelete
        <5> QED  BY <5>2, GroupSize
      <4>2. CASE WriteArchive(p)
        <5>1. status' = [status EXCEPT ![c] = "archived"]
          BY <1>3, <3>2, <4>2 DEF WriteArchive
        <5>2. status' = [k \in Comments |-> IF k \in {c} THEN "archived" ELSE status[k]]
          BY <5>1 DEF TypeOKFolded
        <5> QED  BY <5>2
      <4> QED  BY <4>1, <4>2
    <3>9. Exact'
      BY <1>1, <3>1, <3>2, <3>4, <3>6, <3>7, <3>8, ExactRemoved
    <3>10. FreshUncounted'
      <4>1. \A k \in Comments : status'[k] = "free" => status[k] = "free" /\ k \notin Live
        BY <3>8 DEF Live
      <4> QED  BY <3>1, <3>5, <3>6, <4>1, NoneIsNoComment DEF FreshUncounted
    <3> QED  BY <3>9, <3>10
  <2> QED  BY <1>1, <2>1, CountWrites
<1> QED  BY <1>2, <1>3

LEMMA CountWriteRestore ==
  ASSUME TypeOKFolded, ThreadInv, SoloInv, CountInv, NEW p \in Requests, WriteRestore(p)
  PROVE  CountInv'
<1>1. /\ req[p].op = "restore" /\ req' = [req EXCEPT ![p] = Idle] /\ history' = history
      /\ UNCHANGED <<parent, root>> /\ InFlight(p)
  BY DEF WriteRestore, InFlight
<1>2. CASE UpdatesMissingRow(p)
  <2>1. UNCHANGED <<status, replies, postCount>>
    BY <1>2 DEF WriteRestore
  <2> QED  BY <1>1, <2>1, CountEnds
<1>3. CASE ~UpdatesMissingRow(p)
  <2>1. ASSUME history = {} PROVE Exact' /\ FreshUncounted'
    <3>1. CallCounts(p) /\ Exact /\ FreshUncounted
      BY <2>1 DEF CountInv
    <3>2. PICK c \in Live :
            /\ c = req[p].c /\ status[c] = "archived" /\ ~Mixed(c)
            /\ req[p].counted = root[c] /\ req[p].change = Cardinality(Group(c))
            /\ req[p].postCount = postCount
            /\ root[c] # None => req[p].replies = replies[root[c]]
      BY <1>1, <3>1 DEF CallCounts
    <3>3. /\ status' = [status EXCEPT ![c] = "active"]
          /\ postCount' = postCount + Cardinality(Group(c))
          /\ replies' = [k \in Comments |->
                 IF k = root[c] THEN req[p].replies + req[p].change ELSE replies[k]]
      BY <1>3, <3>2 DEF WriteRestore
    <3>4. root[c] # None => root[c] \in Live /\ Cardinality(Group(c)) = 1
      BY ThreadFacts, GroupSize
    <3>5. replies' = [k \in Comments |-> IF k = root[c] THEN replies[k] + 1 ELSE replies[k]]
      BY <3>2, <3>3, <3>4, NoneIsNoComment
    <3>6. Exact'
      BY <1>1, <3>1, <3>2, <3>3, <3>5, ExactRestored
    <3>7. FreshUncounted'
      <4>1. \A k \in Comments : status'[k] = "free" => status[k] = "free" /\ k \notin Live
        BY <3>3 DEF Live, TypeOKFolded
      <4> QED  BY <3>1, <3>4, <3>5, <4>1, NoneIsNoComment DEF FreshUncounted
    <3> QED  BY <3>6, <3>7
  <2> QED  BY <1>1, <2>1, CountWrites
<1> QED  BY <1>2, <1>3

LEMMA CountStart == Init => CountInv
<1> SUFFICES ASSUME Init PROVE CountInv  OBVIOUS
<1>1. Live = {} /\ Shown = {} /\ Idle.op = "idle"
  BY DEF Init, Live, Shown, Idle
<1>2. Exact /\ FreshUncounted
  BY <1>1, FS_EmptySet DEF Init, Exact, FreshUncounted
<1>3. \A p \in Requests : CallCounts(p)
  BY <1>1 DEF Init, CallCounts
<1> QED  BY <1>2, <1>3 DEF CountInv

\* As long as requests do not overlap and none works on a thread that is
\* archived in part, both counters are what a reader sees, after any number of
\* comments, replies, deletions, archives and restores
\* (application.py:820-877, admin_application.py:147, 287).
THEOREM CountersMatchReaders == Spec => []CountersExact
<1>1. TypeOKFolded /\ ThreadInv /\ SoloInv /\ CountInv /\ [Next]_vars => CountInv'
  <2> SUFFICES ASSUME TypeOKFolded, ThreadInv, SoloInv, CountInv, [Next]_vars
               PROVE  CountInv'
    OBVIOUS
  <2>1. ASSUME NEW p \in Requests, RollBack(p) PROVE CountInv'
    BY <2>1, CountEnds DEF RollBack, rows
  <2>2. CASE ArchivePost \/ RestorePost \/ UNCHANGED vars
    <3>1. UNCHANGED <<status, parent, root, replies, postCount, req, history>>
      BY <2>2 DEF ArchivePost, RestorePost, vars
    <3>2. Live' = Live /\ Shown' = Shown
      BY <3>1 DEF Live, Shown
    <3>3. \A p \in Requests : CallCounts(p) => CallCounts(p)'
      <4> SUFFICES ASSUME NEW p \in Requests, CallCounts(p) PROVE CallCounts(p)'
        OBVIOUS
      <4>1. Group(req[p].c)' = Group(req[p].c) /\ (Mixed(req[p].c)' <=> Mixed(req[p].c))
        BY <3>1 DEF Live, Group, Mixed, RepliesOf
      <4> QED  BY <3>1, <3>2, <4>1 DEF CallCounts
    <3> QED  BY <3>1, <3>2, <3>3 DEF CountInv, Exact, RepliesOf, FreshUncounted
  <2> QED
    BY <2>1, <2>2, CountReadCreate, CountReadRemoval, CountReadRestore, CountPrepare,
       CountWriteCreate, CountWriteRemoval, CountWriteRestore
    DEF Next
<1>2. CountInv => CountersExact
  BY DEF CountInv, CountersExact
<1> QED  BY <1>1, <1>2, CountStart, SoloInvariant, ThreadsInvariant, PTL DEF Spec

=============================================================================
