---------------------------- MODULE MemoryStore ----------------------------
(***************************************************************************)
(* One long-term memory of an agent and everything that touches it         *)
(* (agents_scheduler/memory/service.py, database.py).                      *)
(*                                                                         *)
(* The memory lives in three stores that share no transaction: the row in  *)
(* SQLite (the truth), the embedding in Chroma and the document in Tantivy.*)
(* The agent threads, the decay thread and the requests of the management  *)
(* backend run in different threads and event loops; a lock inside each    *)
(* store makes one call atomic and nothing makes two of them so.  A task   *)
(* is one running call of MemoryService; each of its steps is one call of  *)
(* a store, and what the task read before is in its snapshot.              *)
(*                                                                         *)
(* Abstractions: a content is one of a few numbers, and edits, of which    *)
(* there may be any number, choose among them; the coefficient is counted  *)
(* in units of the amount that one unit of scaled time takes away; scaled  *)
(* time starts at 1 because 0 stands for "never" in last_boost_timestamp.  *)
(* The metadata kept next to an embedding and failures of SQLite are left  *)
(* out.  A failing index call is logged and the operation goes on, as in   *)
(* the code.                                                               *)
(***************************************************************************)
EXTENDS Integers, FiniteSets

CONSTANTS
    Tasks,       \* the calls of MemoryService that may be in progress
    Contents,    \* what a memory may say
    Top,         \* the largest coefficient (1.0)
    Levels,      \* the coefficients a writer or an administrator gives
    Threshold,   \* config.threshold: a decayed memory below it is deleted
    Boost,       \* config.boost_factor
    Cooldown,    \* config.boost_cooldown_seconds
    MaxTime,     \* bound: the last instant of the scaled clock
    MaxFaults    \* bound: failed index calls and crashes of the process

ASSUME LevelsAssumption ==
    /\ Top \in Nat /\ Threshold \in 0..Top /\ Levels \subseteq 0..Top
    /\ Boost \in Nat \ {0} /\ Cooldown \in Nat \ {0}
ASSUME ContentsAssumption == Contents \subseteq Nat \ {0} /\ Contents # {}
ASSUME BoundsAssumption ==
    MaxTime \in Nat \ {0} /\ MaxFaults \in Nat

VARIABLES
    row,        \* the row of the table memories
    vec,        \* the content whose embedding Chroma holds, 0 if none
    docs,       \* the contents of the documents Tantivy holds for the id
    task,       \* for each task: where it is, the row it read, its time
    now,        \* the scaled clock
    faults,     \* faults so far
    lastGrant,  \* history: the time of the last boost granted, 0 if none
    rewound     \* history: a whole-row update put an older boost time back

vars == <<row, vec, docs, task, now, faults, lastGrant, rewound>>
stores == <<row, vec, docs>>
history == <<lastGrant, rewound>>

-----------------------------------------------------------------------------
(* "charged" is not a column: it adds up what decay took off the           *)
(* coefficient along the copies of the row, see DecayChargesOnce.          *)
Row == [exists : BOOLEAN, content : Nat, coeff : 0..Top, static : BOOLEAN,
        stamp : Nat, decayed : Nat, boosted : Nat, charged : Nat]

NoRow == [exists |-> FALSE, content |-> 0, coeff |-> 0, static |-> FALSE,
          stamp |-> 0, decayed |-> 0, boosted |-> 0, charged |-> 0]

Places == {"idle", "addVec", "addDoc", "recall", "boost", "edit", "refresh",
           "embed", "latest", "upsert", "dropDoc", "putDoc", "purgeVec",
           "purgeDoc", "decayRead", "decayWrite", "delVec", "delDoc", "clear"}

Idle == [pc |-> "idle", snap |-> NoRow, time |-> 0]

(* What later steps use of a row, for a call that needs the content only.  *)
OnlyContent(content) == [NoRow EXCEPT !.content = content]

(* A task continues at p; what it read stays, or is forgotten at the end.  *)
Goto(t, p) ==
    task' = [task EXCEPT ![t] = IF p = "idle" THEN Idle ELSE [@ EXCEPT !.pc = p]]
Begin(t, p, s, time) ==
    task' = [task EXCEPT ![t] = [pc |-> p, snap |-> s, time |-> time]]
At(t, p) == task[t].pc = p

Fault == faults < MaxFaults /\ faults' = faults + 1
Fine == UNCHANGED faults

(* Mutant: an update that inserts the row when it is missing.              *)
UpdateRowUpserts(r) == row' = r /\ rewound' = (rewound \/ r.boosted # row.boosted)

(* update_memory: UPDATE of every column WHERE id = ?, a deleted row stays *)
(* deleted.                                                                *)
UpdateRow(r) ==
    IF row.exists
    THEN /\ row' = r
         /\ rewound' = (rewound \/ r.boosted # row.boosted)
    ELSE UNCHANGED <<row, rewound>>

DeleteRow == row' = [NoRow EXCEPT !.stamp = row.stamp]

-----------------------------------------------------------------------------
(* A new memory: which content it has makes no difference.                 *)
FirstContent == CHOOSE content \in Contents : TRUE

(* write_memory: the row, then the embedding, then the document.  Chroma   *)
(* ignores an id it has; Tantivy adds one more document.                   *)
AddMemory(t) ==
    /\ At(t, "idle") /\ row.stamp = 0
    /\ \E k \in Levels, static \in BOOLEAN :
         row' = [exists |-> TRUE, content |-> FirstContent, coeff |-> k,
                 static |-> static, stamp |-> now, decayed |-> now,
                 boosted |-> 0, charged |-> 0]
    /\ Begin(t, "addVec", OnlyContent(FirstContent), 0)
    /\ UNCHANGED <<vec, docs, now, faults, history>>

AddVector(t) ==
    /\ At(t, "addVec")
    /\ Goto(t, "addDoc")
    /\ \/ /\ Fine
          /\ vec' = IF vec = 0 THEN task[t].snap.content ELSE vec
       \/ Fault /\ UNCHANGED vec
    /\ UNCHANGED <<row, docs, now, history>>

AddDoc(t) ==
    /\ At(t, "addDoc")
    /\ Goto(t, "idle")
    /\ \/ Fine /\ docs' = docs \cup {task[t].snap.content}
       \/ Fault /\ UNCHANGED docs
    /\ UNCHANGED <<row, vec, now, history>>

-----------------------------------------------------------------------------
(* recall_memories: the time is taken first, then the candidates of the    *)
(* two indexes are looked up in SQLite, then each normal one is boosted.   *)
Recall(t) ==
    /\ At(t, "idle")
    /\ Begin(t, "recall", NoRow, now)
    /\ UNCHANGED <<stores, now, faults, history>>

Found == (vec # 0 \/ docs # {}) /\ row.exists /\ row.coeff >= Threshold

LoadRanked(t) ==
    /\ At(t, "recall")
    /\ Goto(t, IF Found /\ ~row.static THEN "boost" ELSE "idle")
    /\ UNCHANGED <<stores, now, faults, history>>

(* Mutant: the cooldown is not tested again by the update.                 *)
MayBoostUnchecked(time) == row.exists /\ ~row.static

(* try_boost_memory: one UPDATE tests and sets.                            *)
MayBoost(time) ==
    /\ row.exists /\ ~row.static
    /\ row.boosted = 0 \/ row.boosted <= time - Cooldown

Capped(k) == IF k > Top THEN Top ELSE k

(* Mutant: the coefficient may grow past 1.0.                              *)
TryBoostUncapped(t) ==
    /\ At(t, "boost")
    /\ Goto(t, "idle")
    /\ IF MayBoost(task[t].time)
       THEN /\ row' = [row EXCEPT !.coeff = @ + Boost, !.boosted = task[t].time]
            /\ lastGrant' = task[t].time
       ELSE UNCHANGED <<row, lastGrant>>
    /\ UNCHANGED <<vec, docs, now, faults, rewound>>

TryBoost(t) ==
    /\ At(t, "boost")
    /\ Goto(t, "idle")
    /\ IF MayBoost(task[t].time)
       THEN /\ row' = [row EXCEPT !.coeff = Capped(@ + Boost),
                                  !.boosted = task[t].time]
            /\ lastGrant' = task[t].time
       ELSE UNCHANGED <<row, lastGrant>>
    /\ UNCHANGED <<vec, docs, now, faults, rewound>>

-----------------------------------------------------------------------------
(* update_memory_primary: reads the row and replaces the fields of the     *)
(* form; the second step writes every column back.  The request then       *)
(* queues a refresh.                                                       *)
EditRead(t) ==
    /\ At(t, "idle") /\ row.exists
    /\ \E content \in Contents, k \in Levels, static \in BOOLEAN :
         Begin(t, "edit", [row EXCEPT !.content = content, !.coeff = k,
                                      !.static = static], 0)
    /\ UNCHANGED <<stores, now, faults, history>>

EditWrite(t) ==
    /\ At(t, "edit")
    /\ UpdateRow(task[t].snap)
    /\ Begin(t, "refresh", NoRow, 0)
    /\ UNCHANGED <<vec, docs, now, faults, lastGrant>>

(* refresh_memory_indexes runs on the event loop of the backend: two of    *)
(* them interleave at their awaits only, so one that has started to write  *)
(* the indexes finishes before another one starts to.                      *)
LoopFree(t) ==
    \A u \in Tasks \ {t} : task[u].pc \notin {"dropDoc", "putDoc", "purgeDoc"}

RefreshRead(t) ==
    /\ At(t, "refresh")
    /\ IF row.exists THEN Begin(t, "embed", OnlyContent(row.content), 0) ELSE Goto(t, "purgeVec")
    /\ UNCHANGED <<stores, now, faults, history>>

(* get_embedding, a remote call; when it fails the refresh gives up.       *)
Embed(t) ==
    /\ At(t, "embed")
    /\ \/ Fine /\ Goto(t, "latest")
       \/ Fault /\ Goto(t, "idle")
    /\ UNCHANGED <<stores, now, history>>

(* Mutant: the comparison of the two contents is inverted.                 *)
RefreshLatestInverted(t) ==
    /\ At(t, "latest")
    /\ IF row.exists /\ row.content # task[t].snap.content
       THEN Goto(t, "upsert")
       ELSE Begin(t, "refresh", NoRow, 0)
    /\ UNCHANGED <<stores, now, faults, history>>

RefreshLatest(t) ==
    /\ At(t, "latest")
    /\ IF row.exists /\ row.content = task[t].snap.content
       THEN Goto(t, "upsert")
       ELSE Begin(t, "refresh", NoRow, 0)
    /\ UNCHANGED <<stores, now, faults, history>>

Upsert(t) ==
    /\ At(t, "upsert") /\ LoopFree(t)
    /\ Goto(t, "dropDoc")
    /\ \/ Fine /\ vec' = task[t].snap.content
       \/ Fault /\ UNCHANGED vec
    /\ UNCHANGED <<row, docs, now, history>>

DropDoc(t) ==
    /\ At(t, "dropDoc")
    /\ \/ Fine /\ docs' = {} /\ Goto(t, "putDoc")
       \/ Fault /\ UNCHANGED docs /\ Goto(t, "idle")
    /\ UNCHANGED <<row, vec, now, history>>

PutDoc(t) ==
    /\ At(t, "putDoc")
    /\ Goto(t, "idle")
    /\ \/ Fine /\ docs' = docs \cup {task[t].snap.content}
       \/ Fault /\ UNCHANGED docs
    /\ UNCHANGED <<row, vec, now, history>>

(* The row is gone: the two deletions share one try.                       *)
PurgeVec(t) ==
    /\ At(t, "purgeVec") /\ LoopFree(t)
    /\ \/ Fine /\ vec' = 0 /\ Goto(t, "purgeDoc")
       \/ Fault /\ UNCHANGED vec /\ Goto(t, "idle")
    /\ UNCHANGED <<row, docs, now, history>>

-----------------------------------------------------------------------------
(* decay_memories: the time is taken first, then every row is read, then   *)
(* each is written back or deleted.                                        *)
Decay(t) ==
    /\ At(t, "idle")
    /\ Begin(t, "decayRead", NoRow, now)
    /\ UNCHANGED <<stores, now, faults, history>>

DecayRead(t) ==
    /\ At(t, "decayRead")
    /\ IF row.exists /\ ~row.static /\ task[t].time > row.decayed
       THEN Begin(t, "decayWrite", row, task[t].time)
       ELSE Goto(t, "idle")
    /\ UNCHANGED <<stores, now, faults, history>>

(* The coefficient and the row that a decay at the given time leaves.      *)
Remaining(r, time) == r.coeff - (time - r.decayed)

(* Mutant: the time of the last decay is not advanced.                     *)
DecayedAgain(r, time) ==
    [r EXCEPT !.coeff = Remaining(r, time), !.charged = @ + (time - r.decayed)]

Decayed(r, time) ==
    [r EXCEPT !.coeff = Remaining(r, time), !.decayed = time,
              !.charged = @ + (time - r.decayed)]

DecayWrite(t) ==
    /\ At(t, "decayWrite")
    /\ LET r == task[t].snap
           time == task[t].time
       IN IF Remaining(r, time) < Threshold
          THEN DeleteRow /\ Begin(t, "delVec", NoRow, 0) /\ UNCHANGED rewound
          ELSE UpdateRow(Decayed(r, time)) /\ Goto(t, "idle")
    /\ UNCHANGED <<vec, docs, now, faults, lastGrant>>

-----------------------------------------------------------------------------
(* Mutant: the embedding is deleted before the row.                        *)
DeleteVectorFirst(t) ==
    /\ At(t, "idle") /\ row.stamp # 0
    /\ vec' = 0
    /\ Goto(t, "clear")
    /\ UNCHANGED <<row, docs, now, faults, history>>

(* delete_memory: the row first, then the indexes.                         *)
DeleteMemory(t) ==
    /\ At(t, "idle") /\ row.stamp # 0
    /\ DeleteRow
    /\ Goto(t, "delVec")
    /\ UNCHANGED <<vec, docs, now, faults, history>>

DelVec(t) ==
    /\ At(t, "delVec")
    /\ Goto(t, "delDoc")
    /\ \/ Fine /\ vec' = 0
       \/ Fault /\ UNCHANGED vec
    /\ UNCHANGED <<row, docs, now, history>>

DelDoc(t) ==
    /\ task[t].pc \in {"delDoc", "purgeDoc"}
    /\ Goto(t, "idle")
    /\ \/ Fine /\ docs' = {}
       \/ Fault /\ UNCHANGED docs
    /\ UNCHANGED <<row, vec, now, history>>

(* clear_user_memories: lists the memories of the owner, deletes his rows, *)
(* then deletes from the indexes what was listed.                          *)
ClearRead(t) ==
    /\ At(t, "idle")
    /\ Begin(t, "clear", [NoRow EXCEPT !.exists = row.exists], 0)
    /\ UNCHANGED <<stores, now, faults, history>>

ClearRows(t) ==
    /\ At(t, "clear")
    /\ DeleteRow
    /\ IF task[t].snap.exists THEN Begin(t, "delVec", NoRow, 0) ELSE Goto(t, "idle")
    /\ UNCHANGED <<vec, docs, now, faults, history>>

-----------------------------------------------------------------------------
Tick ==
    /\ now < MaxTime
    /\ now' = now + 1
    /\ UNCHANGED <<stores, task, faults, history>>

(* The process dies: every call in progress is gone, the stores stay.      *)
Crash ==
    /\ Fault
    /\ task' = [t \in Tasks |-> Idle]
    /\ UNCHANGED <<stores, now, history>>

Init ==
    /\ row = NoRow /\ vec = 0 /\ docs = {}
    /\ task = [t \in Tasks |-> Idle]
    /\ now = 1 /\ faults = 0
    /\ lastGrant = 0 /\ rewound = FALSE

Call(t) ==
    \/ AddMemory(t) \/ Recall(t) \/ EditRead(t) \/ Decay(t)
    \/ DeleteMemory(t) \/ ClearRead(t)

Advance(t) ==
    \/ AddVector(t) \/ AddDoc(t) \/ LoadRanked(t) \/ TryBoost(t)
    \/ EditWrite(t) \/ RefreshRead(t) \/ Embed(t) \/ RefreshLatest(t)
    \/ Upsert(t) \/ DropDoc(t) \/ PutDoc(t) \/ PurgeVec(t)
    \/ DecayRead(t) \/ DecayWrite(t) \/ DelVec(t) \/ DelDoc(t)
    \/ ClearRows(t)

Next == (\E t \in Tasks : Call(t) \/ Advance(t)) \/ Tick \/ Crash

Spec == Init /\ [][Next]_vars

(* A call that has begun is run to its end by its thread or event loop.    *)
FairSpec == Spec /\ \A t \in Tasks : WF_vars(Advance(t))

-----------------------------------------------------------------------------
(* The types.                                                              *)
TypeOK ==
    /\ row \in Row
    /\ vec \in Nat /\ docs \in SUBSET Nat
    /\ task \in [Tasks -> [pc : Places, snap : Row, time : Nat]]
    /\ now \in 1..MaxTime /\ faults \in 0..MaxFaults
    /\ lastGrant \in Nat /\ rewound \in BOOLEAN

(* A deleted memory never comes back, although a decay or an edit that     *)
(* read it before writes all its columns afterwards (database.py:144-150). *)
NoResurrection == [][row.stamp # 0 /\ ~row.exists => ~row'.exists]_vars

(* A memory whose embedding is stored stays in the vector index as long as *)
(* its row exists: every removal comes after the deletion of the row       *)
(* (service.py:803-806, 907-914, 954-961).                                 *)
FindableWhileAlive == [][row.exists /\ vec # 0 => vec' # 0]_vars

(* Decay never charges a memory for more time than it has lived, however   *)
(* many decays, boosts and edits overlap: time charged twice would show    *)
(* here ("avoid computing the whole age again", service.py:874).           *)
DecayChargesOnce == row.exists => row.charged <= now - row.stamp

(* Two boosts of a memory are a cooldown apart, even when several recalls  *)
(* took their time long before they reach the database                     *)
(* (try_boost_memory), as long as no whole-row update put an older boost   *)
(* time back.                                                              *)
BoostsSpaced ==
    [][lastGrant # lastGrant' /\ lastGrant # 0 /\ ~rewound
       => lastGrant' >= lastGrant + Cooldown]_vars

(* A refresh chases changes of the content and nothing else: as soon as    *)
(* the content is left alone for good, whatever edits of other fields,     *)
(* decays, boosts and refreshes go on, every refresh leaves its loop to    *)
(* write the indexes, however often it had to start over before            *)
(* (service.py:800-819).                                                   *)
Chasing(t) == task[t].pc \in {"refresh", "embed", "latest"}
ContentSettles ==
    <>[][row'.content = row.content /\ row'.exists = row.exists]_vars
ChaseEnds == ContentSettles => \A t \in Tasks : []<>~Chasing(t)

(* Claimed at service.py:866 ("static memories do not decay, their         *)
(* coefficient never changes"): only an administrator changes or removes   *)
(* the row of a static memory.                                             *)
StaticKept ==
    [][row.exists /\ row.static /\ row' # row
       => \E t \in Tasks : EditWrite(t) \/ DeleteMemory(t) \/ ClearRows(t)]_vars

=============================================================================
