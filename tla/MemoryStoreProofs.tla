------------------------- MODULE MemoryStoreProofs -------------------------
(***************************************************************************)
(* Theorems about MemoryStore, for every number of concurrent calls and    *)
(* every threshold, boost and cooldown: a deleted memory stays deleted, a  *)
(* living one stays in the vector index, decay charges no time twice, and  *)
(* boosts are a cooldown apart.                                            *)
(***************************************************************************)
EXTENDS MemoryStore, TLAPS

USE DEF stores, history

TaskType == [pc : Places, snap : Row, time : Nat]

(* A row r that exists at the time n owes its decays to distinct time.     *)
RowFair(r, n) ==
    r.exists => /\ r.stamp # 0 /\ r.content # 0
                /\ r.decayed <= n /\ r.charged <= r.decayed - r.stamp

(* A task k fits the row r at the time n: what it will write back comes    *)
(* from the same memory, and what it is about to remove is deleted.        *)
TaskFair(k, r, n) ==
    /\ k.time <= n
    /\ k.pc \in {"edit", "decayWrite"} =>
         k.snap.exists /\ RowFair(k.snap, n) /\ k.snap.stamp = r.stamp
    /\ k.pc = "decayWrite" => k.time > k.snap.decayed
    /\ k.pc \in {"addVec", "embed", "latest", "upsert"} => k.snap.content # 0
    /\ k.pc \in {"refresh", "embed", "latest"} => r.stamp # 0
    /\ k.pc = "clear" /\ k.snap.exists => r.stamp # 0
    /\ k.pc \in {"delVec", "purgeVec"} => r.stamp # 0 /\ ~r.exists

TasksFair == \A t \in Tasks : TaskFair(task[t], row, now)

IInv == TypeOK /\ RowFair(row, now) /\ TasksFair

(* Once a memory was written, its row is the same one or deleted for good. *)
Keeps(r, r2) == r.stamp # 0 => r2.stamp = r.stamp /\ (r2.exists => r.exists)

-----------------------------------------------------------------------------
\* What a task knows stays true when others change the row and time passes.
LEMMA FairStays ==
  ASSUME NEW k \in TaskType, NEW r \in Row, NEW r2 \in Row, NEW n \in Nat, NEW n2 \in Nat,
         n <= n2, Keeps(r, r2), TaskFair(k, r, n)
  PROVE  TaskFair(k, r2, n2)
<1>1. k.time \in Nat /\ k.snap \in Row /\ k.snap.decayed \in Nat /\ r.stamp \in Nat /\ r2.stamp \in Nat
  BY DEF TaskType, Row
<1>2. RowFair(k.snap, n) => RowFair(k.snap, n2)
  BY <1>1 DEF RowFair
<1>3. k.pc \in {"edit", "decayWrite"} => r.stamp # 0
  BY <1>1 DEF TaskFair, RowFair
<1>4. k.time <= n2
  BY <1>1 DEF TaskFair
<1>5. r.stamp # 0 => r2.stamp = r.stamp
  BY DEF Keeps
<1>6. r.stamp # 0 /\ ~r.exists => ~r2.exists
  BY DEF Keeps
<1>7. k.pc \in {"delVec", "purgeVec"} => r2.stamp # 0 /\ ~r2.exists
  BY <1>5, <1>6 DEF TaskFair
<1>8. k.pc \in {"edit", "decayWrite"} =>
        k.snap.exists /\ RowFair(k.snap, n2) /\ k.snap.stamp = r2.stamp
  BY <1>2, <1>3, <1>5 DEF TaskFair
<1> QED
  BY <1>4, <1>5, <1>7, <1>8, Zenon DEF TaskFair

\* One task moves to k and the row changes as Keeps allows.
LEMMA TaskStep ==
  ASSUME IInv, NEW t \in Tasks, NEW k \in TaskType, row' \in Row,
         task' = [task EXCEPT ![t] = k], UNCHANGED now, Keeps(row, row'),
         TaskFair(k, row', now)
  PROVE  task' \in [Tasks -> TaskType] /\ TasksFair'
<1>1. task \in [Tasks -> TaskType] /\ row \in Row /\ now \in Nat /\ now <= now
  BY BoundsAssumption DEF IInv, TypeOK, TaskType
<1>2. task' \in [Tasks -> TaskType]
  BY <1>1
<1>3. ASSUME NEW u \in Tasks PROVE TaskFair(task'[u], row', now')
  <2>1. CASE u = t
    BY <1>1, <2>1
  <2>2. CASE u # t
    <3>1. task'[u] = task[u] /\ task[u] \in TaskType /\ TaskFair(task[u], row, now)
      BY <1>1, <2>2 DEF IInv, TasksFair
    <3>2. TaskFair(task[u], row', now)
      BY <1>1, <3>1, FairStays
    <3> QED
      BY <3>1, <3>2
  <2> QED
    BY <2>1, <2>2
<1> QED
  BY <1>2, <1>3 DEF TasksFair

\* The record that Goto writes.
Moved(t, p) == IF p = "idle" THEN Idle ELSE [task[t] EXCEPT !.pc = p]

\* Goto writes a task record that keeps what the task read.
LEMMA MovedType ==
  ASSUME TypeOK, NEW t \in Tasks, NEW p \in Places
  PROVE  /\ Moved(t, p) \in TaskType
         /\ Goto(t, p) => task' = [task EXCEPT ![t] = Moved(t, p)]
         /\ p = "idle" => Moved(t, p) = Idle
         /\ p # "idle" => /\ Moved(t, p).pc = p /\ Moved(t, p).snap = task[t].snap
                          /\ Moved(t, p).time = task[t].time
<1>1. task[t] \in TaskType /\ NoRow \in Row
  BY LevelsAssumption DEF TypeOK, TaskType, NoRow, Row
<1>2. Idle \in TaskType
  BY <1>1 DEF Idle, TaskType, Places
<1> QED
  BY <1>1, <1>2 DEF Moved, Goto, TypeOK, TaskType

\* A step that only moves a task to p, where p asks nothing of the row, keeps
\* the tasks fair.
LEMMA IdleFair ==
  ASSUME IInv, NEW r
  PROVE  TaskFair(Idle, r, now)
  BY BoundsAssumption DEF IInv, TypeOK, TaskFair, Idle

\* Moving to a place that asks nothing of the row keeps the tasks fair.
LEMMA GotoStep ==
  ASSUME IInv, NEW t \in Tasks, NEW p \in {"idle", "addDoc", "boost", "dropDoc", "putDoc", "purgeDoc", "delDoc"},
         Goto(t, p), UNCHANGED now, row' \in Row, Keeps(row, row')
  PROVE  task' \in [Tasks -> TaskType] /\ TasksFair'
<1>0. p \in Places
  BY DEF Places
<1>1. Moved(t, p) \in TaskType /\ task' = [task EXCEPT ![t] = Moved(t, p)]
  BY <1>0, MovedType DEF IInv
<1>2. TaskFair(Moved(t, p), row', now)
  <2>1. CASE p = "idle"
    BY <2>1, IdleFair DEF Moved
  <2>2. CASE p # "idle"
    <3>1. Moved(t, p).pc = p /\ Moved(t, p).time = task[t].time
      BY <1>0, <2>2, MovedType DEF IInv
    <3>2. task[t].time <= now
      BY DEF IInv, TasksFair, TaskFair
    <3> QED
      BY <3>1, <3>2 DEF TaskFair
  <2> QED
    BY <2>1, <2>2
<1> QED
  BY <1>1, <1>2, TaskStep

\* Faults stay within their bound.
LEMMA FaultsType ==
  ASSUME TypeOK, Fine \/ Fault
  PROVE  faults' \in 0..MaxFaults
  BY BoundsAssumption DEF TypeOK, Fine, Fault

\* An unchanged row stays well formed.
LEMMA RowStays ==
  ASSUME IInv, row' = row, UNCHANGED now
  PROVE  row' \in Row /\ Keeps(row, row') /\ RowFair(row, now)'
  BY DEF IInv, TypeOK, Keeps

\* The missing row is a row record that does not exist.
LEMMA NoRowType == NoRow \in Row /\ NoRow.content = 0 /\ ~NoRow.exists
<1>1. 0 \in 0..Top
  BY LevelsAssumption
<1> QED
  BY <1>1 DEF NoRow, Row

\* A new memory has a content.
LEMMA FirstContentType == FirstContent \in Nat /\ FirstContent # 0
  BY ContentsAssumption DEF FirstContent

\* The reduced snapshot carries the content.
LEMMA OnlyContentType ==
  ASSUME NEW c \in Nat
  PROVE  OnlyContent(c) \in Row /\ OnlyContent(c).content = c
<1>1. NoRow \in Row
  BY NoRowType
<1> QED
  BY <1>1 DEF OnlyContent, Row

\* What is left of a deleted row.
LEMMA DeletedRow ==
  ASSUME IInv, DeleteRow, UNCHANGED now
  PROVE  row' \in Row /\ Keeps(row, row') /\ RowFair(row, now)' /\ ~row'.exists
         /\ row'.stamp = row.stamp
<1>1. row.stamp \in Nat
  BY DEF IInv, TypeOK, Row
<1>2. row' \in Row /\ ~row'.exists /\ row'.stamp = row.stamp
  <2>1. NoRow \in Row /\ ~NoRow.exists
    BY NoRowType
  <2>2. row' = [NoRow EXCEPT !.stamp = row.stamp]
    BY DEF DeleteRow
  <2>3. row' \in Row /\ row'.stamp = row.stamp
    BY <1>1, <2>1, <2>2 DEF Row
  <2>4. row'.exists = NoRow.exists
    BY <2>1, <2>2 DEF Row
  <2> QED
    BY <2>1, <2>3, <2>4
<1> QED
  BY <1>2 DEF Keeps, RowFair

\* A whole-row update writes a fair copy of the same memory, or nothing.
LEMMA UpdatedRow ==
  ASSUME IInv, NEW r \in Row, r.exists, RowFair(r, now), r.stamp = row.stamp,
         UpdateRow(r), UNCHANGED now
  PROVE  row' \in Row /\ Keeps(row, row') /\ RowFair(row, now)' /\ rewound' \in BOOLEAN
<1>1. CASE row.exists
  <2>1. row' = r
    BY <1>1, Zenon DEF UpdateRow
  <2>2. rewound' \in BOOLEAN
    BY <1>1, Zenon DEF UpdateRow
  <2>3. Keeps(row, r)
    BY <1>1 DEF Keeps
  <2> QED
    BY <2>1, <2>2, <2>3
<1>2. CASE ~row.exists
  <2>1. row' = row /\ rewound' = rewound
    BY <1>2, Zenon DEF UpdateRow
  <2>2. rewound \in BOOLEAN
    BY DEF IInv, TypeOK
  <2> QED
    BY <2>1, <2>2, RowStays
<1> QED
  BY <1>1, <1>2

-----------------------------------------------------------------------------
\* What one step of a task must establish, besides the bound of the faults.
StepOK ==
    /\ task' \in [Tasks -> TaskType] /\ TasksFair'
    /\ row' \in Row /\ RowFair(row, now)' /\ Keeps(row, row')
    /\ vec' \in Nat /\ docs' \in SUBSET Nat
    /\ lastGrant' \in Nat /\ rewound' \in BOOLEAN

\* The calls begin: the row is unchanged except by the first write.
LEMMA CallStep ==
  ASSUME IInv, NEW t \in Tasks, Call(t)
  PROVE  StepOK /\ UNCHANGED <<now, faults>>
<1>0. /\ row \in Row /\ vec \in Nat /\ docs \in SUBSET Nat /\ now \in Nat /\ now # 0
      /\ lastGrant \in Nat /\ rewound \in BOOLEAN /\ NoRow \in Row
      /\ row.stamp \in Nat
  BY BoundsAssumption, LevelsAssumption DEF IInv, TypeOK, NoRow, Row
<1>1. CASE AddMemory(t)
  <2> PICK k \in Levels, static \in BOOLEAN :
        row' = [exists |-> TRUE, content |-> FirstContent, coeff |-> k,
                static |-> static, stamp |-> now, decayed |-> now,
                boosted |-> 0, charged |-> 0]
    BY <1>1 DEF AddMemory
  <2>1. row' \in Row
    BY <1>0, LevelsAssumption, FirstContentType DEF Row
  <2>2. RowFair(row, now)' /\ UNCHANGED <<now, faults>>
    BY <1>0, <1>1, FirstContentType DEF AddMemory, RowFair
  <2>3. Keeps(row, row')
    BY <1>1 DEF AddMemory, Keeps
  <2> DEFINE k2 == [pc |-> "addVec", snap |-> OnlyContent(FirstContent), time |-> 0]
  <2>4. k2 \in TaskType /\ task' = [task EXCEPT ![t] = k2] /\ k2.snap.content # 0
    <3>1. OnlyContent(FirstContent) \in Row /\ OnlyContent(FirstContent).content = FirstContent
      BY FirstContentType, OnlyContentType
    <3> QED
      BY <3>1, <1>1, FirstContentType DEF AddMemory, Begin, TaskType, Places
  <2>5. TaskFair(k2, row', now)
    BY <1>0, <2>4 DEF TaskFair
  <2>6. task' \in [Tasks -> TaskType] /\ TasksFair'
    <3> HIDE DEF k2
    <3> QED
      BY <2>1, <2>2, <2>3, <2>4, <2>5, TaskStep
  <2> QED
    BY <1>0, <1>1, <2>1, <2>2, <2>3, <2>6 DEF AddMemory, StepOK
<1>2. ASSUME NEW k2 \in TaskType, task' = [task EXCEPT ![t] = k2],
             TaskFair(k2, row, now), UNCHANGED <<stores, now, faults, history>>
      PROVE  StepOK /\ UNCHANGED <<now, faults>>
  <2>1. row' = row /\ UNCHANGED now
    BY <1>2
  <2>2. row' \in Row /\ Keeps(row, row') /\ RowFair(row, now)' /\ TaskFair(k2, row', now)
    BY <1>2, <2>1, RowStays
  <2>3. task' \in [Tasks -> TaskType] /\ TasksFair'
    BY <1>2, <2>1, <2>2, TaskStep
  <2> QED
    BY <1>0, <1>2, <2>2, <2>3 DEF StepOK
<1>3. CASE Recall(t) \/ Decay(t)
  <2> PICK p \in {"recall", "decayRead"} : Begin(t, p, NoRow, now)
    BY <1>3 DEF Recall, Decay
  <2> DEFINE k2 == [pc |-> p, snap |-> NoRow, time |-> now]
  <2>1. k2 \in TaskType /\ task' = [task EXCEPT ![t] = k2]
    BY <1>0 DEF Begin, TaskType, Places
  <2>2. TaskFair(k2, row, now)
    BY <1>0 DEF TaskFair
  <2> HIDE DEF k2
  <2> QED
    BY <1>0, <1>2, <1>3, <2>1, <2>2 DEF Recall, Decay
<1>4. CASE EditRead(t)
  <2> PICK content \in Contents, k \in Levels, static \in BOOLEAN :
        Begin(t, "edit", [row EXCEPT !.content = content, !.coeff = k, !.static = static], 0)
    BY <1>4 DEF EditRead
  <2> DEFINE r == [row EXCEPT !.content = content, !.coeff = k, !.static = static]
             k2 == [pc |-> "edit", snap |-> r, time |-> 0]
  <2>0. row.exists /\ RowFair(row, now)
    BY <1>4 DEF EditRead, IInv
  <2>1. content \in Nat /\ content # 0
    BY ContentsAssumption
  <2>2. /\ r \in Row /\ r.stamp = row.stamp /\ r.decayed = row.decayed
        /\ r.charged = row.charged /\ r.content = content
    BY <1>0, <2>1, LevelsAssumption DEF Row
  <2>3. r.exists
    BY <1>0, <2>0 DEF Row
  <2>4. RowFair(r, now)
    BY <2>0, <2>1, <2>2 DEF RowFair
  <2> HIDE DEF r
  <2>5. k2 \in TaskType /\ k2.pc = "edit" /\ k2.snap = r /\ k2.time = 0
    BY <2>2 DEF TaskType, Places
  <2>6. task' = [task EXCEPT ![t] = k2]
    BY DEF Begin, r
  <2>7. TaskFair(k2, row, now)
    BY <1>0, <2>2, <2>3, <2>4, <2>5 DEF TaskFair
  <2> HIDE DEF k2
  <2> QED
    <3>1. UNCHANGED <<stores, now, faults, history>>
      BY <1>0, <1>4 DEF EditRead
    <3> QED
      BY <1>2, <2>5, <2>6, <2>7, <3>1
<1>5. CASE DeleteMemory(t)
  <2>1. UNCHANGED now /\ DeleteRow /\ Goto(t, "delVec") /\ row.stamp # 0
    BY <1>5 DEF DeleteMemory
  <2>2. row' \in Row /\ Keeps(row, row') /\ RowFair(row, now)' /\ ~row'.exists /\ row'.stamp = row.stamp
    BY <2>1, DeletedRow
  <2>3. "delVec" \in Places
    BY DEF Places
  <2> DEFINE k2 == Moved(t, "delVec")
  <2>4. k2 \in TaskType /\ task' = [task EXCEPT ![t] = k2] /\ k2.pc = "delVec" /\ k2.time = task[t].time
    BY <2>1, <2>3, MovedType DEF IInv
  <2> HIDE DEF k2
  <2>5. task[t].time <= now
    BY DEF IInv, TasksFair, TaskFair
  <2>6. TaskFair(k2, row', now)
    BY <2>1, <2>2, <2>4, <2>5 DEF TaskFair
  <2>7. task' \in [Tasks -> TaskType] /\ TasksFair'
    BY <2>1, <2>2, <2>4, <2>6, TaskStep
  <2> QED
    BY <1>0, <1>5, <2>2, <2>7 DEF DeleteMemory, StepOK
<1>6. CASE ClearRead(t)
  <2> DEFINE s == [NoRow EXCEPT !.exists = row.exists]
             k2 == [pc |-> "clear", snap |-> s, time |-> 0]
  <2>1. s \in Row
    BY <1>0 DEF Row, NoRow
  <2>2. s.exists => row.exists
    BY DEF NoRow
  <2>3. row.exists => row.stamp # 0
    BY DEF IInv, RowFair
  <2> HIDE DEF s
  <2>4. k2 \in TaskType /\ k2.pc = "clear" /\ k2.snap = s /\ k2.time = 0
    BY <2>1 DEF TaskType, Places
  <2>5. task' = [task EXCEPT ![t] = k2]
    BY <1>6 DEF ClearRead, Begin, s
  <2>6. TaskFair(k2, row, now)
    BY <1>0, <2>2, <2>3, <2>4 DEF TaskFair
  <2> HIDE DEF k2
  <2> QED
    BY <1>0, <1>2, <1>6, <2>4, <2>5, <2>6 DEF ClearRead
<1> QED
  BY <1>1, <1>3, <1>4, <1>5, <1>6 DEF Call

\* What a step of task t may rely on.
LEMMA Known ==
  ASSUME IInv, NEW t \in Tasks
  PROVE  /\ row \in Row /\ vec \in Nat /\ docs \in SUBSET Nat /\ now \in Nat
         /\ lastGrant \in Nat /\ rewound \in BOOLEAN
         /\ task[t] \in TaskType /\ TaskFair(task[t], row, now)
         /\ task[t].snap \in Row /\ task[t].snap.content \in Nat
         /\ task[t].time \in Nat /\ row.stamp \in Nat /\ RowFair(row, now)
  BY BoundsAssumption DEF IInv, TypeOK, TasksFair, TaskType, Row

\* The steps that touch the indexes only.
LEMMA IndexStep ==
  ASSUME IInv, NEW t \in Tasks,
         \/ AddVector(t) \/ AddDoc(t) \/ LoadRanked(t) \/ Upsert(t) \/ DropDoc(t)
         \/ PutDoc(t) \/ PurgeVec(t) \/ DelVec(t) \/ DelDoc(t)
  PROVE  StepOK /\ (Fine \/ Fault) /\ UNCHANGED now
<1>0. /\ row' = row /\ UNCHANGED <<now, lastGrant, rewound>> /\ (Fine \/ Fault)
      /\ vec' \in {0, vec, task[t].snap.content}
      /\ docs' \in {{}, docs, docs \cup {task[t].snap.content}}
  BY DEF AddVector, AddDoc, LoadRanked, Upsert, DropDoc, PutDoc, PurgeVec, DelVec, DelDoc, Fine
<1>1. PICK p \in {"idle", "addDoc", "boost", "dropDoc", "putDoc", "purgeDoc", "delDoc"} : Goto(t, p)
  BY DEF AddVector, AddDoc, LoadRanked, Upsert, DropDoc, PutDoc, PurgeVec, DelVec, DelDoc
<1>2. row' \in Row /\ Keeps(row, row') /\ RowFair(row, now)'
  BY <1>0, RowStays
<1>3. task' \in [Tasks -> TaskType] /\ TasksFair'
  BY <1>0, <1>1, <1>2, GotoStep
<1>4. vec' \in Nat /\ docs' \in SUBSET Nat
  BY <1>0, Known
<1>5. lastGrant' \in Nat
  BY <1>0, Known
<1>6. rewound' \in BOOLEAN
  BY <1>0, Known
<1> QED
  BY <1>0, <1>2, <1>3, <1>4, <1>5, <1>6 DEF StepOK

\* The steps that only read the row.
LEMMA ReadStep ==
  ASSUME IInv, NEW t \in Tasks,
         RefreshRead(t) \/ Embed(t) \/ RefreshLatest(t) \/ DecayRead(t)
  PROVE  StepOK /\ (Fine \/ Fault) /\ UNCHANGED now
<1> DEFINE k0 == task[t]
<1>0. /\ UNCHANGED <<stores, now, history>> /\ (Fine \/ Fault)
  BY DEF RefreshRead, Embed, RefreshLatest, DecayRead, Fine
<1>1. row' \in Row /\ Keeps(row, row') /\ RowFair(row, now)' /\ row' = row /\ UNCHANGED now
  BY <1>0, RowStays
<1>2. ASSUME NEW k \in TaskType, task' = [task EXCEPT ![t] = k], TaskFair(k, row, now)
      PROVE  StepOK
  <2>1. task' \in [Tasks -> TaskType] /\ TasksFair'
    BY <1>1, <1>2, TaskStep
  <2>2. vec' \in Nat /\ docs' \in SUBSET Nat /\ lastGrant' \in Nat
    BY <1>0, Known
  <2>3. rewound' \in BOOLEAN
    BY <1>0, Known
  <2> QED
    BY <1>1, <2>1, <2>2, <2>3 DEF StepOK
<1>3. ASSUME NEW p \in Places, Goto(t, p), p # "idle",
             \A k \in TaskType : k.pc = p /\ k.snap = task[t].snap /\ k.time = task[t].time
                                 => TaskFair(k, row, now)
      PROVE  StepOK
  <2>1. /\ Moved(t, p) \in TaskType /\ task' = [task EXCEPT ![t] = Moved(t, p)]
        /\ Moved(t, p).pc = p /\ Moved(t, p).snap = task[t].snap /\ Moved(t, p).time = task[t].time
    BY <1>3, MovedType DEF IInv
  <2> QED
    BY <1>2, <1>3, <2>1
<1>4. ASSUME Goto(t, "idle") PROVE StepOK
  <2>1. task' \in [Tasks -> TaskType] /\ TasksFair'
    BY <1>1, <1>4, GotoStep
  <2>2. vec' \in Nat /\ docs' \in SUBSET Nat /\ lastGrant' \in Nat
    BY <1>0, Known
  <2>3. rewound' \in BOOLEAN
    BY <1>0, Known
  <2> QED
    BY <1>1, <2>1, <2>2, <2>3 DEF StepOK
<1>5. ASSUME NEW p \in Places, NEW r \in Row, NEW n \in Nat, Begin(t, p, r, n),
             TaskFair([pc |-> p, snap |-> r, time |-> n], row, now)
      PROVE  StepOK
  <2> DEFINE k == [pc |-> p, snap |-> r, time |-> n]
  <2>1. k \in TaskType /\ task' = [task EXCEPT ![t] = k] /\ TaskFair(k, row, now)
    BY <1>5 DEF Begin, TaskType
  <2> HIDE DEF k
  <2> QED
    BY <1>2, <2>1
<1>6. CASE RefreshRead(t) /\ row.exists
  <2>1. Begin(t, "embed", OnlyContent(row.content), 0)
    BY <1>6 DEF RefreshRead
  <2>2. row.content \in Nat /\ row.content # 0 /\ row.stamp # 0 /\ now \in Nat
    BY <1>6, Known DEF RowFair, Row
  <2>3. OnlyContent(row.content) \in Row /\ OnlyContent(row.content).content # 0
    BY <2>2, OnlyContentType
  <2>4. TaskFair([pc |-> "embed", snap |-> OnlyContent(row.content), time |-> 0], row, now)
    BY <2>2, <2>3 DEF TaskFair
  <2>5. "embed" \in Places
    BY DEF Places
  <2> QED
    BY <1>5, <2>1, <2>3, <2>4, <2>5, <1>0, <1>1
<1>7. CASE RefreshRead(t) /\ ~row.exists
  <2>1. Goto(t, "purgeVec") /\ "purgeVec" \in Places
    BY <1>7 DEF RefreshRead, Places
  <2>2. row.stamp # 0 /\ task[t].time <= now
    BY <1>7, Known DEF RefreshRead, At, TaskFair
  <2>3. \A k \in TaskType : k.pc = "purgeVec" /\ k.snap = task[t].snap /\ k.time = task[t].time
                            => TaskFair(k, row, now)
    BY <1>7, <2>2 DEF TaskFair
  <2> QED
    BY <1>0, <1>1, <1>3, <2>1, <2>3
<1>8. CASE Embed(t)
  <2>1. task[t].time <= now /\ row.stamp # 0 /\ task[t].snap.content # 0 /\ "latest" \in Places
    BY <1>8, Known DEF Embed, At, TaskFair, Places
  <2>2. \A k \in TaskType : k.pc = "latest" /\ k.snap = task[t].snap /\ k.time = task[t].time
                            => TaskFair(k, row, now)
    BY <2>1 DEF TaskFair
  <2>3. Goto(t, "latest") \/ Goto(t, "idle")
    BY <1>8 DEF Embed
  <2> QED
    BY <1>0, <1>1, <1>3, <1>4, <2>1, <2>2, <2>3
<1>9. CASE RefreshLatest(t)
  <2>1. task[t].time <= now /\ row.stamp # 0 /\ task[t].snap.content # 0 /\ "upsert" \in Places
        /\ "refresh" \in Places /\ now \in Nat
    BY <1>9, Known DEF RefreshLatest, At, TaskFair, Places
  <2>2. \A k \in TaskType : k.pc = "upsert" /\ k.snap = task[t].snap /\ k.time = task[t].time
                            => TaskFair(k, row, now)
    BY <2>1 DEF TaskFair
  <2>3. TaskFair([pc |-> "refresh", snap |-> NoRow, time |-> 0], row, now)
    BY <2>1 DEF TaskFair
  <2>4. Goto(t, "upsert") \/ Begin(t, "refresh", NoRow, 0)
    BY <1>9 DEF RefreshLatest
  <2> QED
    BY <1>0, <1>1, <1>3, <1>5, <2>1, <2>2, <2>3, <2>4, NoRowType
<1>10. CASE DecayRead(t)
  <2>1. CASE row.exists /\ ~row.static /\ task[t].time > row.decayed
    <3>1. Begin(t, "decayWrite", row, task[t].time) /\ "decayWrite" \in Places
      BY <1>10, <2>1 DEF DecayRead, Places
    <3>2. row \in Row /\ task[t].time \in Nat /\ task[t].time <= now /\ RowFair(row, now)
      BY Known DEF TaskFair
    <3>3. TaskFair([pc |-> "decayWrite", snap |-> row, time |-> task[t].time], row, now)
      BY <2>1, <3>2 DEF TaskFair
    <3> QED
      BY <1>0, <1>1, <1>5, <3>1, <3>2, <3>3
  <2>2. CASE ~(row.exists /\ ~row.static /\ task[t].time > row.decayed)
    <3>1. Goto(t, "idle")
      BY <1>10, <2>2, Zenon DEF DecayRead
    <3> QED
      BY <1>0, <1>1, <1>4, <3>1
  <2> QED
    BY <2>1, <2>2
<1> QED
  BY <1>6, <1>7, <1>8, <1>9, <1>10

\* A granted boost keeps the row well formed.
LEMMA BoostStep ==
  ASSUME IInv, NEW t \in Tasks, TryBoost(t)
  PROVE  StepOK /\ UNCHANGED <<now, faults>>
<1>0. Goto(t, "idle") /\ UNCHANGED <<vec, docs, now, faults, rewound>>
  BY DEF TryBoost
<1>1. row' \in Row /\ Keeps(row, row') /\ RowFair(row, now)' /\ lastGrant' \in Nat
  <2>1. CASE MayBoost(task[t].time)
    <3> DEFINE k == Capped(row.coeff + Boost)
    <3>1. row' = [row EXCEPT !.coeff = k, !.boosted = task[t].time] /\ lastGrant' = task[t].time
      BY <2>1 DEF TryBoost
    <3>2. row \in Row /\ task[t].time \in Nat /\ RowFair(row, now)
      BY Known
    <3>3. row.coeff \in 0..Top
      BY <3>2 DEF Row
    <3>4. k \in 0..Top
      BY <3>3, LevelsAssumption DEF Capped
    <3> HIDE DEF k
    <3>5. /\ row' \in Row /\ row'.stamp = row.stamp /\ row'.decayed = row.decayed
          /\ row'.charged = row.charged /\ row'.content = row.content
      BY <3>1, <3>2, <3>4 DEF Row
    <3>6. row'.exists = row.exists
      BY <3>1, <3>2 DEF Row
    <3>7. Keeps(row, row')
      BY <3>5, <3>6 DEF Keeps
    <3>8. RowFair(row, now)'
      BY <1>0, <3>2, <3>5, <3>6 DEF RowFair
    <3> QED
      BY <3>1, <3>2, <3>5, <3>7, <3>8
  <2>2. CASE ~MayBoost(task[t].time)
    <3>1. row' = row /\ lastGrant' = lastGrant
      BY <2>2 DEF TryBoost
    <3> QED
      BY <1>0, <3>1, RowStays, Known
  <2> QED
    BY <2>1, <2>2
<1>2. task' \in [Tasks -> TaskType] /\ TasksFair'
  BY <1>0, <1>1, GotoStep
<1>3. vec' \in Nat /\ docs' \in SUBSET Nat
  BY <1>0, Known
<1>4. rewound' \in BOOLEAN
  BY <1>0, Known
<1> QED
  BY <1>0, <1>1, <1>2, <1>3, <1>4 DEF StepOK

\* Writing an edit back.
LEMMA EditStep ==
  ASSUME IInv, NEW t \in Tasks, EditWrite(t)
  PROVE  StepOK /\ UNCHANGED <<now, faults>>
<1> DEFINE r == task[t].snap
           k == [pc |-> "refresh", snap |-> NoRow, time |-> 0]
<1>0. /\ UpdateRow(r) /\ Begin(t, "refresh", NoRow, 0)
      /\ UNCHANGED <<vec, docs, now, faults, lastGrant>>
  BY DEF EditWrite
<1>1. r \in Row /\ r.exists /\ RowFair(r, now) /\ r.stamp = row.stamp
  BY Known DEF EditWrite, At, TaskFair
<1>2. row' \in Row /\ Keeps(row, row') /\ RowFair(row, now)' /\ rewound' \in BOOLEAN
  BY <1>0, <1>1, UpdatedRow
<1>3. row'.stamp # 0
  BY <1>1, <1>2 DEF RowFair, Keeps
<1>4. k \in TaskType /\ task' = [task EXCEPT ![t] = k]
  BY <1>0, NoRowType DEF Begin, TaskType, Places
<1>5. TaskFair(k, row', now)
  BY <1>3, Known DEF TaskFair
<1> HIDE DEF k
<1>6. task' \in [Tasks -> TaskType] /\ TasksFair'
  BY <1>0, <1>2, <1>4, <1>5, TaskStep
<1>7. vec' \in Nat /\ docs' \in SUBSET Nat /\ lastGrant' \in Nat
  BY <1>0, Known
<1> QED
  BY <1>0, <1>2, <1>6, <1>7 DEF StepOK

\* A decay writes a fair copy, or deletes the row and moves to the indexes.
LEMMA DecayStep ==
  ASSUME IInv, NEW t \in Tasks, DecayWrite(t)
  PROVE  StepOK /\ UNCHANGED <<now, faults>>
<1> DEFINE r == task[t].snap
           time == task[t].time
           left == Remaining(r, time)
           k == [pc |-> "delVec", snap |-> NoRow, time |-> 0]
<1>0. UNCHANGED <<vec, docs, now, faults, lastGrant>>
  BY DEF DecayWrite
<1>1. /\ r \in Row /\ r.exists /\ RowFair(r, now) /\ r.stamp = row.stamp
      /\ time \in Nat /\ time <= now /\ time > r.decayed /\ now \in Nat
  BY Known DEF DecayWrite, At, TaskFair
<1>2. /\ r.coeff \in 0..Top /\ r.decayed \in Nat /\ r.charged \in Nat /\ r.stamp \in Nat
      /\ row.stamp # 0
  BY <1>1 DEF Row, RowFair
<1>3. vec' \in Nat /\ docs' \in SUBSET Nat /\ lastGrant' \in Nat
  BY <1>0, Known
<1>4. CASE left < Threshold
  <2>1. DeleteRow /\ Begin(t, "delVec", NoRow, 0)
    BY <1>4 DEF DecayWrite
  <2>2. rewound' \in BOOLEAN
    <3>1. rewound' = rewound
      BY <1>4 DEF DecayWrite
    <3> QED
      BY <3>1, Known
  <2>3. row' \in Row /\ Keeps(row, row') /\ RowFair(row, now)' /\ ~row'.exists /\ row'.stamp = row.stamp
    BY <1>0, <2>1, DeletedRow
  <2>4. k \in TaskType /\ task' = [task EXCEPT ![t] = k]
    BY <2>1, NoRowType DEF Begin, TaskType, Places
  <2>5. TaskFair(k, row', now)
    BY <1>1, <1>2, <2>3 DEF TaskFair
  <2> HIDE DEF k
  <2>6. task' \in [Tasks -> TaskType] /\ TasksFair'
    BY <1>0, <2>3, <2>4, <2>5, TaskStep
  <2> QED
    BY <1>0, <1>3, <2>2, <2>3, <2>6 DEF StepOK
<1>5. CASE ~(left < Threshold)
  <2> DEFINE d == Decayed(r, time)
             charge == r.charged + (time - r.decayed)
  <2>1. UpdateRow(d) /\ Goto(t, "idle")
    BY <1>5 DEF DecayWrite
  <2>2. left \in 0..Top /\ charge \in Nat /\ charge <= time - r.stamp
    BY <1>1, <1>2, <1>5, LevelsAssumption DEF Remaining, RowFair
  <2>3. d = [r EXCEPT !.coeff = left, !.decayed = time, !.charged = charge]
    BY DEF Decayed
  <2> HIDE DEF left, charge
  <2>4. /\ d \in Row /\ d.stamp = r.stamp /\ d.decayed = time /\ d.charged = charge
        /\ d.content = r.content
    BY <1>1, <2>2, <2>3 DEF Row
  <2>5. d.exists = r.exists
    BY <1>1, <2>3 DEF Row
  <2> HIDE DEF d
  <2>6. RowFair(d, now)
    BY <1>1, <2>2, <2>4, <2>5 DEF RowFair
  <2>7. row' \in Row /\ Keeps(row, row') /\ RowFair(row, now)' /\ rewound' \in BOOLEAN
    BY <1>0, <1>1, <2>1, <2>4, <2>5, <2>6, UpdatedRow
  <2>8. task' \in [Tasks -> TaskType] /\ TasksFair'
    BY <1>0, <2>1, <2>7, GotoStep
  <2> QED
    BY <1>0, <1>3, <2>7, <2>8 DEF StepOK
<1> QED
  BY <1>4, <1>5

\* Clearing an owner's memories.
LEMMA ClearStep ==
  ASSUME IInv, NEW t \in Tasks, ClearRows(t)
  PROVE  StepOK /\ UNCHANGED <<now, faults>>
<1> DEFINE k == [pc |-> "delVec", snap |-> NoRow, time |-> 0]
<1>0. DeleteRow /\ UNCHANGED <<vec, docs, now, faults, history>>
  BY DEF ClearRows
<1>1. row' \in Row /\ Keeps(row, row') /\ RowFair(row, now)' /\ ~row'.exists /\ row'.stamp = row.stamp
  BY <1>0, DeletedRow
<1>2. vec' \in Nat /\ docs' \in SUBSET Nat /\ lastGrant' \in Nat
  BY <1>0, Known
<1>3. rewound' \in BOOLEAN
  BY <1>0, Known
<1>4. task' \in [Tasks -> TaskType] /\ TasksFair'
  <2>1. CASE task[t].snap.exists
    <3>1. k \in TaskType /\ task' = [task EXCEPT ![t] = k]
      BY <2>1, NoRowType DEF ClearRows, Begin, TaskType, Places
    <3>2. row.stamp # 0 /\ now \in Nat
      BY <2>1, Known DEF ClearRows, At, TaskFair
    <3>3. TaskFair(k, row', now)
      BY <1>1, <3>2 DEF TaskFair
    <3> HIDE DEF k
    <3> QED
      BY <1>0, <1>1, <3>1, <3>3, TaskStep
  <2>2. CASE ~task[t].snap.exists
    <3>1. Goto(t, "idle")
      BY <2>2 DEF ClearRows
    <3> QED
      BY <1>0, <1>1, <3>1, GotoStep
  <2> QED
    BY <2>1, <2>2
<1> QED
  BY <1>0, <1>1, <1>2, <1>3, <1>4 DEF StepOK

-----------------------------------------------------------------------------
\* The invariant holds initially.
LEMMA InvInit == Init => IInv
<1> SUFFICES ASSUME Init PROVE IInv
  OBVIOUS
<1>1. NoRow \in Row /\ ~NoRow.exists /\ Idle \in TaskType
  BY NoRowType DEF Idle, TaskType, Places
<1>2. TypeOK
  <2>1. row \in Row /\ task \in [Tasks -> TaskType]
    BY <1>1 DEF Init
  <2>2. now \in 1..MaxTime /\ faults \in 0..MaxFaults
    BY BoundsAssumption DEF Init
  <2>3. rewound \in BOOLEAN
    BY DEF Init
  <2> QED
    BY <2>1, <2>2, <2>3 DEF Init, TypeOK, TaskType
<1>3. RowFair(row, now)
  BY <1>1 DEF Init, RowFair
<1>4. TasksFair
  BY DEF Init, TasksFair, TaskFair, Idle
<1> QED
  BY <1>2, <1>3, <1>4 DEF IInv

\* The inductive invariant is kept by every step.
LEMMA InvStep ==
  ASSUME IInv, [Next]_vars
  PROVE  IInv'
<1>0. now \in 1..MaxTime /\ faults \in 0..MaxFaults /\ row \in Row
  BY DEF IInv, TypeOK
<1>1. ASSUME StepOK, UNCHANGED now, faults' \in 0..MaxFaults PROVE IInv'
  <2>1. now' \in 1..MaxTime
    BY <1>0, <1>1
  <2>2. lastGrant' \in Nat /\ rewound' \in BOOLEAN
    BY <1>1, Zenon DEF StepOK
  <2> QED
    BY <1>1, <2>1, <2>2 DEF StepOK, IInv, TypeOK, TaskType
<1>2. ASSUME NEW t \in Tasks, Call(t) PROVE IInv'
  BY <1>0, <1>1, <1>2, CallStep
<1>3. ASSUME NEW t \in Tasks, Advance(t) PROVE IInv'
  <2>1. CASE AddVector(t) \/ AddDoc(t) \/ LoadRanked(t) \/ Upsert(t) \/ DropDoc(t)
             \/ PutDoc(t) \/ PurgeVec(t) \/ DelVec(t) \/ DelDoc(t)
    BY <1>1, <2>1, IndexStep, FaultsType DEF IInv
  <2>2. CASE RefreshRead(t) \/ Embed(t) \/ RefreshLatest(t) \/ DecayRead(t)
    BY <1>1, <2>2, ReadStep, FaultsType DEF IInv
  <2>3. CASE TryBoost(t)
    BY <1>0, <1>1, <2>3, BoostStep
  <2>4. CASE EditWrite(t)
    BY <1>0, <1>1, <2>4, EditStep
  <2>5. CASE DecayWrite(t)
    BY <1>0, <1>1, <2>5, DecayStep
  <2>6. CASE ClearRows(t)
    BY <1>0, <1>1, <2>6, ClearStep
  <2> QED
    BY <1>3, <2>1, <2>2, <2>3, <2>4, <2>5, <2>6 DEF Advance
<1>4. CASE Tick
  <2>1. now' \in 1..MaxTime /\ now' = now + 1 /\ now \in Nat /\ now' \in Nat /\ now <= now'
    BY <1>0, <1>4, BoundsAssumption DEF Tick
  <2>2. UNCHANGED <<row, vec, docs, task, faults, lastGrant, rewound>>
    BY <1>4 DEF Tick
  <2>3. RowFair(row, now)'
    <3>1. row.decayed \in Nat
      BY <1>0 DEF Row
    <3> QED
      BY <2>1, <2>2, <3>1 DEF RowFair, IInv
  <2>4. TasksFair'
    <3>1. ASSUME NEW u \in Tasks PROVE TaskFair(task[u], row, now')
      <4>1. task[u] \in TaskType /\ TaskFair(task[u], row, now) /\ Keeps(row, row)
        BY Known DEF Keeps
      <4> QED
        BY <1>0, <2>1, <4>1, FairStays
    <3> QED
      BY <2>2, <3>1 DEF TasksFair
  <2>5. TypeOK'
    <3>1. rewound' \in BOOLEAN
      BY <2>2 DEF IInv, TypeOK
    <3> QED
      BY <2>1, <2>2, <3>1 DEF IInv, TypeOK
  <2> QED
    BY <2>3, <2>4, <2>5 DEF IInv
<1>5. CASE Crash
  <2>1. task' = [u \in Tasks |-> Idle] /\ Idle \in TaskType
    BY <1>5, NoRowType DEF Crash, Idle, TaskType, Places
  <2>2. UNCHANGED <<row, vec, docs, now, lastGrant, rewound>>
    BY <1>5 DEF Crash
  <2>3. faults' \in 0..MaxFaults
    BY <1>5, FaultsType DEF Crash, IInv
  <2>4. TasksFair'
    BY <2>1, <2>2, IdleFair DEF TasksFair
  <2>5. TypeOK'
    <3>1. rewound' \in BOOLEAN
      BY <2>2 DEF IInv, TypeOK
    <3> QED
      BY <2>1, <2>2, <2>3, <3>1 DEF IInv, TypeOK, TaskType
  <2>6. RowFair(row, now)'
    BY <2>2 DEF IInv
  <2> QED
    BY <2>4, <2>5, <2>6 DEF IInv
<1>6. CASE UNCHANGED vars
  <2>1. UNCHANGED <<row, vec, docs, task, now, faults, lastGrant, rewound>>
    BY <1>6 DEF vars
  <2>2. TypeOK'
    <3>1. rewound' \in BOOLEAN
      BY <2>1 DEF IInv, TypeOK
    <3> QED
      BY <2>1, <3>1 DEF IInv, TypeOK
  <2>3. RowFair(row, now)' /\ TasksFair'
    BY <2>1 DEF IInv, TasksFair
  <2> QED
    BY <2>2, <2>3 DEF IInv
<1> QED
  BY <1>2, <1>3, <1>4, <1>5, <1>6 DEF Next

\* The invariant holds in every reachable state.
LEMMA Invariant == Spec => []IInv
<1>1. IInv /\ [Next]_vars => IInv'
  BY InvStep
<1> QED
  BY <1>1, InvInit, PTL DEF Spec

\* The stores, the tasks and the counters are well typed; the coefficient
\* stays within its range whatever calls overlap.
THEOREM TypeCorrect == Spec => []TypeOK
<1>1. IInv => TypeOK
  BY DEF IInv
<1> QED
  BY <1>1, Invariant, PTL

\* Decay never charges a memory for more time than it has lived.
THEOREM ChargedOnce == Spec => []DecayChargesOnce
<1>1. IInv => DecayChargesOnce
  <2> SUFFICES ASSUME IInv, row.exists PROVE row.charged <= now - row.stamp
    BY DEF DecayChargesOnce
  <2>1. row.charged \in Nat /\ row.stamp \in Nat /\ row.decayed \in Nat /\ now \in Nat
    BY BoundsAssumption DEF IInv, TypeOK, Row
  <2> QED
    BY <2>1 DEF IInv, RowFair
<1> QED
  BY <1>1, Invariant, PTL

-----------------------------------------------------------------------------
\* Every step keeps the row of a written memory or deletes it.
LEMMA RowKept ==
  ASSUME IInv, [Next]_vars
  PROVE  Keeps(row, row')
<1>1. CASE \E t \in Tasks : Call(t)
  BY <1>1, CallStep DEF StepOK
<1>2. ASSUME NEW t \in Tasks, Advance(t) PROVE Keeps(row, row')
  <2>1. StepOK
    BY <1>2, IndexStep, ReadStep, BoostStep, EditStep, DecayStep, ClearStep DEF Advance
  <2> QED
    BY <2>1 DEF StepOK
<1>3. CASE UNCHANGED row
  BY <1>3 DEF Keeps
<1> QED
  BY <1>1, <1>2, <1>3 DEF Next, Tick, Crash, vars

\* A deleted memory never comes back, whatever a decay or an edit that read
\* it before writes afterwards.
THEOREM DeletedForGood == Spec => NoResurrection
<1>1. IInv /\ [Next]_vars => (row.stamp # 0 /\ ~row.exists => ~row'.exists)
  BY RowKept DEF Keeps
<1>2. IInv /\ [Next]_vars => [row.stamp # 0 /\ ~row.exists => ~row'.exists]_vars
  BY <1>1
<1> QED
  BY <1>2, Invariant, PTL DEF Spec, NoResurrection

\* The embedding of a memory whose row exists is never removed.
THEOREM StaysInIndex == Spec => FindableWhileAlive
<1>1. ASSUME IInv, [Next]_vars, row.exists, vec # 0 PROVE vec' # 0
  <2>1. ASSUME NEW t \in Tasks, Call(t) \/ Advance(t) PROVE vec' # 0
    <3>1. ~At(t, "delVec") /\ ~At(t, "purgeVec")
      BY <1>1, Known DEF TaskFair, At
    <3>2. At(t, "upsert") => task[t].snap.content # 0
      BY <1>1, Known DEF TaskFair, At
    <3>3. CASE Call(t)
      BY <1>1, <3>3 DEF Call, AddMemory, Recall, EditRead, Decay, DeleteMemory, ClearRead
    <3>4. CASE Advance(t)
      <4>1. CASE Upsert(t)
        BY <1>1, <3>2, <4>1 DEF Upsert
      <4>2. CASE AddVector(t)
        BY <1>1, <4>2 DEF AddVector
      <4>3. ~DelVec(t) /\ ~PurgeVec(t)
        BY <3>1 DEF DelVec, PurgeVec
      <4> QED
        BY <1>1, <3>4, <4>1, <4>2, <4>3
           DEF Advance, AddDoc, LoadRanked, TryBoost, EditWrite, RefreshRead, Embed,
               RefreshLatest, DropDoc, PutDoc, DecayRead, DecayWrite, DelDoc, ClearRows
    <3> QED
      BY <2>1, <3>3, <3>4
  <2> QED
    BY <1>1, <2>1 DEF Next, Tick, Crash, vars
<1>2. IInv /\ [Next]_vars => [row.exists /\ vec # 0 => vec' # 0]_vars
  BY <1>1
<1> QED
  BY <1>2, Invariant, PTL DEF Spec, FindableWhileAlive

-----------------------------------------------------------------------------
\* The boost time of the row is the last boost granted, unless a whole-row
\* update put an older one back.
BoostShape ==
    /\ row.stamp = 0 => lastGrant = 0
    /\ row.exists /\ ~rewound => row.boosted = lastGrant

\* Every step keeps the boost time of the row at the last boost granted.
LEMMA BoostShapeStep ==
  ASSUME IInv, BoostShape, [Next]_vars
  PROVE  BoostShape'
<1>0. row \in Row /\ row.stamp \in Nat /\ NoRow \in Row
  BY NoRowType DEF IInv, TypeOK, Row
<1>1. CASE UNCHANGED <<row, history>>
  BY <1>1 DEF BoostShape
<1>2. ASSUME NEW t \in Tasks, AddMemory(t) PROVE BoostShape'
  BY <1>0, <1>2 DEF AddMemory, BoostShape, IInv, TypeOK
<1>3. ASSUME NEW t \in Tasks, TryBoost(t) PROVE BoostShape'
  <2>1. CASE MayBoost(task[t].time)
    <3>1. row'.boosted = task[t].time /\ row'.stamp = row.stamp /\ lastGrant' = task[t].time
      BY <1>0, <1>3, <2>1 DEF TryBoost, Row
    <3>2. row.stamp # 0
      BY <2>1 DEF MayBoost, IInv, RowFair
    <3> QED
      BY <3>1, <3>2 DEF BoostShape
  <2>2. CASE ~MayBoost(task[t].time)
    BY <1>1, <1>3, <2>2 DEF TryBoost
  <2> QED
    BY <2>1, <2>2
<1>4. ASSUME DeleteRow, UNCHANGED <<history>> PROVE BoostShape'
  <2>1. row'.stamp = row.stamp
    BY <1>0, <1>4 DEF DeleteRow, Row
  <2>2. ~row'.exists
    BY <1>0, <1>4, NoRowType DEF DeleteRow, Row
  <2> QED
    BY <1>4, <2>1, <2>2 DEF BoostShape
<1>5. ASSUME NEW r \in Row, r.stamp = row.stamp, UpdateRow(r), UNCHANGED lastGrant PROVE BoostShape'
  <2>1. CASE row.exists
    <3>1. row' = r
      BY <1>5, <2>1, Zenon DEF UpdateRow
    <3>2. ~rewound' => ~rewound /\ r.boosted = row.boosted
      BY <1>5, <2>1, Zenon DEF UpdateRow
    <3>3. ~rewound' => row'.boosted = lastGrant'
      BY <1>5, <2>1, <3>1, <3>2 DEF BoostShape
    <3>4. row'.stamp = 0 => lastGrant' = 0
      BY <1>5, <3>1 DEF BoostShape
    <3> QED
      BY <3>3, <3>4 DEF BoostShape
  <2>2. CASE ~row.exists
    <3>1. UNCHANGED <<row, rewound>>
      BY <1>5, <2>2, Zenon DEF UpdateRow
    <3> QED
      BY <1>1, <1>5, <3>1
  <2> QED
    BY <2>1, <2>2
<1>6. ASSUME NEW t \in Tasks, EditWrite(t) PROVE BoostShape'
  <2>1. task[t].snap \in Row /\ task[t].snap.stamp = row.stamp
    BY <1>6, Known DEF EditWrite, At, TaskFair
  <2> QED
    BY <1>5, <1>6, <2>1 DEF EditWrite
<1>7. ASSUME NEW t \in Tasks, DecayWrite(t) PROVE BoostShape'
  <2> DEFINE r == task[t].snap
  <2>1. /\ r \in Row /\ r.stamp = row.stamp /\ r.exists /\ RowFair(r, now)
        /\ task[t].time \in Nat /\ task[t].time > r.decayed
    BY <1>7, Known DEF DecayWrite, At, TaskFair
  <2>2. CASE Remaining(r, task[t].time) < Threshold
    BY <1>4, <1>7, <2>2 DEF DecayWrite
  <2>3. CASE ~(Remaining(r, task[t].time) < Threshold)
    <3> DEFINE left == Remaining(r, task[t].time)
               charge == r.charged + (task[t].time - r.decayed)
    <3>1. left \in 0..Top /\ charge \in Nat
      BY <2>1, <2>3, LevelsAssumption DEF Remaining, Row
    <3>2. Decayed(r, task[t].time) =
            [r EXCEPT !.coeff = left, !.decayed = task[t].time, !.charged = charge]
      BY DEF Decayed
    <3> HIDE DEF left, charge
    <3>3. Decayed(r, task[t].time) \in Row /\ Decayed(r, task[t].time).stamp = row.stamp
      BY <2>1, <3>1, <3>2 DEF Row
    <3>4. UpdateRow(Decayed(r, task[t].time)) /\ UNCHANGED lastGrant
      BY <1>7, <2>3 DEF DecayWrite
    <3> QED
      BY <1>5, <3>3, <3>4
  <2> QED
    BY <2>2, <2>3
<1>8. ASSUME NEW t \in Tasks, DeleteMemory(t) \/ ClearRows(t) PROVE BoostShape'
  BY <1>4, <1>8 DEF DeleteMemory, ClearRows
<1> QED
  BY <1>1, <1>2, <1>3, <1>6, <1>7, <1>8
     DEF Next, Call, Advance, Tick, Crash, vars, Recall, EditRead, Decay, ClearRead,
         AddVector, AddDoc, LoadRanked, RefreshRead, Embed, RefreshLatest, Upsert,
         DropDoc, PutDoc, PurgeVec, DecayRead, DelVec, DelDoc

\* Two boosts of a memory are a cooldown apart unless a whole-row update put
\* an older boost time back: the update itself tests the time of the row.
THEOREM BoostsAreSpaced == Spec => BoostsSpaced
<1>1. Init => BoostShape
  BY NoRowType DEF Init, BoostShape
<1>2. ASSUME IInv, BoostShape, [Next]_vars, lastGrant # lastGrant', lastGrant # 0, ~rewound
      PROVE  lastGrant' >= lastGrant + Cooldown
  <2>1. PICK t \in Tasks : TryBoost(t) /\ MayBoost(task[t].time) /\ lastGrant' = task[t].time
    BY <1>2 DEF Next, Call, Advance, Tick, Crash, vars, AddMemory, Recall, EditRead, Decay,
       ClearRead, DeleteMemory, AddVector, AddDoc, LoadRanked, RefreshRead, Embed, EditWrite,
       RefreshLatest, Upsert, DropDoc, PutDoc, PurgeVec, DecayRead, DecayWrite, DelVec,
       DelDoc, ClearRows, TryBoost
  <2>2. row.boosted = lastGrant
    BY <1>2, <2>1 DEF MayBoost, BoostShape
  <2>3. row.boosted <= task[t].time - Cooldown
    BY <1>2, <2>1, <2>2 DEF MayBoost
  <2>4. lastGrant \in Nat /\ task[t].time \in Nat /\ Cooldown \in Nat
    BY <1>2, Known, LevelsAssumption
  <2> QED
    BY <2>1, <2>2, <2>3, <2>4
<1>3. IInv /\ BoostShape /\ [Next]_vars
      => [lastGrant # lastGrant' /\ lastGrant # 0 /\ ~rewound
          => lastGrant' >= lastGrant + Cooldown]_vars
  BY <1>2
<1>4. IInv /\ BoostShape /\ [Next]_vars => BoostShape'
  BY BoostShapeStep
<1> QED
  BY <1>1, <1>3, <1>4, Invariant, PTL DEF Spec, BoostsSpaced
=============================================================================
