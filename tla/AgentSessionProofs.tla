------------------------- MODULE AgentSessionProofs -------------------------
(***************************************************************************)
(* Theorems about AgentSession: type correctness, the effect of a stop     *)
(* request, the edits that are owed, and the budget of graph nodes.  The   *)
(* first three hold for all constants; the last one for models whose       *)
(* answers call at most 7 tools of each kind.                              *)
(***************************************************************************)
EXTENDS AgentSession, TLAPS

USE DEF graphVars, memoryVars, outsideVars, stopVars, historyVars

\* The recursion limit leaves ten nodes per step and ten more.
LEMMA LimitType == RecursionLimit \in Nat /\ RecursionLimit >= 10 * MaxSteps + 10
  BY SessionAssumption DEF RecursionLimit

\* The two fixed batches of calls are batches.
LEMMA ToolsType == NoTools \in BatchType /\ LogoutOnly \in BatchType
  BY DEF NoTools, LogoutOnly, BatchType

\* What the graph makes of an answer of the model is a batch.
LEMMA PlannedType ==
  ASSUME NEW r \in Answers
  PROVE  Planned(r) \in BatchType
<1>1. Normalized(r) \in BatchType
  <2>1. r.edits \in Nat /\ r.views \in Nat /\ r.acts \in Nat /\ r.logout \in BOOLEAN
    BY SessionAssumption DEF Answers
  <2>2. (r.edits > 0) \in BOOLEAN
    OBVIOUS
  <2>3. (r.edits = 0 /\ r.views > 0) \in BOOLEAN
    OBVIOUS
  <2>4. (r.logout /\ r.edits = 0) \in BOOLEAN
    OBVIOUS
  <2>5. QED
    BY <2>1, <2>2, <2>3, <2>4, Zenon DEF Normalized, BatchType
<1>2. QED
  BY <1>1, ToolsType DEF Planned

\* An edit of the short-term memory is kept by the plan, without a logout.
LEMMA PlannedEdit ==
  ASSUME NEW r \in Answers, r.edits > 0
  PROVE  Planned(r).edit /\ ~Planned(r).logout
<1>1. r.edits \in Nat
  BY SessionAssumption DEF Answers
<1>2. r.edits # 0
  BY <1>1
<1>3. Normalized(r).edit /\ ~Normalized(r).logout
  BY <1>2 DEF Normalized
<1>4. Normalized(r) # NoTools
  BY <1>3 DEF NoTools
<1>5. QED
  BY <1>3, <1>4 DEF Planned

\* Removing the call that was executed leaves a batch.
LEMMA WithoutType ==
  ASSUME batch \in BatchType, NEW tool \in NextTools
  PROVE  Without(tool) \in BatchType
<1>1. CASE tool = "edit"
  BY <1>1 DEF Without, BatchType
<1>2. CASE tool = "view"
  BY <1>2 DEF Without, BatchType
<1>3. CASE tool = "act" /\ batch.acts > 0
  BY <1>3 DEF Without, BatchType
<1>4. QED
  BY <1>1, <1>2, <1>3 DEF NextTools

\* The router only names places of the graph.
LEMMA RouteType ==
  ASSUME stop \in BOOLEAN, NEW e, NEW b, NEW n \in Nat
  PROVE  /\ Route(e, b, n) \in {"summarize", "tool", "recall"}
         /\ Route(e, b, n) = "tool" => ~stop /\ e = "none" /\ b # NoTools
         /\ Route(e, b, n) = "recall" => ~stop /\ e = "none" /\ b = NoTools /\ n < MaxSteps
  BY SessionAssumption DEF Route

\* Reading the stored memory again gives a memory.
LEMMA RefreshedType ==
  ASSUME NEW snapshot \in Memory, view \in Memory
  PROVE  Refreshed(snapshot) \in Memory
  BY DEF Refreshed

\* The memory of a new agent is a memory.
LEMMA EmptyMemoryType == EmptyMemory \in Memory
  BY DEF EmptyMemory, Memory

\* Every outcome of a read is a memory.
LEMMA ReadMemoryType ==
  ASSUME stm \in Memory, faults \in Nat, NEW snapshot, ReadMemory(snapshot)
  PROVE  snapshot \in Memory /\ faults' \in Nat
  BY EmptyMemoryType, SessionAssumption DEF ReadMemory

\* An effect after the stop request counts as late, and only then.
LEMMA LateType ==
  ASSUME late \in Nat, stop \in BOOLEAN
  PROVE  Late \in Nat /\ (stop => Late = late + 1) /\ (~stop => Late = late)
  BY DEF Late

-----------------------------------------------------------------------------
(* Type correctness.  The number of steps stays within its bound because a  *)
(* step is left whenever a batch is decided or run.                        *)

Typed == TypeOK /\ StepsLeft /\ WritesLeft

\* The initial states are well typed.
LEMMA TypedInit == Init => Typed
<1> SUFFICES ASSUME Init
             PROVE  Typed
  OBVIOUS
<1>1. acted \in BOOLEAN /\ stop \in BOOLEAN /\ owed \in BOOLEAN
  BY Zenon DEF Init
<1>2. view \in Memory /\ stm \in Memory /\ batch \in BatchType
  BY EmptyMemoryType, ToolsType DEF Init
<1>3. QED
  BY <1>1, <1>2, LimitType, SessionAssumption DEF Init, Typed, TypeOK, StepsLeft, WritesLeft, Calls, Nodes

\* Every step keeps the types.
LEMMA TypedStep == Typed /\ [Next]_vars => Typed'
<1> SUFFICES ASSUME Typed, [Next]_vars
             PROVE  Typed'
  OBVIOUS
<1> USE SessionAssumption, LimitType DEF Typed
<1>1. CASE LogIn
  <2>1. view' \in Memory /\ faults' \in Nat
    BY <1>1, ReadMemoryType DEF TypeOK, LogIn
  <2> QED
    BY <1>1, <2>1 DEF TypeOK, StepsLeft, WritesLeft, Nodes, Calls, LogIn
<1>2. CASE BeginSession
  <2>1. owed' \in BOOLEAN
    BY <1>2, Zenon DEF BeginSession
  <2> QED
    BY <1>2, <2>1 DEF TypeOK, StepsLeft, WritesLeft, Nodes, Calls, BeginSession
<1>3. CASE ConfigFails
  BY <1>3 DEF TypeOK, StepsLeft, WritesLeft, Nodes, Calls, ConfigFails
<1>4. CASE StartNode
  <2>1. batch' \in BatchType
    BY <1>4, ToolsType DEF StartNode
  <2>2. acted' \in BOOLEAN
    BY <1>4, Zenon DEF StartNode
  <2> QED
    BY <1>4, <2>1, <2>2 DEF TypeOK, StepsLeft, WritesLeft, Nodes, Calls, StartNode, Enter
<1>5. CASE RecallMemory
  BY <1>5 DEF TypeOK, StepsLeft, WritesLeft, Nodes, Calls, RecallMemory, Enter
<1>6. CASE DecideToStop
  <2>1. batch' \in BatchType
    BY <1>6, ToolsType DEF DecideToStop
  <2> QED
    BY <1>6, <2>1 DEF TypeOK, StepsLeft, WritesLeft, Nodes, Calls, DecideToStop, Enter
<1>7. CASE Decide
  <2>1. view' \in Memory /\ faults' \in Nat
    BY <1>7, ReadMemoryType, RefreshedType DEF TypeOK, Decide
  <2> QED
    BY <1>7, <2>1 DEF TypeOK, StepsLeft, WritesLeft, Nodes, Calls, Decide, Enter
<1>8. ASSUME NEW r \in Answers, Answer(r) PROVE Typed'
  <2>1. batch' \in BatchType
    BY <1>8, PlannedType DEF Answer
  <2>2. late' \in Nat
    BY <1>8, LateType DEF TypeOK, Answer
  <2>3. owed' \in BOOLEAN
    <3>1. (r.edits > 0) \in BOOLEAN
      OBVIOUS
    <3> QED
      BY <1>8, <3>1, Zenon DEF Answer
  <2> QED
    BY <1>8, <2>1, <2>2, <2>3 DEF TypeOK, StepsLeft, WritesLeft, Nodes, Calls, Answer
<1>9. CASE AnswerFails
  <2>1. batch' \in BatchType
    BY <1>9, ToolsType DEF AnswerFails
  <2>2. late' \in Nat
    BY <1>9, LateType DEF TypeOK, AnswerFails
  <2>3. owed' \in BOOLEAN
    BY <1>9, Zenon DEF AnswerFails
  <2> QED
    BY <1>9, <2>1, <2>2, <2>3 DEF TypeOK, StepsLeft, WritesLeft, Nodes, Calls, AnswerFails
<1>10. CASE SkipTools
  <2>1. batch' \in BatchType
    BY <1>10, ToolsType DEF SkipTools
  <2>2. steps' \in 0..MaxSteps
    BY <1>10 DEF TypeOK, StepsLeft, SkipTools, Enter
  <2>3. exit' \in {"none", "user", "error"}
    BY <1>10 DEF TypeOK, SkipTools
  <2>4. pc' \in {"summarize", "tool", "recall"} /\ (pc' \in {"tool", "recall"} => steps' < MaxSteps)
    BY <1>10, <2>2, RouteType DEF TypeOK, SkipTools
  <2> QED
    BY <1>10, <2>1, <2>2, <2>3, <2>4 DEF TypeOK, StepsLeft, WritesLeft, Nodes, Calls, SkipTools, Enter
<1>11. ASSUME NEW t \in {"edit", "view", "act"}, PickTool(t) PROVE Typed'
  <2>1. batch' \in BatchType
    BY <1>11, WithoutType DEF TypeOK, PickTool
  <2>2. owed' \in BOOLEAN
    <3>1. owed' = FALSE \/ owed' = owed
      BY <1>11 DEF PickTool
    <3> QED
      BY <3>1, Zenon DEF TypeOK
  <2>3. /\ pc = "tool" /\ pc' = "invoke" /\ nodes' \in 0..RecursionLimit
        /\ running' \in {"edit", "view", "act"}
        /\ UNCHANGED <<steps, exit, acted, writes, memoryVars, outsideVars, sessions,
                       faults, carried, late, stopVars>>
    BY <1>11 DEF TypeOK, PickTool, Enter
  <2> QED
    BY <2>1, <2>2, <2>3 DEF TypeOK, StepsLeft, WritesLeft, Nodes, Calls
<1>12. CASE ToolReturns
  <2>1. steps' \in 0..MaxSteps
    BY <1>12 DEF TypeOK, StepsLeft, ToolReturns, EndTool
  <2>2. pc' \in {"summarize", "tool", "recall"} /\ (pc' = "recall" => steps' < MaxSteps) /\ (pc' = "tool" => batch # NoTools)
    BY <1>12, <2>1, RouteType DEF TypeOK, ToolReturns, EndTool
  <2>3. late' \in Nat
    BY <1>12, LateType DEF TypeOK, ToolReturns
  <2> QED
    BY <1>12, <2>1, <2>2, <2>3 DEF TypeOK, StepsLeft, WritesLeft, Nodes, Calls, ToolReturns, EndTool
<1>13. CASE EditMemory
  <2>1. stm' \in Memory /\ ownRev' \in Nat
    BY <1>13 DEF TypeOK, Memory, EditMemory
  <2>2. late' \in Nat
    BY <1>13, LateType DEF TypeOK, EditMemory
  <2> QED
    BY <1>13, <2>1, <2>2 DEF TypeOK, StepsLeft, WritesLeft, Nodes, Calls, EditMemory
<1>14. CASE EditFails
  <2>1. steps' \in 0..MaxSteps
    BY <1>14 DEF TypeOK, StepsLeft, EditFails, EndTool
  <2>2. pc' \in {"summarize", "tool", "recall"} /\ (pc' = "recall" => steps' < MaxSteps) /\ (pc' = "tool" => batch # NoTools)
    BY <1>14, <2>1, RouteType DEF TypeOK, EditFails, EndTool
  <2>3. late' \in Nat
    BY <1>14, LateType DEF TypeOK, EditFails
  <2> QED
    BY <1>14, <2>1, <2>2, <2>3 DEF TypeOK, StepsLeft, WritesLeft, Nodes, Calls, EditFails, EndTool
<1>15. CASE RefreshAfterEdit
  <2>1. steps' \in 0..MaxSteps
    BY <1>15 DEF TypeOK, StepsLeft, RefreshAfterEdit, EndTool
  <2>2. pc' \in {"summarize", "tool", "recall"} /\ (pc' = "recall" => steps' < MaxSteps) /\ (pc' = "tool" => batch # NoTools)
    BY <1>15, <2>1, RouteType DEF TypeOK, RefreshAfterEdit, EndTool
  <2>3. view' \in Memory /\ faults' \in Nat
    BY <1>15, ReadMemoryType, RefreshedType DEF TypeOK, RefreshAfterEdit
  <2> QED
    BY <1>15, <2>1, <2>2, <2>3 DEF TypeOK, StepsLeft, WritesLeft, Nodes, Calls, RefreshAfterEdit, EndTool
<1>16. CASE Summarize
  BY <1>16 DEF TypeOK, StepsLeft, WritesLeft, Nodes, Calls, Summarize, Enter
<1>17. ASSUME NEW k \in MemoryCounts, Reflect(k) PROVE Typed'
  <2>1. late' \in Nat
    BY <1>17, LateType DEF TypeOK, Reflect
  <2>2. k \in Nat
    OBVIOUS
  <2> QED
    BY <1>17, <2>1, <2>2 DEF TypeOK, StepsLeft, WritesLeft, Nodes, Calls, Reflect
<1>17a. CASE ReflectFails
  <2>1. late' \in Nat
    BY <1>17a, LateType DEF TypeOK, ReflectFails
  <2> QED
    BY <1>17a, <2>1 DEF TypeOK, StepsLeft, WritesLeft, Nodes, Calls, ReflectFails
<1>17b. CASE WriteMemory
  <2>1. late' \in Nat
    BY <1>17b, LateType DEF TypeOK, WriteMemory
  <2>2. writes' \in Nat /\ (pc' = "remember" => writes' > 0 /\ writes' <= asked)
    BY <1>17b DEF TypeOK, WritesLeft, WriteMemory
  <2> QED
    BY <1>17b, <2>1, <2>2 DEF TypeOK, StepsLeft, WritesLeft, Nodes, Calls, WriteMemory
<1>18. CASE EndNode
  BY <1>18 DEF TypeOK, StepsLeft, WritesLeft, Nodes, Calls, EndNode, Enter
<1>19. CASE RecursionError
  BY <1>19 DEF TypeOK, StepsLeft, WritesLeft, Nodes, Calls, RecursionError
<1>20. CASE CatchRecursionError
  BY <1>20 DEF TypeOK, StepsLeft, WritesLeft, Nodes, Calls, CatchRecursionError
<1>21. CASE RequestStop
  BY <1>21 DEF TypeOK, StepsLeft, WritesLeft, Nodes, Calls, RequestStop
<1>22. CASE EnqueueInjection
  BY <1>22 DEF TypeOK, StepsLeft, WritesLeft, Nodes, Calls, EnqueueInjection
<1>23. CASE AdminEditsMemory
  <2>1. stm' \in Memory
    BY <1>23 DEF TypeOK, Memory, AdminEditsMemory
  <2> QED
    BY <1>23, <2>1 DEF TypeOK, StepsLeft, WritesLeft, Nodes, Calls, AdminEditsMemory
<1>24. CASE UNCHANGED vars
  BY <1>24 DEF TypeOK, StepsLeft, WritesLeft, Nodes, Calls, vars
<1> QED
  BY <1>1, <1>2, <1>3, <1>4, <1>5, <1>6, <1>7, <1>8, <1>9, <1>10, <1>11, <1>12, <1>13, <1>14, <1>15, <1>16, <1>17, <1>18, <1>19, <1>20, <1>21, <1>22, <1>23, <1>24, <1>17a, <1>17b
     DEF Next, SessionStep, Outside

\* The state has its type, no batch is decided or run without a step left, and
\* the summary writes no memory its answer did not ask for.
THEOREM TypeCorrect == Spec => [](TypeOK /\ StepsLeft /\ WritesLeft)
  BY TypedInit, TypedStep, PTL DEF Spec, Typed

-----------------------------------------------------------------------------
(* After a stop request only what was under way ends.                      *)

\* Every step keeps the shape of what may still arrive late.
LEMMA LateStep == Typed /\ LateShape /\ [Next]_vars => LateShape'
<1> SUFFICES ASSUME Typed, LateShape, [Next]_vars
             PROVE  LateShape'
  OBVIOUS
<1> USE SessionAssumption DEF LateShape, MayStillEnd
<1>1. CASE LogIn
  BY <1>1 DEF Typed, TypeOK, LogIn
<1>2. CASE BeginSession
  BY <1>2 DEF Typed, TypeOK, BeginSession
<1>3. CASE ConfigFails
  BY <1>3 DEF Typed, TypeOK, ConfigFails
<1>4. CASE StartNode
  BY <1>4 DEF Typed, TypeOK, StartNode, Enter
<1>5. CASE RecallMemory
  BY <1>5 DEF Typed, TypeOK, RecallMemory, Enter
<1>6. CASE DecideToStop
  BY <1>6 DEF Typed, TypeOK, DecideToStop, Enter
<1>7. CASE Decide
  BY <1>7 DEF Typed, TypeOK, Decide, Enter
<1>8. ASSUME NEW r \in Answers, Answer(r) PROVE LateShape'
  BY <1>8, LateType DEF Typed, TypeOK, Answer
<1>9. CASE AnswerFails
  BY <1>9, LateType DEF Typed, TypeOK, AnswerFails
<1>10. CASE SkipTools
  BY <1>10, RouteType DEF Typed, TypeOK, SkipTools, Enter
<1>11. ASSUME NEW t \in {"edit", "view", "act"}, PickTool(t) PROVE LateShape'
  BY <1>11 DEF Typed, TypeOK, PickTool, Enter
<1>12. CASE ToolReturns
  BY <1>12, LateType, RouteType DEF Typed, TypeOK, ToolReturns, EndTool
<1>13. CASE EditMemory
  BY <1>13, LateType DEF Typed, TypeOK, EditMemory
<1>14. CASE EditFails
  BY <1>14, LateType, RouteType DEF Typed, TypeOK, EditFails, EndTool
<1>15. CASE RefreshAfterEdit
  BY <1>15, RouteType DEF Typed, TypeOK, RefreshAfterEdit, EndTool
<1>16. CASE Summarize
  BY <1>16 DEF Typed, TypeOK, Summarize, Enter
<1>17. ASSUME NEW k \in MemoryCounts, Reflect(k) PROVE LateShape'
  BY <1>17, LateType DEF Typed, TypeOK, WritesLeft, Reflect
<1>17a. CASE ReflectFails
  BY <1>17a, LateType DEF Typed, TypeOK, WritesLeft, ReflectFails
<1>17b. CASE WriteMemory
  BY <1>17b, LateType DEF Typed, TypeOK, WritesLeft, WriteMemory
<1>18. CASE EndNode
  BY <1>18 DEF Typed, TypeOK, EndNode, Enter
<1>19. CASE RecursionError
  BY <1>19 DEF Typed, TypeOK, RecursionError
<1>20. CASE CatchRecursionError
  BY <1>20 DEF Typed, TypeOK, CatchRecursionError
<1>21. CASE RequestStop
  BY <1>21 DEF Typed, TypeOK, WritesLeft, RequestStop
<1>22. CASE EnqueueInjection
  BY <1>22 DEF Typed, TypeOK, EnqueueInjection
<1>23. CASE AdminEditsMemory
  BY <1>23 DEF Typed, TypeOK, AdminEditsMemory
<1>24. CASE UNCHANGED vars
  BY <1>24 DEF vars
<1> QED
  BY <1>1, <1>2, <1>3, <1>4, <1>5, <1>6, <1>7, <1>8, <1>9, <1>10, <1>11, <1>12, <1>13, <1>14, <1>15, <1>16, <1>17, <1>18, <1>19, <1>20, <1>21, <1>22, <1>23, <1>24, <1>17a, <1>17b
     DEF Next, SessionStep, Outside

\* After a stop request only the model call or tool that was under way ends, and
\* the memories that the summary's answer asked for if the request met it.
THEOREM StopIsPrompt == Spec => []OnlyPendingWorkEnds
<1>1. Init => LateShape
  BY DEF Init, LateShape, MayStillEnd
<1>2. LateShape => OnlyPendingWorkEnds
  BY DEF LateShape, OnlyPendingWorkEnds
<1>3. QED
  BY <1>1, <1>2, TypeCorrect, LateStep, PTL DEF Spec, Typed

-----------------------------------------------------------------------------
(* Edits of the short-term memory are tried.                               *)

\* Every step keeps the edit that is owed its effect.
LEMMA OwedStep == Typed /\ OwedShape /\ [Next]_vars => OwedShape'
<1> SUFFICES ASSUME Typed, OwedShape, [Next]_vars
             PROVE  OwedShape'
  OBVIOUS
<1> USE SessionAssumption DEF OwedShape
<1>1. CASE LogIn
  BY <1>1 DEF Typed, TypeOK, LogIn
<1>2. CASE BeginSession
  BY <1>2 DEF Typed, TypeOK, BeginSession
<1>3. CASE ConfigFails
  BY <1>3 DEF Typed, TypeOK, ConfigFails
<1>4. CASE StartNode
  BY <1>4 DEF Typed, TypeOK, StartNode, Enter
<1>5. CASE RecallMemory
  BY <1>5 DEF Typed, TypeOK, RecallMemory, Enter
<1>6. CASE DecideToStop
  BY <1>6 DEF Typed, TypeOK, DecideToStop, Enter
<1>7. CASE Decide
  BY <1>7 DEF Typed, TypeOK, Decide, Enter
<1>8. ASSUME NEW r \in Answers, Answer(r) PROVE OwedShape'
  <2>1. pc' = "tool" /\ batch' = Planned(r) /\ (owed' => r.edits > 0)
    BY <1>8 DEF Answer
  <2> QED
    BY <2>1, PlannedEdit
<1>9. CASE AnswerFails
  BY <1>9 DEF Typed, TypeOK, AnswerFails
<1>10. CASE SkipTools
  BY <1>10 DEF Typed, TypeOK, SkipTools, Enter, NoTools
<1>11. ASSUME NEW t \in {"edit", "view", "act"}, PickTool(t) PROVE OwedShape'
  <2>1. owed /\ ~stop => batch.edit
    BY <1>11 DEF PickTool, Enter
  <2>2. batch.edit => t = "edit"
    BY <1>11 DEF PickTool, NextTools
  <2>3. t = "edit" => ~owed'
    BY <1>11, Zenon DEF PickTool
  <2> QED
    BY <1>11, <2>1, <2>2, <2>3 DEF PickTool
<1>12. CASE ToolReturns
  BY <1>12 DEF Typed, TypeOK, ToolReturns, EndTool
<1>13. CASE EditMemory
  BY <1>13 DEF Typed, TypeOK, EditMemory
<1>14. CASE EditFails
  BY <1>14 DEF Typed, TypeOK, EditFails, EndTool
<1>15. CASE RefreshAfterEdit
  BY <1>15 DEF Typed, TypeOK, RefreshAfterEdit, EndTool
<1>16. CASE Summarize
  BY <1>16 DEF Typed, TypeOK, Summarize, Enter
<1>17. ASSUME NEW k \in MemoryCounts, Reflect(k) PROVE OwedShape'
  BY <1>17 DEF Typed, TypeOK, Reflect
<1>17a. CASE ReflectFails
  BY <1>17a DEF Typed, TypeOK, ReflectFails
<1>17b. CASE WriteMemory
  BY <1>17b DEF Typed, TypeOK, WriteMemory
<1>18. CASE EndNode
  BY <1>18 DEF Typed, TypeOK, EndNode, Enter
<1>19. CASE RecursionError
  BY <1>19 DEF Typed, TypeOK, RecursionError
<1>20. CASE CatchRecursionError
  BY <1>20 DEF Typed, TypeOK, CatchRecursionError
<1>21. CASE RequestStop
  BY <1>21 DEF Typed, TypeOK, RequestStop
<1>22. CASE EnqueueInjection
  BY <1>22 DEF Typed, TypeOK, EnqueueInjection
<1>23. CASE AdminEditsMemory
  BY <1>23 DEF Typed, TypeOK, AdminEditsMemory
<1>24. CASE UNCHANGED vars
  BY <1>24 DEF vars
<1> QED
  BY <1>1, <1>2, <1>3, <1>4, <1>5, <1>6, <1>7, <1>8, <1>9, <1>10, <1>11, <1>12, <1>13, <1>14, <1>15, <1>16, <1>17, <1>18, <1>19, <1>20, <1>21, <1>22, <1>23, <1>24, <1>17a, <1>17b
     DEF Next, SessionStep, Outside

\* An edit the model asked for is tried before the session ends.
THEOREM EditsAreTried == Spec => []EditNotPreempted
<1>1. Init => OwedShape
  BY DEF Init, OwedShape
<1>2. Typed /\ OwedShape => EditNotPreempted
  BY DEF OwedShape, EditNotPreempted
<1>3. QED
  BY <1>1, <1>2, TypeCorrect, OwedStep, PTL DEF Spec, Typed

-----------------------------------------------------------------------------
(* A decision sees the session's own edits.                                *)

\* A refreshed view is as new as the old view and as the memory just read.
LEMMA RefreshedNewer ==
  ASSUME NEW snapshot \in Memory, view \in Memory
  PROVE  Refreshed(snapshot).rev >= snapshot.rev /\ Refreshed(snapshot).rev >= view.rev
  BY DEF Refreshed, Memory

\* Every step keeps what the prompt has seen.
LEMMA SeenStep == Typed /\ SeenShape /\ [Next]_vars => SeenShape'
<1> SUFFICES ASSUME Typed, SeenShape, [Next]_vars
             PROVE  SeenShape'
  OBVIOUS
<1> USE SessionAssumption DEF SeenShape
<1>1. CASE LogIn
  BY <1>1, ReadMemoryType, RefreshedNewer DEF Typed, TypeOK, ReadMemory, Memory, LogIn
<1>2. CASE BeginSession
  BY <1>2 DEF Typed, TypeOK, Memory, BeginSession
<1>3. CASE ConfigFails
  BY <1>3 DEF Typed, TypeOK, ConfigFails
<1>4. CASE StartNode
  BY <1>4 DEF Typed, TypeOK, StartNode, Enter
<1>5. CASE RecallMemory
  BY <1>5 DEF Typed, TypeOK, RecallMemory, Enter
<1>6. CASE DecideToStop
  BY <1>6 DEF Typed, TypeOK, DecideToStop, Enter
<1>7. CASE Decide
  <2> PICK snapshot \in {stm, EmptyMemory} : ReadMemory(snapshot) /\ view' = Refreshed(snapshot)
    BY <1>7 DEF Decide
  <2>1. Refreshed(snapshot).rev >= view.rev /\ Refreshed(snapshot) \in Memory /\ faults' \in Nat
    BY ReadMemoryType, RefreshedNewer, RefreshedType DEF Typed, TypeOK
  <2>2. faults' = 0 => faults = 0
    BY DEF ReadMemory, Typed, TypeOK
  <2> QED
    BY <1>7, <2>1, <2>2 DEF Typed, TypeOK, Memory, Decide, Enter
<1>8. ASSUME NEW r \in Answers, Answer(r) PROVE SeenShape'
  BY <1>8 DEF Typed, TypeOK, Answer
<1>9. CASE AnswerFails
  BY <1>9 DEF Typed, TypeOK, AnswerFails
<1>10. CASE SkipTools
  BY <1>10 DEF Typed, TypeOK, SkipTools, Enter
<1>11. ASSUME NEW t \in {"edit", "view", "act"}, PickTool(t) PROVE SeenShape'
  BY <1>11 DEF Typed, TypeOK, PickTool, Enter
<1>12. CASE ToolReturns
  BY <1>12 DEF Typed, TypeOK, ToolReturns, EndTool
<1>13. CASE EditMemory
  BY <1>13 DEF Typed, TypeOK, Memory, EditMemory
<1>14. CASE EditFails
  BY <1>14 DEF Typed, TypeOK, EditFails, EndTool
<1>15. CASE RefreshAfterEdit
  <2> PICK snapshot \in {stm, EmptyMemory} : ReadMemory(snapshot) /\ view' = Refreshed(snapshot)
    BY <1>15 DEF RefreshAfterEdit
  <2>1. Refreshed(snapshot).rev >= snapshot.rev /\ Refreshed(snapshot) \in Memory
    BY ReadMemoryType, RefreshedNewer, RefreshedType DEF Typed, TypeOK
  <2>2. faults' = 0 => snapshot = stm
    BY DEF ReadMemory, Typed, TypeOK
  <2> QED
    BY <1>15, <2>1, <2>2 DEF Typed, TypeOK, Memory, RefreshAfterEdit
<1>16. CASE Summarize
  BY <1>16 DEF Typed, TypeOK, Summarize, Enter
<1>17. ASSUME NEW k \in MemoryCounts, Reflect(k) PROVE SeenShape'
  BY <1>17 DEF Typed, TypeOK, Reflect
<1>17a. CASE ReflectFails
  BY <1>17a DEF Typed, TypeOK, ReflectFails
<1>17b. CASE WriteMemory
  BY <1>17b DEF Typed, TypeOK, WriteMemory
<1>18. CASE EndNode
  BY <1>18 DEF Typed, TypeOK, EndNode, Enter
<1>19. CASE RecursionError
  BY <1>19 DEF Typed, TypeOK, Nodes, RecursionError
<1>20. CASE CatchRecursionError
  BY <1>20 DEF Typed, TypeOK, CatchRecursionError
<1>21. CASE RequestStop
  BY <1>21 DEF Typed, TypeOK, RequestStop
<1>22. CASE EnqueueInjection
  BY <1>22 DEF Typed, TypeOK, EnqueueInjection
<1>23. CASE AdminEditsMemory
  BY <1>23 DEF Typed, TypeOK, Memory, AdminEditsMemory
<1>24. CASE UNCHANGED vars
  BY <1>24 DEF vars
<1> QED
  BY <1>1, <1>2, <1>3, <1>4, <1>5, <1>6, <1>7, <1>8, <1>9, <1>10, <1>11, <1>12, <1>13, <1>14, <1>15, <1>16, <1>17, <1>18, <1>19, <1>20, <1>21, <1>22, <1>23, <1>24, <1>17a, <1>17b
     DEF Next, SessionStep, Outside

\* No prompt shows the model a memory older than the session's own last edit,
\* unless a read failed.
THEOREM OwnEditsAreSeen == Spec => []DecisionSeesOwnEdit
<1>1. Init => SeenShape
  BY DEF Init, SeenShape, EmptyMemory
<1>2. SeenShape => DecisionSeesOwnEdit
  BY DEF SeenShape, DecisionSeesOwnEdit
<1>3. QED
  BY <1>1, <1>2, TypeCorrect, SeenStep, PTL DEF Spec, Typed

-----------------------------------------------------------------------------
(* The budget of graph nodes, if no answer calls more than 7 tools of one   *)
(* kind: a step takes at most 10 nodes.                                     *)

\* A batch has a natural number of calls.
LEMMA SizeType ==
  ASSUME NEW b \in BatchType
  PROVE  Size(b) \in Nat
  BY DEF Size, BatchType

\* No tools, no calls; a logout counts for none.
LEMMA SizeEmpty == Size(NoTools) = 0 /\ Size(LogoutOnly) = 0
  BY DEF Size, NoTools, LogoutOnly

\* When the model asks for at most seven calls of a kind, a batch has at most
\* eight.
LEMMA SizePlanned ==
  ASSUME ToolCounts \subseteq 0..7, NEW r \in Answers
  PROVE  Size(Planned(r)) \in 0..8
<1>1. r.edits \in Nat /\ r.views \in Nat /\ r.acts \in 0..7
  BY SessionAssumption DEF Answers
<1>2. ~Normalized(r).edit \/ ~Normalized(r).view
  <2>1. CASE r.edits = 0
    <3>1. ~(r.edits > 0)
      BY <2>1
    <3> QED
      BY <3>1 DEF Normalized
  <2>2. CASE r.edits # 0
    BY <2>2 DEF Normalized
  <2> QED
    BY <2>1, <2>2
<1>3. Normalized(r).acts = r.acts
  BY DEF Normalized
<1>4. Size(Normalized(r)) \in 0..8
  BY <1>1, <1>2, <1>3 DEF Size
<1>5. QED
  BY <1>4, SizeEmpty DEF Planned

\* Each executed call shrinks the batch by one.
LEMMA SizeWithout ==
  ASSUME batch \in BatchType, NEW tool \in NextTools
  PROVE  Size(Without(tool)) = Size(batch) - 1
<1>1. CASE tool = "edit"
  BY <1>1 DEF NextTools, Without, Size, BatchType
<1>2. CASE tool = "view"
  BY <1>2 DEF NextTools, Without, Size, BatchType
<1>3. CASE tool = "act"
  BY <1>3 DEF NextTools, Without, Size, BatchType
<1>4. QED
  BY <1>1, <1>2, <1>3 DEF NextTools

\* Every step keeps the count of nodes under the budget of its step.
LEMMA NodeBudgetStep ==
  ASSUME ToolCounts \subseteq 0..7
  PROVE  Typed /\ NodeBudget /\ [Next]_vars => NodeBudget'
<1> SUFFICES ASSUME Typed, NodeBudget, [Next]_vars
             PROVE  NodeBudget'
  OBVIOUS
<1> USE SessionAssumption DEF NodeBudget
<1>1. CASE LogIn
  BY <1>1 DEF Typed, TypeOK, StepsLeft, LogIn
<1>2. CASE BeginSession
  BY <1>2 DEF Typed, TypeOK, StepsLeft, BeginSession
<1>3. CASE ConfigFails
  BY <1>3 DEF Typed, TypeOK, StepsLeft, ConfigFails
<1>4. CASE StartNode
  BY <1>4, SizeEmpty DEF Typed, TypeOK, StepsLeft, StartNode, Enter
<1>5. CASE RecallMemory
  BY <1>5 DEF Typed, TypeOK, StepsLeft, RecallMemory, Enter
<1>6. CASE DecideToStop
  BY <1>6, SizeEmpty DEF Typed, TypeOK, StepsLeft, DecideToStop, Enter
<1>7. CASE Decide
  BY <1>7 DEF Typed, TypeOK, StepsLeft, Decide, Enter
<1>8. ASSUME NEW r \in Answers, Answer(r) PROVE NodeBudget'
  BY <1>8, SizePlanned DEF Typed, TypeOK, StepsLeft, Answer
<1>9. CASE AnswerFails
  BY <1>9, SizeEmpty DEF Typed, TypeOK, StepsLeft, AnswerFails
<1>10. CASE SkipTools
  BY <1>10, RouteType, SizeType, SizeEmpty DEF Typed, TypeOK, StepsLeft, SkipTools, Enter
<1>11. ASSUME NEW t \in {"edit", "view", "act"}, PickTool(t) PROVE NodeBudget'
  <2>1. /\ pc = "tool" /\ pc' = "invoke" /\ nodes' = nodes + 1 /\ steps' = steps
        /\ t \in NextTools /\ batch' = Without(t)
    BY <1>11 DEF PickTool, Enter
  <2>2. Size(batch') = Size(batch) - 1 /\ Size(batch) \in Nat
    BY <2>1, SizeWithout, SizeType DEF Typed, TypeOK
  <2> QED
    BY <2>1, <2>2, LimitType DEF Typed, TypeOK
<1>12. CASE ToolReturns
  BY <1>12, RouteType, SizeType, SizeEmpty DEF Typed, TypeOK, StepsLeft, ToolReturns, EndTool
<1>13. CASE EditMemory
  BY <1>13 DEF Typed, TypeOK, StepsLeft, EditMemory
<1>14. CASE EditFails
  BY <1>14, RouteType, SizeType, SizeEmpty DEF Typed, TypeOK, StepsLeft, EditFails, EndTool
<1>15. CASE RefreshAfterEdit
  BY <1>15, RouteType, SizeType, SizeEmpty DEF Typed, TypeOK, StepsLeft, RefreshAfterEdit, EndTool
<1>16. CASE Summarize
  BY <1>16 DEF Typed, TypeOK, StepsLeft, Summarize, Enter
<1>17. ASSUME NEW k \in MemoryCounts, Reflect(k) PROVE NodeBudget'
  BY <1>17 DEF Typed, TypeOK, StepsLeft, Reflect
<1>17a. CASE ReflectFails
  BY <1>17a DEF Typed, TypeOK, StepsLeft, ReflectFails
<1>17b. CASE WriteMemory
  BY <1>17b DEF Typed, TypeOK, StepsLeft, WriteMemory
<1>18. CASE EndNode
  BY <1>18 DEF Typed, TypeOK, StepsLeft, EndNode, Enter
<1>19. CASE RecursionError
  BY <1>19, SizeType, LimitType DEF Typed, TypeOK, StepsLeft, RecursionError, Nodes
<1>20. CASE CatchRecursionError
  BY <1>20 DEF Typed, TypeOK, StepsLeft, CatchRecursionError
<1>21. CASE RequestStop
  BY <1>21 DEF Typed, TypeOK, StepsLeft, RequestStop
<1>22. CASE EnqueueInjection
  BY <1>22 DEF Typed, TypeOK, StepsLeft, EnqueueInjection
<1>23. CASE AdminEditsMemory
  BY <1>23 DEF Typed, TypeOK, StepsLeft, AdminEditsMemory
<1>24. CASE UNCHANGED vars
  BY <1>24 DEF vars, Size
<1> QED
  BY <1>1, <1>2, <1>3, <1>4, <1>5, <1>6, <1>7, <1>8, <1>9, <1>10, <1>11, <1>12, <1>13, <1>14, <1>15, <1>16, <1>17, <1>18, <1>19, <1>20, <1>21, <1>22, <1>23, <1>24, <1>17a, <1>17b
     DEF Next, SessionStep, Outside

\* With at most 7 tools of each kind per answer the graph never runs into the
\* recursion limit, however many steps the session has.
THEOREM BudgetIsEnough ==
  ASSUME ToolCounts \subseteq 0..7
  PROVE  Spec => []BudgetSuffices
<1>1. Init => NodeBudget
  BY DEF Init, NodeBudget
<1>2. NodeBudget => BudgetSuffices
  BY DEF NodeBudget, BudgetSuffices
<1>3. QED
  BY <1>1, <1>2, TypeCorrect, NodeBudgetStep, PTL DEF Spec, Typed
=============================================================================
