---------------------------- MODULE ToolBatch_proofs ----------------------------
(***************************************************************************)
(* Proofs about ToolBatch for every number of calls, every set of kinds    *)
(* and every length of the steering queue.                                 *)
(***************************************************************************)
EXTENDS ToolBatch, TLAPS

USE DEF Calls, Kind, Watch, Checkers, Finished, Suspended, PCs, Results

-----------------------------------------------------------------------------
(* Type correctness.                                                       *)

LEMMA InitTypeOK == Init => TypeOK
<1> SUFFICES ASSUME Init PROVE TypeOK
  OBVIOUS
<1>1. /\ kind \in [Calls -> Kinds]
      /\ immediate \in BOOLEAN
      /\ phase \in {"scheduling", "running", "returned"}
      /\ next \in 1 .. N + 1
      /\ lastExclusive \in 0 .. N
      /\ sharedTasks \in SUBSET Calls
  BY NAssumption DEF Init
<1>2. /\ deps \in [Calls -> SUBSET Calls]
      /\ pc \in [Calls -> PCs]
  BY DEF Init
<1>3. /\ draft \in [Calls -> {"none", "ok", "error", "aborted"}]
      /\ completed \in [Calls -> BOOLEAN]
      /\ result \in [Calls -> Results]
  BY DEF Init
<1>4. /\ starts \in [Calls -> Nat]
      /\ ends \in [Calls -> Nat]
      /\ recorded \in [Calls -> Nat]
  BY DEF Init
<1>5. /\ interrupted \in BOOLEAN
      /\ userAborted \in BOOLEAN
      /\ steering \in 0 .. MaxSteer
      /\ peek \in [Checkers -> {"none", "empty", "queued"}]
      /\ executed \in SUBSET Calls
      /\ landed \in SUBSET Calls
  BY DEF Init
<1> QED
  BY <1>1, <1>2, <1>3, <1>4, <1>5 DEF TypeOK

\* emitToolResult keeps the types of the result, the start and the end events.
LEMMA EmitTypeOK ==
  ASSUME TypeOK, NEW i \in Calls, NEW r \in Results, Emit(i, r)
  PROVE  /\ result' \in [Calls -> Results]
         /\ starts' \in [Calls -> Nat]
         /\ ends' \in [Calls -> Nat]
  BY DEF TypeOK, Emit

\* A poll of the steering queue keeps the types of what it changes.
LEMMA PeekTypeOK ==
  ASSUME TypeOK, NEW c \in Checkers, Peek(c)
  PROVE  /\ peek' \in [Checkers -> {"none", "empty", "queued"}]
         /\ steering' \in 0 .. MaxSteer
<1>1. peek' \in [Checkers -> {"none", "empty", "queued"}]
  BY DEF TypeOK, Peek
<1>2. steering' \in 0 .. MaxSteer
  BY MaxSteerAssumption DEF TypeOK, Peek
<1> QED
  BY <1>1, <1>2

LEMMA ScheduleTypeOK ==
  ASSUME TypeOK, Schedule
  PROVE  TypeOK'
<1>1. next \in Calls /\ kind[next] \in Kinds
  BY DEF TypeOK, Schedule
<1>2. /\ next' \in 1 .. N + 1
      /\ lastExclusive' \in 0 .. N
      /\ sharedTasks' \in SUBSET Calls
  BY <1>1, NAssumption DEF TypeOK, Schedule, Advance, DepsOf
<1>3. deps' \in [Calls -> SUBSET Calls]
  BY <1>1, NAssumption DEF TypeOK, Schedule, Advance, DepsOf
<1>4. pc' \in [Calls -> PCs]
  BY <1>1 DEF TypeOK, Schedule
<1> QED
  BY <1>2, <1>3, <1>4 DEF TypeOK, Schedule, Advance, records, signals, history

\* One task's step: what changes is the call's own entry.
LEMMA TaskTypeOK ==
  ASSUME TypeOK, NEW i \in Calls, Task(i)
  PROVE  TypeOK'
<1> USE DEF TypeOK, plan, records, signals, history, CanStart, Land
<1>1. CASE SkipInterrupted(i)
  BY <1>1 DEF SkipInterrupted
<1>2. CASE RefuseInvalid(i)
  BY <1>2, EmitTypeOK DEF RefuseInvalid
<1>3. CASE RefuseAborted(i)
  <2>1. /\ result' \in [Calls -> Results]
        /\ starts' \in [Calls -> Nat]
        /\ ends' \in [Calls -> Nat]
    BY <1>3, EmitTypeOK DEF RefuseAborted
  <2>2. pc' \in [Calls -> PCs] /\ recorded' \in [Calls -> Nat]
    BY <1>3 DEF RefuseAborted
  <2> QED
    BY <1>3, <2>1, <2>2 DEF RefuseAborted
<1>4. CASE StartTool(i)
  <2>1. starts' \in [Calls -> Nat]
    BY <1>4 DEF StartTool
  <2>2. pc' \in [Calls -> PCs]
    BY <1>4 DEF StartTool
  <2> QED
    BY <1>4, <2>1, <2>2 DEF StartTool
<1>5. CASE RejectTask(i)
  BY <1>5 DEF RejectTask
<1>6. CASE HookBlocks(i)
  BY <1>6 DEF HookBlocks, AfterOrReport
<1>7. CASE HookFindsAborted(i)
  BY <1>7 DEF HookFindsAborted
<1>8. CASE HookAllows(i)
  BY <1>8 DEF HookAllows
<1>9. CASE ExecuteResolves(i)
  BY <1>9 DEF ExecuteResolves, AfterOrReport
<1>10. CASE ExecuteThrows(i)
  BY <1>10 DEF ExecuteThrows, AfterOrReport
<1>11. CASE AfterReturns(i)
  BY <1>11 DEF AfterReturns
<1>12. CASE Report(i)
  <2>1. Reported(i) \in Results
    BY DEF Reported
  <2>2. /\ result' \in [Calls -> Results]
        /\ starts' \in [Calls -> Nat]
        /\ ends' \in [Calls -> Nat]
    BY <1>12, <2>1, EmitTypeOK DEF Report
  <2>3. pc' \in [Calls -> PCs] /\ recorded' \in [Calls -> Nat]
    BY <1>12 DEF Report
  <2>4. /\ peek' \in [Checkers -> {"none", "empty", "queued"}]
        /\ steering' \in 0 .. MaxSteer
    BY <1>12, PeekTypeOK DEF Report
  <2> QED
    BY <1>12, <2>2, <2>3, <2>4 DEF Report
<1>13. CASE TailCheckReturns(i)
  BY <1>13 DEF TailCheckReturns, Interrupt
<1>14. CASE TailCheckThrows(i)
  BY <1>14 DEF TailCheckThrows
<1> QED
  BY <1>1, <1>2, <1>3, <1>4, <1>5, <1>6, <1>7, <1>8, <1>9, <1>10, <1>11, <1>12, <1>13, <1>14 DEF Task

LEMMA TypeOKStep ==
  ASSUME TypeOK, [Next]_vars
  PROVE  TypeOK'
<1> USE DEF plan, records, signals, history
<1>1. CASE Schedule
  BY <1>1, ScheduleTypeOK
<1>2. CASE AwaitTasks
  BY <1>2 DEF TypeOK, AwaitTasks
<1>3. CASE Return
  BY <1>3 DEF TypeOK, Return
<1>4. CASE \E i \in Calls : Task(i)
  BY <1>4, TaskTypeOK
<1>5. CASE WatchTick
  BY <1>5, PeekTypeOK DEF TypeOK, WatchTick
<1>6. CASE WatchReturns
  <2>1. interrupted' \in BOOLEAN
    BY <1>6 DEF TypeOK, WatchReturns, Interrupt
  <2>2. peek' \in [Checkers -> {"none", "empty", "queued"}]
    BY <1>6 DEF TypeOK, WatchReturns, Interrupt
  <2> QED
    BY <1>6, <2>1, <2>2 DEF TypeOK, WatchReturns
<1>7. CASE Steer \/ Unsteer
  <2>1. steering' \in 0 .. MaxSteer
    BY <1>7, MaxSteerAssumption DEF TypeOK, Steer, Unsteer
  <2> QED
    BY <1>7, <2>1 DEF TypeOK, Steer, Unsteer
<1>8. CASE UserAbort
  BY <1>8 DEF TypeOK, UserAbort
<1>9. CASE Terminated \/ UNCHANGED vars
  BY <1>9 DEF TypeOK, Terminated, vars
<1> QED
  BY <1>1, <1>2, <1>3, <1>4, <1>5, <1>6, <1>7, <1>8, <1>9 DEF Next

\* The variables keep their types.
THEOREM TypeCorrect == Spec => []TypeOK
<1>1. TypeOK /\ [Next]_vars => TypeOK'
  BY TypeOKStep
<1> QED
  BY InitTypeOK, <1>1, PTL DEF Spec

-----------------------------------------------------------------------------
(* The barrier.                                                            *)

\* What the scheduling loop knows: calls before `next` are scheduled, and every
\* one after the last exclusive call is shared and remembered in sharedTasks.
PlanInv ==
  /\ \A i \in Calls : pc[i] = "unscheduled" <=> i >= next
  /\ phase = "scheduling" => \A i \in Calls : pc[i] \in {"unscheduled", "queued"}
  /\ lastExclusive < next
  /\ lastExclusive # 0 => Exclusive(lastExclusive)
  /\ \A j \in Calls : j < next /\ lastExclusive < j => ~Exclusive(j) /\ j \in sharedTasks

\* A call waits for each earlier call it conflicts with, or for an exclusive one
\* in between, which waits in its turn.
Waits(i, j) == j \in deps[i] \/ \E k \in deps[i] : j < k /\ k < i /\ Exclusive(k)
WaitInv == \A i, j \in Calls : j < i /\ i < next /\ Conflict(i, j) => Waits(i, j)

BarrierInv == TypeOK /\ PlanInv /\ WaitInv /\ ExclusiveRunsAlone

LEMMA InitBarrierInv == Init => BarrierInv
<1> SUFFICES ASSUME Init PROVE BarrierInv
  OBVIOUS
<1>1. TypeOK
  BY InitTypeOK
<1>2. PlanInv
  BY NAssumption DEF Init, PlanInv
<1>3. WaitInv
  BY NAssumption DEF Init, WaitInv
<1>4. ExclusiveRunsAlone
  BY DEF Init, ExclusiveRunsAlone, Begun
<1> QED
  BY <1>1, <1>2, <1>3, <1>4 DEF BarrierInv

\* Scheduling a call makes it wait for what it must wait for.
LEMMA ScheduleBarrier ==
  ASSUME BarrierInv, Schedule
  PROVE  PlanInv' /\ WaitInv' /\ ExclusiveRunsAlone'
<1> USE DEF BarrierInv
<1>1. /\ next \in Calls /\ next \in Nat /\ lastExclusive \in 0 .. N
      /\ next' = next + 1 /\ kind' = kind /\ phase = "scheduling" /\ phase' = phase
      /\ pc' = [pc EXCEPT ![next] = "queued"]
      /\ \A i \in Calls : i # next => deps'[i] = deps[i] /\ pc'[i] = pc[i]
      /\ pc'[next] = "queued"
      /\ deps'[next] = ({lastExclusive} \ {0}) \cup (IF Exclusive(next) THEN sharedTasks ELSE {})
  BY NAssumption DEF Schedule, Advance, DepsOf, TypeOK
<1>2. \A i : Exclusive(i)' <=> Exclusive(i)
  BY <1>1 DEF Exclusive
<1>3. PlanInv'
  <2>1. \A i \in Calls : pc'[i] = "unscheduled" <=> i >= next'
    BY <1>1 DEF PlanInv
  <2>2. \A i \in Calls : pc'[i] \in {"unscheduled", "queued"}
    BY <1>1 DEF PlanInv
  <2>3. CASE Exclusive(next)
    <3>1. lastExclusive' = next /\ sharedTasks' = {}
      BY <2>3 DEF Schedule
    <3> QED
      BY <1>1, <1>2, <2>1, <2>2, <2>3, <3>1 DEF PlanInv
  <2>4. CASE ~Exclusive(next)
    <3>1. lastExclusive' = lastExclusive /\ sharedTasks' = sharedTasks \cup {next}
      BY <2>4 DEF Schedule
    <3>2. \A j \in Calls : j < next' /\ lastExclusive' < j => ~Exclusive(j)' /\ j \in sharedTasks'
      BY <1>1, <1>2, <2>4, <3>1 DEF PlanInv
    <3> QED
      BY <1>1, <1>2, <2>1, <2>2, <3>1, <3>2 DEF PlanInv
  <2> QED
    BY <2>3, <2>4
<1>4. WaitInv'
  <2> SUFFICES ASSUME NEW i \in Calls, NEW j \in Calls, j < i, i < next', Conflict(i, j)'
               PROVE  Waits(i, j)'
    BY DEF WaitInv
  <2>1. Conflict(i, j)
    BY <1>2 DEF Conflict
  <2>2. CASE i # next
    <3>1. Waits(i, j)
      BY <1>1, <2>1, <2>2 DEF WaitInv
    <3> QED
      BY <1>1, <1>2, <2>2, <3>1 DEF Waits
  <2>3. CASE i = next /\ lastExclusive < j
    <3>1. j \in sharedTasks /\ ~Exclusive(j)
      BY <2>3 DEF PlanInv
    <3>2. Exclusive(next)
      BY <2>1, <2>3, <3>1 DEF Conflict
    <3> QED
      BY <1>1, <2>3, <3>1, <3>2 DEF Waits
  <2>4. CASE i = next /\ ~(lastExclusive < j)
    <3>1. lastExclusive \in 0 .. N /\ j \in 1 .. N
      BY <1>1
    <3>2. lastExclusive # 0 /\ (j = lastExclusive \/ j < lastExclusive)
      BY <2>4, <3>1, NAssumption
    <3>3. PICK k \in Calls : k = lastExclusive
      BY <3>1, <3>2, NAssumption
    <3>4. k \in deps'[i]
      BY <1>1, <2>4, <3>2, <3>3
    <3>5. Exclusive(k)' /\ k < i
      BY <1>2, <2>4, <3>2, <3>3 DEF PlanInv
    <3> QED
      BY <3>2, <3>3, <3>4, <3>5 DEF Waits
  <2> QED
    BY <2>2, <2>3, <2>4
<1>5. ExclusiveRunsAlone'
  <2>1. \A i \in Calls : ~Begun(i)'
    BY <1>1 DEF PlanInv, Begun
  <2> QED
    BY <2>1 DEF ExclusiveRunsAlone
<1> QED
  BY <1>3, <1>4, <1>5

\* A step of a task moves it on from where it is queued or suspended; it begins
\* only when the tasks it waits for are settled.
Moves(i, v) ==
  /\ pc' = [pc EXCEPT ![i] = v]
  /\ v # "unscheduled" /\ pc[i] \notin {"unscheduled", "settled", "rejected"}
  /\ v # "rejected" => Begun(i) \/ CanStart(i)

LEMMA TaskMoves ==
  ASSUME TypeOK, NEW i \in Calls, Task(i)
  PROVE  /\ \E v \in PCs : Moves(i, v)
         /\ UNCHANGED <<plan, phase>>
         /\ phase = "running" \/ pc[i] \in Suspended
<1> USE DEF Moves, Begun, CanStart
<1>1. CASE SkipInterrupted(i) \/ RefuseInvalid(i) \/ RefuseAborted(i) \/ StartTool(i)
  BY <1>1 DEF SkipInterrupted, RefuseInvalid, RefuseAborted, StartTool
<1>2. CASE RejectTask(i)
  BY <1>2 DEF RejectTask
<1>3. CASE HookBlocks(i) \/ HookFindsAborted(i) \/ HookAllows(i)
  BY <1>3 DEF HookBlocks, HookFindsAborted, HookAllows, AfterOrReport
<1>4. CASE ExecuteResolves(i) \/ ExecuteThrows(i) \/ AfterReturns(i)
  BY <1>4 DEF ExecuteResolves, ExecuteThrows, AfterReturns, AfterOrReport
<1>5. CASE Report(i) \/ TailCheckReturns(i) \/ TailCheckThrows(i)
  BY <1>5 DEF Report, TailCheckReturns, TailCheckThrows
<1> QED
  BY <1>1, <1>2, <1>3, <1>4, <1>5 DEF Task

LEMMA TaskBarrier ==
  ASSUME BarrierInv, NEW i \in Calls, Task(i)
  PROVE  PlanInv' /\ WaitInv' /\ ExclusiveRunsAlone'
<1> USE DEF BarrierInv
<1>1. /\ kind' = kind /\ next' = next /\ lastExclusive' = lastExclusive
      /\ sharedTasks' = sharedTasks /\ deps' = deps /\ phase' = phase
      /\ phase = "running" \/ pc[i] \in Suspended
  BY TaskMoves DEF plan
<1>2. PICK v \in PCs : Moves(i, v)
  BY TaskMoves
<1>3. /\ pc[i] \notin {"unscheduled", "settled", "rejected"}
      /\ pc'[i] # "unscheduled"
      /\ \A j \in Calls : j # i => pc'[j] = pc[j]
  BY <1>2 DEF Moves, TypeOK
<1>4. PlanInv'
  BY <1>1, <1>3 DEF PlanInv, Exclusive
<1>5. WaitInv'
  BY <1>1 DEF WaitInv, Waits, Conflict, Exclusive
<1>6. ExclusiveRunsAlone'
  <2> SUFFICES ASSUME NEW a \in Calls, NEW b \in Calls, b < a, Conflict(a, b), Begun(a)'
               PROVE  pc'[b] = "settled"
    BY <1>1 DEF ExclusiveRunsAlone, Conflict, Exclusive
  <2>1. CASE Begun(a)
    <3>1. pc[b] = "settled"
      BY <2>1 DEF ExclusiveRunsAlone
    <3> QED
      BY <1>3, <3>1
  <2>2. CASE ~Begun(a)
    <3>1. a = i /\ CanStart(i)
      BY <1>2, <1>3, <2>2 DEF Moves, Begun, TypeOK
    <3>2. \A j \in deps[a] : pc[j] = "settled"
      BY <3>1 DEF CanStart
    <3>3. a < next
      BY <1>3, <3>1 DEF PlanInv, TypeOK
    <3>4. Waits(a, b)
      BY <3>3 DEF WaitInv
    <3>5. CASE b \in deps[a]
      BY <1>3, <3>2, <3>5
    <3>6. CASE \E k \in deps[a] : b < k /\ k < a /\ Exclusive(k)
      <4>1. PICK k \in deps[a] : b < k /\ k < a /\ Exclusive(k)
        BY <3>6
      <4>2. k \in Calls /\ pc[k] = "settled"
        BY <3>2 DEF TypeOK
      <4>3. pc[b] = "settled"
        BY <4>1, <4>2 DEF ExclusiveRunsAlone, Begun, Conflict
      <4> QED
        BY <1>3, <4>3
    <3> QED
      BY <3>4, <3>5, <3>6 DEF Waits
  <2> QED
    BY <2>1, <2>2
<1> QED
  BY <1>4, <1>5, <1>6

LEMMA BarrierInvStep ==
  ASSUME BarrierInv, [Next]_vars
  PROVE  BarrierInv'
<1>1. TypeOK'
  BY TypeOKStep DEF BarrierInv
<1>2. CASE Schedule
  BY <1>1, <1>2, ScheduleBarrier DEF BarrierInv
<1>3. CASE \E i \in Calls : Task(i)
  BY <1>1, <1>3, TaskBarrier DEF BarrierInv
<1>4. CASE AwaitTasks \/ Return \/ WatchTick \/ WatchReturns \/ Steer \/ Unsteer \/ UserAbort
           \/ Terminated \/ UNCHANGED vars
  <2>1. UNCHANGED <<plan, pc>> /\ (phase' = "scheduling" => phase = "scheduling")
    BY <1>4 DEF AwaitTasks, Return, WatchTick, WatchReturns, Steer, Unsteer, UserAbort, Terminated,
                vars
  <2> QED
    BY <1>1, <2>1 DEF BarrierInv, PlanInv, WaitInv, Waits, ExclusiveRunsAlone, Begun, Conflict,
                      Exclusive, plan
<1> QED
  BY <1>2, <1>3, <1>4 DEF Next

\* The barrier of the scheduling loop holds for every batch: an exclusive tool
\* runs alone and in order.
THEOREM ExclusiveRunsAloneAlways == Spec => []ExclusiveRunsAlone
<1>1. BarrierInv /\ [Next]_vars => BarrierInv'
  BY BarrierInvStep
<1>2. BarrierInv => ExclusiveRunsAlone
  BY DEF BarrierInv
<1> QED
  BY InitBarrierInv, <1>1, <1>2, PTL DEF Spec

-----------------------------------------------------------------------------
(* Results.                                                                *)

Idle == {"unscheduled", "queued"}
Started == {"hook", "executing", "after", "report"}

\* What is known of a call whose result is out.
Answered(i) ==
  /\ result[i] # "none"
  /\ result[i] = "aborted" => i \notin executed
  /\ result[i] = "skipped" => draft[i] # "ok"
  /\ result[i] = "skipped" => interrupted \/ \E j \in Calls : pc[j] = "rejected"
  /\ recorded[i] \in {0, 1}
  /\ recorded[i] = 0 => pc[i] = "settled" /\ ~kind[i].valid /\ result[i] = "error"
  /\ recorded[i] = 1 => kind[i].valid \/ result[i] # "error"

\* What is known of a call at each point of its task.
CallInv(i) ==
  /\ pc[i] \in Idle \cup Started => ends[i] = 0
  /\ pc[i] = "checking" => ends[i] = 1
  /\ pc[i] \in Idle => starts[i] = 0
  /\ pc[i] \in Started => starts[i] = 1 /\ kind[i].valid
  /\ pc[i] \in Idle \cup {"hook"} => draft[i] = "none" /\ i \notin executed
  /\ pc[i] \in {"after", "report"} => draft[i] # "none" /\ (draft[i] = "aborted" => i \notin executed)
  /\ ends[i] = 0 => result[i] = "none" /\ recorded[i] = 0
  /\ ends[i] = 0 /\ pc[i] \in Finished =>
       starts[i] = 0 /\ draft[i] = "none" /\ i \notin executed /\ (interrupted \/ pc[i] = "rejected")
  /\ ends[i] # 0 => ends[i] = 1 /\ starts[i] = 1 /\ Answered(i)

ResultsInv ==
  /\ TypeOK
  /\ \A i \in Calls : CallInv(i)
  /\ phase = "returned" => \A i \in Calls : ends[i] = 1 /\ pc[i] \in Finished

\* A call that a step leaves alone keeps what is known of it: interrupts and
\* rejections are never taken back.
SameCall(j) ==
  /\ pc'[j] = pc[j] /\ draft'[j] = draft[j] /\ result'[j] = result[j]
  /\ starts'[j] = starts[j] /\ ends'[j] = ends[j] /\ recorded'[j] = recorded[j]
  /\ j \in executed' <=> j \in executed

LEMMA SameCallInv ==
  ASSUME NEW j \in Calls, CallInv(j), SameCall(j),
         kind' = kind, interrupted => interrupted',
         (\E k \in Calls : pc[k] = "rejected") => \E k \in Calls : pc'[k] = "rejected"
  PROVE  CallInv(j)'
  BY DEF CallInv, Answered, SameCall

\* A task's step touches no other call.
LEMMA TaskFrame ==
  ASSUME TypeOK, NEW i \in Calls, Task(i)
  PROVE  /\ \A j \in Calls : j # i => SameCall(j)
         /\ kind' = kind /\ phase' = phase
         /\ interrupted => interrupted'
         /\ (\E k \in Calls : pc[k] = "rejected") => \E k \in Calls : pc'[k] = "rejected"
<1> USE DEF TypeOK, SameCall, plan, records, signals, history, CanStart, Emit
<1>1. CASE SkipInterrupted(i)
  BY <1>1 DEF SkipInterrupted
<1>2. CASE RefuseInvalid(i)
  BY <1>2 DEF RefuseInvalid
<1>3. CASE RefuseAborted(i)
  BY <1>3 DEF RefuseAborted
<1>4. CASE StartTool(i)
  BY <1>4 DEF StartTool
<1>5. CASE RejectTask(i)
  BY <1>5 DEF RejectTask
<1>6. CASE HookBlocks(i)
  BY <1>6 DEF HookBlocks
<1>7. CASE HookFindsAborted(i)
  BY <1>7 DEF HookFindsAborted
<1>8. CASE HookAllows(i)
  BY <1>8 DEF HookAllows
<1>9. CASE ExecuteResolves(i)
  BY <1>9 DEF ExecuteResolves
<1>10. CASE ExecuteThrows(i)
  BY <1>10 DEF ExecuteThrows
<1>11. CASE AfterReturns(i)
  BY <1>11 DEF AfterReturns
<1>12. CASE Report(i)
  BY <1>12 DEF Report
<1>13. CASE TailCheckReturns(i)
  BY <1>13 DEF TailCheckReturns, Interrupt
<1>14. CASE TailCheckThrows(i)
  BY <1>14 DEF TailCheckThrows
<1> QED
  BY <1>1, <1>2, <1>3, <1>4, <1>5, <1>6, <1>7, <1>8, <1>9, <1>10, <1>11, <1>12, <1>13, <1>14 DEF Task

\* The first result emitted for a call starts it if need be and ends it.
LEMMA EmitOnce ==
  ASSUME TypeOK, NEW i \in Calls, NEW r, Emit(i, r), ends[i] = 0, starts[i] \in {0, 1}
  PROVE  result'[i] = r /\ starts'[i] = 1 /\ ends'[i] = 1
<1>1. /\ result \in [Calls -> Results] /\ starts \in [Calls -> Nat] /\ ends \in [Calls -> Nat]
  BY DEF TypeOK
<1>2. /\ result' = [result EXCEPT ![i] = r]
      /\ starts' = [starts EXCEPT ![i] = IF @ = 0 THEN 1 ELSE @]
      /\ ends' = [ends EXCEPT ![i] = @ + 1]
  BY <1>1 DEF Emit
<1> QED
  BY <1>1, <1>2

\* A task that reports goes on to its steering check, or is done, and is recorded.
LEMMA ReportMoves ==
  ASSUME TypeOK, NEW i \in Calls, Report(i), recorded[i] = 0
  PROVE  pc'[i] \in {"checking", "settled"} /\ recorded'[i] = 1
<1>1. recorded \in [Calls -> Nat] /\ pc \in [Calls -> PCs]
  BY DEF TypeOK
<1>2. recorded' = [recorded EXCEPT ![i] = @ + 1]
  BY DEF Report
<1>3. pc' = [pc EXCEPT ![i] = "checking"] \/ pc' = [pc EXCEPT ![i] = "settled"]
  BY DEF Report
<1>4. recorded'[i] = 1
  BY <1>1, <1>2
<1>5. pc'[i] \in {"checking", "settled"}
  BY <1>1, <1>3
<1> QED
  BY <1>4, <1>5

\* A task's step keeps what is known of its own call.
LEMMA TaskCall ==
  ASSUME ResultsInv, NEW i \in Calls, Task(i)
  PROVE  CallInv(i)'
<1> USE DEF ResultsInv, TypeOK, CallInv, Answered, Idle, Started, plan, records, signals, history,
            CanStart
<1>1. CASE SkipInterrupted(i)
  BY <1>1 DEF SkipInterrupted
<1>2. CASE RefuseInvalid(i)
  <2>1. result'[i] = "error" /\ starts'[i] = 1 /\ ends'[i] = 1
    BY <1>2, EmitOnce DEF RefuseInvalid
  <2>2. pc'[i] = "settled" /\ recorded'[i] = 0 /\ i \notin executed' /\ ~kind[i].valid
    BY <1>2 DEF RefuseInvalid
  <2>3. kind' = kind /\ draft' = draft
    BY <1>2 DEF RefuseInvalid
  <2> QED
    BY <2>1, <2>2, <2>3
<1>3. CASE RefuseAborted(i)
  <2>1. result'[i] = "aborted" /\ starts'[i] = 1 /\ ends'[i] = 1
    BY <1>3, EmitOnce DEF RefuseAborted
  <2>2. pc'[i] = "settled" /\ recorded'[i] = 1 /\ i \notin executed'
    BY <1>3 DEF RefuseAborted
  <2>3. kind' = kind /\ draft' = draft
    BY <1>3 DEF RefuseAborted
  <2> QED
    BY <2>1, <2>2, <2>3
<1>4. CASE StartTool(i)
  BY <1>4 DEF StartTool
<1>5. CASE RejectTask(i)
  BY <1>5 DEF RejectTask
<1>6. CASE HookBlocks(i)
  BY <1>6 DEF HookBlocks, AfterOrReport
<1>7. CASE HookFindsAborted(i)
  BY <1>7 DEF HookFindsAborted
<1>8. CASE HookAllows(i)
  BY <1>8 DEF HookAllows
<1>9. CASE ExecuteResolves(i)
  BY <1>9 DEF ExecuteResolves, AfterOrReport
<1>10. CASE ExecuteThrows(i)
  BY <1>10 DEF ExecuteThrows, AfterOrReport
<1>11. CASE AfterReturns(i)
  BY <1>11 DEF AfterReturns
<1>12. CASE Report(i)
  <2>1. result'[i] = Reported(i) /\ starts'[i] = 1 /\ ends'[i] = 1
    BY <1>12, EmitOnce DEF Report
  <2>2. pc'[i] \in {"checking", "settled"} /\ recorded'[i] = 1
    <3>1. recorded[i] = 0
      BY <1>12 DEF Report
    <3> QED
      BY <1>12, <3>1, ReportMoves
  <2>3. kind' = kind /\ draft' = draft /\ executed' = executed /\ interrupted' = interrupted
    BY <1>12 DEF Report
  <2>4. /\ Reported(i) # "none"
        /\ Reported(i) = "aborted" => i \notin executed
        /\ Reported(i) = "skipped" => draft[i] # "ok" /\ interrupted
    BY <1>12 DEF Report, Reported
  <2>5. kind[i].valid
    BY <1>12 DEF Report
  <2>6. Answered(i)'
    BY <2>1, <2>2, <2>3, <2>4, <2>5
  <2> QED
    BY <2>1, <2>2, <2>6
<1>13. CASE TailCheckReturns(i)
  BY <1>13 DEF TailCheckReturns, Interrupt
<1>14. CASE TailCheckThrows(i)
  BY <1>14 DEF TailCheckThrows
<1> QED
  BY <1>1, <1>2, <1>3, <1>4, <1>5, <1>6, <1>7, <1>8, <1>9, <1>10, <1>11, <1>12, <1>13, <1>14 DEF Task

\* The final sweep answers every call that has no result yet.
LEMMA ReturnResults ==
  ASSUME ResultsInv, Return
  PROVE  /\ \A i \in Calls : CallInv(i)'
         /\ \A i \in Calls : ends'[i] = 1 /\ pc'[i] \in Finished
<1> USE DEF ResultsInv, TypeOK, Return, plan, signals, history, Unanswered
<1> SUFFICES ASSUME NEW i \in Calls
             PROVE  CallInv(i)' /\ ends'[i] = 1 /\ pc'[i] \in Finished
  OBVIOUS
<1>1. CallInv(i) /\ pc[i] \in Finished /\ pc'[i] = pc[i]
  OBVIOUS
<1>2. CASE ends[i] = 0
  <2>1. result'[i] = "skipped" /\ starts'[i] = 1 /\ ends'[i] = 1 /\ recorded'[i] = 1
    BY <1>1, <1>2 DEF CallInv
  <2> QED
    BY <1>1, <1>2, <2>1 DEF CallInv, Answered, Idle, Started
<1>3. CASE ends[i] # 0
  <2>1. SameCall(i)
    BY <1>3 DEF SameCall
  <2>2. CallInv(i)'
    BY <1>1, <2>1, SameCallInv
  <2> QED
    BY <1>1, <1>3, <2>1, <2>2 DEF CallInv, SameCall
<1> QED
  BY <1>2, <1>3

LEMMA InitResultsInv == Init => ResultsInv
  BY InitTypeOK DEF Init, ResultsInv, CallInv, Answered, Idle, Started

LEMMA ResultsInvStep ==
  ASSUME BarrierInv, ResultsInv, [Next]_vars
  PROVE  ResultsInv'
<1>1. TypeOK'
  BY TypeOKStep DEF ResultsInv
<1>2. CASE \E i \in Calls : Task(i)
  <2>1. PICK i \in Calls : Task(i)
    BY <1>2
  <2>2. CallInv(i)'
    BY <2>1, TaskCall
  <2>3. \A j \in Calls : j # i => CallInv(j)'
    BY <2>1, TaskFrame, SameCallInv DEF ResultsInv
  <2>4. phase # "returned"
    BY <2>1, TaskMoves DEF ResultsInv
  <2> QED
    BY <1>1, <2>1, <2>2, <2>3, <2>4, TaskFrame DEF ResultsInv
<1>3. CASE Return
  BY <1>1, <1>3, ReturnResults DEF ResultsInv
<1>4. CASE Schedule
  <2>1. next \in Calls /\ pc' = [pc EXCEPT ![next] = "queued"] /\ kind' = kind
    BY <1>4 DEF Schedule
  <2>2. /\ UNCHANGED <<draft, result, starts, ends, recorded, interrupted, executed>>
        /\ phase' = "scheduling"
    BY <1>4 DEF Schedule, records, signals, history
  <2>3. pc[next] = "unscheduled"
    BY <2>1 DEF BarrierInv, PlanInv, TypeOK
  <2>4. \A k \in Calls : pc[k] = "rejected" => pc'[k] = "rejected"
    BY <2>1, <2>3 DEF ResultsInv, TypeOK
  <2>5. ASSUME NEW i \in Calls, i = next
        PROVE  CallInv(i)'
    <3>1. CallInv(i) /\ pc[i] = "unscheduled" /\ pc'[i] = "queued"
      BY <2>1, <2>3, <2>5 DEF ResultsInv, TypeOK
    <3> QED
      BY <2>2, <3>1 DEF CallInv, Idle, Started
  <2>6. \A j \in Calls : j # next => SameCall(j)
    BY <2>1, <2>2 DEF ResultsInv, TypeOK, SameCall
  <2>7. \A j \in Calls : j # next => CallInv(j)'
    BY <2>1, <2>2, <2>4, <2>6, SameCallInv DEF ResultsInv
  <2> QED
    BY <1>1, <2>1, <2>2, <2>5, <2>7 DEF ResultsInv
<1>5. CASE AwaitTasks \/ WatchTick \/ WatchReturns \/ Steer \/ Unsteer \/ UserAbort \/ Terminated
           \/ UNCHANGED vars
  <2>1. /\ UNCHANGED <<kind, pc, draft, result, starts, ends, recorded, executed>>
        /\ interrupted => interrupted'
        /\ phase' = "returned" => phase = "returned"
    <3> USE DEF plan, records, signals, history
    <3>1. CASE AwaitTasks \/ WatchTick
      BY <3>1 DEF AwaitTasks, WatchTick
    <3>2. CASE WatchReturns
      BY <3>2 DEF WatchReturns, Interrupt
    <3>3. CASE Steer \/ Unsteer \/ UserAbort
      BY <3>3 DEF Steer, Unsteer, UserAbort
    <3>4. CASE Terminated \/ UNCHANGED vars
      BY <3>4 DEF Terminated, vars
    <3> QED
      BY <1>5, <3>1, <3>2, <3>3, <3>4
  <2>2. \A j \in Calls : SameCall(j)
    BY <2>1 DEF SameCall
  <2>3. \A j \in Calls : CallInv(j)'
    BY <2>1, <2>2, SameCallInv DEF ResultsInv
  <2> QED
    BY <1>1, <2>1, <2>2, <2>3 DEF ResultsInv, SameCall
<1> QED
  BY <1>2, <1>3, <1>4, <1>5 DEF Next

LEMMA ResultsInvariant == Spec => []ResultsInv
<1>1. Init => BarrierInv /\ ResultsInv
  BY InitBarrierInv, InitResultsInv
<1>2. BarrierInv /\ ResultsInv /\ [Next]_vars => (BarrierInv /\ ResultsInv)'
  BY BarrierInvStep, ResultsInvStep
<1> QED
  BY <1>1, <1>2, PTL DEF Spec

\* Every tool call gets exactly one start, one end and one result, whatever was
\* refused, skipped, aborted, thrown or rejected on the way.
THEOREM OneResultPerCallAlways == Spec => []OneResultPerCall
<1>1. ResultsInv => OneResultPerCall
  BY DEF ResultsInv, TypeOK, CallInv, Answered, OneResultPerCall, Idle, Started
<1> QED
  BY <1>1, ResultsInvariant, PTL

\* Telemetry sees a call once, unless its arguments were refused.
THEOREM RecordedOnceAlways == Spec => []RecordedOnce
<1>1. ResultsInv => RecordedOnce
  BY DEF ResultsInv, TypeOK, CallInv, Answered, RecordedOnce, Idle, Started
<1> QED
  BY <1>1, ResultsInvariant, PTL

\* What a result says of the tool is true.
THEOREM ResultIsTrueAlways == Spec => []ResultIsTrue
<1>1. ResultsInv => ResultIsTrue
  BY DEF ResultsInv, TypeOK, CallInv, Answered, ResultIsTrue, Idle, Started
<1> QED
  BY <1>1, ResultsInvariant, PTL

\* No call is skipped without an interrupt or a collapsed chain of tasks.
THEOREM SkippedHasCauseAlways == Spec => []SkippedHasCause
<1>1. ResultsInv => SkippedHasCause
  BY DEF ResultsInv, TypeOK, CallInv, Answered, SkippedHasCause
<1> QED
  BY <1>1, ResultsInvariant, PTL

\* Every call of every batch is answered once and accounted for once.
THEOREM EveryCallAnsweredAlways == Spec => []EveryCallAnswered
BY TypeCorrect, OneResultPerCallAlways, RecordedOnceAlways, PTL DEF EveryCallAnswered

\* What the model is told of a call is what happened to it.
THEOREM ReportedTrulyAlways == Spec => []ReportedTruly
BY ResultIsTrueAlways, SkippedHasCauseAlways, PTL DEF ReportedTruly

-----------------------------------------------------------------------------
(* Aborts.                                                                 *)

\* No tool's execute() is invoked once the signal is aborted.
THEOREM NoExecuteAfterAbortAlways == Spec => NoExecuteAfterAbort
<1>1. [Next]_vars => [Aborted => executed' = executed]_vars
  <2> SUFFICES ASSUME Next, Aborted
               PROVE  executed' = executed
    BY DEF vars, history
  <2> USE DEF history
  <2>1. CASE \E i \in Calls : Task(i)
    <3>1. PICK i \in Calls : Task(i)
      BY <2>1
    <3>2. ~HookAllows(i)
      BY DEF HookAllows
    <3> QED
      BY <3>1, <3>2 DEF Task, SkipInterrupted, RefuseInvalid, RefuseAborted, StartTool, RejectTask,
            HookBlocks, HookFindsAborted, ExecuteResolves, ExecuteThrows, AfterReturns, Report,
            TailCheckReturns, TailCheckThrows
  <2>2. CASE ~\E i \in Calls : Task(i)
    BY <2>2 DEF Next, Schedule, AwaitTasks, Return, WatchTick, WatchReturns, Steer, Unsteer, UserAbort,
          Terminated, vars
  <2> QED
    BY <2>1, <2>2
<1> QED
  BY <1>1, PTL DEF Spec, NoExecuteAfterAbort
=============================================================================
