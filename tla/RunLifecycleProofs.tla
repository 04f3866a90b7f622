------------------------- MODULE RunLifecycleProofs -------------------------
(***************************************************************************)
(* What holds of RunLifecycle for every set of runs and workers, number of *)
(* tasks, limits and lease policy: type correctness, the inductive         *)
(* invariant, the invariants that follow, what a step never does to the    *)
(* outcomes of attempts, tasks and runs, and that the tables and handlers  *)
(* implement ExportContract.                                               *)
(*                                                                         *)
(* SingleOwner and the other invariants are not inductive by themselves.   *)
(* What they need in addition is how the attempts of a task are numbered   *)
(* and what became of the earlier ones (History), that a planner still at  *)
(* work has not inserted a task yet (PlannerOwnsRun), and that a CANCELED  *)
(* report is only on its way for a run that is over (CancelReportsLate).   *)
(***************************************************************************)
EXTENDS RunLifecycle, FiniteSetTheorems, TLAPS


(* The rows *)

\* A task belongs to a run, and a run has a task.
LEMMA TaskRows ==
    /\ \A t \in Tasks : RunOf(t) \in Runs
    /\ \A r \in Runs : \E t \in Tasks : RunOf(t) = r
<1>1. \A t \in Tasks : RunOf(t) \in Runs
  BY DEF Tasks, RunOf
<1>2. ASSUME NEW r \in Runs
      PROVE  \E t \in Tasks : RunOf(t) = r
  <2>1. 1 \in 1..NTasks[r]
    BY ConstantsAssumption
  <2>2. <<r, 1>> \in Tasks
    BY <2>1 DEF Tasks
  <2> QED
    BY <2>2, Zenon DEF RunOf
<1> QED
  BY <1>1, <1>2, Zenon

\* An attempt is its task and its number.
LEMMA AttemptRows ==
    /\ \A a \in Attempts : /\ TaskOf(a) \in Tasks
                           /\ Number(a) \in 1..MaxAttempts
                           /\ a = <<TaskOf(a), Number(a)>>
    /\ \A t \in Tasks, n \in 1..MaxAttempts :
         <<t, n>> \in Attempts /\ TaskOf(<<t, n>>) = t /\ Number(<<t, n>>) = n
BY DEF Attempts, TaskOf, Number

-----------------------------------------------------------------------------
(* Types *)

\* What the retry policy of lost attempts writes has the type of the columns.
LEMMA RetryTypes ==
    ASSUME TypeOK, NEW S, NEW status \in AttemptStatus, S \subseteq Attempts,
           RetryOrQuarantine(S, status)
    PROVE  /\ runStatus' \in [Runs -> RunStatus]
           /\ taskStatus' \in [Tasks -> TaskStatus]
           /\ current' \in [Tasks -> 0..MaxAttempts]
           /\ attempts' \in [Tasks -> 0..MaxAttempts]
           /\ backoff' \in [Tasks -> Nat]
           /\ aStatus' \in [Attempts -> AttemptStatus]
           /\ lease' \in [Attempts -> Nat]
<1>1. \A t \in Tasks : <<t, current[t]>> \in S => RetryBackoff(current[t]) \in Nat
  BY AttemptRows, BackoffAssumption, Zenon DEF TypeOK, Attempts
<1> QED
  BY <1>1, ConstantsAssumption
  DEF TypeOK, RetryOrQuarantine, RunStatus, ActiveRunStatus, TerminalRunStatus, TaskStatus

\* The initial state is well typed.
LEMMA TypeInit == Init => TypeOK
BY ConstantsAssumption
DEF Init, TypeOK, RunStatus, TaskStatus, AttemptStatus, WorkerPhase

\* Every step keeps the types.
LEMMA TypeStep == TypeOK /\ [Next]_vars => TypeOK'
<1> SUFFICES ASSUME TypeOK, [Next]_vars PROVE TypeOK'
  BY Zenon
<1> USE TaskRows, AttemptRows, ConstantsAssumption
    DEF dbVars, workerVars, memVars, RunStatus, ActiveRunStatus, TerminalRunStatus,
        TaskStatus, AttemptStatus, ReportStatus, WorkerPhase
<1>1. ASSUME NEW r \in Runs, CreateRun(r) PROVE TypeOK'
  BY <1>1, Zenon DEF CreateRun, TypeOK
<1>2. ASSUME NEW r \in Runs, StartRunWithTasks(r) PROVE TypeOK'
  BY <1>2, Zenon DEF StartRunWithTasks, TypeOK
<1>3. ASSUME NEW r \in Runs, PlanFails(r) PROVE TypeOK'
  BY <1>3, Zenon DEF PlanFails, TypeOK
<1>4. ASSUME NEW r \in Runs, CancelRun(r) PROVE TypeOK'
  BY <1>4 DEF CancelRun, TypeOK
<1>5. ASSUME NEW r \in Runs, TryFinalizeRun(r) PROVE TypeOK'
  BY <1>5, Zenon DEF TryFinalizeRun, FinalStatus, TypeOK
<1>6. ASSUME NEW r \in Runs, FinalizeInterrupted(r) PROVE TypeOK'
  BY <1>6 DEF FinalizeInterrupted, TypeOK
<1>7. ASSUME NEW r \in Runs, CompleteRunCommit(r) \/ FailRunCommit(r) PROVE TypeOK'
  BY <1>7, Zenon DEF CompleteRunCommit, FailRunCommit, TypeOK
<1>8. ASSUME NEW w \in Workers, RequestTask(w) PROVE TypeOK'
  BY <1>8, Zenon DEF RequestTask, TypeOK
<1>9. ASSUME NEW w \in Workers, NEW t \in Tasks, AssignNextPendingTask(w, t) PROVE TypeOK'
  <2>1. attempts[t] + 1 \in 1..MaxAttempts
    BY <1>9 DEF AssignNextPendingTask, Eligible, TypeOK
  <2> QED
    BY <1>9, <2>1 DEF AssignNextPendingTask, TypeOK
<1>10. ASSUME NEW w \in Workers, NothingToAssign(w) \/ DeliverAssignment(w) PROVE TypeOK'
  BY <1>10, Zenon DEF NothingToAssign, DeliverAssignment, TypeOK
<1>11. ASSUME NEW w \in Workers, AbandonTaskAttempt(w) PROVE TypeOK'
  <2>1. {a \in held[w] : IsCurrent(a)} \subseteq Attempts
    BY Zenon DEF TypeOK
  <2> QED
    BY <1>11, <2>1, RetryTypes, Zenon DEF AbandonTaskAttempt, TypeOK
<1>12. ASSUME NEW w \in Workers, RenewTaskLease(w) PROVE TypeOK'
  BY <1>12 DEF RenewTaskLease, TypeOK
<1>13. ASSUME NEW w \in Workers, LoseTask(w) \/ StopReporting(w) PROVE TypeOK'
  BY <1>13, Zenon DEF LoseTask, StopReporting, TypeOK
<1>14. ASSUME NEW w \in Workers, NEW status \in ReportStatus, FinishTask(w, status) PROVE TypeOK'
  BY <1>14 DEF FinishTask, TypeOK
<1>15. ASSUME NEW w \in Workers, ReportFailureAfterSuccess(w) PROVE TypeOK'
  BY <1>15 DEF ReportFailureAfterSuccess, TypeOK
<1>16. ASSUME NEW m \in reports, CompleteTaskAttempt(m) PROVE TypeOK'
  <2>1. m.att \in Attempts /\ m.status \in ReportStatus
    BY Zenon DEF TypeOK
  <2>2. TaskOf(m.att) \in Tasks /\ RunOf(TaskOf(m.att)) \in Runs
    BY <2>1, Zenon
  <2>3. m.status \in AttemptStatus /\ m.status \in TaskStatus
    BY <2>1, Zenon
  <2>4. aStatus' \in [Attempts -> AttemptStatus]
    BY <1>16, <2>3, Zenon DEF CompleteTaskAttempt, TypeOK
  <2>5. taskStatus' \in [Tasks -> TaskStatus]
    BY <1>16, <2>3, Zenon DEF CompleteTaskAttempt, TypeOK
  <2>6. lease' \in [Attempts -> Nat] /\ current' \in [Tasks -> 0..MaxAttempts]
    BY <1>16 DEF CompleteTaskAttempt, TypeOK
  <2>7. finalizing' \subseteq Runs
    BY <1>16, <2>2, Zenon DEF CompleteTaskAttempt, TypeOK
  <2> QED
    BY <1>16, <2>4, <2>5, <2>6, <2>7, Zenon DEF CompleteTaskAttempt, TypeOK
<1>17. ASSUME NEW m \in reports, AcceptRepeatedReport(m) PROVE TypeOK'
  BY <1>17, Zenon DEF AcceptRepeatedReport, TypeOK
<1>18. ASSUME ExpireTaskAttempts \/ StartupExpireLeases PROVE TypeOK'
  <2>1. ExpiredAttempts \subseteq Attempts
    BY Zenon DEF ExpiredAttempts
  <2> QED
    BY <1>18, <2>1, RetryTypes, Zenon DEF ExpireTaskAttempts, StartupExpireLeases, TypeOK
<1>19. CASE Tick
  BY <1>19 DEF Tick, TypeOK
<1>20. CASE MasterStops \/ MasterStarts
  <2>1. CASE MasterStarts
    BY <2>1, Zenon DEF MasterStarts, TypeOK
  <2>2. CASE MasterStops
    <3>1. phase' \in [Workers -> WorkerPhase] /\ held' \in [Workers -> SUBSET Attempts]
      BY <2>2, Zenon DEF MasterStops, TypeOK
    <3>2. faults' \in 0..MaxFaults /\ master' \in {"down", "starting", "recovering", "ready"}
      BY <2>2 DEF MasterStops, TypeOK
    <3> QED
      BY <2>2, <3>1, <3>2, Zenon DEF MasterStops, TypeOK
  <2> QED
    BY <1>20, <2>1, <2>2, Zenon
<1>21. CASE FailAbandonedPlanningRuns
  BY <1>21, Zenon DEF FailAbandonedPlanningRuns, TypeOK
<1>22. CASE UNCHANGED vars
  BY <1>22, Zenon DEF vars, TypeOK
<1> QED
  BY <1>1, <1>2, <1>3, <1>4, <1>5, <1>6, <1>7, <1>8, <1>9, <1>10, <1>11, <1>12, <1>13,
     <1>14, <1>15, <1>16, <1>17, <1>18, <1>19, <1>20, <1>21, <1>22, Zenon
  DEF Next


\* The tables, the workers' memory and the messages keep their types.
THEOREM TypeCorrectness == Spec => []TypeOK
BY TypeInit, TypeStep, PTL DEF Spec

-----------------------------------------------------------------------------
(* The inductive invariant *)

\* The attempts of a task are numbered without gaps; the current one is the
\* last; a task that was not decided lost all the others.
TaskHistory(t) ==
    /\ current[t] # 0 => current[t] = attempts[t]
    /\ taskStatus[t] = "NONE" => attempts[t] = 0
    /\ taskStatus[t] = "QUARANTINED" => attempts[t] = MaxAttempts
    /\ taskStatus[t] \in {"SUCCEEDED", "FAILED"} =>
         attempts[t] # 0 /\ aStatus[<<t, attempts[t]>>] = taskStatus[t]
    /\ \A n \in 1..MaxAttempts :
         /\ n > attempts[t] => aStatus[<<t, n>>] = "NONE"
         /\ n < attempts[t] => aStatus[<<t, n>>] \in {"EXPIRED", "FAILED"}
         /\ n = attempts[t] /\ current[t] = 0 /\ taskStatus[t] \in {"PENDING", "QUARANTINED"} =>
              aStatus[<<t, n>>] \in {"EXPIRED", "FAILED"}
         /\ n = attempts[t] /\ current[t] = 0 /\ taskStatus[t] = "CANCELED" =>
              aStatus[<<t, n>>] \in {"EXPIRED", "FAILED", "CANCELED"}

History == \A t \in Tasks : TaskHistory(t)

\* A run that does not exist, or whose planner has not finished, has no tasks.
PlannerOwnsRun ==
    \A r \in Runs :
        /\ r \in planning => runStatus[r] # "NONE"
        /\ r \in planning \/ runStatus[r] = "NONE" => \A t \in TasksOf(r) : taskStatus[t] = "NONE"

\* A run is over when its tasks are canceled or somebody reports so.
CancelReportsLate ==
    \A m \in reports :
        m.status = "CANCELED" =>
            \/ runStatus[RunOf(TaskOf(m.att))] \in TerminalRunStatus
            \/ taskStatus[TaskOf(m.att)] = "CANCELED"

IInv ==
    /\ TypeOK
    /\ SingleOwner
    /\ History
    /\ PlannerOwnsRun
    /\ CommitOnlyComplete
    /\ CanceledTaskEndsRun
    /\ CanceledRunIsQuiet
    /\ CancelReportsLate

-----------------------------------------------------------------------------
\* The retry policy keeps the invariant when it is applied to current attempts.
LEMMA RetryKeepsIInv ==
    ASSUME IInv, TypeOK', NEW S, NEW status \in {"EXPIRED", "FAILED"},
           \A a \in S : a \in Attempts /\ IsCurrent(a),
           RetryOrQuarantine(S, status), UNCHANGED <<planning, reports>>
    PROVE  IInv'
<1> USE TaskRows, AttemptRows, ConstantsAssumption
    DEF TypeOK, TasksOf, RunStatus, ActiveRunStatus, TerminalRunStatus, TaskStatus, AttemptStatus, ReportStatus
<1>0. \A t \in Tasks : <<t, current[t]>> \in S => /\ taskStatus[t] = "RUNNING"
                                                 /\ current[t] \in 1..MaxAttempts
  BY DEF IInv, IsCurrent
<1>1. ASSUME NEW t \in Tasks, <<t, current[t]>> \notin S
      PROVE  taskStatus'[t] = taskStatus[t] /\ current'[t] = current[t]
  BY <1>1, Zenon DEF RetryOrQuarantine
<1>2. ASSUME NEW t \in Tasks, <<t, current[t]>> \in S
      PROVE  /\ taskStatus'[t] = IF current[t] >= MaxAttempts THEN "QUARANTINED" ELSE "PENDING"
             /\ current'[t] = 0
  BY <1>2, Zenon DEF RetryOrQuarantine, IsLastTry
<1>3. ASSUME NEW t \in Tasks, NEW n \in 1..MaxAttempts
      PROVE  /\ aStatus'[<<t, n>>] = IF <<t, n>> \in S THEN status ELSE aStatus[<<t, n>>]
             /\ <<t, n>> \in S => n = current[t]
  BY DEF RetryOrQuarantine, IsCurrent
<1>4. ASSUME NEW r \in Runs
      PROVE  runStatus'[r] = runStatus[r] \/ (runStatus[r] = "RUNNING" /\ runStatus'[r] = "FAILED")
  BY Zenon DEF RetryOrQuarantine
<1>5. attempts' = attempts
  BY Zenon DEF RetryOrQuarantine
<1>6. SingleOwner'
  <2>1. ASSUME NEW t \in Tasks PROVE taskStatus'[t] = "RUNNING" <=> current'[t] # 0
    <3>1. CASE <<t, current[t]>> \in S
      BY <3>1, <1>2, Zenon
    <3>2. CASE <<t, current[t]>> \notin S
      BY <3>2, <1>1, Zenon DEF IInv, SingleOwner
    <3> QED
      BY <3>1, <3>2, Zenon
  <2>2. ASSUME NEW t \in Tasks, NEW n \in 1..MaxAttempts
        PROVE  aStatus'[<<t, n>>] = "ACTIVE" <=> current'[t] = n
    <3>1. CASE <<t, current[t]>> \in S
      <4>1. current'[t] = 0
        BY <3>1, <1>2, Zenon
      <4>2. aStatus[<<t, n>>] = "ACTIVE" => n = current[t]
        BY Zenon DEF IInv, SingleOwner
      <4>3. aStatus'[<<t, n>>] # "ACTIVE"
        BY <3>1, <4>2, <1>3, Zenon
      <4> QED
        BY <4>1, <4>3
    <3>2. CASE <<t, current[t]>> \notin S
      <4>1. current'[t] = current[t]
        BY <3>2, <1>1, Zenon
      <4>2. aStatus'[<<t, n>>] = aStatus[<<t, n>>]
        BY <3>2, <1>3, Zenon
      <4> QED
        BY <4>1, <4>2 DEF IInv, SingleOwner
    <3> QED
      BY <3>1, <3>2, Zenon
  <2> QED
    BY <2>1, <2>2, Zenon DEF SingleOwner
<1>7. History'
  <2> SUFFICES ASSUME NEW t \in Tasks PROVE TaskHistory(t)'
    BY Zenon DEF History
  <2>0. TaskHistory(t)
    BY Zenon DEF IInv, History
  <2>1. CASE <<t, current[t]>> \in S
    <3>1. attempts[t] = current[t] /\ current[t] \in 1..MaxAttempts
      BY <1>0, <2>0, <2>1 DEF TaskHistory
    <3>2. aStatus'[<<t, current[t]>>] = status
      BY <2>1, <3>1, <1>3, Zenon
    <3>3. \A n \in 1..MaxAttempts : n # current[t] => aStatus'[<<t, n>>] = aStatus[<<t, n>>]
      BY <1>3, Zenon
    <3>4. /\ taskStatus'[t] = IF current[t] >= MaxAttempts THEN "QUARANTINED" ELSE "PENDING"
          /\ current'[t] = 0
      BY <2>1, <1>2, Zenon
    <3> HIDE TaskRows, AttemptRows DEF TypeOK, TasksOf
    <3>5. ASSUME NEW n \in 1..MaxAttempts
          PROVE  /\ n > attempts[t] => aStatus'[<<t, n>>] = "NONE"
                 /\ n <= attempts[t] => aStatus'[<<t, n>>] \in {"EXPIRED", "FAILED"}
      <4>1. CASE n = current[t]
        BY <4>1, <3>1, <3>2
      <4>2. CASE n # current[t]
        <5>1. aStatus'[<<t, n>>] = aStatus[<<t, n>>]
          BY <4>2, <3>3, Zenon
        <5>2. /\ n > attempts[t] => aStatus[<<t, n>>] = "NONE"
              /\ n < attempts[t] => aStatus[<<t, n>>] \in {"EXPIRED", "FAILED"}
          BY <2>0, Zenon DEF TaskHistory
        <5> QED
          BY <4>2, <3>1, <5>1, <5>2
      <4> QED
        BY <4>1, <4>2, Zenon
    <3>6. attempts'[t] = attempts[t] /\ attempts[t] \in 1..MaxAttempts
      BY <1>5, <3>1, Zenon
    <3> QED
      BY <3>1, <3>4, <3>5, <3>6 DEF TaskHistory
  <2>2. CASE <<t, current[t]>> \notin S
    <3>1. \A n \in 1..MaxAttempts : aStatus'[<<t, n>>] = aStatus[<<t, n>>]
      BY <2>2, <1>3, Zenon
    <3>2. attempts[t] # 0 => attempts[t] \in 1..MaxAttempts
      BY DEF IInv
    <3> QED
      BY <2>0, <2>2, <3>1, <3>2, <1>1, <1>5, Zenon DEF TaskHistory
  <2> QED
    BY <2>1, <2>2, Zenon
<1>8. PlannerOwnsRun'
  BY <1>0 DEF IInv, PlannerOwnsRun, RetryOrQuarantine, IsLastTry, IsCurrent
<1>9. CommitOnlyComplete'
  <2> SUFFICES ASSUME NEW r \in Runs, runStatus'[r] \in {"COMMITTING", "SUCCEEDED"},
                      NEW t \in TasksOf(r)
               PROVE  taskStatus'[t] = "SUCCEEDED"
    BY Zenon DEF CommitOnlyComplete
  <2>1. taskStatus[t] = "SUCCEEDED"
    BY <1>4, Zenon DEF IInv, CommitOnlyComplete
  <2> QED
    BY <2>1, <1>0, <1>1, Zenon
<1>10. CanceledTaskEndsRun'
  BY <1>0, Zenon DEF IInv, CanceledTaskEndsRun, RetryOrQuarantine, IsLastTry, IsCurrent
<1>11. CanceledRunIsQuiet'
  BY <1>0, Zenon DEF IInv, CanceledRunIsQuiet, SingleOwner, RetryOrQuarantine, IsLastTry, IsCurrent
<1>12. CancelReportsLate'
  BY <1>0, SMTT(60) DEF IInv, CancelReportsLate, RetryOrQuarantine, IsLastTry, IsCurrent
<1> QED
  BY <1>6, <1>7, <1>8, <1>9, <1>10, <1>11, <1>12, Zenon DEF IInv


\* A step that leaves tasks and attempts alone keeps what is said of them only.
LEMMA TasksUntouched ==
    ASSUME IInv, UNCHANGED <<taskStatus, current, attempts, aStatus>>
    PROVE  SingleOwner' /\ History'
BY ZenonT(60) DEF IInv, SingleOwner, History, TaskHistory

\* Creation, planning, cancellation, finalization and commit keep the invariant.
LEMMA RunStepKeepsIInv ==
    ASSUME IInv, TypeOK', NEW q \in Runs,
           \/ CreateRun(q) \/ StartRunWithTasks(q) \/ PlanFails(q) \/ CancelRun(q)
           \/ TryFinalizeRun(q) \/ CompleteRunCommit(q) \/ FailRunCommit(q)
    PROVE  IInv'
<1>0. TypeOK'
  BY Zenon
<1>T. /\ runStatus \in [Runs -> RunStatus]
      /\ taskStatus \in [Tasks -> TaskStatus]
      /\ current \in [Tasks -> 0..MaxAttempts]
      /\ attempts \in [Tasks -> 0..MaxAttempts]
      /\ aStatus \in [Attempts -> AttemptStatus]
      /\ planning \subseteq Runs
      /\ reports \subseteq [att : Attempts, status : ReportStatus]
  BY Zenon DEF IInv, TypeOK
<1>S. SingleOwner
  BY Zenon DEF IInv
<1>H. History
  BY Zenon DEF IInv
<1>P. PlannerOwnsRun
  BY Zenon DEF IInv
<1>C. CommitOnlyComplete
  BY Zenon DEF IInv
<1>D. CanceledTaskEndsRun
  BY Zenon DEF IInv
<1>Q. CanceledRunIsQuiet
  BY Zenon DEF IInv
<1>L. CancelReportsLate
  BY Zenon DEF IInv
<1> USE TaskRows, AttemptRows, ConstantsAssumption
    DEF TasksOf, dbVars, workerVars, memVars, RunStatus, ActiveRunStatus, TerminalRunStatus,
        TaskStatus, AttemptStatus, ReportStatus
<1>1. ASSUME NEW r \in Runs, CreateRun(r) PROVE IInv'
  <2>0. UNCHANGED <<taskStatus, current, attempts, aStatus>>
    BY <1>1, Zenon DEF CreateRun
  <2>1. SingleOwner' /\ History'
    BY <2>0, TasksUntouched, Zenon
  <2>3. PlannerOwnsRun'
    BY <1>1, <1>T, <1>P DEF CreateRun, PlannerOwnsRun
  <2>4. CommitOnlyComplete'
    BY <1>1, <1>T, <1>C DEF CreateRun, CommitOnlyComplete
  <2>5. CanceledTaskEndsRun'
    BY <1>1, <1>T, <1>D DEF CreateRun, CanceledTaskEndsRun
  <2>6. CanceledRunIsQuiet'
    BY <1>1, <1>T, <1>Q DEF CreateRun, CanceledRunIsQuiet
  <2>7. CancelReportsLate'
    BY <1>1, <1>T, <1>L DEF CreateRun, CancelReportsLate
  <2> QED
    BY <1>0, <2>1, <2>3, <2>4, <2>5, <2>6, <2>7, Zenon DEF IInv
<1>2. ASSUME NEW r \in Runs, StartRunWithTasks(r) PROVE IInv'
  <2>1. SingleOwner'
    BY <1>2, <1>T, <1>S, <1>P DEF StartRunWithTasks, SingleOwner, PlannerOwnsRun
  <2>2. History'
    BY <1>2, <1>T, <1>H, <1>S, <1>P, SMTT(60) DEF StartRunWithTasks, History, TaskHistory, PlannerOwnsRun, SingleOwner
  <2>3. PlannerOwnsRun'
    BY <1>2, <1>T, <1>P DEF StartRunWithTasks, PlannerOwnsRun
  <2>4. CommitOnlyComplete'
    BY <1>2, <1>T, <1>C, <1>P DEF StartRunWithTasks, CommitOnlyComplete, PlannerOwnsRun
  <2>5. CanceledTaskEndsRun'
    BY <1>2, <1>T, <1>D, Zenon DEF StartRunWithTasks, CanceledTaskEndsRun
  <2>6. CanceledRunIsQuiet'
    BY <1>2, <1>T, <1>Q, Zenon DEF StartRunWithTasks, CanceledRunIsQuiet
  <2>7. CancelReportsLate'
    BY <1>2, <1>T, <1>L, <1>P DEF StartRunWithTasks, CancelReportsLate, PlannerOwnsRun
  <2> QED
    BY <1>0, <2>1, <2>2, <2>3, <2>4, <2>5, <2>6, <2>7, Zenon DEF IInv
<1>3. ASSUME NEW r \in Runs, PlanFails(r) PROVE IInv'
  <2>0. UNCHANGED <<taskStatus, current, attempts, aStatus>>
    BY <1>3, Zenon DEF PlanFails
  <2>1. SingleOwner' /\ History'
    BY <2>0, TasksUntouched, Zenon
  <2>3. PlannerOwnsRun'
    BY <1>3, <1>T, <1>P DEF PlanFails, PlannerOwnsRun
  <2>4. CommitOnlyComplete'
    BY <1>3, <1>T, <1>C DEF PlanFails, CommitOnlyComplete
  <2>5. CanceledTaskEndsRun'
    BY <1>3, <1>T, <1>D, Zenon DEF PlanFails, CanceledTaskEndsRun
  <2>6. CanceledRunIsQuiet'
    BY <1>3, <1>T, <1>Q, Zenon DEF PlanFails, CanceledRunIsQuiet
  <2>7. CancelReportsLate'
    BY <1>3, <1>T, <1>L, Zenon DEF PlanFails, CancelReportsLate
  <2> QED
    BY <1>0, <2>1, <2>3, <2>4, <2>5, <2>6, <2>7, Zenon DEF IInv
<1>4. ASSUME NEW r \in Runs, CancelRun(r) PROVE IInv'
  <2>1. SingleOwner'
    BY <1>4, <1>T, <1>S, SMTT(60) DEF CancelRun, CancelableTasks, SingleOwner
  <2>2. History'
    BY <1>4, <1>T, <1>H, <1>S, SMTT(60) DEF CancelRun, CancelableTasks, History, TaskHistory, SingleOwner
  <2>3. PlannerOwnsRun'
    BY <1>4, <1>T, <1>P DEF CancelRun, CancelableTasks, PlannerOwnsRun
  <2>4. CommitOnlyComplete'
    <3> SUFFICES ASSUME NEW s \in Runs, runStatus'[s] \in {"COMMITTING", "SUCCEEDED"},
                        NEW t \in TasksOf(s)
                 PROVE  taskStatus'[t] = "SUCCEEDED"
      BY Zenon DEF CommitOnlyComplete
    <3>1. runStatus[s] \in {"COMMITTING", "SUCCEEDED"}
      BY <1>4, <1>T, Zenon DEF CancelRun
    <3>2. taskStatus[t] = "SUCCEEDED"
      BY <1>C, <3>1, SMTT(20) DEF CommitOnlyComplete
    <3> QED
      BY <1>4, <3>2, Zenon DEF CancelRun, CancelableTasks
  <2>5. CanceledTaskEndsRun'
    BY <1>4, <1>T, <1>D, Zenon DEF CancelRun, CancelableTasks, CanceledTaskEndsRun
  <2>6. CanceledRunIsQuiet'
    BY <1>4, <1>T, <1>Q, SMTT(20) DEF CancelRun, CancelableTasks, CanceledRunIsQuiet
  <2>7. CancelReportsLate'
    BY <1>4, <1>T, <1>L, Zenon DEF CancelRun, CancelableTasks, CancelReportsLate
  <2> QED
    BY <1>0, <2>1, <2>2, <2>3, <2>4, <2>5, <2>6, <2>7, Zenon DEF IInv
<1>5. ASSUME NEW r \in Runs, TryFinalizeRun(r) PROVE IInv'
  <2>1. SingleOwner'
    BY <1>5, <1>T, <1>S, SMTT(20) DEF TryFinalizeRun, SingleOwner
  <2>2. History'
    BY <1>5, <1>T, <1>H, SMTT(60) DEF TryFinalizeRun, History, TaskHistory
  <2>3. PlannerOwnsRun'
    BY <1>5, <1>T, <1>P DEF TryFinalizeRun, FinalStatus, AllTasksSucceeded, PlannerOwnsRun
  <2>4. CommitOnlyComplete'
    BY <1>5, <1>T, <1>C, SMTT(20) DEF TryFinalizeRun, FinalStatus, AllTasksSucceeded, CommitOnlyComplete
  <2>5. CanceledTaskEndsRun'
    BY <1>5, <1>T, <1>D, Zenon DEF TryFinalizeRun, FinalStatus, AllTasksSucceeded, CanceledTaskEndsRun
  <2>6. CanceledRunIsQuiet'
    BY <1>5, <1>T, <1>Q, <1>S, SMTT(20) DEF TryFinalizeRun, FinalStatus, AllTasksSucceeded, CanceledRunIsQuiet, SingleOwner
  <2>7. CancelReportsLate'
    BY <1>5, <1>T, <1>L, Zenon DEF TryFinalizeRun, FinalStatus, AllTasksSucceeded, CancelReportsLate
  <2> QED
    BY <1>0, <2>1, <2>2, <2>3, <2>4, <2>5, <2>6, <2>7, Zenon DEF IInv
<1>6. ASSUME NEW r \in Runs, CompleteRunCommit(r) PROVE IInv'
  <2>0. UNCHANGED <<taskStatus, current, attempts, aStatus>>
    BY <1>6, Zenon DEF CompleteRunCommit
  <2>1. SingleOwner' /\ History'
    BY <2>0, TasksUntouched, Zenon
  <2>3. PlannerOwnsRun'
    BY <1>6, <1>T, <1>P DEF CompleteRunCommit, PlannerOwnsRun
  <2>4. CommitOnlyComplete'
    BY <1>6, <1>T, <1>C DEF CompleteRunCommit, CommitOnlyComplete
  <2>5. CanceledTaskEndsRun'
    BY <1>6, <1>T, <1>D, Zenon DEF CompleteRunCommit, CanceledTaskEndsRun
  <2>6. CanceledRunIsQuiet'
    BY <1>6, <1>T, <1>Q, Zenon DEF CompleteRunCommit, CanceledRunIsQuiet
  <2>7. CancelReportsLate'
    BY <1>6, <1>T, <1>L, Zenon DEF CompleteRunCommit, CancelReportsLate
  <2> QED
    BY <1>0, <2>1, <2>3, <2>4, <2>5, <2>6, <2>7, Zenon DEF IInv
<1>7. ASSUME NEW r \in Runs, FailRunCommit(r) PROVE IInv'
  <2>0. UNCHANGED <<taskStatus, current, attempts, aStatus>>
    BY <1>7, Zenon DEF FailRunCommit
  <2>1. SingleOwner' /\ History'
    BY <2>0, TasksUntouched, Zenon
  <2>3. PlannerOwnsRun'
    BY <1>7, <1>T, <1>P DEF FailRunCommit, PlannerOwnsRun
  <2>4. CommitOnlyComplete'
    BY <1>7, <1>T, <1>C DEF FailRunCommit, CommitOnlyComplete
  <2>5. CanceledTaskEndsRun'
    BY <1>7, <1>T, <1>D, Zenon DEF FailRunCommit, CanceledTaskEndsRun
  <2>6. CanceledRunIsQuiet'
    BY <1>7, <1>T, <1>Q, Zenon DEF FailRunCommit, CanceledRunIsQuiet
  <2>7. CancelReportsLate'
    BY <1>7, <1>T, <1>L, Zenon DEF FailRunCommit, CancelReportsLate
  <2> QED
    BY <1>0, <2>1, <2>3, <2>4, <2>5, <2>6, <2>7, Zenon DEF IInv
<1> QED
  BY <1>1, <1>2, <1>3, <1>4, <1>5, <1>6, <1>7, Zenon


\* Every step keeps the invariant.
LEMMA IInvStep == IInv /\ [Next]_vars => IInv'
<1> SUFFICES ASSUME IInv, [Next]_vars PROVE IInv'
  BY Zenon
<1>0. TypeOK'
  BY TypeStep, Zenon DEF IInv
<1>T. /\ runStatus \in [Runs -> RunStatus]
      /\ taskStatus \in [Tasks -> TaskStatus]
      /\ current \in [Tasks -> 0..MaxAttempts]
      /\ attempts \in [Tasks -> 0..MaxAttempts]
      /\ aStatus \in [Attempts -> AttemptStatus]
      /\ planning \subseteq Runs
      /\ reports \subseteq [att : Attempts, status : ReportStatus]
  BY Zenon DEF IInv, TypeOK
<1>S. SingleOwner
  BY Zenon DEF IInv
<1>H. History
  BY Zenon DEF IInv
<1>P. PlannerOwnsRun
  BY Zenon DEF IInv
<1>C. CommitOnlyComplete
  BY Zenon DEF IInv
<1>D. CanceledTaskEndsRun
  BY Zenon DEF IInv
<1>Q. CanceledRunIsQuiet
  BY Zenon DEF IInv
<1>L. CancelReportsLate
  BY Zenon DEF IInv
<1> USE TaskRows, AttemptRows, ConstantsAssumption
    DEF TasksOf, dbVars, workerVars, memVars, RunStatus, ActiveRunStatus, TerminalRunStatus,
        TaskStatus, AttemptStatus, ReportStatus
<1>1. ASSUME NEW r \in Runs,
             \/ CreateRun(r) \/ StartRunWithTasks(r) \/ PlanFails(r) \/ CancelRun(r)
             \/ TryFinalizeRun(r) \/ CompleteRunCommit(r) \/ FailRunCommit(r)
      PROVE  IInv'
  BY <1>0, <1>1, RunStepKeepsIInv, Zenon
<1>8. ASSUME NEW w \in Workers, RequestTask(w) PROVE IInv'
  <2>0. UNCHANGED <<taskStatus, current, attempts, aStatus>>
    BY <1>8, Zenon DEF RequestTask
  <2>1. SingleOwner' /\ History'
    BY <2>0, TasksUntouched, Zenon
  <2>3. PlannerOwnsRun'
    BY <1>8, <1>T, <1>P, Zenon DEF RequestTask, Admitted, QueuedRuns, PlannerOwnsRun
  <2>4. CommitOnlyComplete'
    BY <1>8, <1>T, <1>C, Zenon DEF RequestTask, Admitted, QueuedRuns, CommitOnlyComplete
  <2>5. CanceledTaskEndsRun'
    BY <1>8, <1>T, <1>D, Zenon DEF RequestTask, Admitted, QueuedRuns, CanceledTaskEndsRun
  <2>6. CanceledRunIsQuiet'
    BY <1>8, <1>T, <1>Q, Zenon DEF RequestTask, Admitted, QueuedRuns, CanceledRunIsQuiet
  <2>7. CancelReportsLate'
    BY <1>8, <1>T, <1>L, Zenon DEF RequestTask, Admitted, QueuedRuns, CancelReportsLate
  <2> QED
    BY <1>0, <2>1, <2>3, <2>4, <2>5, <2>6, <2>7, Zenon DEF IInv
<1>9. ASSUME NEW w \in Workers, NEW t \in Tasks, AssignNextPendingTask(w, t) PROVE IInv'
  <2>1. SingleOwner'
    BY <1>9, <1>T, <1>S, SMTT(60) DEF AssignNextPendingTask, Eligible, SingleOwner
  <2>2. History'
    <3> SUFFICES ASSUME NEW u \in Tasks PROVE TaskHistory(u)'
      BY Zenon DEF History
    <3>0. TaskHistory(u) /\ TaskHistory(t)
      BY Zenon DEF IInv, History
    <3>1. /\ taskStatus[t] = "PENDING" /\ current[t] = 0
          /\ attempts[t] + 1 \in 1..MaxAttempts
      BY <1>9, SMTT(60) DEF AssignNextPendingTask, Eligible, IInv, TypeOK
    <3>2. CASE u # t
      <4>1. /\ taskStatus'[u] = taskStatus[u] /\ current'[u] = current[u] /\ attempts'[u] = attempts[u]
            /\ \A n \in 1..MaxAttempts : aStatus'[<<u, n>>] = aStatus[<<u, n>>]
        BY <1>9, <3>2, AttemptRows, Zenon DEF AssignNextPendingTask, IInv, TypeOK
      <4> QED
        BY <3>0, <4>1, SMTT(60) DEF TaskHistory, IInv, TypeOK
    <3>3. CASE u = t
      <4>1. /\ taskStatus'[t] = "RUNNING" /\ attempts'[t] = attempts[t] + 1
            /\ current'[t] = attempts[t] + 1
            /\ \A n \in 1..MaxAttempts : n # attempts[t] + 1 => aStatus'[<<t, n>>] = aStatus[<<t, n>>]
        BY <1>9, AttemptRows, Zenon DEF AssignNextPendingTask, IInv, TypeOK
      <4>2. \A n \in 1..MaxAttempts : n <= attempts[t] => aStatus[<<t, n>>] \in {"EXPIRED", "FAILED"}
        BY <3>0, <3>1, SMTT(60) DEF TaskHistory, IInv, TypeOK
      <4>3. attempts[t] \in 0..MaxAttempts
        BY Zenon DEF IInv, TypeOK
      <4> QED
        BY <3>0, <3>1, <3>3, <4>1, <4>2, <4>3, SMTT(60) DEF TaskHistory
    <3> QED
      BY <3>2, <3>3, Zenon
  <2>3. PlannerOwnsRun'
    BY <1>9, <1>T, <1>P, SMTT(60) DEF AssignNextPendingTask, Eligible, PlannerOwnsRun
  <2>4. CommitOnlyComplete'
    <3>1. runStatus[RunOf(t)] = "RUNNING" /\ runStatus' = runStatus
      BY <1>9, Zenon DEF AssignNextPendingTask, Eligible
    <3>2. \A u \in Tasks : u # t => taskStatus'[u] = taskStatus[u]
      BY <1>9 DEF AssignNextPendingTask, IInv
    <3> QED
      BY <3>1, <3>2, Zenon DEF IInv, CommitOnlyComplete
  <2>5. CanceledTaskEndsRun'
    BY <1>9, <1>T, <1>D, Zenon DEF AssignNextPendingTask, Eligible, CanceledTaskEndsRun
  <2>6. CanceledRunIsQuiet'
    BY <1>9, <1>T, <1>Q DEF AssignNextPendingTask, Eligible, CanceledRunIsQuiet
  <2>7. CancelReportsLate'
    BY <1>9, <1>T, <1>L, Zenon DEF AssignNextPendingTask, Eligible, CancelReportsLate
  <2> QED
    BY <1>0, <2>1, <2>2, <2>3, <2>4, <2>5, <2>6, <2>7, Zenon DEF IInv
<1>10. ASSUME NEW w \in Workers, NEW status \in ReportStatus, FinishTask(w, status) PROVE IInv'
  <2>0. UNCHANGED <<taskStatus, current, attempts, aStatus>>
    BY <1>10, Zenon DEF FinishTask
  <2>1. SingleOwner' /\ History'
    BY <2>0, TasksUntouched, Zenon
  <2>3. PlannerOwnsRun'
    BY <1>10, <1>T, <1>P, Zenon DEF FinishTask, MayReport, PlannerOwnsRun
  <2>4. CommitOnlyComplete'
    BY <1>10, <1>T, <1>C, Zenon DEF FinishTask, MayReport, CommitOnlyComplete
  <2>5. CanceledTaskEndsRun'
    BY <1>10, <1>T, <1>D, Zenon DEF FinishTask, MayReport, CanceledTaskEndsRun
  <2>6. CanceledRunIsQuiet'
    BY <1>10, <1>T, <1>Q, Zenon DEF FinishTask, MayReport, CanceledRunIsQuiet
  <2>7. CancelReportsLate'
    BY <1>10, <1>T, <1>L DEF FinishTask, MayReport, CancelReportsLate
  <2> QED
    BY <1>0, <2>1, <2>3, <2>4, <2>5, <2>6, <2>7, Zenon DEF IInv
<1>11. ASSUME NEW w \in Workers, ReportFailureAfterSuccess(w) PROVE IInv'
  <2>0. UNCHANGED <<taskStatus, current, attempts, aStatus>>
    BY <1>11, Zenon DEF ReportFailureAfterSuccess
  <2>1. SingleOwner' /\ History'
    BY <2>0, TasksUntouched, Zenon
  <2>3. PlannerOwnsRun'
    BY <1>11, <1>T, <1>P, Zenon DEF ReportFailureAfterSuccess, PlannerOwnsRun
  <2>4. CommitOnlyComplete'
    BY <1>11, <1>T, <1>C, Zenon DEF ReportFailureAfterSuccess, CommitOnlyComplete
  <2>5. CanceledTaskEndsRun'
    BY <1>11, <1>T, <1>D, Zenon DEF ReportFailureAfterSuccess, CanceledTaskEndsRun
  <2>6. CanceledRunIsQuiet'
    BY <1>11, <1>T, <1>Q, Zenon DEF ReportFailureAfterSuccess, CanceledRunIsQuiet
  <2>7. CancelReportsLate'
    BY <1>11, <1>T, <1>L DEF ReportFailureAfterSuccess, CancelReportsLate
  <2> QED
    BY <1>0, <2>1, <2>3, <2>4, <2>5, <2>6, <2>7, Zenon DEF IInv
<1>12. ASSUME NEW m \in reports, CompleteTaskAttempt(m) PROVE IInv'
  <2>1. SingleOwner'
    BY <1>12, <1>T, <1>S DEF CompleteTaskAttempt, Acceptable, IsCurrent, SingleOwner
  <2>2. History'
    BY <1>12, <1>T, <1>H, <1>S, SMTT(60) DEF CompleteTaskAttempt, Acceptable, IsCurrent, History, TaskHistory
  <2>3. PlannerOwnsRun'
    BY <1>12, <1>T, <1>P DEF CompleteTaskAttempt, Acceptable, IsCurrent, PlannerOwnsRun
  <2>4. CommitOnlyComplete'
    BY <1>12, <1>T, <1>C DEF CompleteTaskAttempt, Acceptable, IsCurrent, CommitOnlyComplete
  <2>5. CanceledTaskEndsRun'
    BY <1>12, <1>T, <1>D, <1>L, Zenon DEF CompleteTaskAttempt, Acceptable, IsCurrent, CanceledTaskEndsRun, CancelReportsLate
  <2>6. CanceledRunIsQuiet'
    BY <1>12, <1>T, <1>Q, Zenon DEF CompleteTaskAttempt, Acceptable, IsCurrent, CanceledRunIsQuiet
  <2>7. CancelReportsLate'
    BY <1>12, <1>T, <1>L, Zenon DEF CompleteTaskAttempt, Acceptable, IsCurrent, CancelReportsLate
  <2> QED
    BY <1>0, <2>1, <2>2, <2>3, <2>4, <2>5, <2>6, <2>7, Zenon DEF IInv
<1>13. ASSUME MasterStops PROVE IInv'
  <2>0. UNCHANGED <<taskStatus, current, attempts, aStatus>>
    BY <1>13, Zenon DEF MasterStops
  <2>1. SingleOwner' /\ History'
    BY <2>0, TasksUntouched, Zenon
  <2>3. PlannerOwnsRun'
    BY <1>13, <1>T, <1>P, Zenon DEF MasterStops, PlannerOwnsRun
  <2>4. CommitOnlyComplete'
    BY <1>13, <1>T, <1>C, Zenon DEF MasterStops, CommitOnlyComplete
  <2>5. CanceledTaskEndsRun'
    BY <1>13, <1>T, <1>D, Zenon DEF MasterStops, CanceledTaskEndsRun
  <2>6. CanceledRunIsQuiet'
    BY <1>13, <1>T, <1>Q, Zenon DEF MasterStops, CanceledRunIsQuiet
  <2>7. CancelReportsLate'
    BY <1>13, <1>T, <1>L, Zenon DEF MasterStops, CancelReportsLate
  <2> QED
    BY <1>0, <2>1, <2>3, <2>4, <2>5, <2>6, <2>7, Zenon DEF IInv
<1>14. ASSUME FailAbandonedPlanningRuns PROVE IInv'
  <2>0. UNCHANGED <<taskStatus, current, attempts, aStatus>>
    BY <1>14, Zenon DEF FailAbandonedPlanningRuns
  <2>1. SingleOwner' /\ History'
    BY <2>0, TasksUntouched, Zenon
  <2>3. PlannerOwnsRun'
    BY <1>14, <1>T, <1>P, Zenon DEF FailAbandonedPlanningRuns, PlannerOwnsRun
  <2>4. CommitOnlyComplete'
    BY <1>14, <1>T, <1>C, Zenon DEF FailAbandonedPlanningRuns, CommitOnlyComplete
  <2>5. CanceledTaskEndsRun'
    BY <1>14, <1>T, <1>D, Zenon DEF FailAbandonedPlanningRuns, CanceledTaskEndsRun
  <2>6. CanceledRunIsQuiet'
    BY <1>14, <1>T, <1>Q, Zenon DEF FailAbandonedPlanningRuns, CanceledRunIsQuiet
  <2>7. CancelReportsLate'
    BY <1>14, <1>T, <1>L, Zenon DEF FailAbandonedPlanningRuns, CancelReportsLate
  <2> QED
    BY <1>0, <2>1, <2>3, <2>4, <2>5, <2>6, <2>7, Zenon DEF IInv
<1>15. ASSUME NEW w \in Workers, AbandonTaskAttempt(w) PROVE IInv'
  <2>1. \A a \in {a \in held[w] : IsCurrent(a)} : a \in Attempts /\ IsCurrent(a)
    BY Zenon DEF IInv, TypeOK
  <2>2. RetryOrQuarantine({a \in held[w] : IsCurrent(a)}, "FAILED") /\ UNCHANGED <<planning, reports>>
    BY <1>15, Zenon DEF AbandonTaskAttempt
  <2> QED
    BY <1>0, <2>1, <2>2, RetryKeepsIInv, Zenon
<1>16. ASSUME ExpireTaskAttempts \/ StartupExpireLeases PROVE IInv'
  <2>1. \A a \in ExpiredAttempts : a \in Attempts /\ IsCurrent(a)
    BY Zenon DEF ExpiredAttempts, IInv
  <2>2. RetryOrQuarantine(ExpiredAttempts, "EXPIRED") /\ UNCHANGED <<planning, reports>>
    BY <1>16, Zenon DEF ExpireTaskAttempts, StartupExpireLeases
  <2> QED
    BY <1>0, <2>1, <2>2, RetryKeepsIInv, Zenon
<1>17. ASSUME UNCHANGED <<runStatus, taskStatus, current, attempts, aStatus, planning, reports>>
      PROVE  IInv'
  BY <1>0, <1>17, SMTT(60)
  DEF IInv, TaskHistory, SingleOwner, History, PlannerOwnsRun, CommitOnlyComplete, CanceledTaskEndsRun, CanceledRunIsQuiet, CancelReportsLate
<1>18. ASSUME NEW r \in Runs, FinalizeInterrupted(r) PROVE IInv'
  BY <1>17, <1>18, Zenon DEF FinalizeInterrupted
<1>19. ASSUME NEW w \in Workers,
              \/ NothingToAssign(w) \/ DeliverAssignment(w) \/ RenewTaskLease(w)
              \/ LoseTask(w) \/ StopReporting(w)
       PROVE  IInv'
  BY <1>17, <1>19, Zenon DEF NothingToAssign, DeliverAssignment, RenewTaskLease, LoseTask, StopReporting
<1>20. ASSUME NEW m \in reports, AcceptRepeatedReport(m) PROVE IInv'
  BY <1>17, <1>20, Zenon DEF AcceptRepeatedReport
<1>21. CASE Tick \/ MasterStarts \/ UNCHANGED vars
  BY <1>17, <1>21, Zenon DEF Tick, MasterStarts, vars
<1> QED
  BY <1>1, <1>8, <1>9, <1>10, <1>11, <1>12, <1>13, <1>14, <1>15, <1>16, <1>18, <1>19, <1>20, <1>21, Zenon DEF Next

\* The initial state satisfies the invariant.
LEMMA IInvInit == Init => IInv
BY TypeInit, TaskRows, AttemptRows, ConstantsAssumption, SMTT(60)
DEF Init, IInv, TypeOK, SingleOwner, History, TaskHistory, PlannerOwnsRun, CommitOnlyComplete,
    CanceledTaskEndsRun, CanceledRunIsQuiet, CancelReportsLate, TasksOf

\* The invariant holds in every reachable state.
LEMMA IInvHolds == Spec => []IInv
BY IInvInit, IInvStep, PTL DEF Spec

-----------------------------------------------------------------------------
(* The theorems about states *)

\* The fence: an attempt is ACTIVE exactly while its task is RUNNING under it, so
\* no two attempts of a task can be renewed or accepted at the same time.
THEOREM SingleOwnership == Spec => []SingleOwner
BY IInvHolds, PTL DEF IInv

\* A run reaches COMMITTING or SUCCEEDED only with an accepted success for each of
\* its tasks.
THEOREM CommitIsComplete == Spec => []CommitOnlyComplete
BY IInvHolds, PTL DEF IInv

\* The accepted success of a task is that of its last attempt, and the only one.
THEOREM LastAttemptDecides == Spec => []ResultOfLastAttempt
<1>1. IInv => ResultOfLastAttempt
  <2> SUFFICES ASSUME IInv, NEW t \in Tasks
               PROVE  /\ taskStatus[t] = "SUCCEEDED" => aStatus[<<t, attempts[t]>>] = "SUCCEEDED"
                      /\ \A n \in 1..MaxAttempts :
                           aStatus[<<t, n>>] = "SUCCEEDED" =>
                               n = attempts[t] /\ taskStatus[t] = "SUCCEEDED"
    BY Zenon DEF ResultOfLastAttempt
  <2>1. TaskHistory(t)
    BY Zenon DEF IInv, History
  <2>2. taskStatus[t] = "SUCCEEDED" => aStatus[<<t, attempts[t]>>] = "SUCCEEDED"
    BY <2>1, Zenon DEF TaskHistory
  <2>3. ASSUME NEW n \in 1..MaxAttempts, aStatus[<<t, n>>] = "SUCCEEDED"
        PROVE  n = attempts[t] /\ taskStatus[t] = "SUCCEEDED"
    <3>1. n = attempts[t]
      BY <2>1, <2>3, ConstantsAssumption DEF TaskHistory, IInv, TypeOK
    <3>2. current[t] = 0
      BY <2>1, <2>3, <3>1, ConstantsAssumption, Zenon DEF TaskHistory, IInv, TypeOK, SingleOwner
    <3>3. taskStatus[t] \in TaskStatus
      BY Zenon DEF IInv, TypeOK
    <3> QED
      BY <2>1, <2>3, <3>1, <3>2, <3>3, ConstantsAssumption, Zenon DEF TaskHistory, TaskStatus, IInv, SingleOwner
  <2> QED
    BY <2>2, <2>3, Zenon
<1> QED
  BY <1>1, IInvHolds, PTL

\* A CANCELED task belongs to a run that is over, so TryFinalizeRun, which does not
\* count CANCELED tasks, never waits for one.
THEOREM CanceledTasksAreOver == Spec => []CanceledTaskEndsRun
BY IInvHolds, PTL DEF IInv

\* A CANCELED run has no attempt that could still be renewed or accepted.
THEOREM CancellationIsComplete == Spec => []CanceledRunIsQuiet
BY IInvHolds, PTL DEF IInv

\* Quarantine is reached only through MaxAttempts lost attempts.
THEOREM QuarantineIsEarned == Spec => []QuarantineMeansExhausted
<1>1. IInv => QuarantineMeansExhausted
  <2> SUFFICES ASSUME IInv, NEW t \in Tasks, taskStatus[t] = "QUARANTINED",
                      NEW n \in 1..MaxAttempts
               PROVE  aStatus[<<t, n>>] \in {"EXPIRED", "FAILED"}
    BY Zenon DEF QuarantineMeansExhausted
  <2>1. TaskHistory(t) /\ attempts[t] = MaxAttempts
    BY Zenon DEF IInv, History, TaskHistory
  <2>2. current[t] = 0
    BY Zenon DEF IInv, SingleOwner
  <2> QED
    BY <2>1, <2>2, ConstantsAssumption DEF TaskHistory
<1> QED
  BY <1>1, IInvHolds, PTL

\* No transition makes a second run of a dataset active.
THEOREM DatasetExclusive == Spec => []OneActiveRunPerDataset
<1>1. Init => OneActiveRunPerDataset
  BY Zenon DEF Init, OneActiveRunPerDataset, ActiveRunStatus
<1>2. IInv /\ OneActiveRunPerDataset /\ [Next]_vars => OneActiveRunPerDataset'
  <2> SUFFICES ASSUME IInv, OneActiveRunPerDataset, [Next]_vars PROVE OneActiveRunPerDataset'
    BY Zenon
  <2>0. runStatus \in [Runs -> RunStatus]
    BY Zenon DEF IInv, TypeOK
  <2>1. ASSUME NEW r \in Runs, CreateRun(r) PROVE OneActiveRunPerDataset'
    BY <2>0, <2>1, Zenon DEF CreateRun, DatasetBusy, OneActiveRunPerDataset, ActiveRunStatus
  <2>2. ASSUME \A s \in Runs : runStatus'[s] \in ActiveRunStatus => runStatus[s] \in ActiveRunStatus
        PROVE  OneActiveRunPerDataset'
    BY <2>2, Zenon DEF OneActiveRunPerDataset
  <2> USE DEF ActiveRunStatus, dbVars
  <2>3. ASSUME NEW S, NEW status, RetryOrQuarantine(S, status) PROVE OneActiveRunPerDataset'
    BY <2>0, <2>2, <2>3, Zenon DEF RetryOrQuarantine
  <2>4. CASE \E r \in Runs :
               \/ StartRunWithTasks(r) \/ PlanFails(r) \/ CancelRun(r) \/ TryFinalizeRun(r)
               \/ FinalizeInterrupted(r) \/ CompleteRunCommit(r) \/ FailRunCommit(r)
    BY <2>0, <2>2, <2>4, Zenon
    DEF StartRunWithTasks, PlanFails, CancelRun, TryFinalizeRun, FinalStatus,
        FinalizeInterrupted, CompleteRunCommit, FailRunCommit
  <2>5. CASE \E w \in Workers :
               \/ (\E t \in Tasks : AssignNextPendingTask(w, t))
               \/ NothingToAssign(w) \/ DeliverAssignment(w) \/ RenewTaskLease(w) \/ LoseTask(w)
               \/ (\E status \in ReportStatus : FinishTask(w, status))
               \/ ReportFailureAfterSuccess(w) \/ StopReporting(w)
    BY <2>2, <2>5, Zenon DEF AssignNextPendingTask, NothingToAssign, DeliverAssignment, RenewTaskLease,
                      LoseTask, FinishTask, ReportFailureAfterSuccess, StopReporting
  <2>6. CASE \E w \in Workers : AbandonTaskAttempt(w)
    BY <2>3, <2>6, Zenon DEF AbandonTaskAttempt
  <2>7. CASE \E m \in reports : CompleteTaskAttempt(m) \/ AcceptRepeatedReport(m)
    BY <2>2, <2>7, Zenon DEF CompleteTaskAttempt, AcceptRepeatedReport
  <2>8. CASE ExpireTaskAttempts \/ StartupExpireLeases
    BY <2>3, <2>8, Zenon DEF ExpireTaskAttempts, StartupExpireLeases
  <2>10. ASSUME NEW w \in Workers, RequestTask(w) PROVE OneActiveRunPerDataset'
    BY <2>0, <2>2, <2>10, Zenon DEF RequestTask, Admitted, QueuedRuns
  <2>9. CASE Tick \/ MasterStops \/ MasterStarts \/ FailAbandonedPlanningRuns \/ UNCHANGED vars
    BY <2>0, <2>2, <2>9, Zenon DEF Tick, MasterStops, MasterStarts, FailAbandonedPlanningRuns, vars
  <2> QED
    BY <2>1, <2>4, <2>5, <2>6, <2>7, <2>8, <2>9, <2>10, Zenon DEF Next
<1> QED
  BY <1>1, <1>2, IInvHolds, PTL DEF Spec

-----------------------------------------------------------------------------
(* The theorems about steps *)

\* What the retry policy does to current attempts replaces no outcome.
LEMMA RetryKeepsOutcomes ==
    ASSUME IInv, NEW S, NEW status,
           \A a \in S : a \in Attempts /\ IsCurrent(a),
           RetryOrQuarantine(S, status)
    PROVE  OutcomeKept /\ RunKept
<1>1. \A t \in Tasks : <<t, current[t]>> \in S => taskStatus[t] = "RUNNING"
  BY Zenon DEF IsCurrent, TaskOf
<1> USE TaskRows, AttemptRows DEF IInv, TypeOK
<1>2. \A a \in Attempts : aStatus[a] \notin {"NONE", "ACTIVE"} => aStatus'[a] = aStatus[a]
  BY Zenon DEF RetryOrQuarantine, IsCurrent
<1>3. \A t \in Tasks : taskStatus[t] # "RUNNING" => taskStatus'[t] = taskStatus[t]
  BY <1>1, Zenon DEF RetryOrQuarantine
<1>4. RunKept
  BY Zenon DEF RetryOrQuarantine, RunKept, TerminalRunStatus
<1> QED
  BY <1>2, <1>3, <1>4, Zenon DEF OutcomeKept

\* Every step keeps the outcomes of attempts, tasks and runs.
LEMMA StepKeepsOutcomes == IInv /\ [Next]_vars => OutcomeKept /\ RunKept
<1> SUFFICES ASSUME IInv, [Next]_vars PROVE OutcomeKept /\ RunKept
  BY Zenon
<1> USE TaskRows, AttemptRows
    DEF IInv, TypeOK, TasksOf, dbVars, OutcomeKept, RunKept, TerminalRunStatus
<1>1. ASSUME UNCHANGED <<aStatus, taskStatus>>, RunKept PROVE OutcomeKept /\ RunKept
  BY <1>1, Zenon
<1>2. ASSUME NEW r \in Runs,
             CreateRun(r) \/ FinalizeInterrupted(r) \/ CompleteRunCommit(r) \/ FailRunCommit(r)
      PROVE  OutcomeKept /\ RunKept
  <2>1. UNCHANGED <<aStatus, taskStatus>>
    BY <1>2, Zenon DEF CreateRun, FinalizeInterrupted, CompleteRunCommit, FailRunCommit
  <2>2. CASE CreateRun(r) \/ FinalizeInterrupted(r)
    <3>1. CreateRun(r) => runStatus[r] = "NONE"
      BY ConstantsAssumption DEF CreateRun
    <3> QED
      BY <1>1, <2>1, <2>2, <3>1, Zenon DEF CreateRun, FinalizeInterrupted
  <2>3. CASE CompleteRunCommit(r) \/ FailRunCommit(r)
    BY <1>1, <2>1, <2>3, Zenon DEF CompleteRunCommit, FailRunCommit
  <2> QED
    BY <1>2, <2>2, <2>3, Zenon
<1>3. ASSUME NEW r \in Runs, StartRunWithTasks(r) PROVE OutcomeKept /\ RunKept
  BY <1>3, Zenon DEF StartRunWithTasks, PlannerOwnsRun
<1>4. ASSUME NEW r \in Runs, PlanFails(r) PROVE OutcomeKept /\ RunKept
  <2>1. runStatus[r] # "SUCCEEDED"
    BY <1>4, Zenon DEF PlanFails, PlannerOwnsRun, CommitOnlyComplete
  <2> QED
    BY <1>1, <1>4, <2>1, Zenon DEF PlanFails
<1>5. ASSUME NEW r \in Runs, CancelRun(r) PROVE OutcomeKept /\ RunKept
  BY <1>5, Zenon DEF CancelRun, CancelableTasks
<1>6. ASSUME NEW r \in Runs, TryFinalizeRun(r) PROVE OutcomeKept /\ RunKept
  BY <1>6, Zenon DEF TryFinalizeRun, FinalStatus
<1>7. ASSUME NEW w \in Workers, RequestTask(w) PROVE OutcomeKept /\ RunKept
  BY <1>7, Zenon DEF RequestTask, Admitted, QueuedRuns
<1>8. ASSUME NEW w \in Workers, NEW t \in Tasks, AssignNextPendingTask(w, t)
      PROVE  OutcomeKept /\ RunKept
  <2>1. attempts[t] + 1 \in 1..MaxAttempts /\ taskStatus[t] = "PENDING"
    BY <1>8, ConstantsAssumption, SMTT(60) DEF AssignNextPendingTask, Eligible
  <2>2. aStatus[<<t, attempts[t] + 1>>] = "NONE"
    <3>1. TaskHistory(t) /\ attempts[t] \in Nat
      BY DEF History
    <3> HIDE TaskRows, AttemptRows DEF IInv, TypeOK
    <3> QED
      BY <2>1, <3>1, SMTT(60) DEF TaskHistory
  <2> QED
    BY <1>8, <2>1, <2>2, Zenon DEF AssignNextPendingTask
<1>9. ASSUME NEW w \in Workers, AbandonTaskAttempt(w) PROVE OutcomeKept /\ RunKept
  <2> DEFINE lost == {a \in held[w] : IsCurrent(a)}
  <2>1. RetryOrQuarantine(lost, "FAILED")
    BY <1>9, Zenon DEF AbandonTaskAttempt
  <2>2. \A a \in lost : a \in Attempts /\ IsCurrent(a)
    BY Zenon
  <2> HIDE TaskRows, AttemptRows DEF lost, IInv, TypeOK, OutcomeKept, RunKept
  <2> QED
    BY <2>1, <2>2, RetryKeepsOutcomes, Zenon
<1>10. ASSUME NEW w \in Workers,
              \/ NothingToAssign(w) \/ DeliverAssignment(w) \/ RenewTaskLease(w) \/ LoseTask(w)
              \/ (\E status \in ReportStatus : FinishTask(w, status))
              \/ ReportFailureAfterSuccess(w) \/ StopReporting(w)
       PROVE  OutcomeKept /\ RunKept
  BY <1>1, <1>10, Zenon DEF NothingToAssign, DeliverAssignment, RenewTaskLease, LoseTask, FinishTask,
                     ReportFailureAfterSuccess, StopReporting
<1>11. ASSUME NEW m \in reports, CompleteTaskAttempt(m) PROVE OutcomeKept /\ RunKept
  BY <1>11, Zenon DEF CompleteTaskAttempt, Acceptable, IsCurrent
<1>12. ASSUME NEW m \in reports, AcceptRepeatedReport(m) PROVE OutcomeKept /\ RunKept
  BY <1>1, <1>12, Zenon DEF AcceptRepeatedReport
<1>13. CASE ExpireTaskAttempts \/ StartupExpireLeases
  BY <1>13, RetryKeepsOutcomes, Zenon DEF ExpireTaskAttempts, StartupExpireLeases, ExpiredAttempts
<1>14. CASE Tick \/ MasterStops \/ MasterStarts \/ FailAbandonedPlanningRuns \/ UNCHANGED vars
  BY <1>1, <1>14, Zenon DEF Tick, MasterStops, MasterStarts, FailAbandonedPlanningRuns, vars
<1> QED
  BY <1>2, <1>3, <1>4, <1>5, <1>6, <1>7, <1>8, <1>9, <1>10, <1>11, <1>12, <1>13, <1>14, Zenon DEF Next

\* The outcome of an attempt and the result of a task are never replaced.
THEOREM OutcomesAreFinal == Spec => OutcomeIsFinal
<1>1. IInv /\ [Next]_vars => [OutcomeKept]_<<aStatus, taskStatus>>
  BY StepKeepsOutcomes, Zenon
<1> QED
  BY <1>1, IInvHolds, PTL DEF Spec, OutcomeIsFinal

\* A finished run is never active again, and a published one stays published.
THEOREM FinishedRunsStayFinished == Spec => RunNeverRevives
<1>1. IInv /\ [Next]_vars => [RunKept]_runStatus
  BY StepKeepsOutcomes, Zenon
<1> QED
  BY <1>1, IInvHolds, PTL DEF Spec, RunNeverRevives

-----------------------------------------------------------------------------
(* The theorems about limits *)

\* The rows of runs, tasks and attempts agree with one another.
THEOREM RowsStayInAgreement == Spec => []RowsAgree
BY TypeCorrectness, LastAttemptDecides, CanceledTasksAreOver, CancellationIsComplete,
   QuarantineIsEarned, PTL DEF RowsAgree

\* Of a finite set of naturals, at most k members have fewer than k below them:
\* AdmitPendingRuns fills k free slots with at most k runs.
LEMMA FewBelow ==
    ASSUME NEW S \in SUBSET Nat, IsFiniteSet(S), NEW k \in Nat
    PROVE  Cardinality({r \in S : Cardinality({s \in S : s < r}) < k}) <= k
<1> DEFINE below(r) == {s \in S : s < r}
           T == {r \in S : Cardinality(below(r)) < k}
           f == [r \in T |-> Cardinality(below(r))]
<1>1. \A r \in S : IsFiniteSet(below(r)) /\ Cardinality(below(r)) \in Nat
  BY FS_Subset, FS_CardinalityType, Zenon
<1>2. ASSUME NEW r \in S, NEW q \in S, r < q
      PROVE  Cardinality(below(r)) < Cardinality(below(q))
  <2>0. /\ r \in Nat /\ q \in Nat /\ ~(r < r)
        /\ \A s \in S : s < r => s < q
    BY <1>2
  <2>1. below(r) \cup {r} \in SUBSET below(q) /\ r \notin below(r)
    BY <1>2, <2>0, Zenon
  <2>2. Cardinality(below(r) \cup {r}) = Cardinality(below(r)) + 1
    BY <1>1, <2>1, FS_AddElement, Zenon
  <2>3. Cardinality(below(r) \cup {r}) <= Cardinality(below(q))
    BY <1>1, <2>1, FS_Subset, Zenon
  <2> HIDE DEF below
  <2> QED
    BY <1>1, <2>2, <2>3
<1> HIDE DEF below
<1>3. f \in [T -> 0..(k - 1)]
  <2>1. \A r \in T : Cardinality(below(r)) \in 0..(k - 1)
    BY <1>1
  <2> QED
    BY <2>1, Zenon
<1>4. \A r, q \in T : f[r] = f[q] => r = q
  <2> SUFFICES ASSUME NEW r \in T, NEW q \in T, r # q PROVE f[r] # f[q]
    BY Zenon
  <2>1. r \in S /\ q \in S /\ (r < q \/ q < r)
    OBVIOUS
  <2>2. Cardinality(below(r)) # Cardinality(below(q))
    BY <1>1, <1>2, <2>1
  <2> QED
    BY <2>2, Zenon
<1>5. f \in Injection(T, 0..(k - 1))
  BY <1>3, <1>4, Zenon DEF Injection, IsInjective
<1>6. IsFiniteSet(0..(k - 1)) /\ Cardinality(0..(k - 1)) = k
  BY FS_Interval
<1>7. Cardinality(T) <= k
  BY <1>5, <1>6, FS_Injection
<1> QED
  BY <1>7, Zenon DEF below

\* There are finitely many tasks.
LEMMA TasksFinite == IsFiniteSet(Tasks)
<1> DEFINE S == {{r} \X (1..NTasks[r]) : r \in Runs}
           f == [r \in Runs |-> {r} \X (1..NTasks[r])]
<1>1. f \in Surjection(Runs, S)
  BY Zenon DEF Surjection
<1>2. IsFiniteSet(S)
  BY <1>1, FS_Surjection, ConstantsAssumption, Zenon
<1>3. ASSUME NEW r \in Runs PROVE IsFiniteSet({r} \X (1..NTasks[r]))
  <2>1. IsFiniteSet({r})
    BY FS_Singleton, Zenon
  <2>2. IsFiniteSet(1..NTasks[r])
    BY FS_Interval, ConstantsAssumption
  <2> QED
    BY <2>1, <2>2, FS_Product, Zenon
<1> QED
  BY <1>2, <1>3, FS_UNION, Zenon DEF Tasks

NoMoreRuns ==
    \A r \in Runs : runStatus'[r] \in {"RUNNING", "COMMITTING"} =>
                       runStatus[r] \in {"RUNNING", "COMMITTING"}

NoMoreTasks == \A t \in Tasks : taskStatus'[t] = "RUNNING" => taskStatus[t] = "RUNNING"

\* Only a planner and a poll admit runs, and only a poll hands out a task.
LEMMA WhatAdmits ==
    ASSUME IInv, [Next]_vars
    PROVE  /\ \/ NoMoreRuns
              \/ \E r \in Runs : StartRunWithTasks(r)
              \/ \E w \in Workers : RequestTask(w)
           /\ NoMoreTasks \/ \E w \in Workers, t \in Tasks : AssignNextPendingTask(w, t)
<1> USE DEF NoMoreRuns, NoMoreTasks, dbVars
<1>0. runStatus \in [Runs -> RunStatus] /\ taskStatus \in [Tasks -> TaskStatus]
  BY Zenon DEF IInv, TypeOK
<1>1. ASSUME NEW S, NEW status, RetryOrQuarantine(S, status) PROVE NoMoreRuns /\ NoMoreTasks
  BY <1>0, <1>1, Zenon DEF RetryOrQuarantine
<1>2. ASSUME NEW r \in Runs,
             \/ CreateRun(r) \/ PlanFails(r) \/ CancelRun(r) \/ TryFinalizeRun(r)
             \/ FinalizeInterrupted(r) \/ CompleteRunCommit(r) \/ FailRunCommit(r)
      PROVE  NoMoreRuns
  BY <1>0, <1>2, Zenon DEF CreateRun, PlanFails, CancelRun, TryFinalizeRun, FinalStatus, FinalizeInterrupted,
     CompleteRunCommit, FailRunCommit
<1>3. ASSUME NEW r \in Runs,
             \/ CreateRun(r) \/ StartRunWithTasks(r) \/ PlanFails(r) \/ CancelRun(r) \/ TryFinalizeRun(r)
             \/ FinalizeInterrupted(r) \/ CompleteRunCommit(r) \/ FailRunCommit(r)
      PROVE  NoMoreTasks
  BY <1>0, <1>3, Zenon DEF CreateRun, StartRunWithTasks, PlanFails, CancelRun, TryFinalizeRun,
     FinalizeInterrupted, CompleteRunCommit, FailRunCommit
<1>4. ASSUME NEW w \in Workers,
             \/ NothingToAssign(w) \/ DeliverAssignment(w) \/ RenewTaskLease(w) \/ LoseTask(w)
             \/ (\E status \in ReportStatus : FinishTask(w, status))
             \/ ReportFailureAfterSuccess(w) \/ StopReporting(w)
      PROVE  NoMoreRuns /\ NoMoreTasks
  BY <1>4, Zenon DEF NothingToAssign, DeliverAssignment, RenewTaskLease, LoseTask, FinishTask,
              ReportFailureAfterSuccess, StopReporting
<1>5. ASSUME NEW w \in Workers, NEW t \in Tasks, AssignNextPendingTask(w, t) PROVE NoMoreRuns
  BY <1>5, Zenon DEF AssignNextPendingTask
<1>6. ASSUME NEW w \in Workers, RequestTask(w) PROVE NoMoreTasks
  BY <1>6, Zenon DEF RequestTask
<1>7. ASSUME NEW m \in reports, CompleteTaskAttempt(m) \/ AcceptRepeatedReport(m)
      PROVE  NoMoreRuns /\ NoMoreTasks
  <2>1. m.status # "RUNNING"
    BY Zenon DEF IInv, TypeOK, ReportStatus
  <2> QED
    BY <1>0, <1>7, <2>1, Zenon DEF CompleteTaskAttempt, AcceptRepeatedReport
<1>8. CASE ExpireTaskAttempts \/ StartupExpireLeases \/ \E w \in Workers : AbandonTaskAttempt(w)
  BY <1>1, <1>8, Zenon DEF ExpireTaskAttempts, StartupExpireLeases, AbandonTaskAttempt
<1>9. CASE Tick \/ MasterStops \/ MasterStarts \/ FailAbandonedPlanningRuns \/ UNCHANGED vars
  BY <1>0, <1>9, Zenon DEF Tick, MasterStops, MasterStarts, FailAbandonedPlanningRuns, vars
<1> QED
  BY <1>2, <1>3, <1>4, <1>5, <1>6, <1>7, <1>8, <1>9, Zenon DEF Next

\* The executing runs stay within ORABBIT_MAX_ACTIVE_RUNS.
LEMMA RunLimitStep ==
    ASSUME IInv, ActiveRunsBounded, [Next]_vars
    PROVE  ActiveRunsBounded'
<1> SUFFICES ASSUME MaxActiveRuns > 0
             PROVE  Cardinality(ExecutingRuns') <= MaxActiveRuns
  BY Zenon DEF ActiveRunsBounded, ExecutingRuns
<1>0. runStatus \in [Runs -> RunStatus] /\ MaxActiveRuns \in Nat
  BY ConstantsAssumption, Zenon DEF IInv, TypeOK
<1>1. /\ IsFiniteSet(ExecutingRuns) /\ Cardinality(ExecutingRuns) \in Nat
      /\ Cardinality(ExecutingRuns) <= MaxActiveRuns
  <2>1. IsFiniteSet(ExecutingRuns)
    BY FS_Subset, ConstantsAssumption, Zenon DEF ExecutingRuns
  <2> QED
    BY <2>1, FS_CardinalityType, Zenon DEF ActiveRunsBounded, ExecutingRuns
<1>2. CASE ExecutingRuns' \subseteq ExecutingRuns
  <2>1. Cardinality(ExecutingRuns') <= Cardinality(ExecutingRuns) /\ IsFiniteSet(ExecutingRuns')
    BY <1>1, <1>2, FS_Subset, Zenon
  <2>2. Cardinality(ExecutingRuns') \in Nat
    BY <2>1, FS_CardinalityType, Zenon
  <2> QED
    BY <1>0, <1>1, <2>1, <2>2
<1>3. CASE NoMoreRuns
  BY <1>2, <1>3, Zenon DEF NoMoreRuns, ExecutingRuns
<1>4. ASSUME NEW r \in Runs, StartRunWithTasks(r) PROVE Cardinality(ExecutingRuns') <= MaxActiveRuns
  <2>1. CASE runStatus' = runStatus
    BY <1>2, <2>1, Zenon DEF ExecutingRuns
  <2>2. CASE runStatus' # runStatus
    <3>1. /\ runStatus[r] = "PLANNING" /\ runStatus' = [runStatus EXCEPT ![r] = "RUNNING"]
          /\ Below(Cardinality(ExecutingRuns), MaxActiveRuns)
      BY <1>4, <2>2, Zenon DEF StartRunWithTasks
    <3>2. ExecutingRuns' = ExecutingRuns \cup {r} /\ r \notin ExecutingRuns
      BY <1>0, <3>1, Zenon DEF ExecutingRuns
    <3>3. Cardinality(ExecutingRuns') = Cardinality(ExecutingRuns) + 1
      BY <1>1, <3>2, FS_AddElement, Zenon
    <3> QED
      BY <1>0, <1>1, <3>1, <3>3 DEF Below
  <2> QED
    BY <2>1, <2>2, Zenon
<1>5. ASSUME NEW w \in Workers, RequestTask(w) PROVE Cardinality(ExecutingRuns') <= MaxActiveRuns
  <2> DEFINE k == MaxActiveRuns - Cardinality(ExecutingRuns)
             waiting(r) == {s \in QueuedRuns : s < r}
  <2>1. k \in Nat
    BY <1>0, <1>1
  <2>2. QueuedRuns \in SUBSET Nat /\ IsFiniteSet(QueuedRuns)
    BY FS_Subset, ConstantsAssumption, Zenon DEF QueuedRuns
  <2>3. Cardinality({r \in QueuedRuns : Cardinality(waiting(r)) < k}) <= k
    BY <2>1, <2>2, FewBelow, Zenon
  <2>4. \A r \in QueuedRuns : Cardinality(waiting(r)) \in Nat
    BY <2>2, FS_Subset, FS_CardinalityType, Zenon
  <2> HIDE DEF waiting
  <2>5. \A r \in QueuedRuns : Cardinality(waiting(r)) + Cardinality(ExecutingRuns) < MaxActiveRuns
                                 <=> Cardinality(waiting(r)) < k
    BY <1>0, <1>1, <2>4
  <2>6. Admitted = {r \in QueuedRuns : Cardinality(waiting(r)) < k}
    BY <1>0, <2>5 DEF Admitted, waiting
  <2>7. IsFiniteSet(Admitted) /\ Cardinality(Admitted) \in Nat /\ Cardinality(Admitted) <= k
    <3>1. Admitted \in SUBSET QueuedRuns
      BY <2>6, Zenon
    <3> QED
      BY <2>2, <2>3, <2>6, <3>1, FS_Subset, FS_CardinalityType, Zenon
  <2>8. ExecutingRuns' = ExecutingRuns \cup Admitted
    <3>1. Admitted \subseteq Runs
      BY <2>6, Zenon DEF QueuedRuns
    <3> QED
      BY <1>0, <1>5, <3>1, Zenon DEF RequestTask, ExecutingRuns
  <2>9. ExecutingRuns \cap Admitted = {}
    BY <2>6, Zenon DEF ExecutingRuns, QueuedRuns
  <2>10. Cardinality(ExecutingRuns') = Cardinality(ExecutingRuns) + Cardinality(Admitted)
    <3>1. Cardinality(ExecutingRuns \cap Admitted) = 0
      BY <2>9, FS_EmptySet, Zenon
    <3>2. Cardinality(ExecutingRuns') = Cardinality(ExecutingRuns) + Cardinality(Admitted)
                                          - Cardinality(ExecutingRuns \cap Admitted)
      BY <1>1, <2>7, <2>8, FS_Union, Zenon
    <3> QED
      BY <1>1, <2>7, <3>1, <3>2
  <2> QED
    BY <1>0, <1>1, <2>7, <2>10
<1> QED
  BY <1>3, <1>4, <1>5, WhatAdmits, Zenon

\* What the poll counts: the RUNNING tasks of all runs, and of one.
TaskLimits ==
    /\ MaxActiveTasks > 0 => Cardinality(RunningTasks) <= MaxActiveTasks
    /\ \A r \in Runs : MaxInFlight[r] > 0 => InFlight(r) <= MaxInFlight[r]

\* The RUNNING tasks stay within ORABBIT_MAX_ACTIVE_TASKS, and those of a run
\* within its max_in_flight_tasks.
LEMMA TaskLimitStep ==
    ASSUME IInv, TaskLimits, [Next]_vars
    PROVE  TaskLimits'
<1> DEFINE of(r) == {t \in RunningTasks : RunOf(t) = r}
<1>0. taskStatus \in [Tasks -> TaskStatus]
  BY Zenon DEF IInv, TypeOK
<1>1. /\ IsFiniteSet(RunningTasks) /\ Cardinality(RunningTasks) \in Nat
      /\ \A r \in Runs : IsFiniteSet(of(r)) /\ Cardinality(of(r)) \in Nat
  <2>1. RunningTasks \in SUBSET Tasks /\ \A r \in Runs : of(r) \in SUBSET Tasks
    BY Zenon DEF RunningTasks
  <2> HIDE DEF of
  <2> QED
    BY <2>1, TasksFinite, FS_Subset, FS_CardinalityType, Zenon
<1>2. CASE NoMoreTasks
  <2>1. RunningTasks' \in SUBSET RunningTasks /\ \A r \in Runs : of(r)' \in SUBSET of(r)
    BY <1>2, Zenon DEF NoMoreTasks, RunningTasks
  <2>2. /\ Cardinality(RunningTasks') <= Cardinality(RunningTasks)
        /\ Cardinality(RunningTasks') \in Nat
    BY <1>1, <2>1, FS_Subset, FS_CardinalityType, Zenon
  <2>3. ASSUME NEW r \in Runs
        PROVE  Cardinality(of(r)') <= Cardinality(of(r)) /\ Cardinality(of(r)') \in Nat
    <3> HIDE DEF of
    <3> QED
      BY <1>1, <2>1, FS_Subset, FS_CardinalityType, Zenon
  <2>4. MaxActiveTasks > 0 => Cardinality(RunningTasks') <= MaxActiveTasks
    BY <1>1, <2>2, ConstantsAssumption DEF TaskLimits
  <2>5. ASSUME NEW r \in Runs, MaxInFlight[r] > 0 PROVE InFlight(r)' <= MaxInFlight[r]
    <3>1. Cardinality(of(r)) <= MaxInFlight[r]
      BY <2>5, Zenon DEF TaskLimits, InFlight
    <3>2. MaxInFlight[r] \in Nat
      BY ConstantsAssumption, Zenon
    <3>3. Cardinality(of(r)') <= MaxInFlight[r]
      <4> HIDE DEF of
      <4> QED
        BY <1>1, <2>3, <3>1, <3>2
    <3> QED
      BY <3>3, Zenon DEF InFlight
  <2> QED
    BY <2>4, <2>5, Zenon DEF TaskLimits
<1>3. ASSUME NEW w \in Workers, NEW t \in Tasks, AssignNextPendingTask(w, t) PROVE TaskLimits'
  <2>1. /\ taskStatus[t] = "PENDING" /\ taskStatus' = [taskStatus EXCEPT ![t] = "RUNNING"]
        /\ Below(InFlight(RunOf(t)), MaxInFlight[RunOf(t)])
        /\ Below(Cardinality(RunningTasks), MaxActiveTasks)
    BY <1>3, Zenon DEF AssignNextPendingTask, Eligible
  <2>2. RunningTasks' = RunningTasks \cup {t} /\ t \notin RunningTasks
    BY <1>0, <2>1, Zenon DEF RunningTasks
  <2>3. Cardinality(RunningTasks') = Cardinality(RunningTasks) + 1
    BY <1>1, <2>2, FS_AddElement, Zenon
  <2>4. MaxActiveTasks > 0 => Cardinality(RunningTasks') <= MaxActiveTasks
    BY <1>1, <2>1, <2>3, ConstantsAssumption DEF Below
  <2>5. ASSUME NEW r \in Runs, MaxInFlight[r] > 0 PROVE InFlight(r)' <= MaxInFlight[r]
    <3>0. MaxInFlight[r] \in Nat
      BY ConstantsAssumption, Zenon
    <3>1. CASE r = RunOf(t)
      <4>1. of(r)' = of(r) \cup {t} /\ t \notin of(r)
        BY <2>2, <3>1, Zenon
      <4>2. Cardinality(of(r)) < MaxInFlight[r]
        BY <2>1, <2>5, <3>0, <3>1 DEF Below, InFlight
      <4>3. Cardinality(of(r)') <= MaxInFlight[r]
        <5> HIDE DEF of
        <5>1. Cardinality(of(r)') = Cardinality(of(r)) + 1
          BY <1>1, <4>1, FS_AddElement, Zenon
        <5> QED
          BY <1>1, <3>0, <4>2, <5>1
      <4> QED
        BY <4>3, Zenon DEF InFlight
    <3>2. CASE r # RunOf(t)
      <4>1. of(r)' = of(r)
        BY <2>2, <3>2, Zenon
      <4> QED
        BY <2>5, <4>1, Zenon DEF InFlight, TaskLimits
    <3> QED
      BY <3>1, <3>2, Zenon
  <2> QED
    BY <2>4, <2>5, Zenon DEF TaskLimits
<1> QED
  BY <1>2, <1>3, WhatAdmits, Zenon

\* A RUNNING task has one ACTIVE attempt, so what bounds the tasks bounds the
\* leases that are out.
LEMMA LeasesAreTasks == IInv /\ TaskLimits => ActiveTasksBounded
<1> SUFFICES ASSUME IInv, TaskLimits PROVE ActiveTasksBounded
  BY Zenon
<1> DEFINE Active == {a \in Attempts : aStatus[a] = "ACTIVE"}
<1>1. ASSUME NEW T \in SUBSET RunningTasks
      PROVE  Cardinality({a \in Active : TaskOf(a) \in T}) <= Cardinality(T) /\ IsFiniteSet(T)
  <2> DEFINE A == {a \in Active : TaskOf(a) \in T}
             f == [a \in A |-> TaskOf(a)]
  <2>1. f \in [A -> T]
    BY Zenon
  <2>2. ASSUME NEW a \in A, NEW b \in A, TaskOf(a) = TaskOf(b) PROVE a = b
    <3>1. a \in Attempts /\ b \in Attempts
      BY Zenon
    <3>2. /\ a = <<TaskOf(a), Number(a)>> /\ b = <<TaskOf(b), Number(b)>>
          /\ TaskOf(a) \in Tasks /\ Number(a) \in 1..MaxAttempts /\ Number(b) \in 1..MaxAttempts
      BY <3>1, AttemptRows, Zenon
    <3>3. aStatus[<<TaskOf(a), Number(a)>>] = "ACTIVE" /\ aStatus[<<TaskOf(a), Number(b)>>] = "ACTIVE"
      BY <2>2, <3>2, Zenon
    <3>4. current[TaskOf(a)] = Number(a) /\ current[TaskOf(a)] = Number(b)
      BY <3>2, <3>3, ZenonT(60) DEF IInv, SingleOwner
    <3> QED
      BY <2>2, <3>2, <3>4, Zenon
  <2>3. f \in Injection(A, T)
    BY <2>1, <2>2, Zenon DEF Injection, IsInjective
  <2>4. IsFiniteSet(T)
    <3>1. T \in SUBSET Tasks
      BY Zenon DEF RunningTasks
    <3> QED
      BY <3>1, TasksFinite, FS_Subset, Zenon
  <2> QED
    BY <2>3, <2>4, FS_Injection, Zenon
<1>2. \A a \in Active : TaskOf(a) \in RunningTasks
  <2> SUFFICES ASSUME NEW a \in Active PROVE TaskOf(a) \in RunningTasks
    BY Zenon
  <2>1. /\ a = <<TaskOf(a), Number(a)>> /\ aStatus[a] = "ACTIVE"
        /\ TaskOf(a) \in Tasks /\ Number(a) \in 1..MaxAttempts
    BY AttemptRows, Zenon
  <2>2. current[TaskOf(a)] = Number(a)
    BY <2>1 DEF IInv, SingleOwner
  <2>3. current[TaskOf(a)] # 0
    BY <2>1, <2>2
  <2>4. taskStatus[TaskOf(a)] = "RUNNING"
    BY <2>1, <2>3, Zenon DEF IInv, SingleOwner
  <2> QED
    BY <2>1, <2>4, Zenon DEF RunningTasks
<1>3. /\ IsFiniteSet(Active) /\ Cardinality(Active) \in Nat
      /\ Cardinality(Active) <= Cardinality(RunningTasks) /\ Cardinality(RunningTasks) \in Nat
  <2>1. Active = {a \in Active : TaskOf(a) \in RunningTasks}
    BY <1>2, Zenon
  <2>2. Cardinality(Active) <= Cardinality(RunningTasks) /\ IsFiniteSet(RunningTasks)
    BY <1>1, <2>1, Zenon
  <2>3. IsFiniteSet(Active)
    <3>1. IsFiniteSet(1..MaxAttempts)
      BY FS_Interval, ConstantsAssumption
    <3>2. IsFiniteSet(Attempts)
      BY <3>1, TasksFinite, FS_Product, Zenon DEF Attempts
    <3> QED
      BY <3>2, FS_Subset, Zenon
  <2> HIDE DEF Active
  <2> QED
    BY <2>2, <2>3, FS_CardinalityType, Zenon
<1>4. MaxActiveTasks > 0 => Cardinality(Active) <= MaxActiveTasks
  <2> HIDE DEF Active
  <2> QED
    BY <1>3, ConstantsAssumption DEF TaskLimits
<1>5. ASSUME NEW r \in Runs, MaxInFlight[r] > 0
      PROVE  Cardinality({a \in Active : RunOf(TaskOf(a)) = r}) <= MaxInFlight[r]
  <2> DEFINE T == {t \in RunningTasks : RunOf(t) = r}
             A == {a \in Active : RunOf(TaskOf(a)) = r}
  <2>1. A = {a \in Active : TaskOf(a) \in T}
    BY <1>2, Zenon
  <2>2. Cardinality(A) <= Cardinality(T) /\ IsFiniteSet(T)
    BY <1>1, <2>1, Zenon
  <2>3. Cardinality(T) <= MaxInFlight[r]
    BY <1>5, Zenon DEF TaskLimits, InFlight
  <2>4. Cardinality(A) \in Nat
    <3>1. A \in SUBSET Active
      BY Zenon
    <3> HIDE DEF A, Active
    <3> QED
      BY <1>3, <3>1, FS_Subset, FS_CardinalityType, Zenon
  <2>5. MaxInFlight[r] \in Nat
    BY ConstantsAssumption, Zenon
  <2>6. Cardinality(A) <= MaxInFlight[r]
    <3> HIDE DEF A, T
    <3> QED
      BY <2>2, <2>3, <2>4, <2>5, FS_CardinalityType
  <2> QED
    BY <2>6, Zenon
<1> QED
  BY <1>4, <1>5, Zenon DEF ActiveTasksBounded

\* The limits on executing runs and on leased attempts hold together, although two
\* calls admit runs and retries, recovery and cancellation return tasks at any time.
THEOREM LimitsHold == Spec => []WithinLimits
<1>1. Init => ActiveRunsBounded /\ TaskLimits
  <2> SUFFICES ASSUME Init PROVE ActiveRunsBounded /\ TaskLimits
    BY Zenon
  <2>1. /\ {r \in Runs : runStatus[r] \in {"RUNNING", "COMMITTING"}} = {}
        /\ RunningTasks = {}
        /\ \A r \in Runs : {t \in RunningTasks : RunOf(t) = r} = {}
    BY Zenon DEF Init, RunningTasks
  <2> QED
    BY <2>1, FS_EmptySet, ConstantsAssumption DEF ActiveRunsBounded, TaskLimits, InFlight
<1>2. IInv /\ ActiveRunsBounded /\ TaskLimits /\ [Next]_vars => ActiveRunsBounded' /\ TaskLimits'
  BY RunLimitStep, TaskLimitStep, Zenon
<1>3. IInv /\ ActiveRunsBounded /\ TaskLimits => WithinLimits
  BY LeasesAreTasks, Zenon DEF WithinLimits
<1> QED
  BY <1>1, <1>2, <1>3, IInvHolds, PTL DEF Spec

-----------------------------------------------------------------------------
(* Each step is a step of ExportContract, or leaves its variables alone *)

\* The contract's view of the tables.
Stage == [r \in Runs |-> StageOf(r)]
AcceptedOf(t) == IF taskStatus[t] \in {"SUCCEEDED", "FAILED"} THEN taskStatus[t] ELSE "none"
Accepted == [t \in Tasks |-> AcceptedOf(t)]

\* A step that neither moves a run to another stage, nor a task's owner, epoch or
\* accepted result, is a stutter of the contract.
LEMMA StutterStep ==
    ASSUME UNCHANGED <<current, attempts>>,
           \A r \in Runs : StageOf(r)' = StageOf(r),
           \A t \in Tasks : AcceptedOf(t)' = AcceptedOf(t)
    PROVE  UNCHANGED Contract!cvars
<1>1. Stage' = Stage /\ Accepted' = Accepted
  BY Zenon DEF Stage, Accepted
<1> QED
  BY <1>1, Zenon DEF Contract!cvars, Stage, Accepted, AcceptedOf

\* A step that takes tasks from their owners and ends runs that are not published
\* is a Revoke of the contract.
LEMMA RevokeStep ==
    ASSUME current \in [Tasks -> 0..MaxAttempts],
           current' \in [Tasks -> 0..MaxAttempts],
           attempts' = attempts,
           \A t \in Tasks : current'[t] \in {current[t], 0},
           \A t \in Tasks : AcceptedOf(t)' = AcceptedOf(t),
           \A r \in Runs : \/ StageOf(r)' = StageOf(r)
                           \/ StageOf(r) \in {"open", "publishing"} /\ StageOf(r)' = "dead"
    PROVE  Contract!Revoke
<1>1. Accepted' = Accepted
  BY Zenon DEF Accepted
<1>2. \A r \in Runs : Stage[r] = StageOf(r) /\ Stage'[r] = StageOf(r)'
  BY Zenon DEF Stage
<1>3. Stage' = [r \in Runs |-> Stage'[r]] /\ current' = [t \in Tasks |-> current'[t]]
  BY Zenon DEF Stage
<1>4. \A r \in Runs :
        Stage'[r] # Stage[r] => Stage[r] \in {"open", "publishing"} /\ Stage'[r] = "dead"
  BY <1>2, Zenon
<1> QED
  BY <1>1, <1>3, <1>4, Zenon DEF Contract!Revoke, Stage, Accepted, AcceptedOf

\* A step that moves one run to the stage s, and nothing else the contract sees.
LEMMA OneRunMoves ==
    ASSUME NEW r \in Runs, NEW s,
           StageOf(r)' = s,
           \A q \in Runs \ {r} : StageOf(q)' = StageOf(q)
    PROVE  Stage' = [Stage EXCEPT ![r] = s]
BY Zenon DEF Stage

\* The initial tables are an initial state of the contract.
LEMMA ContractInit == Init => Contract!CInit
<1> SUFFICES ASSUME Init PROVE Contract!CInit
  BY Zenon
<1>1. Stage = [r \in Runs |-> "new"]
  BY Zenon DEF Init, Stage, StageOf
<1>2. Accepted = [t \in Tasks |-> "none"]
  BY Zenon DEF Init, Accepted, AcceptedOf
<1> QED
  BY <1>1, <1>2, Zenon DEF Init, Contract!CInit, Stage, Accepted, AcceptedOf

\* What the retry policy does to current attempts is a Revoke.
LEMMA RetryRevokes ==
    ASSUME IInv, NEW S, NEW status \in AttemptStatus,
           \A a \in S : a \in Attempts /\ IsCurrent(a),
           RetryOrQuarantine(S, status)
    PROVE  Contract!Revoke
<1>1. S \subseteq Attempts
  BY Zenon
<1>2. /\ runStatus \in [Runs -> RunStatus] /\ runStatus' \in [Runs -> RunStatus]
      /\ current \in [Tasks -> 0..MaxAttempts] /\ current' \in [Tasks -> 0..MaxAttempts]
  BY <1>1, RetryTypes, Zenon DEF IInv, TypeOK
<1>3. attempts' = attempts /\ \A t \in Tasks : current'[t] \in {current[t], 0}
  BY Zenon DEF RetryOrQuarantine
<1>4. \A t \in Tasks : <<t, current[t]>> \in S => taskStatus[t] = "RUNNING"
  BY AttemptRows DEF IInv, TypeOK, IsCurrent, TaskOf
<1>5. \A t \in Tasks : AcceptedOf(t)' = AcceptedOf(t)
  BY <1>4, Zenon DEF RetryOrQuarantine, AcceptedOf, IInv, TypeOK
<1>6. \A r \in Runs : \/ runStatus'[r] = runStatus[r]
                      \/ runStatus[r] = "RUNNING" /\ runStatus'[r] = "FAILED"
  BY <1>2, Zenon DEF RetryOrQuarantine
<1>7. \A r \in Runs : \/ StageOf(r)' = StageOf(r)
                      \/ StageOf(r) \in {"open", "publishing"} /\ StageOf(r)' = "dead"
  BY <1>2, <1>6, Zenon DEF StageOf
<1> QED
  BY <1>2, <1>3, <1>5, <1>7, RevokeStep, Zenon

-----------------------------------------------------------------------------
\* Every step of the tables is a step of the contract or a stutter.
LEMMA ContractStep == IInv /\ IInv' /\ [Next]_vars => [Contract!CNext]_(Contract!cvars)
<1> SUFFICES ASSUME IInv, IInv', [Next]_vars
             PROVE  Contract!CNext \/ UNCHANGED Contract!cvars
  BY Zenon
<1> DEFINE Goal == Contract!CNext \/ UNCHANGED Contract!cvars
<1>1. /\ runStatus \in [Runs -> RunStatus] /\ runStatus' \in [Runs -> RunStatus]
      /\ taskStatus \in [Tasks -> TaskStatus] /\ taskStatus' \in [Tasks -> TaskStatus]
      /\ current \in [Tasks -> 0..MaxAttempts] /\ current' \in [Tasks -> 0..MaxAttempts]
      /\ attempts \in [Tasks -> 0..MaxAttempts]
  BY Zenon DEF IInv, TypeOK
<1> USE DEF dbVars
<1>2. ASSUME Contract!Revoke PROVE Goal
  BY <1>2, Zenon DEF Contract!CNext
<1>3. ASSUME UNCHANGED <<runStatus, taskStatus, current, attempts>> PROVE Goal
  <2>1. \A r \in Runs : StageOf(r)' = StageOf(r)
    BY <1>3, Zenon DEF StageOf
  <2>2. \A t \in Tasks : AcceptedOf(t)' = AcceptedOf(t)
    BY <1>3, Zenon DEF AcceptedOf
  <2> QED
    BY <1>3, <2>1, <2>2, StutterStep, Zenon
<1>4. ASSUME NEW r \in Runs, UNCHANGED <<current, attempts>>,
             \A t \in Tasks : AcceptedOf(t)' = AcceptedOf(t),
             \A q \in Runs \ {r} : runStatus'[q] = runStatus[q],
             \/ runStatus'[r] = runStatus[r]
             \/ runStatus[r] \notin {"NONE", "SUCCEEDED"} /\ runStatus'[r] \in {"FAILED", "CANCELED"}
      PROVE  Goal
  <2>1. \A q \in Runs : \/ StageOf(q)' = StageOf(q)
                        \/ StageOf(q) \in {"open", "publishing"} /\ StageOf(q)' = "dead"
    BY <1>1, <1>4, Zenon DEF StageOf, RunStatus, ActiveRunStatus, TerminalRunStatus
  <2> QED
    BY <1>1, <1>2, <1>4, <2>1, RevokeStep, Zenon
<1>5. ASSUME NEW r \in Runs, CreateRun(r) PROVE Goal
  <2>1. runStatus[r] = "NONE"
    BY <1>5, ConstantsAssumption DEF CreateRun
  <2>2. StageOf(r) = "new" /\ StageOf(r)' = "open" /\ \A q \in Runs \ {r} : StageOf(q)' = StageOf(q)
    BY <1>1, <1>5, <2>1, Zenon DEF CreateRun, StageOf
  <2>3. Stage[r] = "new" /\ Stage' = [Stage EXCEPT ![r] = "open"]
    BY <2>2, OneRunMoves, Zenon DEF Stage
  <2>4. Accepted' = Accepted /\ UNCHANGED <<current, attempts>>
    BY <1>5, Zenon DEF CreateRun, Accepted, AcceptedOf
  <2>5. Contract!Open(r)
    BY <2>3, <2>4, Zenon DEF Contract!Open, Stage, Accepted, AcceptedOf
  <2> QED
    BY <2>5, Zenon DEF Contract!CNext
<1>6. ASSUME NEW r \in Runs, StartRunWithTasks(r) PROVE Goal
  <2>1. \A t \in Tasks : RunOf(t) = r => taskStatus[t] = "NONE"
    BY <1>6, Zenon DEF StartRunWithTasks, IInv, PlannerOwnsRun, TasksOf
  <2>2. \A t \in Tasks : AcceptedOf(t)' = AcceptedOf(t)
    BY <1>6, <2>1, Zenon DEF StartRunWithTasks, AcceptedOf
  <2>3. \A q \in Runs : StageOf(q)' = StageOf(q)
    BY <1>1, <1>6, Zenon DEF StartRunWithTasks, StageOf
  <2> QED
    BY <1>6, <2>2, <2>3, StutterStep, Zenon DEF StartRunWithTasks
<1>7. ASSUME NEW r \in Runs, PlanFails(r) PROVE Goal
  <2>1. runStatus[r] \notin {"NONE", "COMMITTING", "SUCCEEDED"}
    BY <1>7, TaskRows DEF PlanFails, IInv, PlannerOwnsRun, CommitOnlyComplete, TasksOf
  <2>2. \A t \in Tasks : AcceptedOf(t)' = AcceptedOf(t)
    BY <1>7, Zenon DEF PlanFails, AcceptedOf
  <2> QED
    BY <1>1, <1>4, <1>7, <2>1, <2>2, Zenon DEF PlanFails
<1>8. ASSUME NEW r \in Runs, CancelRun(r) PROVE Goal
  <2>1. \A t \in Tasks : AcceptedOf(t)' = AcceptedOf(t)
    BY <1>1, <1>8, Zenon DEF CancelRun, CancelableTasks, AcceptedOf
  <2>2. attempts' = attempts /\ \A t \in Tasks : current'[t] \in {current[t], 0}
    BY <1>8, Zenon DEF CancelRun
  <2>3. \A q \in Runs : \/ StageOf(q)' = StageOf(q)
                        \/ StageOf(q) \in {"open", "publishing"} /\ StageOf(q)' = "dead"
    BY <1>1, <1>8, Zenon DEF CancelRun, StageOf
  <2> QED
    BY <1>1, <1>2, <2>1, <2>2, <2>3, RevokeStep, Zenon
<1>9. ASSUME NEW r \in Runs, TryFinalizeRun(r) PROVE Goal
  <2>1. \A t \in Tasks : AcceptedOf(t)' = AcceptedOf(t)
    BY <1>1, <1>9, Zenon DEF TryFinalizeRun, AcceptedOf
  <2>2. UNCHANGED <<current, attempts>> /\ runStatus' = [runStatus EXCEPT ![r] = FinalStatus(r)]
    BY <1>9, Zenon DEF TryFinalizeRun
  <2>3. CASE FinalStatus(r) = runStatus[r]
    BY <1>1, <1>4, <2>1, <2>2, <2>3, Zenon
  <2>4. CASE FinalStatus(r) = "FAILED" /\ FinalStatus(r) # runStatus[r]
    BY <1>1, <1>4, <2>1, <2>2, <2>4, Zenon DEF FinalStatus
  <2>5. CASE FinalStatus(r) = "COMMITTING" /\ FinalStatus(r) # runStatus[r]
    <3>1. runStatus[r] = "RUNNING" /\ AllTasksSucceeded(r)
      BY <2>5, Zenon DEF FinalStatus
    <3>2. StageOf(r) = "open" /\ StageOf(r)' = "publishing"
          /\ \A q \in Runs \ {r} : StageOf(q)' = StageOf(q)
      BY <1>1, <2>2, <2>5, <3>1, Zenon DEF StageOf
    <3>3. Stage[r] = "open" /\ Stage' = [Stage EXCEPT ![r] = "publishing"]
      BY <3>2, OneRunMoves, Zenon DEF Stage
    <3>4. Accepted' = Accepted
      BY <2>1, Zenon DEF Accepted
    <3>5. \A t \in Tasks : RunOf(t) = r => Accepted[t] = "SUCCEEDED" /\ current[t] = 0
      BY <3>1, Zenon DEF AllTasksSucceeded, TasksOf, Accepted, AcceptedOf, IInv, SingleOwner
    <3>6. Contract!Publish(r)
      BY <2>2, <3>3, <3>4, <3>5, Zenon DEF Contract!Publish, Stage, Accepted, AcceptedOf
    <3> QED
      BY <3>6, Zenon DEF Contract!CNext
  <2> QED
    BY <2>3, <2>4, <2>5, Zenon DEF FinalStatus
<1>10. ASSUME NEW r \in Runs, CompleteRunCommit(r) PROVE Goal
  <2>1. StageOf(r) = "publishing" /\ StageOf(r)' = "published"
        /\ \A q \in Runs \ {r} : StageOf(q)' = StageOf(q)
    BY <1>1, <1>10, Zenon DEF CompleteRunCommit, StageOf
  <2>2. Stage[r] = "publishing" /\ Stage' = [Stage EXCEPT ![r] = "published"]
    BY <2>1, OneRunMoves, Zenon DEF Stage
  <2>3. Accepted' = Accepted /\ UNCHANGED <<current, attempts>>
    BY <1>10, Zenon DEF CompleteRunCommit, Accepted, AcceptedOf
  <2>4. Contract!Published(r)
    BY <2>2, <2>3, Zenon DEF Contract!Published, Stage, Accepted, AcceptedOf
  <2> QED
    BY <2>4, Zenon DEF Contract!CNext
<1>11. ASSUME NEW r \in Runs, FailRunCommit(r) PROVE Goal
  <2>1. \A t \in Tasks : AcceptedOf(t)' = AcceptedOf(t)
    BY <1>11, Zenon DEF FailRunCommit, AcceptedOf
  <2> QED
    BY <1>1, <1>4, <1>11, <2>1, Zenon DEF FailRunCommit
<1>12. ASSUME NEW w \in Workers, RequestTask(w) PROVE Goal
  <2>1. \A r \in Runs : \/ runStatus'[r] = runStatus[r]
                        \/ runStatus[r] = "PLANNING" /\ runStatus'[r] = "RUNNING"
    BY <1>1, <1>12, Zenon DEF RequestTask, Admitted, QueuedRuns
  <2>2. \A r \in Runs : StageOf(r)' = StageOf(r)
    BY <2>1, Zenon DEF StageOf
  <2>3. \A t \in Tasks : AcceptedOf(t)' = AcceptedOf(t)
    BY <1>12, Zenon DEF RequestTask, AcceptedOf
  <2> QED
    BY <1>12, <2>2, <2>3, StutterStep, Zenon DEF RequestTask
<1>13. ASSUME NEW w \in Workers, NEW t \in Tasks, AssignNextPendingTask(w, t) PROVE Goal
  <2>1. taskStatus[t] = "PENDING" /\ runStatus[RunOf(t)] = "RUNNING" /\ current[t] = 0
    BY <1>13, Zenon DEF AssignNextPendingTask, Eligible
  <2>2. Stage[RunOf(t)] = "open" /\ Accepted[t] = "none"
    BY <2>1, TaskRows, Zenon DEF Stage, StageOf, Accepted, AcceptedOf
  <2>3. Stage' = Stage /\ Accepted' = Accepted
    BY <1>1, <1>13, <2>1 DEF AssignNextPendingTask, Stage, StageOf, Accepted, AcceptedOf
  <2>4. /\ attempts' = [attempts EXCEPT ![t] = attempts[t] + 1]
        /\ current' = [current EXCEPT ![t] = attempts[t] + 1]
    BY <1>13, Zenon DEF AssignNextPendingTask
  <2>5. Contract!Grant(t)
    BY <2>1, <2>2, <2>3, <2>4, Zenon DEF Contract!Grant, Stage, Accepted, AcceptedOf
  <2> QED
    BY <2>5, Zenon DEF Contract!CNext
<1>14. ASSUME NEW w \in Workers, AbandonTaskAttempt(w) PROVE Goal
  <2>1. \A a \in {b \in held[w] : IsCurrent(b)} : a \in Attempts /\ IsCurrent(a)
    BY Zenon DEF IInv, TypeOK
  <2> QED
    BY <1>2, <1>14, <2>1, RetryRevokes, Zenon DEF AbandonTaskAttempt, AttemptStatus
<1>15. ASSUME NEW w \in Workers,
              \/ NothingToAssign(w) \/ DeliverAssignment(w) \/ RenewTaskLease(w) \/ LoseTask(w)
              \/ (\E status \in ReportStatus : FinishTask(w, status))
              \/ ReportFailureAfterSuccess(w) \/ StopReporting(w)
       PROVE  Goal
  BY <1>3, <1>15, Zenon DEF NothingToAssign, DeliverAssignment, RenewTaskLease, LoseTask, FinishTask,
                     ReportFailureAfterSuccess, StopReporting
<1>16. ASSUME NEW m \in reports, CompleteTaskAttempt(m) PROVE Goal
  <2> DEFINE t == TaskOf(m.att)
  <2>1. m.att \in Attempts /\ t \in Tasks /\ m.status \in ReportStatus
    BY AttemptRows, Zenon DEF IInv, TypeOK
  <2>2. /\ runStatus[RunOf(t)] = "RUNNING" /\ taskStatus[t] = "RUNNING"
        /\ current[t] = Number(m.att)
    BY <1>16, Zenon DEF CompleteTaskAttempt, Acceptable, IsCurrent
  <2>3. m.status \in {"SUCCEEDED", "FAILED"}
    BY <2>1, <2>2, Zenon DEF IInv, CancelReportsLate, ReportStatus, TerminalRunStatus
  <2>4. current[t] # 0 /\ current[t] = attempts[t]
    <3>1. TaskHistory(t) /\ Number(m.att) \in 1..MaxAttempts
      BY <2>1, AttemptRows, Zenon DEF IInv, History
    <3>2. current[t] # 0
      BY <2>2, <3>1, ConstantsAssumption
    <3> QED
      BY <3>1, <3>2, Zenon DEF TaskHistory
  <2>5. Stage[RunOf(t)] = "open" /\ Accepted[t] = "none"
    BY <2>1, <2>2, TaskRows, Zenon DEF Stage, StageOf, Accepted, AcceptedOf
  <2>6. /\ taskStatus' = [taskStatus EXCEPT ![t] = m.status]
        /\ current' = [current EXCEPT ![t] = 0]
        /\ UNCHANGED <<runStatus, attempts>>
    BY <1>16, Zenon DEF CompleteTaskAttempt
  <2>7. Stage' = Stage
    BY <2>6 DEF Stage, StageOf
  <2>8. Accepted' = [Accepted EXCEPT ![t] = m.status]
    BY <1>1, <2>1, <2>3, <2>6, Zenon DEF Accepted, AcceptedOf
  <2>9. Contract!Accept(t, m.status)
    BY <2>4, <2>5, <2>6, <2>7, <2>8, Zenon DEF Contract!Accept, Stage, Accepted, AcceptedOf
  <2> QED
    BY <2>1, <2>3, <2>9, Zenon DEF Contract!CNext
<1>17. ASSUME NEW m \in reports, AcceptRepeatedReport(m) PROVE Goal
  BY <1>3, <1>17, Zenon DEF AcceptRepeatedReport
<1>18. CASE ExpireTaskAttempts \/ StartupExpireLeases
  <2>1. \A a \in ExpiredAttempts : a \in Attempts /\ IsCurrent(a)
    BY Zenon DEF ExpiredAttempts
  <2> QED
    BY <1>2, <1>18, <2>1, RetryRevokes, Zenon DEF ExpireTaskAttempts, StartupExpireLeases, AttemptStatus
<1>19. CASE FailAbandonedPlanningRuns
  <2>1. \A r \in Runs : \/ StageOf(r)' = StageOf(r)
                        \/ StageOf(r) \in {"open", "publishing"} /\ StageOf(r)' = "dead"
    BY <1>1, <1>19, Zenon DEF FailAbandonedPlanningRuns, StageOf
  <2>2. UNCHANGED <<current, attempts>> /\ \A t \in Tasks : AcceptedOf(t)' = AcceptedOf(t)
    BY <1>19, Zenon DEF FailAbandonedPlanningRuns, AcceptedOf
  <2> QED
    BY <1>1, <1>2, <2>1, <2>2, RevokeStep, Zenon
<1>20. CASE Tick \/ MasterStops \/ MasterStarts \/ UNCHANGED vars
  BY <1>3, <1>20, Zenon DEF Tick, MasterStops, MasterStarts, vars
<1>21. ASSUME NEW r \in Runs, FinalizeInterrupted(r) PROVE Goal
  BY <1>3, <1>21, Zenon DEF FinalizeInterrupted
<1> QED
  BY <1>5, <1>6, <1>7, <1>8, <1>9, <1>10, <1>11, <1>12, <1>13, <1>14, <1>15, <1>16, <1>17,
     <1>18, <1>19, <1>20, <1>21, Zenon DEF Next

\* The master's tables and handlers keep the promise of ExportContract: whatever
\* is lost, repeated, expired or restarted, a task has one owner at a time, one
\* accepted result, and a run is published only when it is complete.
THEOREM RunLifecycleImplementsContract == Spec => ImplementsContract
<1>1. Init => Contract!CInit
  BY ContractInit, Zenon
<1>2. IInv /\ IInv' /\ [Next]_vars => [Contract!CNext]_(Contract!cvars)
  BY ContractStep, Zenon
<1> QED
  BY <1>1, <1>2, IInvHolds, PTL DEF Spec, ImplementsContract, Contract!CSpec
=============================================================================
